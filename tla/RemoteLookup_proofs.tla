------------------------- MODULE RemoteLookup_proofs -------------------------
(***************************************************************************)
(* Proofs about the reading half: every reachable state is well typed, the *)
(* code implements RemoteRead, and a token is not said to belong to no     *)
(* bundle without reason; for any number of threads, questions, peers,     *)
(* bundles, tokens, changes, reports and failures.                         *)
(*                                                                         *)
(* The argument: a question that is at get, or waits for a synchronisation *)
(* that has brought entries over, finds in the local copy nothing but what *)
(* the peer has published since the question (Current).  This rests on     *)
(* each question having a callback object of its own (OwnCallback), which  *)
(* hears only of the synchronisation it was made for (CallbackOK).         *)
(***************************************************************************)
EXTENDS RemoteLookup, TLAPS

Early == {"check", "udid", "uuid", "sync"}

QuestionOK ==
    \A t \in Thread :
      /\ Asking(t) <=> pc[t] # "idle"
      /\ Asking(t) => callback[t] \in 1..asked /\ published[Peer(t)] \in seen[t]
      /\ pc[t] = "erase" => ask[t].op = "info"

OwnCallback ==
    \A s, t \in Thread : s # t /\ Asking(s) /\ Asking(t) => callback[s] # callback[t]

SyncOK ==
    \A c \in Number :
      /\ c > asked => sync[c] = NoSync
      /\ sync[c].promise = "SUCCESS" => sync[c].copied

CallbackOK ==
    \A t \in Thread :
      /\ pc[t] \in Early => sync[callback[t]] = NoSync
      /\ pc[t] = "wait" => sync[callback[t]].device = Peer(t)

\* The question t has had entries brought over since it was asked.
HasCopy(t) == pc[t] = "get" \/ (pc[t] = "wait" /\ sync[callback[t]].copied)

Current ==
    \A t \in Thread : HasCopy(t) =>
      /\ \A b \in Bundle : \/ local[Peer(t)][b] = NoEntry
                           \/ \E s \in seen[t] : s[b] = local[Peer(t)][b]
      /\ t \in spoilt \/ local[Peer(t)] \in seen[t]

\* The inductive invariant.
IInv == LookupTypeOK /\ QuestionOK /\ OwnCallback /\ SyncOK /\ CallbackOK /\ Current

-----------------------------------------------------------------------------
(* Facts about questions and results. *)

\* What is asked is a question, and of a device.
LEMMA QuestionFacts ==
    /\ NoQuestion \notin Question
    /\ \A q \in Question : q.device \in Device /\ q.op \in {"info", "name"}
    /\ \A q \in Question : q.op = "info" => q.bundle \in Bundle
    /\ \A q \in Question : q.op = "name" => q.token \in Token
BY DEF Question, NoQuestion

\* A thread at work on a question has one.
LEMMA AskedIsQuestion ==
    ASSUME LookupTypeOK, NEW t \in Thread, Asking(t)
    PROVE  ask[t] \in Question /\ Peer(t) \in Device
BY QuestionFacts DEF LookupTypeOK, Asking, Peer

-----------------------------------------------------------------------------
(* The initial states. *)

LEMMA InitInv == Init => IInv
<1> SUFFICES ASSUME Init PROVE IInv
  OBVIOUS
<1> USE LookupAssumption, ChangesAssumption
<1>1. published \in [Device -> [Bundle -> Value]] /\ local \in [Device -> [Bundle -> Value]]
  <2>1. ([token : Token, version : {0}] \cup {NoEntry}) \subseteq Value
    BY DEF Value, Entry
  <2> QED
    BY <2>1 DEF Init, ReadInit
<1>2. LookupTypeOK
  <2>1. sync \in [Number -> Sync]
    BY DEF Init, NoSync, Sync
  <2>2. ask \in [Thread -> Question \cup {NoQuestion}] /\ result \in [Thread -> Result]
    BY DEF Init, ReadInit, Result, NoResult
  <2> QED
    BY <1>1, <2>1, <2>2 DEF LookupTypeOK, Init, ReadInit, Pc
<1>3. QuestionOK /\ OwnCallback /\ CallbackOK /\ Current
  BY DEF Init, ReadInit, QuestionOK, OwnCallback, CallbackOK, Current, HasCopy, Asking, Early
<1>4. SyncOK
  BY DEF Init, SyncOK, NoSync
<1> QED
  BY <1>2, <1>3, <1>4 DEF IInv

-----------------------------------------------------------------------------
(* The two ways a step of a question ends: it goes on, or it returns. *)

\* A call that goes on to another place and has brought nothing new with it.
LEMMA GotoKeeps ==
  ASSUME IInv, NEW t \in Thread, NEW label \in Pc, Goto(t, label),
         pc[t] # "idle", label # "idle",
         label \in Early => pc[t] \in Early,
         label = "wait" => pc[t] = "wait",
         label = "get" => HasCopy(t),
         label = "erase" => ask[t].op = "info",
         UNCHANGED <<callback, sync, local, online, asked, changes, spoilt>>,
         uuid' \in [Thread -> Device \cup {NoUuid}],
         kvOpen' \in BOOLEAN, faults' \in 0..MaxFaults
  PROVE  IInv'
<1> USE DEF IInv
<1>1. UNCHANGED readVars /\ pc' = [pc EXCEPT ![t] = label]
  BY DEF Goto
<1>2. UNCHANGED <<published, ask, seen, result>>
  BY <1>1 DEF readVars
<1>3. pc \in [Thread -> Pc] /\ \A s \in Thread : pc'[s] = IF s = t THEN label ELSE pc[s]
  BY <1>1 DEF LookupTypeOK
<1>4. LookupTypeOK'
  BY <1>1, <1>2 DEF LookupTypeOK
<1>5. \A s \in Thread : Asking(s)' <=> Asking(s)
  BY <1>2 DEF Asking
<1>6. QuestionOK'
  BY <1>2, <1>3, <1>5 DEF QuestionOK, Peer
<1>7. OwnCallback' /\ SyncOK'
  BY <1>5 DEF OwnCallback, SyncOK
<1>8. CallbackOK'
  BY <1>2, <1>3 DEF CallbackOK, Peer
<1>9. \A s \in Thread : HasCopy(s)' => HasCopy(s)
  BY <1>3 DEF HasCopy
<1>10. Current'
  BY <1>2, <1>9 DEF Current, Peer
<1> QED
  BY <1>4, <1>6, <1>7, <1>8, <1>10

\* A call that returns; the local copy is as it was.
LEMMA ReturnKeeps ==
  ASSUME IInv, NEW t \in Thread, NEW r \in Result, Return(t, r),
         UNCHANGED <<sync, local, online, asked, changes>>,
         kvOpen' \in BOOLEAN, faults' \in 0..MaxFaults
  PROVE  IInv'
<1> USE DEF IInv
<1>1. /\ UNCHANGED published
      /\ ask' = [ask EXCEPT ![t] = NoQuestion]
      /\ seen' = [seen EXCEPT ![t] = {}]
      /\ result' = [result EXCEPT ![t] = r]
      /\ pc' = [pc EXCEPT ![t] = "idle"]
      /\ uuid' = [uuid EXCEPT ![t] = NoUuid]
      /\ callback' = [callback EXCEPT ![t] = 0]
      /\ spoilt' = spoilt \ {t}
  BY DEF Return, Answer
<1>2. LookupTypeOK'
  <2>1. callback' \in [Thread -> 0..MaxAsked]
    BY <1>1, LookupAssumption DEF LookupTypeOK
  <2> QED
    BY <1>1, <2>1 DEF LookupTypeOK, Pc
<1>3. /\ ~Asking(t)'
      /\ pc'[t] = "idle"
      /\ \A s \in Thread \ {t} : /\ Asking(s)' <=> Asking(s)
                                 /\ ask'[s] = ask[s] /\ seen'[s] = seen[s] /\ pc'[s] = pc[s]
                                 /\ callback'[s] = callback[s]
                                 /\ s \in spoilt' <=> s \in spoilt
  BY <1>1 DEF Asking, LookupTypeOK
<1>4. QuestionOK'
  BY <1>1, <1>3 DEF QuestionOK, Peer
<1>5. OwnCallback' /\ SyncOK'
  BY <1>3 DEF OwnCallback, SyncOK
<1>6. CallbackOK'
  BY <1>3 DEF CallbackOK, Peer, Early
<1>7. Current'
  BY <1>3 DEF Current, HasCopy, Peer
<1> QED
  BY <1>2, <1>4, <1>5, <1>6, <1>7

LEMMA FaultType ==
  ASSUME LookupTypeOK, Fault \/ NoFault
  PROVE  faults' \in 0..MaxFaults
BY LookupAssumption DEF LookupTypeOK, Fault, NoFault

LEMMA FailKeeps ==
  ASSUME IInv, NEW t \in Thread, Fail(t), Fault \/ NoFault,
         UNCHANGED <<sync, local, online, asked, changes, kvOpen>>
  PROVE  IInv'
<1>1. [status |-> "failed"] \in Result
  BY DEF Result
<1>2. kvOpen' \in BOOLEAN
  BY DEF IInv, LookupTypeOK
<1>3. faults' \in 0..MaxFaults
  BY FaultType DEF IInv
<1> QED
  BY <1>1, <1>2, <1>3, ReturnKeeps DEF Fail

-----------------------------------------------------------------------------
(* The steps of a question. *)

LEMMA BeginKeeps ==
  ASSUME IInv, NEW t \in Thread, Begin(t)
  PROVE  IInv'
<1> USE DEF IInv
<1>1. PICK q \in Question : Ask(t, q)
  BY DEF Begin
<1>2. /\ UNCHANGED <<published, local, online, sync, uuid, kvOpen, changes, faults, spoilt>>
      /\ ask' = [ask EXCEPT ![t] = q]
      /\ seen' = [seen EXCEPT ![t] = {published[q.device]}]
      /\ result' = [result EXCEPT ![t] = NoResult]
      /\ pc' = [pc EXCEPT ![t] = "check"]
      /\ asked' = asked + 1 /\ asked < MaxAsked
      /\ callback' = [callback EXCEPT ![t] = asked']
  BY <1>1 DEF Begin, Ask, storeVars
<1>3. q.device \in Device /\ asked \in 0..MaxAsked /\ MaxAsked \in Nat
  BY QuestionFacts, LookupAssumption DEF LookupTypeOK
<1>4. asked' \in 1..MaxAsked /\ asked' > asked
  BY <1>2, <1>3
<1>5. LookupTypeOK'
  <2>1. NoResult \in Result
    BY DEF NoResult, Result
  <2>2. published[q.device] \in [Bundle -> Value]
    BY <1>3 DEF LookupTypeOK
  <2> QED
    BY <1>2, <1>4, <2>1, <2>2 DEF LookupTypeOK, Pc
<1>6. /\ Asking(t)' /\ Peer(t)' = q.device /\ pc'[t] = "check" /\ callback'[t] = asked'
      /\ seen'[t] = {published[q.device]}
      /\ \A s \in Thread \ {t} : /\ Asking(s)' <=> Asking(s)
                                 /\ ask'[s] = ask[s] /\ seen'[s] = seen[s] /\ pc'[s] = pc[s]
                                 /\ callback'[s] = callback[s]
  BY <1>2, QuestionFacts DEF Asking, LookupTypeOK, Peer
<1>7. QuestionOK'
  BY <1>2, <1>3, <1>4, <1>6 DEF QuestionOK, Peer
<1>8. OwnCallback'
  BY <1>3, <1>4, <1>6 DEF OwnCallback, QuestionOK
<1>9. SyncOK'
  BY <1>2, <1>3, <1>4 DEF SyncOK, Number
<1>10. CallbackOK'
  <2>1. sync'[callback'[t]] = NoSync
    BY <1>2, <1>4, <1>6 DEF SyncOK, Number
  <2> QED
    BY <1>2, <1>6, <2>1 DEF CallbackOK, Peer
<1>11. Current'
  BY <1>2, <1>6 DEF Current, HasCopy, Peer
<1> QED
  BY <1>5, <1>7, <1>8, <1>9, <1>10, <1>11

LEMMA CheckKvStoreKeeps ==
  ASSUME IInv, NEW t \in Thread, CheckKvStore(t)
  PROVE  IInv'
<1>1. UNCHANGED <<local, online, sync, asked, changes>> /\ pc[t] = "check"
  BY DEF CheckKvStore, storeVars
<1>2. CASE Goto(t, "udid") /\ kvOpen' = TRUE /\ NoFault /\ UNCHANGED <<uuid, callback, spoilt>>
  BY <1>1, <1>2, FaultType, GotoKeeps DEF Early, Pc, IInv, LookupTypeOK
<1>3. CASE ~kvOpen /\ Fault /\ Fail(t) /\ UNCHANGED kvOpen
  BY <1>1, <1>3, FailKeeps
<1> QED
  BY <1>2, <1>3 DEF CheckKvStore

LEMMA GetUdidKeeps ==
  ASSUME IInv, NEW t \in Thread, GetUdid(t)
  PROVE  IInv'
<1>1. UNCHANGED <<local, online, sync, kvOpen, asked, changes>> /\ pc[t] = "udid"
  BY DEF GetUdid, storeVars
<1>2. CASE Goto(t, "uuid") /\ NoFault /\ UNCHANGED <<uuid, callback, spoilt>>
  BY <1>1, <1>2, FaultType, GotoKeeps DEF Early, Pc, IInv, LookupTypeOK
<1>3. CASE Fail(t) /\ (Fault \/ NoFault)
  BY <1>1, <1>3, FailKeeps
<1> QED
  BY <1>2, <1>3 DEF GetUdid

LEMMA GetUuidKeeps ==
  ASSUME IInv, NEW t \in Thread, GetUuid(t)
  PROVE  IInv'
<1>1. UNCHANGED <<local, online, sync, kvOpen, asked, changes>> /\ pc[t] = "uuid"
  BY DEF GetUuid, storeVars
<1>2. CASE /\ Goto(t, "sync")
           /\ Fault \/ NoFault
           /\ uuid' = [uuid EXCEPT ![t] = Peer(t)] \/ uuid' = [uuid EXCEPT ![t] = NoUuid]
           /\ UNCHANGED <<callback, spoilt>>
  <2>1. Asking(t)
    BY <1>1 DEF IInv, QuestionOK
  <2>2. uuid' \in [Thread -> Device \cup {NoUuid}]
    BY <1>2, <2>1, AskedIsQuestion DEF IInv, LookupTypeOK
  <2>3. kvOpen' \in BOOLEAN
    BY <1>1 DEF IInv, LookupTypeOK
  <2> QED
    BY <1>1, <1>2, <2>2, <2>3, FaultType, GotoKeeps DEF Early, Pc, IInv
<1>3. CASE Fail(t) /\ (Fault \/ NoFault)
  BY <1>1, <1>3, FailKeeps
<1> QED
  BY <1>2, <1>3 DEF GetUuid

LEMMA StartSyncKeeps ==
  ASSUME IInv, NEW t \in Thread, StartSync(t)
  PROVE  IInv'
<1> USE DEF IInv
<1>1. UNCHANGED <<local, online, kvOpen, asked, changes>> /\ pc[t] = "sync"
  BY DEF StartSync
<1>2. CASE /\ Goto(t, "wait") /\ NoFault /\ UNCHANGED <<uuid, callback, spoilt>>
           /\ sync' = [sync EXCEPT ![callback[t]].device = Peer(t), ![callback[t]].uuid = uuid[t]]
  <2>1. UNCHANGED <<published, ask, seen, result>> /\ pc' = [pc EXCEPT ![t] = "wait"]
    BY <1>2 DEF Goto, readVars
  <2>2. Asking(t) /\ Peer(t) \in Device /\ callback[t] \in Number /\ callback[t] <= asked
    BY <1>1, AskedIsQuestion, LookupAssumption DEF QuestionOK, LookupTypeOK, Number
  <2>3. sync[callback[t]] = NoSync
    BY <1>1 DEF CallbackOK, Early
  <2>4. /\ sync'[callback[t]].device = Peer(t)
        /\ sync'[callback[t]].copied = FALSE
        /\ sync'[callback[t]].promise = "unset"
        /\ sync'[callback[t]] \in Sync
        /\ \A c \in Number \ {callback[t]} : sync'[c] = sync[c]
    <3>1. uuid[t] \in Device \cup {NoUuid} /\ MaxReports \in Nat
      BY LookupAssumption DEF LookupTypeOK
    <3>2. /\ sync'[callback[t]] = [NoSync EXCEPT !.device = Peer(t), !.uuid = uuid[t]]
          /\ \A c \in Number \ {callback[t]} : sync'[c] = sync[c]
      BY <1>2, <2>2, <2>3 DEF LookupTypeOK
    <3>3. sync'[callback[t]] = [device |-> Peer(t), uuid |-> uuid[t], copied |-> FALSE,
                                reports |-> 0, promise |-> "unset"]
      BY <3>2 DEF NoSync
    <3>4. sync'[callback[t]] \in Sync
      BY <2>2, <3>1, <3>3 DEF Sync
    <3>5. /\ sync'[callback[t]].device = Peer(t)
          /\ sync'[callback[t]].copied = FALSE
          /\ sync'[callback[t]].promise = "unset"
      BY <3>3
    <3> QED
      BY <3>2, <3>4, <3>5
  <2>5. LookupTypeOK'
    <3>1. sync' \in [Number -> Sync]
      BY <1>2, <2>2, <2>4 DEF LookupTypeOK
    <3> QED
      BY <1>1, <1>2, <2>1, <3>1, FaultType DEF LookupTypeOK, Pc
  <2>6. /\ pc'[t] = "wait"
        /\ \A s \in Thread \ {t} : pc'[s] = pc[s] /\ (Asking(s) => callback[s] # callback[t])
        /\ \A s \in Thread : (Asking(s)' <=> Asking(s)) /\ Peer(s)' = Peer(s)
    BY <2>1, <2>2 DEF LookupTypeOK, OwnCallback, Asking, Peer
  <2>7. QuestionOK' /\ OwnCallback'
    BY <1>1, <1>2, <2>1, <2>2, <2>6 DEF QuestionOK, OwnCallback, Peer
  <2>8. SyncOK'
    <3>1. \A c \in Number : c > asked => c # callback[t]
      BY <2>2, LookupAssumption DEF LookupTypeOK, Number
    <3>2. ~(sync'[callback[t]].promise = "SUCCESS")
      BY <2>4
    <3> QED
      BY <1>1, <2>4, <3>1, <3>2 DEF SyncOK
  <2>9. \A s \in Thread \ {t} : Asking(s) => sync'[callback[s]] = sync[callback[s]]
    BY <2>4, <2>6, LookupAssumption DEF QuestionOK, Number, LookupTypeOK
  <2>10. CallbackOK'
    <3>1. \A s \in Thread \ {t} : pc'[s] # "idle" =>
            pc'[s] = pc[s] /\ sync'[callback'[s]] = sync[callback[s]] /\ Peer(s)' = Peer(s)
      BY <1>2, <2>6, <2>9 DEF QuestionOK
    <3> QED
      BY <1>2, <2>4, <2>6, <3>1 DEF CallbackOK, Early
  <2>11. \A s \in Thread : HasCopy(s)' => HasCopy(s)
    <3>1. ~HasCopy(t)'
      BY <1>2, <2>4, <2>6 DEF HasCopy
    <3>2. \A s \in Thread \ {t} : HasCopy(s)' => HasCopy(s)
      BY <1>2, <2>6, <2>9 DEF HasCopy, QuestionOK
    <3> QED
      BY <3>1, <3>2
  <2>12. Current'
    BY <1>1, <1>2, <2>1, <2>6, <2>11 DEF Current
  <2> QED
    BY <2>5, <2>7, <2>8, <2>10, <2>12
<1>3. CASE Fail(t) /\ (Fault \/ NoFault) /\ UNCHANGED sync
  BY <1>1, <1>3, FailKeeps
<1> QED
  BY <1>2, <1>3 DEF StartSync

LEMMA GetResultCodeKeeps ==
  ASSUME IInv, NEW t \in Thread, GetResultCode(t)
  PROVE  IInv'
<1>1. UNCHANGED <<local, online, sync, kvOpen, asked, changes>> /\ NoFault /\ pc[t] = "wait"
  BY DEF GetResultCode, storeVars, NoFault
<1>2. CASE /\ sync[callback[t]].promise = "SUCCESS"
           /\ Goto(t, "get") /\ UNCHANGED <<uuid, callback, spoilt>>
  <2>1. callback[t] \in Number
    BY <1>1, LookupAssumption DEF IInv, QuestionOK, LookupTypeOK, Number
  <2>2. HasCopy(t)
    BY <1>1, <1>2, <2>1 DEF IInv, SyncOK, HasCopy
  <2> QED
    BY <1>1, <1>2, <2>2, FaultType, GotoKeeps DEF Early, Pc, IInv, LookupTypeOK
<1>3. CASE Fail(t)
  BY <1>1, <1>3, FailKeeps
<1> QED
  BY <1>2, <1>3 DEF GetResultCode

\* What a reading of the local copy answers, when it answers, is true of
\* something the peer has published since the question.
LEMMA AnswerIsTrue ==
  ASSUME IInv, NEW t \in Thread, pc[t] = "get",
         NEW a, a \in Answers(ask[t], local[Peer(t)])
  PROVE  a \in Entry \cup Bundle /\ True(ask[t], a, seen[t])
<1>1. Asking(t) /\ ask[t] \in Question /\ Peer(t) \in Device
  BY AskedIsQuestion DEF IInv, QuestionOK
<1>2. local[Peer(t)] \in [Bundle -> Value]
  BY <1>1 DEF IInv, LookupTypeOK
<1>3. \A b \in Bundle : \/ local[Peer(t)][b] = NoEntry
                        \/ \E s \in seen[t] : s[b] = local[Peer(t)][b]
  <2>1. HasCopy(t)
    BY DEF HasCopy
  <2> QED
    BY <2>1 DEF IInv, Current
<1>4. CASE ask[t].op = "info"
  <2>1. ask[t].bundle \in Bundle
    BY <1>1, <1>4, QuestionFacts
  <2>2. a = local[Peer(t)][ask[t].bundle] /\ a # NoEntry /\ a # Corrupt
    BY <1>4 DEF Answers
  <2>3. a \in Entry
    BY <1>2, <2>1, <2>2 DEF Value
  <2>4. PICK s \in seen[t] : s[ask[t].bundle] = a
    BY <1>3, <2>1, <2>2
  <2> QED
    BY <1>4, <2>2, <2>3, <2>4 DEF True, Answers
<1>5. CASE ask[t].op # "info"
  <2>1. a \in Bundle /\ Parses(local[Peer(t)][a]) /\ local[Peer(t)][a].token = ask[t].token
    BY <1>5 DEF Answers
  <2>2. PICK s \in seen[t] : s[a] = local[Peer(t)][a]
    BY <1>3, <2>1 DEF Parses
  <2> QED
    BY <1>5, <2>1, <2>2 DEF True, Answers
<1> QED
  BY <1>4, <1>5

\* How a reading ends.
GetEnds(t) ==
    \/ Goto(t, "erase") /\ ask[t].op = "info" /\ UNCHANGED <<uuid, callback, spoilt>>
    \/ Fail(t)
    \/ /\ Answers(ask[t], local[Peer(t)]) = {}
       /\ Return(t, [status |-> "notExist"])
    \/ \E a \in Answers(ask[t], local[Peer(t)]) : Return(t, [status |-> "ok", answer |-> a])

LEMMA GetCases ==
  ASSUME IInv, NEW t \in Thread, Get(t)
  PROVE  GetEnds(t) /\ (Fault \/ NoFault)
<1>1. Fault \/ NoFault
  BY DEF Get
<1>2. CASE Fail(t)
  BY <1>1, <1>2 DEF GetEnds
<1>3. CASE ask[t].op = "info" /\ ReadInfo(t, local[Peer(t)])
  <2> DEFINE v == local[Peer(t)][ask[t].bundle]
  <2>1. CASE v = Corrupt
    BY <1>1, <1>3, <2>1 DEF ReadInfo, GetEnds
  <2>2. CASE v # Corrupt /\ v = NoEntry
    BY <1>1, <1>3, <2>2 DEF ReadInfo, GetEnds, Fail
  <2>3. CASE v # Corrupt /\ v # NoEntry
    <3>1. v \in Answers(ask[t], local[Peer(t)])
      BY <1>3, <2>3 DEF Answers
    <3>2. Return(t, [status |-> "ok", answer |-> v])
      BY <1>3, <2>3 DEF ReadInfo
    <3> QED
      BY <1>1, <3>1, <3>2 DEF GetEnds
  <2> QED
    BY <2>1, <2>2, <2>3
<1>4. CASE ask[t].op # "info" /\ ReadName(t, local[Peer(t)])
  BY <1>1, <1>4 DEF ReadName, GetEnds
<1> QED
  BY <1>2, <1>3, <1>4 DEF Get

LEMMA GetKeeps ==
  ASSUME IInv, NEW t \in Thread, Get(t)
  PROVE  IInv'
<1>1. UNCHANGED <<local, online, sync, kvOpen, asked, changes>> /\ pc[t] = "get"
  BY DEF Get, storeVars
<1>2. GetEnds(t) /\ faults' \in 0..MaxFaults /\ kvOpen' \in BOOLEAN
  BY <1>1, GetCases, FaultType DEF IInv, LookupTypeOK
<1>3. CASE Goto(t, "erase") /\ ask[t].op = "info" /\ UNCHANGED <<uuid, callback, spoilt>>
  BY <1>1, <1>2, <1>3, GotoKeeps DEF Early, Pc, IInv, LookupTypeOK
<1>4. CASE \E r \in Result : Return(t, r)
  BY <1>1, <1>2, <1>4, ReturnKeeps
<1>5. CASE Fail(t)
  BY <1>4, <1>5 DEF Fail, Result
<1>6. CASE Return(t, [status |-> "notExist"])
  BY <1>4, <1>6 DEF Result
<1>7. CASE \E a \in Answers(ask[t], local[Peer(t)]) : Return(t, [status |-> "ok", answer |-> a])
  <2>1. PICK a \in Answers(ask[t], local[Peer(t)]) : Return(t, [status |-> "ok", answer |-> a])
    BY <1>7
  <2>2. [status |-> "ok", answer |-> a] \in Result
    BY <1>1, AnswerIsTrue DEF Result
  <2> QED
    BY <1>4, <2>1, <2>2
<1> QED
  BY <1>2, <1>3, <1>5, <1>6, <1>7 DEF GetEnds

LEMMA EraseKeeps ==
  ASSUME IInv, NEW t \in Thread, Erase(t)
  PROVE  IInv'
<1> USE DEF IInv
<1>1. /\ UNCHANGED <<published, online, sync, kvOpen, asked, changes>>
      /\ ask' = [ask EXCEPT ![t] = NoQuestion]
      /\ seen' = [seen EXCEPT ![t] = {}]
      /\ result' = [result EXCEPT ![t] = [status |-> "failed"]]
      /\ pc' = [pc EXCEPT ![t] = "idle"] /\ pc[t] = "erase"
      /\ uuid' = [uuid EXCEPT ![t] = NoUuid]
      /\ callback' = [callback EXCEPT ![t] = 0]
      /\ spoilt' = (spoilt \ {t}) \cup {s \in Thread \ {t} : Asking(s) /\ Peer(s) = Peer(t)}
  BY DEF Erase, Answer
<1>2. faults' \in 0..MaxFaults
  BY FaultType DEF Erase
<1>3. Peer(t) \in Device /\ ask[t].bundle \in Bundle
  BY <1>1, AskedIsQuestion, QuestionFacts DEF QuestionOK
<1>4. \/ local' = [local EXCEPT ![Peer(t)][ask[t].bundle] = NoEntry]
      \/ local' = local
  BY DEF Erase
<1>5. /\ local' \in [Device -> [Bundle -> Value]]
      /\ \A d \in Device, b \in Bundle : local'[d][b] \in {NoEntry, local[d][b]}
      /\ \A d \in Device \ {Peer(t)} : local'[d] = local[d]
  <2> DEFINE d == Peer(t)
             b == ask[t].bundle
  <2>1. local \in [Device -> [Bundle -> Value]] /\ NoEntry \in Value
    BY DEF LookupTypeOK, Value
  <2>2. CASE local' = local
    BY <2>1, <2>2
  <2>3. CASE local' = [local EXCEPT ![d][b] = NoEntry]
    <3>1. local'[d] = [local[d] EXCEPT ![b] = NoEntry] /\ \A c \in Device \ {d} : local'[c] = local[c]
      BY <1>3, <2>1, <2>3
    <3>2. local[d] \in [Bundle -> Value]
      BY <1>3, <2>1
    <3>3. local'[d] \in [Bundle -> Value] /\ \A c \in Bundle : local'[d][c] \in {NoEntry, local[d][c]}
      BY <2>1, <3>1, <3>2
    <3>4. local' = [local EXCEPT ![d] = local'[d]]
      BY <2>3, <3>1, <1>3, <2>1
    <3>5. local' \in [Device -> [Bundle -> Value]]
      BY <2>1, <3>3, <3>4
    <3> QED
      BY <3>1, <3>3, <3>5
  <2> QED
    BY <1>4, <2>2, <2>3
<1>6. LookupTypeOK'
  <2>1. callback' \in [Thread -> 0..MaxAsked]
    BY <1>1, LookupAssumption DEF LookupTypeOK
  <2>2. result' \in [Thread -> Result]
    BY <1>1 DEF LookupTypeOK, Result
  <2> QED
    BY <1>1, <1>2, <1>5, <2>1, <2>2 DEF LookupTypeOK, Pc
<1>7. /\ ~Asking(t)'
      /\ pc'[t] = "idle"
      /\ \A s \in Thread \ {t} : /\ Asking(s)' <=> Asking(s)
                                 /\ ask'[s] = ask[s] /\ seen'[s] = seen[s] /\ pc'[s] = pc[s]
                                 /\ callback'[s] = callback[s]
  BY <1>1 DEF Asking, LookupTypeOK
<1>8. QuestionOK'
  BY <1>1, <1>7 DEF QuestionOK, Peer
<1>9. OwnCallback' /\ SyncOK'
  BY <1>1, <1>7 DEF OwnCallback, SyncOK
<1>10. CallbackOK'
  BY <1>1, <1>7 DEF CallbackOK, Peer, Early
<1>11. Current'
  <2> SUFFICES ASSUME NEW s \in Thread, HasCopy(s)'
               PROVE  /\ \A b \in Bundle : \/ local'[Peer(s)'][b] = NoEntry
                                           \/ \E e \in seen'[s] : e[b] = local'[Peer(s)'][b]
                      /\ s \in spoilt' \/ local'[Peer(s)'] \in seen'[s]
    BY DEF Current
  <2>1. s # t
    BY <1>7 DEF HasCopy
  <2>2. HasCopy(s) /\ Asking(s) /\ Peer(s)' = Peer(s) /\ Peer(s) \in Device /\ seen'[s] = seen[s]
    BY <1>1, <1>7, <2>1, AskedIsQuestion DEF HasCopy, QuestionOK, Peer
  <2>3. \A b \in Bundle : \/ local'[Peer(s)][b] = NoEntry
                          \/ \E e \in seen[s] : e[b] = local'[Peer(s)][b]
    BY <1>5, <2>2 DEF Current
  <2>4. s \in spoilt' \/ local'[Peer(s)] \in seen[s]
    BY <1>1, <1>5, <2>1, <2>2 DEF Current
  <2> QED
    BY <2>2, <2>3, <2>4
<1> QED
  BY <1>6, <1>8, <1>9, <1>10, <1>11

-----------------------------------------------------------------------------
(* The store, the peers, the device manager. *)

LEMMA ExchangeKeeps ==
  ASSUME IInv, NEW c \in Number, Exchange(c)
  PROVE  IInv'
<1> USE DEF IInv
<1> DEFINE d == sync[c].device
<1>1. /\ d \in online
      /\ local' = [local EXCEPT ![d] = published[d]]
      /\ sync' = [sync EXCEPT ![c].copied = TRUE]
      /\ spoilt' = {t \in spoilt : Peer(t) # d}
      /\ UNCHANGED <<published, ask, seen, result>>
      /\ UNCHANGED <<pc, uuid, callback>>
      /\ UNCHANGED <<online, kvOpen, asked, changes, faults>>
  BY DEF Exchange, readVars, threadVars
<1>2. d \in Device /\ d # Self /\ sync[c] \in Sync
  BY <1>1 DEF LookupTypeOK
<1>3. /\ sync'[c].device = d /\ sync'[c].copied
      /\ sync'[c].promise = sync[c].promise
      /\ sync'[c] \in Sync
      /\ \A e \in Number \ {c} : sync'[e] = sync[e]
  BY <1>1, <1>2 DEF Sync, LookupTypeOK
<1>4. LookupTypeOK'
  <2>1. sync' \in [Number -> Sync]
    BY <1>1, <1>3 DEF LookupTypeOK
  <2> QED
    BY <1>1, <1>2, <2>1 DEF LookupTypeOK
<1>5. QuestionOK' /\ OwnCallback'
  BY <1>1 DEF QuestionOK, OwnCallback, Peer, Asking
<1>6. sync[c] # NoSync
  BY <1>2 DEF NoSync
<1>7. SyncOK'
  BY <1>1, <1>3, <1>6 DEF SyncOK
<1>8. CallbackOK'
  <2>1. \A t \in Thread : pc[t] \in Early => callback[t] # c
    BY <1>6 DEF CallbackOK
  <2>2. \A t \in Thread : pc[t] # "idle" => callback[t] \in Number
    BY LookupAssumption DEF QuestionOK, Number, LookupTypeOK
  <2>3. \A t \in Thread : pc'[t] \in Early => sync'[callback'[t]] = NoSync
    BY <1>1, <1>3, <2>1, <2>2 DEF CallbackOK, Early
  <2>4. \A t \in Thread : pc'[t] = "wait" => sync'[callback'[t]].device = Peer(t)'
    BY <1>1, <1>3, <2>2 DEF CallbackOK, Peer
  <2> QED
    BY <2>3, <2>4 DEF CallbackOK
<1>9. Current'
  <2> SUFFICES ASSUME NEW t \in Thread, HasCopy(t)'
               PROVE  /\ \A b \in Bundle : \/ local'[Peer(t)'][b] = NoEntry
                                           \/ \E s \in seen'[t] : s[b] = local'[Peer(t)'][b]
                      /\ t \in spoilt' \/ local'[Peer(t)'] \in seen'[t]
    BY DEF Current
  <2>1. Asking(t) /\ Peer(t)' = Peer(t) /\ Peer(t) \in Device /\ seen'[t] = seen[t]
    BY <1>1, AskedIsQuestion DEF HasCopy, QuestionOK, Peer
  <2>2. CASE Peer(t) = d
    <3>1. local'[Peer(t)] = published[Peer(t)]
      BY <1>1, <2>1, <2>2 DEF LookupTypeOK
    <3>2. published[Peer(t)] \in seen[t]
      BY <2>1 DEF QuestionOK
    <3> QED
      BY <2>1, <3>1, <3>2
  <2>3. CASE Peer(t) # d
    <3>1. local'[Peer(t)] = local[Peer(t)] /\ (t \in spoilt' <=> t \in spoilt)
      BY <1>1, <2>1, <2>3 DEF LookupTypeOK
    <3>2. HasCopy(t)
      <4>1. CASE pc[t] = "get"
        BY <4>1 DEF HasCopy
      <4>2. CASE pc[t] = "wait" /\ sync'[callback[t]].copied
        <5>1. callback[t] \in Number /\ sync[callback[t]].device = Peer(t)
          BY <2>1, <4>2, LookupAssumption DEF QuestionOK, CallbackOK, Number, LookupTypeOK
        <5>2. sync'[callback[t]] = sync[callback[t]]
          BY <1>3, <2>3, <5>1
        <5> QED
          BY <4>2, <5>2 DEF HasCopy
      <4> QED
        BY <1>1, <4>1, <4>2 DEF HasCopy
    <3> QED
      BY <2>1, <3>1, <3>2 DEF Current
  <2> QED
    BY <2>2, <2>3
<1> QED
  BY <1>4, <1>5, <1>7, <1>8, <1>9

LEMMA SyncCompletedKeeps ==
  ASSUME IInv, NEW c \in Number, SyncCompleted(c)
  PROVE  IInv'
<1> USE DEF IInv
<1>1. /\ UNCHANGED <<published, ask, seen, result>>
      /\ UNCHANGED <<pc, uuid, callback>>
      /\ UNCHANGED <<local, online, kvOpen, asked, changes, faults, spoilt>>
      /\ sync[c].device # Self /\ sync[c].reports < MaxReports
  BY DEF SyncCompleted, readVars, threadVars
<1>2. PICK p \in Status \cup {"unset"} :
        /\ p = "SUCCESS" => sync[c].copied \/ sync[c].promise = "SUCCESS"
        /\ sync' = [sync EXCEPT ![c].reports = @ + 1, ![c].promise = p]
  <2>1. PICK Uuids \in SUBSET {sync[c].device}, status \in Status :
          /\ status = "SUCCESS" => sync[c].copied
          /\ sync' = [sync EXCEPT ![c].reports = @ + 1,
                                  ![c].promise = IF sync[c].uuid \in Uuids /\ @ = "unset"
                                                 THEN status ELSE @]
    BY DEF SyncCompleted
  <2> DEFINE p == IF sync[c].uuid \in Uuids /\ sync[c].promise = "unset"
                  THEN status ELSE sync[c].promise
  <2>2. sync[c].promise \in Status \cup {"unset"}
    BY DEF LookupTypeOK, Sync
  <2>3. p \in Status \cup {"unset"} /\ (p = "SUCCESS" => sync[c].copied \/ sync[c].promise = "SUCCESS")
    BY <2>1, <2>2
  <2>4. sync' = [sync EXCEPT ![c].reports = @ + 1, ![c].promise = p]
    BY <2>1
  <2> QED
    BY <2>3, <2>4
<1>3. sync[c] \in Sync /\ MaxReports \in Nat
  BY LookupAssumption DEF LookupTypeOK
<1>4. /\ sync'[c] = [sync[c] EXCEPT !.reports = @ + 1, !.promise = p]
      /\ \A e \in Number \ {c} : sync'[e] = sync[e]
  BY <1>2 DEF LookupTypeOK
<1>5. /\ sync'[c] = [device |-> sync[c].device, uuid |-> sync[c].uuid, copied |-> sync[c].copied,
                     reports |-> sync[c].reports + 1, promise |-> p]
  BY <1>3, <1>4 DEF Sync
<1>6. sync'[c] \in Sync
  BY <1>1, <1>2, <1>3, <1>5 DEF Sync
<1>7. LookupTypeOK'
  <2>1. sync' \in [Number -> Sync]
    BY <1>2, <1>4, <1>6 DEF LookupTypeOK
  <2> QED
    BY <1>1, <2>1 DEF LookupTypeOK
<1>8. QuestionOK' /\ OwnCallback'
  BY <1>1 DEF QuestionOK, OwnCallback, Peer, Asking
<1>9. sync[c] # NoSync
  BY <1>1 DEF NoSync
<1>10. SyncOK'
  <2>1. p = "SUCCESS" => sync[c].copied
    BY <1>2 DEF SyncOK
  <2>2. sync'[c].promise = p /\ sync'[c].copied = sync[c].copied
    BY <1>5
  <2> QED
    BY <1>1, <1>4, <1>9, <2>1, <2>2 DEF SyncOK
<1>11. \A t \in Thread : pc[t] # "idle" => callback[t] \in Number
  BY LookupAssumption DEF QuestionOK, Number, LookupTypeOK
<1>12. \A e \in Number : sync'[e].device = sync[e].device /\ sync'[e].copied = sync[e].copied
  BY <1>4, <1>5
<1>13. CallbackOK'
  <2>1. \A t \in Thread : pc[t] \in Early => callback[t] # c
    BY <1>9 DEF CallbackOK
  <2>2. \A t \in Thread : pc'[t] \in Early => sync'[callback'[t]] = NoSync
    BY <1>1, <1>4, <1>11, <2>1 DEF CallbackOK, Early
  <2>3. \A t \in Thread : pc'[t] = "wait" => sync'[callback'[t]].device = Peer(t)'
    BY <1>1, <1>11, <1>12 DEF CallbackOK, Peer
  <2> QED
    BY <2>2, <2>3 DEF CallbackOK
<1>14. Current'
  <2>1. \A t \in Thread : HasCopy(t)' => HasCopy(t)
    BY <1>1, <1>11, <1>12 DEF HasCopy
  <2> QED
    BY <1>1, <2>1 DEF Current, Peer
<1> QED
  BY <1>7, <1>8, <1>10, <1>13, <1>14

\* What a peer publishes is a value, and a version has not been used before.
LEMMA PeerPublishesValue ==
  ASSUME IInv, PeerPublishes
  PROVE  /\ changes' \in 0..MaxChanges
         /\ \E d \in Device, b \in Bundle, v \in Value : Publish(d, b, v)
<1>1. changes' \in 0..MaxChanges
  BY ChangesAssumption DEF IInv, LookupTypeOK, PeerPublishes
<1>2. \A token \in Token : [token |-> token, version |-> changes'] \in Value
  BY <1>1 DEF Value, Entry
<1>3. NoEntry \in Value /\ Corrupt \in Value
  BY DEF Value
<1> QED
  BY <1>1, <1>2, <1>3 DEF PeerPublishes

LEMMA PeerPublishesKeeps ==
  ASSUME IInv, PeerPublishes
  PROVE  IInv'
<1> USE DEF IInv
<1>1. PICK d \in Device, b \in Bundle, v \in Value : Publish(d, b, v)
  BY PeerPublishesValue
<1>2. /\ published' = [published EXCEPT ![d][b] = v]
      /\ seen' = [t \in Thread |-> IF Asking(t) /\ ask[t].device = d
                                   THEN seen[t] \cup {published'[d]} ELSE seen[t]]
      /\ UNCHANGED <<ask, result>>
      /\ UNCHANGED <<local, online, sync, pc, uuid, callback, kvOpen, asked, faults, spoilt>>
  BY <1>1 DEF Publish, PeerPublishes, storeVars, threadVars
<1>3. published' \in [Device -> [Bundle -> Value]]
  <2>1. published'[d] = [published[d] EXCEPT ![b] = v] /\ published[d] \in [Bundle -> Value]
    BY <1>2 DEF LookupTypeOK
  <2>2. published' = [published EXCEPT ![d] = published'[d]] /\ published'[d] \in [Bundle -> Value]
    BY <1>2, <2>1 DEF LookupTypeOK
  <2> QED
    BY <2>2 DEF LookupTypeOK
<1>4. seen' \in [Thread -> SUBSET [Bundle -> Value]]
  BY <1>2, <1>3 DEF LookupTypeOK
<1>5. LookupTypeOK'
  BY <1>2, <1>3, <1>4, PeerPublishesValue DEF LookupTypeOK
<1>6. \A t \in Thread : seen[t] \subseteq seen'[t]
  BY <1>2
<1>7. QuestionOK'
  <2> SUFFICES ASSUME NEW t \in Thread, Asking(t)
               PROVE  published'[Peer(t)] \in seen'[t]
    BY <1>2 DEF QuestionOK, Asking, Peer
  <2>1. published[Peer(t)] \in seen[t] /\ Peer(t) \in Device
    BY AskedIsQuestion DEF QuestionOK
  <2>2. CASE Peer(t) = d
    BY <1>2, <2>2 DEF Peer
  <2>3. CASE Peer(t) # d
    BY <1>2, <1>6, <2>1, <2>3 DEF LookupTypeOK
  <2> QED
    BY <2>2, <2>3
<1>8. OwnCallback' /\ SyncOK' /\ CallbackOK'
  BY <1>2 DEF OwnCallback, SyncOK, CallbackOK, Asking, Peer
<1>9. Current'
  BY <1>2, <1>6 DEF Current, HasCopy, Peer
<1> QED
  BY <1>5, <1>7, <1>8, <1>9

\* Steps that touch neither questions nor the store's entries.
LEMMA OthersKeep ==
  ASSUME IInv, PeerMoves \/ OtherGetKvStore \/ UNCHANGED vars
  PROVE  IInv'
<1> USE DEF IInv
<1>1. /\ UNCHANGED <<published, ask, seen, result, local, sync>>
      /\ UNCHANGED <<pc, uuid, callback, asked, changes, spoilt>>
  BY DEF PeerMoves, OtherGetKvStore, vars, readVars, storeVars, threadVars
<1>2. online' \subseteq Device \ {Self}
  BY DEF PeerMoves, OtherGetKvStore, vars, storeVars, LookupTypeOK
<1>3. kvOpen' \in BOOLEAN
  BY DEF PeerMoves, OtherGetKvStore, vars, LookupTypeOK
<1>4. faults' \in 0..MaxFaults
  BY FaultType DEF PeerMoves, OtherGetKvStore, vars, LookupTypeOK, NoFault
<1>5. LookupTypeOK'
  BY <1>1, <1>2, <1>3, <1>4 DEF LookupTypeOK
<1>6. QuestionOK' /\ OwnCallback' /\ SyncOK' /\ CallbackOK' /\ Current'
  BY <1>1 DEF QuestionOK, OwnCallback, SyncOK, CallbackOK, Current, HasCopy, Asking, Peer
<1> QED
  BY <1>5, <1>6

LEMMA NextKeeps == IInv /\ [Next]_vars => IInv'
<1> SUFFICES ASSUME IInv, [Next]_vars PROVE IInv'
  OBVIOUS
<1>1. ASSUME NEW t \in Thread, Begin(t) \/ Step(t) PROVE IInv'
  BY <1>1, BeginKeeps, CheckKvStoreKeeps, GetUdidKeeps, GetUuidKeeps, StartSyncKeeps,
     GetResultCodeKeeps, GetKeeps, EraseKeeps DEF Step
<1>2. ASSUME NEW c \in Number, Exchange(c) \/ SyncCompleted(c) PROVE IInv'
  BY <1>2, ExchangeKeeps, SyncCompletedKeeps
<1>3. CASE PeerPublishes
  BY <1>3, PeerPublishesKeeps
<1>4. CASE PeerMoves \/ OtherGetKvStore \/ UNCHANGED vars
  BY <1>4, OthersKeep
<1> QED
  BY <1>1, <1>2, <1>3, <1>4 DEF Next

LEMMA Invariance == Spec => []IInv
<1> QED
  BY InitInv, NextKeeps, PTL DEF Spec

-----------------------------------------------------------------------------
(* The theorems. *)

\* Every reachable state of the reading half is well typed: no report of the
\* store, late or repeated, leaves a promise with anything but a status
\* (SyncCompleted, distributed_data_storage.cpp:553-571).
THEOREM LookupTypeCorrect == Spec => []LookupTypeOK
<1>1. IInv => LookupTypeOK
  BY DEF IInv
<1> QED
  BY <1>1, Invariance, PTL

\* A step of the code is a step of RemoteRead or leaves its variables alone.
LEMMA StepRefines ==
  ASSUME IInv, Next
  PROVE  ReadNext \/ UNCHANGED readVars
<1>1. ASSUME NEW t \in Thread, Begin(t) PROVE ReadNext
  BY <1>1 DEF Begin, ReadNext
<1>2. ASSUME NEW t \in Thread, Fail(t) PROVE ReadNext
  BY <1>2 DEF Fail, Return, ReadNext
<1>3. ASSUME NEW t \in Thread, NEW label, Goto(t, label) PROVE UNCHANGED readVars
  BY <1>3 DEF Goto
<1>4. ASSUME NEW t \in Thread, Get(t) PROVE ReadNext \/ UNCHANGED readVars
  <2>1. GetEnds(t) /\ pc[t] = "get"
    BY <1>4, GetCases DEF Get
  <2>2. CASE Goto(t, "erase")
    BY <1>3, <2>2
  <2>3. CASE Fail(t)
    BY <1>2, <2>3
  <2>4. CASE Return(t, [status |-> "notExist"])
    BY <2>4 DEF Return, ReadNext
  <2>5. CASE \E a \in Answers(ask[t], local[Peer(t)]) : Return(t, [status |-> "ok", answer |-> a])
    <3>1. PICK a \in Answers(ask[t], local[Peer(t)]) : Return(t, [status |-> "ok", answer |-> a])
      BY <2>5
    <3>2. a \in Entry \cup Bundle /\ True(ask[t], a, seen[t])
      BY <2>1, AnswerIsTrue
    <3>3. Answer(t, [status |-> "ok", answer |-> a])
      BY <3>1 DEF Return
    <3> QED
      BY <3>2, <3>3 DEF ReadNext
  <2> QED
    BY <2>1, <2>2, <2>3, <2>4, <2>5 DEF GetEnds
<1>5. ASSUME NEW t \in Thread, Erase(t) PROVE ReadNext
  BY <1>5 DEF Erase, ReadNext
<1>6. ASSUME NEW t \in Thread, Step(t) PROVE ReadNext \/ UNCHANGED readVars
  <2>1. CASE CheckKvStore(t) \/ GetUdid(t) \/ GetUuid(t) \/ StartSync(t) \/ GetResultCode(t)
    BY <1>2, <1>3, <2>1 DEF CheckKvStore, GetUdid, GetUuid, StartSync, GetResultCode
  <2> QED
    BY <1>4, <1>5, <1>6, <2>1 DEF Step
<1>7. ASSUME NEW c \in Number, Exchange(c) \/ SyncCompleted(c) PROVE UNCHANGED readVars
  BY <1>7 DEF Exchange, SyncCompleted, readVars
<1>8. CASE PeerPublishes
  BY <1>8, PeerPublishesValue DEF ReadNext
<1>9. CASE PeerMoves \/ OtherGetKvStore
  BY <1>9 DEF PeerMoves, OtherGetKvStore, readVars
<1> QED
  BY <1>1, <1>6, <1>7, <1>8, <1>9 DEF Next

\* The code implements RemoteRead: every answer is true of what the peer had
\* published at a moment since the question, whatever the reports
\* (GetStorageDistributeInfo and GetDistributedBundleName, :172-268).
THEOREM AnswersAreTrue == Spec => ReadSpec
<1>1. Init => ReadInit
  BY DEF Init
<1>2. IInv /\ [Next]_vars => [ReadNext]_readVars
  <2>1. UNCHANGED vars => UNCHANGED readVars
    BY DEF vars, readVars
  <2> QED
    BY <2>1, StepRefines
<1> QED
  BY <1>1, <1>2, Invariance, PTL DEF Spec, ReadSpec

\* What a thread is told of a token is only told at Get.
NotExistStep ==
    \A t \in Thread :
         result'[t] # result[t] /\ result'[t] = [status |-> "notExist"] =>
           \/ t \in spoilt
           \/ \E s \in seen[t] : Answers(ask[t], s) = {}

\* A token is said to belong to no bundle only when that was so of the peer,
\* or another question's deletion has not been made good (:241-267, :208).
THEOREM NotExistHonest == Spec => NotExistIsHonest
<1>1. IInv /\ [Next]_vars => NotExistStep \/ UNCHANGED vars
  <2> SUFFICES ASSUME IInv, Next, NEW t \in Thread,
                      result'[t] # result[t], result'[t] = [status |-> "notExist"]
               PROVE  t \in spoilt \/ \E s \in seen[t] : Answers(ask[t], s) = {}
    BY DEF NotExistStep
  <2>1. ASSUME NEW s \in Thread, NEW r, Answer(s, r) PROVE s = t /\ r = [status |-> "notExist"]
    BY <2>1 DEF Answer, IInv, LookupTypeOK
  <2>2. ~UNCHANGED readVars
    BY DEF readVars
  <2>3. ASSUME NEW s \in Thread PROVE ~Begin(s) /\ ~Fail(s) /\ ~Erase(s)
    <3>1. ASSUME Begin(s) PROVE FALSE
      BY <3>1 DEF Begin, Ask, NoResult, IInv, LookupTypeOK
    <3>2. ~Fail(s)
      BY <2>1 DEF Fail, Return
    <3>3. ~Erase(s)
      BY <2>1 DEF Erase
    <3> QED
      BY <3>1, <3>2, <3>3
  <2>4. PICK s \in Thread : Get(s)
    <3>1. ASSUME NEW s \in Thread
          PROVE  ~(CheckKvStore(s) \/ GetUdid(s) \/ GetUuid(s) \/ StartSync(s) \/ GetResultCode(s))
      BY <2>2, <2>3 DEF CheckKvStore, GetUdid, GetUuid, StartSync, GetResultCode, Goto
    <3>2. ASSUME NEW c \in Number PROVE ~(Exchange(c) \/ SyncCompleted(c))
      BY <2>2 DEF Exchange, SyncCompleted
    <3>3. ~PeerPublishes
      BY PeerPublishesValue DEF Publish
    <3>4. ~PeerMoves /\ ~OtherGetKvStore
      BY <2>2 DEF PeerMoves, OtherGetKvStore
    <3> QED
      BY <2>3, <3>1, <3>2, <3>3, <3>4 DEF Next, Step
  <2>5. GetEnds(s) /\ pc[s] = "get"
    BY <2>4, GetCases DEF Get
  <2>6. ~(Goto(s, "erase") \/ Fail(s))
    BY <2>2, <2>3 DEF Goto
  <2>7. ~(\E a \in Answers(ask[s], local[Peer(s)]) : Return(s, [status |-> "ok", answer |-> a]))
    <3>1. \A a : [status |-> "ok", answer |-> a] # [status |-> "notExist"]
      <4>1. \A a : [status |-> "ok", answer |-> a].status # [status |-> "notExist"].status
        OBVIOUS
      <4> QED
        BY <4>1
    <3>2. ASSUME NEW a, Return(s, [status |-> "ok", answer |-> a]) PROVE FALSE
      <4>1. Answer(s, [status |-> "ok", answer |-> a])
        BY <3>2 DEF Return
      <4> QED
        BY <2>1, <3>1, <4>1
    <3> QED
      BY <3>2
  <2>8. Answers(ask[s], local[Peer(s)]) = {} /\ s = t
    BY <2>1, <2>5, <2>6, <2>7 DEF GetEnds, Return
  <2>9. HasCopy(t)
    BY <2>5, <2>8 DEF HasCopy
  <2> QED
    BY <2>8, <2>9 DEF IInv, Current
<1> QED
  BY <1>1, Invariance, PTL DEF Spec, NotExistIsHonest, NotExistStep
=============================================================================
