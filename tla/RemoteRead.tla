----------------------------- MODULE RemoteRead -----------------------------
(***************************************************************************)
(* What a question about a peer's bundles promises: an answer is true of   *)
(* what the peer published at one moment between question and answer.      *)
(* The peer's d-bms publishes, readers ask and are answered or told of a   *)
(* failure; there is no store, no synchronisation and no time.             *)
(***************************************************************************)
EXTENDS Naturals

CONSTANTS Thread,      \* the threads that ask
          Device,      \* the devices, by udid
          Bundle,
          Token,       \* access token ids
          NoEntry,     \* nothing is published of the bundle
          Corrupt,     \* a value FromJsonString rejects
          MaxChanges   \* bound on the changes of what is published

ASSUME ChangesAssumption == MaxChanges \in Nat

\* A published description: the attribute that is asked for, and a version
\* that tells it from what was published before.
Entry == [token : Token, version : 0..MaxChanges]
Value == Entry \cup {NoEntry, Corrupt}
ASSUME ValueAssumption == NoEntry \notin Entry /\ Corrupt \notin Entry

Parses(v) == v \notin {NoEntry, Corrupt}

\* GetStorageDistributeInfo asks for a bundle's description,
\* GetDistributedBundleName for the bundle that has a token.
Question == [op : {"info"}, device : Device, bundle : Bundle]
              \cup [op : {"name"}, device : Device, token : Token]
NoQuestion == [op |-> "none"]

VARIABLES published,   \* published[d][b]: what d has published of b
          ask,         \* ask[t]: the question t is at work on
          seen,        \* seen[t]: what the device asked about has published since
          result       \* result[t]: the last answer t got

readVars == <<published, ask, seen, result>>

\* The answers to q that are true of the entries s of the device asked about.
Answers(q, s) ==
    IF q.op = "info" THEN {s[q.bundle]} \ {NoEntry, Corrupt}
    ELSE {b \in Bundle : Parses(s[b]) /\ s[b].token = q.token}

Asking(t) == ask[t] # NoQuestion
NoResult == [status |-> "none"]
Result == [status : {"none", "failed", "notExist"}]
            \cup [status : {"ok"}, answer : Entry \cup Bundle]

ReadInit ==
    /\ published \in [Device -> [Bundle -> [token : Token, version : {0}] \cup {NoEntry}]]
    /\ ask = [t \in Thread |-> NoQuestion]
    /\ seen = [t \in Thread |-> {}]
    /\ result = [t \in Thread |-> NoResult]

Publish(d, b, v) ==
    /\ published' = [published EXCEPT ![d][b] = v]
    /\ seen' = [t \in Thread |-> IF Asking(t) /\ ask[t].device = d
                                 THEN seen[t] \cup {published'[d]} ELSE seen[t]]
    /\ UNCHANGED <<ask, result>>

Ask(t, q) ==
    /\ ~Asking(t)
    /\ ask' = [ask EXCEPT ![t] = q]
    /\ seen' = [seen EXCEPT ![t] = {published[q.device]}]
    /\ result' = [result EXCEPT ![t] = NoResult]
    /\ UNCHANGED published

Answer(t, r) ==
    /\ Asking(t)
    /\ ask' = [ask EXCEPT ![t] = NoQuestion]
    /\ seen' = [seen EXCEPT ![t] = {}]
    /\ result' = [result EXCEPT ![t] = r]
    /\ UNCHANGED published

True(q, a, S) == \E s \in S : a \in Answers(q, s)

ReadNext ==
    \/ \E d \in Device, b \in Bundle, v \in Value : Publish(d, b, v)
    \/ \E t \in Thread, q \in Question : Ask(t, q)
    \/ \E t \in Thread :
         \/ \E f \in {"failed", "notExist"} : Answer(t, [status |-> f])
         \/ \E a \in Entry \cup Bundle :
              True(ask[t], a, seen[t]) /\ Answer(t, [status |-> "ok", answer |-> a])

\* Every answer is true of a moment since the question (GetStorageDistributeInfo
\* and GetDistributedBundleName answer from the store only after a
\* synchronisation they asked for, distributed_data_storage.cpp:186-190, 235-239).
ReadSpec == ReadInit /\ [][ReadNext]_readVars
=============================================================================
