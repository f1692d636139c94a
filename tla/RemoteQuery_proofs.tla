------------------------- MODULE RemoteQuery_proofs -------------------------
(***************************************************************************)
(* Proofs about RemoteQuery: every answer is whole, of one user, true      *)
(* since the check of its name, and admitted by that check if its request  *)
(* has a record.  The inductive invariant follows a call along its way:    *)
(* what was asked is complete from the moment a peer is looked for, the    *)
(* answers so far are for the first names, and what has been read for the  *)
(* current name is in the history of that name.                            *)
(***************************************************************************)
EXTENDS RemoteQuery, SequenceTheorems, TLAPS

Going == {"acl", "send", "resend"} \cup InCall

Complete(q) == \A i \in 1..Len(q.names) : CheckElementName(q.names[i])

\* A query that may be sent to a peer.
Whole(q) == q.op \notin Stored /\ Len(q.names) \in 1..MaxSize /\ Complete(q)

AskOK(r) ==
    /\ pc[r] # "idle" => ask[r] \in Query /\ result[r] = NoResult
    /\ pc[r] = "host" => /\ ask[r].op \notin Stored
                         /\ ask[r].op \in Batch => Complete(ask[r])
    /\ pc[r] \in Going => Whole(ask[r])

DoneOK(r) ==
    /\ pc[r] \notin AtPeer \cup {"check", "reply"} => done[r] = <<>>
    /\ pc[r] \in AtPeer \cup {"check"} => Len(done[r]) < Len(ask[r].names)
    /\ pc[r] = "reply" => Len(done[r]) = Len(ask[r].names)
    /\ \A i \in 1..Len(done[r]) : done[r][i].name = ask[r].names[i]

\* The history of a name begins with its check.
HistoryOK(r) ==
    pc[r] \in AtPeer =>
        /\ active[Peer(r)] \in users[r]
        /\ checked[r] \in users[r]
        /\ aclInfo[r] # "none" => <<Peer(r), checked[r]>> \in Trusted
        /\ \A u \in User : <<u, shown[Peer(r)][u][Current(r).ability]>> \in facts[r]

\* v was read for r's current name, and what would be read now is no older.
ReadOK(r, v) ==
    /\ <<work[r].user, v>> \in facts[r]
    /\ 0 < v /\ v <= changes + 1
    /\ Reading(r) = 0 \/ v <= Reading(r)

WorkOK(r) ==
    /\ pc[r] \in {"query", "label", "icon"} => work[r].user \in users[r] \cap User
    /\ pc[r] \in {"label", "icon"} => ReadOK(r, work[r].info)
    /\ pc[r] = "icon" => ReadOK(r, work[r].label) /\ work[r].info <= work[r].label

AnswerOK(r) ==
    result[r].status = "ok" =>
        [i \in DOMAIN result[r].items |-> result[r].items[i].name] = ask[r].names

CallOK(r) == AskOK(r) /\ DoneOK(r) /\ HistoryOK(r) /\ WorkOK(r) /\ AnswerOK(r)

VersionsOK == \A d \in Device, u \in User, a \in Ability : shown[d][u][a] <= changes + 1

Inv == QueryTypeOK /\ VersionsOK /\ \A r \in Caller : CallOK(r)

-----------------------------------------------------------------------------
(* What the steps have in common. *)

CallType ==
    /\ pc \in [Caller -> Pc]
    /\ ask \in [Caller -> Query \cup {NoQuery}]
    /\ result \in [Caller -> Result]
    /\ remote \in [Caller -> 0..MaxDeaths]
    /\ aclInfo \in [Caller -> AclInfo]
    /\ work \in [Caller -> Work]
    /\ done \in [Caller -> Seq(Item)] /\ \A r \in Caller : Len(done[r]) <= MaxSize
    /\ checked \in [Caller -> User \cup {NoUser}]
    /\ users \in [Caller -> SUBSET (User \cup {NoUser})]
    /\ facts \in [Caller -> SUBSET (User \X Version)]

PeerType ==
    /\ running \subseteq Device /\ bundleMgr \subseteq Device
    /\ deaths \in [Device -> 0..MaxDeaths]
    /\ active \in [Device -> User \cup {NoUser}]
    /\ shown \in [Device -> [User -> [Ability -> Version]]]
    /\ changes \in 0..MaxChanges

LEMMA TypeParts == QueryTypeOK <=> CallType /\ PeerType /\ faults \in 0..MaxFaults
BY DEF QueryTypeOK, CallType, PeerType

LEMMA InvParts ==
  Inv <=> CallType /\ PeerType /\ faults \in 0..MaxFaults /\ VersionsOK
            /\ \A r \in Caller : CallOK(r)
BY TypeParts DEF Inv

Unmoved(s) ==
    /\ pc'[s] = pc[s] /\ ask'[s] = ask[s] /\ result'[s] = result[s]
    /\ aclInfo'[s] = aclInfo[s] /\ work'[s] = work[s] /\ done'[s] = done[s]
    /\ checked'[s] = checked[s] /\ users'[s] = users[s] /\ facts'[s] = facts[s]

\* A call is not disturbed by the steps of others.
LEMMA UnmovedOK ==
  ASSUME NEW s \in Caller, CallOK(s), Unmoved(s), UNCHANGED <<active, shown, changes>>
  PROVE  CallOK(s)'
<1>1. Peer(s)' = Peer(s) /\ Current(s)' = Current(s) /\ Reading(s)' = Reading(s)
  BY DEF Unmoved, Peer, Current, Reading
<1>2. \A v : ReadOK(s, v) <=> ReadOK(s, v)'
  BY <1>1 DEF Unmoved, ReadOK
<1>3. AskOK(s)'
  BY DEF CallOK, AskOK, Unmoved
<1>4. DoneOK(s)'
  BY DEF CallOK, DoneOK, Unmoved
<1>5. HistoryOK(s)'
  BY <1>1 DEF CallOK, HistoryOK, Unmoved
<1>6. WorkOK(s)'
  BY <1>2 DEF CallOK, WorkOK, Unmoved
<1>7. AnswerOK(s)'
  BY DEF CallOK, AnswerOK, Unmoved
<1>. QED
  BY <1>3, <1>4, <1>5, <1>6, <1>7 DEF CallOK

\* What a step of r leaves as it is, or merely well typed, on the peers.
Frame(r) ==
    /\ UNCHANGED <<running, deaths, active, shown, changes>>
    /\ bundleMgr' \subseteq Device
    /\ faults' \in 0..MaxFaults

LEMMA StepParts ==
  ASSUME Inv, NEW r \in Caller, Frame(r), CallType', CallOK(r)',
         \A s \in Caller \ {r} : Unmoved(s)
  PROVE  Inv'
<1>1. \A s \in Caller : CallOK(s)'
  BY UnmovedOK DEF Inv, Frame
<1>2. PeerType' /\ VersionsOK'
  BY InvParts DEF PeerType, VersionsOK, Frame
<1>. QED
  BY <1>1, <1>2 DEF Frame, Inv, QueryTypeOK, CallType, PeerType

LEMMA FaultType ==
  ASSUME Inv, Fault \/ NoFault
  PROVE  faults' \in 0..MaxFaults
BY ConstantsAssumption DEF Inv, QueryTypeOK, Fault, NoFault

LEMMA FaultUnlessType ==
  ASSUME Inv, NEW ok, FaultUnless(ok)
  PROVE  faults' \in 0..MaxFaults
BY FaultType DEF FaultUnless

LEMMA EmptyDone == <<>> \in Seq(Item) /\ Len(<<>>) = 0
BY EmptySeq

\* A call returns: with a failure, with what is stored, or with the answers
\* of all its names.
LEMMA ReturnInv ==
  ASSUME Inv, NEW r \in Caller, NEW res \in Result, Return(r, res), Frame(r),
         res.status = "ok" =>
           [i \in DOMAIN res.items |-> res.items[i].name] = ask[r].names
  PROVE  Inv'
<1>1. CallType
  BY InvParts
<1>2. CallType'
  <2>1. /\ pc' \in [Caller -> Pc] /\ ask' = ask
        /\ result' \in [Caller -> Result]
        /\ remote' \in [Caller -> 0..MaxDeaths]
        /\ aclInfo' \in [Caller -> AclInfo]
    BY <1>1, ConstantsAssumption DEF CallType, Return, Pc, AclInfo
  <2>2. work' \in [Caller -> Work]
    BY <1>1, ConstantsAssumption DEF CallType, Return, NoWork, Work, Version
  <2>3. /\ done' \in [Caller -> Seq(Item)]
        /\ \A s \in Caller : Len(done'[s]) <= MaxSize
    BY <1>1, EmptyDone, ConstantsAssumption DEF CallType, Return
  <2>4. /\ checked' \in [Caller -> User \cup {NoUser}]
        /\ users' \in [Caller -> SUBSET (User \cup {NoUser})]
        /\ facts' \in [Caller -> SUBSET (User \X Version)]
    BY <1>1 DEF CallType, Return
  <2>. QED
    BY <1>1, <2>1, <2>2, <2>3, <2>4 DEF CallType
<1>3. /\ pc'[r] = "idle" /\ done'[r] = <<>> /\ result'[r] = res /\ ask'[r] = ask[r]
      /\ \A s \in Caller \ {r} : Unmoved(s)
  BY <1>1 DEF Return, CallType, Unmoved
<1>4. CallOK(r)'
  BY <1>3, EmptyDone DEF CallOK, AskOK, DoneOK, HistoryOK, WorkOK, AnswerOK, Going, InCall, AtPeer
<1>. QED
  BY <1>2, <1>3, <1>4, StepParts

LEMMA FailInv ==
  ASSUME Inv, NEW r \in Caller, Fail(r), Frame(r)
  PROVE  Inv'
<1>1. [status |-> "failed"] \in Result
  BY DEF Result
<1>. QED
  BY <1>1, ReturnInv DEF Fail

LEMMA GotoParts ==
  ASSUME Inv, NEW r \in Caller, NEW label \in Pc, Goto(r, label)
  PROVE  /\ pc' \in [Caller -> Pc] /\ pc'[r] = label
         /\ ask' = ask /\ result' = result
         /\ \A s \in Caller \ {r} : pc'[s] = pc[s]
BY DEF Goto, Inv, QueryTypeOK

\* A call goes on towards its first name.
LEMMA MoveInv ==
  ASSUME Inv, NEW r \in Caller, NEW label, Goto(r, label), Frame(r),
         pc[r] \in {"proxy", "host", "acl", "send", "resend", "accept"},
         label \in {"host", "stored", "acl", "send", "resend", "accept", "check"},
         label = "host" => ask[r].op \notin Stored /\ (ask[r].op \in Batch => Complete(ask[r])),
         label \in Going => Whole(ask[r]),
         remote' \in [Caller -> 0..MaxDeaths], aclInfo' \in [Caller -> AclInfo],
         \A s \in Caller \ {r} : aclInfo'[s] = aclInfo[s],
         UNCHANGED <<work, done, checked, users, facts>>
  PROVE  Inv'
<1>1. CallType /\ CallOK(r)
  BY InvParts
<1>2. label \in Pc
  BY DEF Pc, InCall
<1>3. /\ pc' \in [Caller -> Pc] /\ pc'[r] = label
      /\ ask' = ask /\ result' = result
      /\ \A s \in Caller \ {r} : pc'[s] = pc[s]
  BY <1>2, GotoParts
<1>4. CallType'
  BY <1>1, <1>3 DEF CallType
<1>5. AskOK(r)'
  BY <1>1, <1>3 DEF CallOK, AskOK, Whole, Complete
<1>6. DoneOK(r)'
  <2>1. done[r] = <<>> /\ Len(done[r]) = 0
    BY <1>1, EmptyDone DEF CallOK, DoneOK, AtPeer
  <2>2. label = "check" => Len(done[r]) < Len(ask[r].names)
    <3> SUFFICES ASSUME label = "check" PROVE Len(done[r]) < Len(ask[r].names)
      OBVIOUS
    <3>1. Len(ask[r].names) \in 1..MaxSize
      BY DEF Going, InCall, Whole
    <3>. QED
      BY <2>1, <3>1, ConstantsAssumption
  <2>. QED
    BY <1>3, <2>1, <2>2 DEF DoneOK, AtPeer
<1>7. HistoryOK(r)' /\ WorkOK(r)' /\ AnswerOK(r)'
  BY <1>1, <1>3 DEF CallOK, HistoryOK, WorkOK, AnswerOK, AtPeer
<1>8. \A s \in Caller \ {r} : Unmoved(s)
  BY <1>3 DEF Unmoved
<1>. QED
  BY <1>4, <1>5, <1>6, <1>7, <1>8, StepParts DEF CallOK

-----------------------------------------------------------------------------
(* The steps before the peer. *)

LEMMA AskInv == ASSUME Inv, NEW r \in Caller, Ask(r) PROVE Inv'
<1>1. CallType /\ CallOK(r)
  BY InvParts
<1>2. PICK q \in Query : ask' = [ask EXCEPT ![r] = q]
  BY DEF Ask
<1>3. CallType'
  BY <1>1, <1>2 DEF CallType, Ask, Pc, Result, NoResult
<1>4. /\ pc[r] = "idle" /\ pc'[r] = "proxy" /\ ask'[r] = q /\ result'[r] = NoResult
      /\ UNCHANGED <<work, done, checked, users, facts>>
      /\ \A s \in Caller \ {r} : Unmoved(s)
  BY <1>1, <1>2 DEF CallType, Ask, Unmoved
<1>5. done[r] = <<>> /\ Len(done[r]) = 0
  BY <1>1, <1>4, EmptyDone DEF CallOK, DoneOK, AtPeer
<1>6. CallOK(r)'
  BY <1>4, <1>5 DEF CallOK, AskOK, DoneOK, HistoryOK, WorkOK, AnswerOK, Going, InCall, AtPeer,
                    NoResult
<1>7. Frame(r)
  BY DEF Ask, Frame, peerVars, Inv, QueryTypeOK
<1>. QED
  BY <1>3, <1>4, <1>6, <1>7, StepParts

\* A step that changes at most faults outside the calls.
LEMMA QuietFrame ==
  ASSUME Inv, NEW r \in Caller, UNCHANGED peerVars, faults' \in 0..MaxFaults
  PROVE  Frame(r)
BY DEF Frame, peerVars, Inv, QueryTypeOK

LEMMA HandleType ==
  ASSUME Inv
  PROVE  remote \in [Caller -> 0..MaxDeaths] /\ aclInfo \in [Caller -> AclInfo]
BY DEF Inv, QueryTypeOK

LEMMA ProxyInv ==
  ASSUME Inv, NEW r \in Caller, ProxyOfAbilities(r) \/ ProxyOfBundles(r)
  PROVE  Inv'
<1>1. Frame(r)
  BY FaultType, FaultUnlessType, QuietFrame DEF ProxyOfAbilities, ProxyOfBundles
<1>2. CASE Fail(r)
  BY <1>1, <1>2, FailInv
<1>3. ask[r] \in Query /\ pc[r] = "proxy"
  BY DEF ProxyOfAbilities, ProxyOfBundles, Inv, CallOK, AskOK
<1>4. CASE /\ ask[r].op \in Batch /\ \A n \in Names(r) : CheckElementName(n)
           /\ Goto(r, "host") /\ UNCHANGED <<remote, aclInfo, work, done, checked, users, facts>>
  <2>1. DOMAIN ask[r].names = 1..Len(ask[r].names)
    BY <1>3, QueryAssumption
  <2>2. Complete(ask[r]) /\ ask[r].op \notin Stored
    BY <1>4, <2>1 DEF Complete, Names, Batch, Stored
  <2>. QED
    BY <1>1, <1>3, <1>4, <2>2, HandleType, MoveInv DEF Going, InCall, AtPeer
<1>5. CASE /\ ask[r].op \notin Batch
           /\ Goto(r, IF ask[r].op \in Stored THEN "stored" ELSE "host")
           /\ UNCHANGED <<remote, aclInfo, work, done, checked, users, facts>>
  <2>1. CASE ask[r].op \in Stored
    BY <1>1, <1>3, <1>5, <2>1, HandleType, MoveInv DEF Going, InCall, AtPeer
  <2>2. CASE ask[r].op \notin Stored
    BY <1>1, <1>3, <1>5, <2>2, HandleType, MoveInv DEF Going, InCall, AtPeer
  <2>. QED
    BY <2>1, <2>2
<1>. QED
  BY <1>2, <1>4, <1>5 DEF ProxyOfAbilities, ProxyOfBundles

LEMMA FindInv ==
  ASSUME Inv, NEW r \in Caller, NEW allowed \in BOOLEAN, pc[r] = "host", Find(r, allowed),
         allowed => Whole(ask[r]), allowed => Peer(r) \in Device \cup {Nothing}
  PROVE  Inv'
<1>1. Frame(r)
  BY QuietFrame DEF Find, Inv, QueryTypeOK
<1>2. CASE Fail(r)
  BY <1>1, <1>2, FailInv
<1>3. CASE /\ allowed /\ Peer(r) \in running
           /\ Goto(r, "acl")
           /\ remote' = [remote EXCEPT ![r] = deaths[Peer(r)]]
           /\ UNCHANGED <<aclInfo, work, done, checked, users, facts>>
  <2>1. remote' \in [Caller -> 0..MaxDeaths]
    BY <1>3 DEF Inv, QueryTypeOK
  <2>. QED
    BY <1>1, <1>3, <2>1, HandleType, MoveInv
<1>. QED
  BY <1>2, <1>3 DEF Find

LEMMA HostInv ==
  ASSUME Inv, NEW r \in Caller, GetRemoteAbilityInfos(r) \/ GetRemoteBundleVersionCode(r)
  PROVE  Inv'
<1>1. pc[r] = "host" /\ ask[r] \in Query /\ ask[r].op \notin Stored
      /\ (ask[r].op \in Batch => Complete(ask[r]))
  BY DEF GetRemoteAbilityInfos, GetRemoteBundleVersionCode, Inv, CallOK, AskOK
<1>2. ask[r].names \in Seq(Name)
  BY <1>1, QueryAssumption
<1>3. Len(ask[r].names) \in Nat \ {0} => Peer(r) \in Device \cup {Nothing}
  <2> SUFFICES ASSUME Len(ask[r].names) \in Nat \ {0}
               PROVE  Peer(r) \in Device \cup {Nothing}
    OBVIOUS
  <2>1. 1 \in 1..Len(ask[r].names)
    OBVIOUS
  <2>2. ask[r].names[1] \in Name
    BY <1>2, <2>1, ElementOfSeq
  <2>. QED
    BY <2>2 DEF Peer, Name
<1>4. CASE GetRemoteAbilityInfos(r)
  <2> DEFINE allowed == Len(ask[r].names) \in 1..MaxSize
  <2>1. allowed \in BOOLEAN
    OBVIOUS
  <2>2. ask[r].op \in Batch /\ Find(r, allowed)
    BY <1>4 DEF GetRemoteAbilityInfos
  <2>3. allowed => Whole(ask[r])
    BY <1>1, <2>2 DEF Whole
  <2>4. allowed => Peer(r) \in Device \cup {Nothing}
    BY <1>3, ConstantsAssumption
  <2> HIDE DEF allowed
  <2>. QED
    BY <1>1, <2>1, <2>2, <2>3, <2>4, FindInv
<1>5. CASE GetRemoteBundleVersionCode(r)
  <2> DEFINE allowed == CheckElementName(ask[r].names[1])
  <2>1. ask[r].op = "version" /\ Find(r, allowed)
    BY <1>5 DEF GetRemoteBundleVersionCode
  <2>2. Len(ask[r].names) = 1
    BY <1>1, <2>1, QueryAssumption
  <2>3. allowed \in BOOLEAN
    BY DEF CheckElementName
  <2>4. allowed => Whole(ask[r])
    BY <1>1, <2>2, ConstantsAssumption DEF Whole, Complete
  <2>5. Peer(r) \in Device \cup {Nothing}
    BY <1>3, <2>2
  <2> HIDE DEF allowed
  <2>. QED
    BY <1>1, <2>1, <2>3, <2>4, <2>5, FindInv
<1>. QED
  BY <1>4, <1>5

LEMMA SendInv ==
  ASSUME Inv, NEW r \in Caller,
         BuildDistributedBmsAclInfo(r) \/ SendAbilities(r) \/ SendVersion(r) \/ Resend(r)
           \/ GetAbilityInfos(r)
  PROVE  Inv'
<1>1. Frame(r)
  BY FaultType, FaultUnlessType, QuietFrame
  DEF BuildDistributedBmsAclInfo, SendAbilities, SendVersion, Resend, GetAbilityInfos
<1>2. CASE Fail(r)
  BY <1>1, <1>2, FailInv
<1>3. pc[r] \in {"acl", "send", "resend", "accept"} /\ Whole(ask[r])
  BY DEF BuildDistributedBmsAclInfo, SendAbilities, SendVersion, Resend, GetAbilityInfos,
         Inv, CallOK, AskOK, Going, InCall
<1>4. ASSUME NEW label \in {"send", "resend", "accept", "check"}, Goto(r, label),
             UNCHANGED <<remote, work, done, checked, users, facts>>,
             aclInfo' \in [Caller -> AclInfo], \A s \in Caller \ {r} : aclInfo'[s] = aclInfo[s]
      PROVE  Inv'
  BY <1>1, <1>3, <1>4, HandleType, MoveInv
<1>5. CASE BuildDistributedBmsAclInfo(r)
  <2>1. aclInfo' \in [Caller -> AclInfo] /\ \A s \in Caller \ {r} : aclInfo'[s] = aclInfo[s]
    BY <1>5, HandleType DEF BuildDistributedBmsAclInfo, AclInfo
  <2>. QED
    BY <1>4, <1>5, <2>1 DEF BuildDistributedBmsAclInfo
<1>6. CASE SendAbilities(r) \/ SendVersion(r) \/ Resend(r) \/ GetAbilityInfos(r)
  <2>1. Accepted(r) \in {"accept", "check"}
    BY DEF Accepted
  <2>. QED
    BY <1>2, <1>4, <1>6, <2>1, HandleType
    DEF SendAbilities, SendVersion, Resend, GetAbilityInfos
<1>. QED
  BY <1>5, <1>6

LEMMA GetStoredInv == ASSUME Inv, NEW r \in Caller, GetStored(r) PROVE Inv'
<1>1. Frame(r)
  BY QuietFrame DEF GetStored, Inv, QueryTypeOK
<1>2. CASE Fail(r)
  BY <1>1, <1>2, FailInv
<1>3. ASSUME NEW found \in BOOLEAN, Return(r, [status |-> "stored", found |-> found])
      PROVE  Inv'
  BY <1>1, <1>3, ReturnInv DEF Result
<1>. QED
  BY <1>2, <1>3 DEF GetStored

LEMMA LostInv == ASSUME Inv, NEW r \in Caller, Lost(r) PROVE Inv'
BY FaultUnlessType, QuietFrame, FailInv DEF Lost

\* The reply holds an answer for every name.
LEMMA ReplyInv == ASSUME Inv, NEW r \in Caller, Reply(r) PROVE Inv'
<1> DEFINE res == [status |-> "ok", items |-> done[r]]
<1>1. CallOK(r) /\ done[r] \in Seq(Item)
  BY InvParts DEF CallType
<1>2. pc[r] = "reply" /\ ask[r] \in Query /\ Len(done[r]) = Len(ask[r].names)
  BY <1>1 DEF Reply, CallOK, AskOK, DoneOK
<1>3. ask[r].names \in Seq(Name)
  BY <1>2, QueryAssumption
<1>4. DOMAIN done[r] = 1..Len(done[r]) /\ DOMAIN ask[r].names = 1..Len(done[r])
  BY <1>1, <1>2, <1>3
<1>5. \A i \in 1..Len(done[r]) : done[r][i].name = ask[r].names[i]
  BY <1>1 DEF CallOK, DoneOK
<1>6. ask[r].names = [i \in 1..Len(done[r]) |-> ask[r].names[i]]
  BY <1>2, <1>3, LenProperties
<1>7. [i \in DOMAIN done[r] |-> done[r][i].name] = ask[r].names
  BY <1>4, <1>5, <1>6
<1>8. Frame(r)
  BY QuietFrame DEF Reply, Inv, QueryTypeOK
<1>9. res \in Result
  BY <1>1 DEF Result
<1>. QED
  BY <1>7, <1>8, <1>9, ReturnInv DEF Reply

-----------------------------------------------------------------------------
(* The steps on the peer. *)

\* The peer is at a name: it is one of those asked for, and complete.
LEMMA AtName ==
  ASSUME Inv, NEW r \in Caller, pc[r] \in AtPeer \cup {"check"}
  PROVE  /\ ask[r] \in Query /\ result[r] = NoResult /\ Whole(ask[r])
         /\ ask[r].names \in Seq(Name) /\ Len(ask[r].names) \in 1..MaxSize
         /\ done[r] \in Seq(Item) /\ Len(done[r]) \in Nat
         /\ Len(done[r]) < Len(ask[r].names)
         /\ Peer(r) \in Device /\ Current(r) \in Name /\ Current(r).ability \in Ability
         /\ \A u \in User : shown[Peer(r)][u][Current(r).ability] \in 1..changes + 1 \cup {0}
<1>1. CallType /\ PeerType /\ CallOK(r) /\ VersionsOK
  BY InvParts
<1>2. /\ ask[r] \in Query /\ result[r] = NoResult /\ Whole(ask[r])
      /\ Len(done[r]) < Len(ask[r].names)
  <2>1. pc[r] # "idle" /\ pc[r] \in Going
    BY DEF AtPeer, Going, InCall
  <2>. QED
    BY <1>1, <2>1 DEF CallOK, AskOK, DoneOK
<1>3. ask[r].names \in Seq(Name)
  BY <1>2, QueryAssumption
<1>4. Len(ask[r].names) \in 1..MaxSize
  BY <1>2 DEF Whole
<1>5. done[r] \in Seq(Item) /\ Len(done[r]) \in Nat
  BY <1>1, LenProperties DEF CallType
<1>6. ASSUME NEW i \in 1..Len(ask[r].names)
      PROVE  /\ ask[r].names[i] \in Name
             /\ ask[r].names[i].device \in Device /\ ask[r].names[i].ability \in Ability
  <2>1. ask[r].names[i] \in Name
    BY <1>3, ElementOfSeq
  <2>2. CheckElementName(ask[r].names[i])
    BY <1>2 DEF Whole, Complete
  <2>. QED
    BY <2>1, <2>2 DEF Name, CheckElementName
<1>7. 1 \in 1..Len(ask[r].names) /\ Len(done[r]) + 1 \in 1..Len(ask[r].names)
  BY <1>2, <1>4, <1>5, ConstantsAssumption
<1>8. Peer(r) \in Device /\ Current(r) \in Name /\ Current(r).ability \in Ability
  BY <1>6, <1>7 DEF Peer, Current
<1>9. \A u \in User : shown[Peer(r)][u][Current(r).ability] \in 1..changes + 1 \cup {0}
  <2> SUFFICES ASSUME NEW u \in User
               PROVE  shown[Peer(r)][u][Current(r).ability] \in 1..changes + 1 \cup {0}
    OBVIOUS
  <2>1. /\ shown[Peer(r)][u][Current(r).ability] \in Version
        /\ shown[Peer(r)][u][Current(r).ability] <= changes + 1
    BY <1>1, <1>8 DEF PeerType, VersionsOK
  <2>. QED
    BY <1>1, <2>1, ConstantsAssumption DEF PeerType, Version
<1>. QED
  BY <1>2, <1>3, <1>4, <1>5, <1>8, <1>9

LEMMA CheckInv == ASSUME Inv, NEW r \in Caller, Check(r) PROVE Inv'
<1>1. Frame(r)
  BY FaultType, FaultUnlessType, QuietFrame DEF Check
<1>2. CASE Fail(r)
  BY <1>1, <1>2, FailInv
<1>3. CASE /\ VerifyCallingPermissionOrAclCheck(r) /\ Goto(r, "user")
           /\ checked' = [checked EXCEPT ![r] = active[Peer(r)]]
           /\ users' = [users EXCEPT ![r] = {active[Peer(r)]}]
           /\ facts' = [facts EXCEPT ![r] = Installed(r)]
           /\ UNCHANGED <<remote, aclInfo, work, done>>
  <2>1. CallType /\ PeerType /\ CallOK(r) /\ pc[r] = "check"
    BY InvParts DEF Check
  <2>2. /\ ask[r] \in Query /\ result[r] = NoResult /\ Whole(ask[r])
        /\ Len(done[r]) < Len(ask[r].names)
        /\ Peer(r) \in Device /\ Current(r).ability \in Ability
    BY <2>1, AtName
  <2>3. /\ pc' \in [Caller -> Pc] /\ pc'[r] = "user"
        /\ ask' = ask /\ result' = result
        /\ \A s \in Caller \ {r} : pc'[s] = pc[s]
    BY <1>3, GotoParts DEF Pc, InCall, AtPeer
  <2>4. active[Peer(r)] \in User \cup {NoUser} /\ Installed(r) \in SUBSET (User \X Version)
    BY <2>1, <2>2 DEF PeerType, Installed
  <2>5. CallType'
    BY <1>3, <2>1, <2>3, <2>4 DEF CallType
  <2>6. /\ checked'[r] = active[Peer(r)] /\ users'[r] = {active[Peer(r)]}
        /\ facts'[r] = Installed(r) /\ aclInfo'[r] = aclInfo[r]
    BY <1>3, <2>1 DEF CallType
  <2>7. /\ Peer(r)' = Peer(r) /\ Current(r)' = Current(r)
        /\ UNCHANGED <<active, shown>>
    BY <1>1, <1>3, <2>3 DEF Peer, Current, Frame
  <2>8. HistoryOK(r)'
    BY <1>3, <2>6, <2>7 DEF HistoryOK, Installed, VerifyCallingPermissionOrAclCheck, CheckAclData
  <2>9. CallOK(r)'
    BY <1>3, <2>1, <2>2, <2>3, <2>8
    DEF CallOK, AskOK, DoneOK, WorkOK, AnswerOK, Whole, Complete, AtPeer
  <2>10. \A s \in Caller \ {r} : Unmoved(s)
    BY <1>3, <2>3, <2>1 DEF Unmoved, CallType
  <2>. QED
    BY <1>1, <2>5, <2>9, <2>10, StepParts
<1>. QED
  BY <1>2, <1>3 DEF Check

LEMMA WorkFields ==
  ASSUME NEW k \in Work
  PROVE  /\ \A v \in User : /\ [k EXCEPT !.user = v] \in Work
                           /\ [k EXCEPT !.user = v].user = v
         /\ \A v \in Version : LET w == [k EXCEPT !.info = v]
                             IN  w \in Work /\ w.user = k.user /\ w.info = v
         /\ \A v \in Version : LET w == [k EXCEPT !.label = v]
                             IN  /\ w \in Work /\ w.user = k.user /\ w.label = v
                                 /\ w.info = k.info
BY DEF Work

\* The peer learns more about the current name.
LEMMA LearnInv ==
  ASSUME Inv, NEW r \in Caller, NEW w \in Work, NEW label \in {"query", "label", "icon"},
         pc[r] \in AtPeer, Frame(r), Goto(r, label),
         work' = [work EXCEPT ![r] = w],
         UNCHANGED <<remote, aclInfo, done, checked, users, facts>>,
         WorkOK(r)'
  PROVE  Inv'
<1>1. CallType /\ CallOK(r)
  BY InvParts
<1>2. /\ ask[r] \in Query /\ result[r] = NoResult /\ Whole(ask[r])
      /\ Len(done[r]) < Len(ask[r].names)
  BY AtName
<1>3. /\ pc' \in [Caller -> Pc] /\ pc'[r] = label
      /\ ask' = ask /\ result' = result
      /\ \A s \in Caller \ {r} : pc'[s] = pc[s]
  BY GotoParts DEF Pc, InCall, AtPeer
<1>4. CallType'
  BY <1>1, <1>3 DEF CallType
<1>5. Peer(r)' = Peer(r) /\ Current(r)' = Current(r) /\ UNCHANGED <<active, shown>>
  BY <1>3 DEF Peer, Current, Frame
<1>6. HistoryOK(r)'
  BY <1>1, <1>5 DEF CallOK, HistoryOK
<1>7. AskOK(r)' /\ DoneOK(r)' /\ AnswerOK(r)'
  BY <1>1, <1>2, <1>3 DEF CallOK, AskOK, DoneOK, AnswerOK, Whole, Complete, AtPeer
<1>8. \A s \in Caller \ {r} : Unmoved(s)
  BY <1>1, <1>3 DEF Unmoved, CallType
<1>. QED
  BY <1>4, <1>6, <1>7, <1>8, StepParts DEF CallOK

LEMMA GetUserInv == ASSUME Inv, NEW r \in Caller, GetUser(r) PROVE Inv'
<1>1. pc[r] = "user" /\ CallType /\ PeerType /\ CallOK(r)
  BY InvParts DEF GetUser
<1>2. Peer(r) \in Device
  BY <1>1, AtName DEF AtPeer
<1>3. Frame(r)
  <2>1. faults' \in 0..MaxFaults
    BY FaultType, FaultUnlessType DEF GetUser
  <2>2. bundleMgr' \subseteq Device
    BY <1>1, <1>2 DEF GetUser, PeerType
  <2>. QED
    BY <2>1, <2>2 DEF GetUser, Frame
<1>4. CASE Fail(r)
  BY <1>3, <1>4, FailInv
<1>5. CASE /\ active[Peer(r)] # NoUser
           /\ work' = [work EXCEPT ![r].user = active[Peer(r)]]
           /\ Goto(r, "query")
           /\ UNCHANGED <<remote, aclInfo, done, checked, users, facts>>
  <2>1. active[Peer(r)] \in User /\ active[Peer(r)] \in users[r]
    BY <1>1, <1>2, <1>5 DEF PeerType, CallOK, HistoryOK, AtPeer
  <2>2. work[r] \in Work
    BY <1>1 DEF CallType
  <2>3. PICK w \in Work : work' = [work EXCEPT ![r] = w] /\ w.user = active[Peer(r)]
    BY <1>5, <2>1, <2>2, WorkFields
  <2>4. pc'[r] = "query" /\ work'[r] = w
    BY <1>1, <1>5, <2>3 DEF Goto, CallType
  <2>5. WorkOK(r)'
    BY <1>5, <2>1, <2>3, <2>4 DEF WorkOK
  <2>. QED
    BY <1>1, <1>3, <1>5, <2>3, <2>5, LearnInv DEF AtPeer
<1>. QED
  BY <1>4, <1>5 DEF GetUser

\* What is read now is in the history, and is newer than nothing.
LEMMA ReadingOK ==
  ASSUME Inv, NEW r \in Caller, pc[r] \in {"query", "label", "icon"}, Reading(r) # 0
  PROVE  /\ ReadOK(r, Reading(r)) /\ Reading(r) \in Version
         /\ work[r].user \in users[r] /\ work[r].user \in User
         /\ <<work[r].user, Reading(r)>> \in facts[r]
<1>1. PeerType /\ CallOK(r)
  BY InvParts
<1>2. work[r].user \in users[r] /\ work[r].user \in User
  BY <1>1 DEF CallOK, WorkOK
<1>3. Reading(r) \in 1..changes + 1
  BY <1>2, AtName DEF Reading, AtPeer
<1>4. <<work[r].user, Reading(r)>> \in facts[r]
  BY <1>1, <1>2 DEF CallOK, HistoryOK, Reading, AtPeer
<1>5. changes \in 0..MaxChanges
  BY <1>1 DEF PeerType
<1>. QED
  BY <1>2, <1>3, <1>4, <1>5, ConstantsAssumption DEF ReadOK, Version

LEMMA ReadInv ==
  ASSUME Inv, NEW r \in Caller, QueryAbility(r) \/ GetLabel(r)
  PROVE  Inv'
<1>1. Frame(r)
  BY FaultType, FaultUnlessType, QuietFrame DEF QueryAbility, GetLabel
<1>2. CASE Fail(r)
  BY <1>1, <1>2, FailInv
<1>3. CallType /\ PeerType /\ CallOK(r) /\ pc[r] \in AtPeer
  BY InvParts DEF QueryAbility, GetLabel, AtPeer
<1>4. work[r] \in Work
  BY <1>3 DEF CallType
<1>5. ASSUME Reading(r) # 0, pc[r] \in {"query", "label", "icon"},
             NEW w \in Work, w.user = work[r].user, NEW label, Goto(r, label),
             work' = [work EXCEPT ![r] = w], UNCHANGED facts, UNCHANGED done
      PROVE  /\ pc'[r] = label /\ work'[r] = w /\ ReadOK(r, Reading(r))
             /\ \A v : ReadOK(r, v) <=> ReadOK(r, v)'
             /\ work[r].user \in users[r] \cap User
  <2>1. pc'[r] = label /\ work'[r] = w /\ ask' = ask
    BY <1>3, <1>5 DEF Goto, CallType
  <2>2. Reading(r)' = Reading(r) /\ UNCHANGED changes
    BY <1>1, <1>5, <2>1 DEF Reading, Peer, Current, Frame
  <2>. QED
    BY <1>5, <2>1, <2>2, ReadingOK DEF ReadOK
<1>6. CASE /\ QueryAbility(r) /\ Reading(r) # 0
           /\ work' = [work EXCEPT ![r].info = Reading(r)]
           /\ Goto(r, "label")
           /\ UNCHANGED <<remote, aclInfo, done, checked, users, facts>>
  <2>1. pc[r] = "query"
    BY <1>6 DEF QueryAbility
  <2>2. Reading(r) \in Version
    BY <1>6, <2>1, ReadingOK
  <2>3. PICK w \in Work : /\ work' = [work EXCEPT ![r] = w]
                         /\ w.user = work[r].user /\ w.info = Reading(r)
    <3> DEFINE v == [work[r] EXCEPT !.info = Reading(r)]
    <3>1. work' = [work EXCEPT ![r] = v]
      BY <1>3, <1>6 DEF CallType
    <3>2. v \in Work /\ v.user = work[r].user /\ v.info = Reading(r)
      BY <1>4, <2>2, WorkFields
    <3> HIDE DEF v
    <3>. QED
      BY <3>1, <3>2
  <2>4. /\ pc'[r] = "label" /\ work'[r] = w /\ ReadOK(r, Reading(r))
        /\ \A v : ReadOK(r, v) <=> ReadOK(r, v)'
        /\ work[r].user \in users[r] \cap User
    BY <1>5, <1>6, <2>1, <2>3
  <2>5. WorkOK(r)'
    BY <1>6, <2>3, <2>4 DEF WorkOK
  <2>. QED
    BY <1>1, <1>3, <1>6, <2>3, <2>5, LearnInv
<1>7. CASE /\ GetLabel(r) /\ Reading(r) # 0
           /\ work' = [work EXCEPT ![r].label = Reading(r)]
           /\ Goto(r, "icon")
           /\ UNCHANGED <<remote, aclInfo, done, checked, users, facts>>
  <2>1. pc[r] = "label"
    BY <1>7 DEF GetLabel
  <2>2. Reading(r) \in Version
    BY <1>7, <2>1, ReadingOK
  <2>3. PICK w \in Work :
          /\ work' = [work EXCEPT ![r] = w]
          /\ w.user = work[r].user /\ w.info = work[r].info /\ w.label = Reading(r)
    <3> DEFINE v == [work[r] EXCEPT !.label = Reading(r)]
    <3>1. work' = [work EXCEPT ![r] = v]
      BY <1>3, <1>7 DEF CallType
    <3>2. /\ v \in Work /\ v.user = work[r].user /\ v.info = work[r].info
          /\ v.label = Reading(r)
      BY <1>4, <2>2, WorkFields
    <3> HIDE DEF v
    <3>. QED
      BY <3>1, <3>2
  <2>4. ReadOK(r, work[r].info) /\ work[r].info <= Reading(r)
    BY <1>3, <1>7, <2>1 DEF CallOK, WorkOK, ReadOK
  <2>5. /\ pc'[r] = "icon" /\ work'[r] = w /\ ReadOK(r, Reading(r))
        /\ \A v : ReadOK(r, v) <=> ReadOK(r, v)'
        /\ work[r].user \in users[r] \cap User
    BY <1>5, <1>7, <2>1, <2>3
  <2>6. WorkOK(r)'
    BY <1>7, <2>3, <2>4, <2>5 DEF WorkOK
  <2>. QED
    BY <1>1, <1>3, <1>7, <2>3, <2>6, LearnInv
<1>. QED
  BY <1>2, <1>6, <1>7 DEF QueryAbility, GetLabel

\* The answer a name gets.
Complies(r, a) ==
    /\ a.user \in users[r]
    /\ {<<a.user, a.info>>, <<a.user, a.label>>, <<a.user, a.icon>>} \subseteq facts[r]
    /\ 0 < a.info /\ a.info <= a.label /\ a.label <= a.icon

LEMMA IconAndVersion ==
  ASSUME Inv, NEW r \in Caller, QueryVersion(r) \/ GetAbilityIconByContent(r)
  PROVE  /\ pc[r] \in AtPeer /\ Frame(r)
         /\ \/ Fail(r)
            \/ \E i, l, c \in Version :
                 /\ Push(r, i, l, c) /\ UNCHANGED <<remote, aclInfo>>
                 /\ work[r].user \in users[r] \cap User
                 /\ {<<work[r].user, i>>, <<work[r].user, l>>, <<work[r].user, c>>}
                      \subseteq facts[r]
                 /\ 0 < i /\ i <= l /\ l <= c
<1>1. /\ pc[r] \in AtPeer
      /\ QueryVersion(r) => pc[r] = "query"
      /\ GetAbilityIconByContent(r) => pc[r] = "icon"
  BY DEF QueryVersion, GetAbilityIconByContent, AtPeer
<1>2. Frame(r)
  BY FaultType, FaultUnlessType, QuietFrame DEF QueryVersion, GetAbilityIconByContent
<1>3. CASE QueryVersion(r) /\ ~Fail(r)
  <2>1. /\ Reading(r) # 0 /\ Push(r, Reading(r), Reading(r), Reading(r))
        /\ UNCHANGED <<remote, aclInfo>>
    BY <1>3 DEF QueryVersion
  <2>2. /\ ReadOK(r, Reading(r)) /\ Reading(r) \in Version
        /\ work[r].user \in users[r] \cap User
    BY <1>1, <1>3, <2>1, ReadingOK
  <2>3. 0 < Reading(r) /\ Reading(r) <= Reading(r) /\ <<work[r].user, Reading(r)>> \in facts[r]
    BY <2>2 DEF ReadOK, Version
  <2>. QED
    BY <1>1, <1>2, <2>1, <2>2, <2>3
<1>4. CASE GetAbilityIconByContent(r) /\ ~Fail(r)
  <2>1. /\ Reading(r) # 0 /\ Push(r, work[r].info, work[r].label, Reading(r))
        /\ UNCHANGED <<remote, aclInfo>>
    BY <1>4 DEF GetAbilityIconByContent, IconOf
  <2>2. /\ Reading(r) \in Version
        /\ work[r].user \in users[r] \cap User
        /\ <<work[r].user, Reading(r)>> \in facts[r]
    BY <1>1, <1>4, <2>1, ReadingOK
  <2>3. /\ ReadOK(r, work[r].info) /\ ReadOK(r, work[r].label)
        /\ work[r].info <= work[r].label
        /\ work[r] \in Work
    BY <1>1, <1>4, InvParts DEF CallOK, WorkOK, CallType
  <2>4. work[r].info \in Version /\ work[r].label \in Version
    BY <2>3 DEF Work
  <2>5. /\ 0 < work[r].info /\ work[r].label <= Reading(r)
        /\ <<work[r].user, work[r].info>> \in facts[r]
        /\ <<work[r].user, work[r].label>> \in facts[r]
    BY <2>1, <2>3 DEF ReadOK
  <2>. QED
    BY <1>1, <1>2, <2>1, <2>2, <2>3, <2>4, <2>5
<1>. QED
  BY <1>1, <1>2, <1>3, <1>4

\* What Push adds, and to what.
LEMMA PushParts ==
  ASSUME Inv, NEW r \in Caller, pc[r] \in AtPeer, NEW i \in Version, NEW l \in Version,
         NEW c \in Version, Push(r, i, l, c), work[r].user \in User
  PROVE  LET a == [name |-> Current(r), user |-> work[r].user, info |-> i, label |-> l,
                   icon |-> c]
         IN /\ a \in Item
            /\ done' = [done EXCEPT ![r] = Append(done[r], a)]
            /\ done'[r] \in Seq(Item) /\ Len(done'[r]) = Len(done[r]) + 1
            /\ \A j \in 1..Len(done[r]) : done'[r][j] = done[r][j]
            /\ done'[r][Len(done[r]) + 1] = a
<1> DEFINE a == [name |-> Current(r), user |-> work[r].user, info |-> i, label |-> l,
                 icon |-> c]
<1>1. Current(r) \in Name /\ done[r] \in Seq(Item) /\ done \in [Caller -> Seq(Item)]
  BY AtName, InvParts DEF CallType
<1>2. a \in Item
  BY <1>1 DEF Item
<1>3. done' = [done EXCEPT ![r] = Append(done[r], a)]
  BY DEF Push
<1> HIDE DEF a
<1>4. done'[r] = Append(done[r], a)
  BY <1>1, <1>3
<1>5. /\ Append(done[r], a) \in Seq(Item) /\ Len(Append(done[r], a)) = Len(done[r]) + 1
      /\ \A j \in 1..Len(done[r]) : Append(done[r], a)[j] = done[r][j]
      /\ Append(done[r], a)[Len(done[r]) + 1] = a
  BY <1>1, <1>2
<1>. QED
  BY <1>2, <1>3, <1>4, <1>5 DEF a

LEMMA PushInv ==
  ASSUME Inv, NEW r \in Caller, pc[r] \in AtPeer, Frame(r), NEW i \in Version, NEW l \in Version,
         NEW c \in Version, Push(r, i, l, c), UNCHANGED <<remote, aclInfo>>,
         work[r].user \in User
  PROVE  Inv'
<1> DEFINE label == IF Len(done[r]) + 1 = Len(ask[r].names) THEN "reply" ELSE "check"
<1>1. CallType /\ CallOK(r)
  BY InvParts
<1>2. /\ ask[r] \in Query /\ result[r] = NoResult /\ Whole(ask[r])
      /\ Len(ask[r].names) \in 1..MaxSize /\ Len(done[r]) \in Nat
      /\ Len(done[r]) < Len(ask[r].names)
  BY AtName
<1>3. /\ pc' \in [Caller -> Pc] /\ pc'[r] = label
      /\ ask' = ask /\ result' = result
      /\ \A s \in Caller \ {r} : pc'[s] = pc[s]
  <2>1. label \in Pc /\ Goto(r, label)
    BY DEF Push, Pc, InCall
  <2> HIDE DEF label
  <2>. QED
    BY <2>1, GotoParts
<1>4. PICK a \in Item :
        /\ a.name = Current(r)
        /\ done' = [done EXCEPT ![r] = Append(done[r], a)]
        /\ done'[r] \in Seq(Item) /\ Len(done'[r]) = Len(done[r]) + 1
        /\ \A j \in 1..Len(done[r]) : done'[r][j] = done[r][j]
        /\ done'[r][Len(done[r]) + 1] = a
  BY PushParts
<1>5. CallType'
  <2>1. /\ done' \in [Caller -> Seq(Item)]
        /\ \A s \in Caller : Len(done'[s]) <= MaxSize
    <3>1. \A s \in Caller \ {r} : done'[s] = done[s]
      BY <1>1, <1>4 DEF CallType
    <3>2. Len(done'[r]) <= MaxSize
      BY <1>2, <1>4, ConstantsAssumption
    <3>3. done' \in [Caller -> Seq(Item)]
      BY <1>1, <1>4 DEF CallType
    <3>. QED
      BY <1>1, <3>1, <3>2, <3>3 DEF CallType
  <2>2. /\ work' \in [Caller -> Work]
        /\ checked' \in [Caller -> User \cup {NoUser}]
        /\ users' \in [Caller -> SUBSET (User \cup {NoUser})]
        /\ facts' \in [Caller -> SUBSET (User \X Version)]
    BY <1>1, ConstantsAssumption DEF CallType, Push, NoWork, Work, Version
  <2>. QED
    BY <1>1, <1>3, <2>1, <2>2 DEF CallType
<1>6. DoneOK(r)'
  <2>1. \A j \in 1..Len(done'[r]) : done'[r][j].name = ask[r].names[j]
    <3> SUFFICES ASSUME NEW j \in 1..Len(done'[r])
                 PROVE  done'[r][j].name = ask[r].names[j]
      OBVIOUS
    <3>1. CASE j \in 1..Len(done[r])
      BY <1>1, <1>4, <3>1 DEF CallOK, DoneOK
    <3>2. CASE j = Len(done[r]) + 1
      BY <1>4, <3>2 DEF Current
    <3>. QED
      BY <1>2, <1>4, <3>1, <3>2
  <2>2. label = "check" => Len(done'[r]) < Len(ask[r].names)
    BY <1>2, <1>4
  <2>3. label = "reply" => Len(done'[r]) = Len(ask[r].names)
    BY <1>4
  <2>. QED
    BY <1>3, <2>1, <2>2, <2>3 DEF DoneOK, AtPeer
<1>7. AskOK(r)' /\ HistoryOK(r)' /\ WorkOK(r)' /\ AnswerOK(r)'
  BY <1>1, <1>2, <1>3
  DEF CallOK, AskOK, HistoryOK, WorkOK, AnswerOK, Whole, Complete, AtPeer, NoResult
<1>8. \A s \in Caller \ {r} : Unmoved(s)
  BY <1>1, <1>3, <1>4 DEF Unmoved, CallType, Push
<1>. QED
  BY <1>5, <1>6, <1>7, <1>8, StepParts DEF CallOK

LEMMA AnswerInv ==
  ASSUME Inv, NEW r \in Caller, QueryVersion(r) \/ GetAbilityIconByContent(r)
  PROVE  Inv'
BY IconAndVersion, FailInv, PushInv

LEMMA StepInv == ASSUME Inv, NEW r \in Caller, Step(r) PROVE Inv'
BY ProxyInv, HostInv, SendInv, GetStoredInv, CheckInv, GetUserInv, ReadInv, AnswerInv, ReplyInv,
   LostInv DEF Step

-----------------------------------------------------------------------------
(* What happens on the peers. *)

\* A change is in the history of every name it is about, and is newer than
\* what was read before.
LEMMA InstallInv ==
  ASSUME Inv, NEW d \in Device, NEW u \in User, NEW a \in Ability, Install(d, u, a)
  PROVE  Inv'
<1>1. CallType /\ PeerType /\ VersionsOK /\ faults \in 0..MaxFaults
  BY InvParts
<1>2. /\ changes \in Nat /\ changes' = changes + 1 /\ changes' \in 0..MaxChanges
      /\ MaxChanges \in Nat /\ changes' + 1 = changes + 2
  BY <1>1, ConstantsAssumption DEF Install, PeerType
<1>3. PICK v \in {0, changes + 2} :
        /\ shown' = [shown EXCEPT ![d][u][a] = v]
        /\ facts' = [r \in Caller |-> IF r \in At(d) /\ Current(r).ability = a
                                      THEN facts[r] \cup {<<u, v>>} ELSE facts[r]]
  BY <1>2 DEF Install
<1>4. v \in Version
  BY <1>2, <1>3 DEF Version
<1>5. /\ shown' \in [Device -> [User -> [Ability -> Version]]]
      /\ \A e \in Device, w \in User, b \in Ability :
            shown'[e][w][b] = IF e = d /\ w = u /\ b = a THEN v ELSE shown[e][w][b]
  BY <1>1, <1>3, <1>4 DEF PeerType
<1>6. PeerType'
  BY <1>1, <1>2, <1>5 DEF PeerType, Install
<1>7. VersionsOK'
  <2> SUFFICES ASSUME NEW e \in Device, NEW w \in User, NEW b \in Ability
               PROVE  shown'[e][w][b] <= changes' + 1
    BY DEF VersionsOK
  <2>1. shown[e][w][b] \in Version /\ shown[e][w][b] <= changes + 1
    BY <1>1 DEF PeerType, VersionsOK
  <2>. QED
    BY <1>2, <1>3, <1>5, <2>1 DEF Version
<1>8. CallType'
  <2>1. facts' \in [Caller -> SUBSET (User \X Version)]
    BY <1>1, <1>3, <1>4 DEF CallType
  <2>. QED
    BY <1>1, <2>1 DEF CallType, Install
<1>9. ASSUME NEW r \in Caller
      PROVE  CallOK(r)'
  <2>1. CallOK(r)
    BY DEF Inv
  <2>2. /\ pc'[r] = pc[r] /\ ask'[r] = ask[r] /\ result'[r] = result[r]
        /\ work'[r] = work[r] /\ done'[r] = done[r] /\ users'[r] = users[r]
        /\ checked'[r] = checked[r] /\ aclInfo'[r] = aclInfo[r]
        /\ UNCHANGED active
        /\ Peer(r)' = Peer(r) /\ Current(r)' = Current(r)
        /\ facts[r] \subseteq facts'[r]
    BY <1>1, <1>3 DEF Install, Peer, Current, CallType
  <2>3. AskOK(r)' /\ DoneOK(r)' /\ AnswerOK(r)'
    BY <2>1, <2>2 DEF CallOK, AskOK, DoneOK, AnswerOK, Whole, Complete
  <2>4. ASSUME pc[r] \in AtPeer
        PROVE  /\ Peer(r) \in Device /\ Current(r).ability \in Ability
               /\ \A w \in User :
                    \/ shown'[Peer(r)][w][Current(r).ability]
                         = shown[Peer(r)][w][Current(r).ability]
                    \/ /\ shown'[Peer(r)][w][Current(r).ability] = v
                       /\ <<w, v>> \in facts'[r]
    <3>1. Peer(r) \in Device /\ Current(r).ability \in Ability
      BY <2>4, AtName
    <3>2. Peer(r) = d => r \in At(d)
      BY <2>4 DEF At
    <3>3. r \in At(d) /\ Current(r).ability = a => <<u, v>> \in facts'[r]
      BY <1>3
    <3>. QED
      BY <1>5, <3>1, <3>2, <3>3
  <2>5. HistoryOK(r)'
    <3> SUFFICES ASSUME pc[r] \in AtPeer PROVE HistoryOK(r)'
      BY <2>2 DEF HistoryOK
    <3>1. /\ active[Peer(r)] \in users[r]
          /\ checked[r] \in users[r]
          /\ aclInfo[r] # "none" => <<Peer(r), checked[r]>> \in Trusted
          /\ \A w \in User : <<w, shown[Peer(r)][w][Current(r).ability]>> \in facts[r]
      BY <2>1 DEF CallOK, HistoryOK
    <3>2. \A w \in User : <<w, shown'[Peer(r)][w][Current(r).ability]>> \in facts'[r]
      BY <2>2, <2>4, <3>1
    <3>. QED
      BY <2>2, <3>1, <3>2 DEF HistoryOK
  <2>6. ASSUME pc[r] \in {"query", "label", "icon"}, NEW x \in Version, ReadOK(r, x)
        PROVE  ReadOK(r, x)'
    <3>1. work[r].user \in User
      BY <2>1, <2>6 DEF CallOK, WorkOK
    <3>2. Reading(r)' \in {Reading(r), v}
      BY <2>2, <2>4, <2>6, <3>1 DEF Reading, AtPeer
    <3>3. <<work[r].user, x>> \in facts'[r] /\ 0 < x /\ x <= changes + 1
      BY <2>2, <2>6 DEF ReadOK
    <3>4. x <= changes' + 1
      BY <1>2, <3>3 DEF Version
    <3>5. Reading(r)' = 0 \/ x <= Reading(r)'
      <4>1. CASE Reading(r)' = Reading(r)
        BY <2>6, <4>1 DEF ReadOK
      <4>2. CASE Reading(r)' = v
        BY <1>2, <1>3, <3>3, <4>2 DEF Version
      <4>. QED
        BY <3>2, <4>1, <4>2
    <3>. QED
      BY <2>2, <3>3, <3>4, <3>5 DEF ReadOK
  <2>7. WorkOK(r)'
    <3>1. work[r].info \in Version /\ work[r].label \in Version
      BY <1>1 DEF CallType, Work
    <3>. QED
      BY <2>1, <2>2, <2>6, <3>1 DEF CallOK, WorkOK
  <2>. QED
    BY <2>3, <2>5, <2>7 DEF CallOK
<1>. QED
  BY <1>1, <1>6, <1>7, <1>8, <1>9 DEF Install, Inv, QueryTypeOK, CallType, PeerType

LEMMA SwitchUserInv ==
  ASSUME Inv, NEW d \in Device, NEW u \in User \cup {NoUser}, SwitchUser(d, u)
  PROVE  Inv'
<1>1. CallType /\ PeerType /\ VersionsOK /\ faults \in 0..MaxFaults
  BY InvParts
<1>2. changes \in Nat /\ changes' = changes + 1 /\ changes' \in 0..MaxChanges
  BY <1>1, ConstantsAssumption DEF SwitchUser, PeerType
<1>3. PeerType'
  BY <1>1, <1>2 DEF PeerType, SwitchUser
<1>4. VersionsOK'
  <2> SUFFICES ASSUME NEW e \in Device, NEW w \in User, NEW b \in Ability
               PROVE  shown'[e][w][b] <= changes' + 1
    BY DEF VersionsOK
  <2>1. shown[e][w][b] \in Version /\ shown[e][w][b] <= changes + 1
    BY <1>1 DEF PeerType, VersionsOK
  <2>. QED
    BY <1>2, <2>1 DEF Version, SwitchUser
<1>5. CallType'
  <2>1. users' \in [Caller -> SUBSET (User \cup {NoUser})]
    BY <1>1 DEF CallType, SwitchUser
  <2>. QED
    BY <1>1, <2>1 DEF CallType, SwitchUser
<1>6. ASSUME NEW r \in Caller
      PROVE  CallOK(r)'
  <2>1. CallOK(r)
    BY DEF Inv
  <2>2. /\ pc'[r] = pc[r] /\ ask'[r] = ask[r] /\ result'[r] = result[r]
        /\ work'[r] = work[r] /\ done'[r] = done[r] /\ facts'[r] = facts[r]
        /\ checked'[r] = checked[r] /\ aclInfo'[r] = aclInfo[r]
        /\ UNCHANGED shown
        /\ Peer(r)' = Peer(r) /\ Current(r)' = Current(r) /\ Reading(r)' = Reading(r)
        /\ users[r] \subseteq users'[r]
    BY <1>1 DEF SwitchUser, Peer, Current, Reading, CallType
  <2>3. AskOK(r)' /\ DoneOK(r)' /\ AnswerOK(r)'
    BY <2>1, <2>2 DEF CallOK, AskOK, DoneOK, AnswerOK, Whole, Complete
  <2>4. pc[r] \in AtPeer => active'[Peer(r)] \in users'[r]
    <3> SUFFICES ASSUME pc[r] \in AtPeer PROVE active'[Peer(r)] \in users'[r]
      OBVIOUS
    <3>1. Peer(r) \in Device /\ active[Peer(r)] \in users[r]
      BY <2>1, AtName DEF CallOK, HistoryOK
    <3>2. CASE Peer(r) = d
      <4>1. r \in At(d)
        BY <3>2 DEF At
      <4>. QED
        BY <1>1, <3>2, <4>1 DEF SwitchUser, PeerType
    <3>3. CASE Peer(r) # d
      BY <1>1, <2>2, <3>1, <3>3 DEF SwitchUser, PeerType
    <3>. QED
      BY <3>2, <3>3
  <2>5. HistoryOK(r)'
    BY <2>1, <2>2, <2>4 DEF CallOK, HistoryOK
  <2>6. \A x \in Version : ReadOK(r, x) => ReadOK(r, x)'
    BY <1>2, <2>2 DEF ReadOK, Version
  <2>7. WorkOK(r)'
    <3>1. work[r].info \in Version /\ work[r].label \in Version
      BY <1>1 DEF CallType, Work
    <3>. QED
      BY <2>1, <2>2, <2>6, <3>1 DEF CallOK, WorkOK
  <2>. QED
    BY <2>3, <2>5, <2>7 DEF CallOK
<1>. QED
  BY <1>1, <1>3, <1>4, <1>5, <1>6 DEF SwitchUser, Inv, QueryTypeOK, CallType, PeerType

LEMMA DeathInv ==
  ASSUME Inv, NEW d \in Device, Die(d) \/ Start(d)
  PROVE  Inv'
<1>1. CallType /\ PeerType /\ VersionsOK /\ faults \in 0..MaxFaults
  BY InvParts
<1>2. /\ UNCHANGED <<callVars, active, shown, changes, faults>>
      /\ running' \subseteq Device /\ bundleMgr' \subseteq Device
      /\ deaths' \in [Device -> 0..MaxDeaths]
  BY <1>1, ConstantsAssumption DEF Die, Start, PeerType
<1>3. CallType' /\ PeerType' /\ VersionsOK'
  BY <1>1, <1>2 DEF CallType, PeerType, VersionsOK, callVars
<1>4. \A r \in Caller : CallOK(r)'
  BY <1>2, UnmovedOK DEF callVars, Unmoved, Inv
<1>. QED
  BY <1>1, <1>2, <1>3, <1>4 DEF Inv, QueryTypeOK, CallType, PeerType

-----------------------------------------------------------------------------

LEMMA InitInv == Init => Inv
<1> SUFFICES ASSUME Init PROVE Inv
  OBVIOUS
<1>1. NoWork \in Work /\ 1 \in Version
  BY ConstantsAssumption DEF NoWork, Work, Version
<1>2. CallType
  BY <1>1, EmptyDone, ConstantsAssumption DEF Init, CallType, Pc, Result, NoResult, AclInfo
<1>3. PeerType /\ faults \in 0..MaxFaults
  BY <1>1, ConstantsAssumption DEF Init, PeerType
<1>4. VersionsOK
  BY DEF Init, VersionsOK
<1>5. ASSUME NEW r \in Caller
      PROVE  CallOK(r)
  <2>1. pc[r] = "idle" /\ done[r] = <<>> /\ result[r] = NoResult
    BY DEF Init
  <2>2. DoneOK(r)
    BY <2>1, EmptyDone DEF DoneOK, AtPeer
  <2>. QED
    BY <2>1, <2>2
    DEF CallOK, AskOK, HistoryOK, WorkOK, AnswerOK, Going, InCall, AtPeer, NoResult
<1>. QED
  BY <1>2, <1>3, <1>4, <1>5, InvParts

LEMMA NextInv == Inv /\ [Next]_vars => Inv'
<1> SUFFICES ASSUME Inv, [Next]_vars PROVE Inv'
  OBVIOUS
<1>1. CASE UNCHANGED vars
  <2>1. UNCHANGED <<callVars, active, shown, changes>>
    BY <1>1 DEF vars, peerVars
  <2>2. \A r \in Caller : CallOK(r)'
    BY <2>1, UnmovedOK DEF callVars, Unmoved, Inv
  <2>. QED
    BY <1>1, <2>2 DEF vars, callVars, peerVars, Inv, QueryTypeOK, VersionsOK
<1>. QED
  BY <1>1, AskInv, StepInv, InstallInv, SwitchUserInv, DeathInv DEF Next

LEMMA Invariant == Spec => []Inv
BY InitInv, NextInv, PTL DEF Spec

\* Every reachable state of the query path is well typed: no batch has more
\* answers than the limit, no version is made up.
THEOREM QueryTypeCorrect == Spec => []QueryTypeOK
BY Invariant, PTL DEF Inv

\* A query for abilities that succeeds has an answer for every name, in the
\* order of the names; for any number of callers, peers and names.
THEOREM WholeAnswers == Spec => []AllOrNothing
<1>1. Inv => AllOrNothing
  BY DEF Inv, CallOK, AnswerOK, AllOrNothing
<1>. QED
  BY <1>1, Invariant, PTL

\* Only the peer answers, and what it answers complies.
LEMMA AnswerComplies ==
  ASSUME Inv, [Next]_vars, NEW r \in Caller, Answered(r)
  PROVE  /\ Complies(r, Answer(r))
         /\ checked[r] \in users[r]
         /\ aclInfo[r] # "none" => <<Peer(r), checked[r]>> \in Trusted
<1>1. CallType /\ CallOK(r)
  BY InvParts
<1>2. done[r] \in Seq(Item) /\ Len(done[r]) \in Nat
  BY <1>1, LenProperties DEF CallType
<1>3. done' # done
  BY <1>2 DEF Answered
<1>4. PICK s \in Caller : Step(s)
  BY <1>3 DEF Next, vars, callVars, Ask, Install, SwitchUser, Die, Start
<1>5. CASE s # r \/ Fail(s) \/ Reply(s)
  <2>1. CASE Fail(s) \/ Reply(s)
    <3>1. done'[r] \in {done[r], <<>>}
      BY <1>1, <2>1 DEF Fail, Reply, Return, CallType
    <3>. QED
      BY <1>2, <3>1, EmptyDone DEF Answered
  <2>2. CASE s # r
    <3>1. done' = done \/ (\E x : done' = [done EXCEPT ![s] = x])
      BY <1>4
      DEF Step, ProxyOfAbilities, ProxyOfBundles, GetRemoteAbilityInfos,
          GetRemoteBundleVersionCode, Find, BuildDistributedBmsAclInfo, SendAbilities,
          SendVersion, Resend, GetStored, GetAbilityInfos, Check, GetUser, QueryVersion,
          QueryAbility, GetLabel, GetAbilityIconByContent, Reply, Lost, Fail, Return, Push
    <3>2. done'[r] = done[r]
      BY <1>1, <2>2, <3>1 DEF CallType
    <3>. QED
      BY <1>2, <3>2 DEF Answered
  <2>. QED
    BY <1>5, <2>1, <2>2
<1>6. CASE s = r /\ ~Fail(r) /\ ~Reply(r)
  <2>1. QueryVersion(r) \/ GetAbilityIconByContent(r)
    <3>1. ASSUME GetStored(r) PROVE FALSE
      <4>1. done'[r] = <<>>
        BY <1>1, <3>1 DEF GetStored, Fail, Return, CallType
      <4>. QED
        BY <1>2, <4>1, EmptyDone DEF Answered
    <3>. QED
      BY <1>3, <1>4, <1>6, <3>1
      DEF Step, ProxyOfAbilities, ProxyOfBundles, GetRemoteAbilityInfos,
          GetRemoteBundleVersionCode, Find, BuildDistributedBmsAclInfo, SendAbilities,
          SendVersion, Resend, GetAbilityInfos, Check, GetUser, QueryAbility, GetLabel, Lost
  <2>2. pc[r] \in AtPeer
    BY <2>1, IconAndVersion
  <2>3. PICK i \in Version, l \in Version, c \in Version :
          /\ Push(r, i, l, c)
          /\ work[r].user \in users[r] \cap User
          /\ {<<work[r].user, i>>, <<work[r].user, l>>, <<work[r].user, c>>} \subseteq facts[r]
          /\ 0 < i /\ i <= l /\ l <= c
    BY <1>6, <2>1, IconAndVersion
  <2>4. Answer(r) = [name |-> Current(r), user |-> work[r].user, info |-> i, label |-> l,
                     icon |-> c]
    BY <2>2, <2>3, PushParts DEF Answer
  <2>5. Complies(r, Answer(r))
    BY <2>3, <2>4 DEF Complies
  <2>. QED
    BY <1>1, <2>2, <2>5 DEF CallOK, HistoryOK
<1>. QED
  BY <1>5, <1>6

\* Every answer is about one user, active on the peer since the check of its
\* name, and each of its parts was true of that user's ability since then;
\* for any number of changes and switches in between.
THEOREM OneUserAnswers == Spec => AnswersOfOneUser
<1>1. Inv /\ [Next]_vars =>
        [\A r \in Caller : Answered(r) =>
           LET a == Answer(r) IN
           /\ a.user \in users[r]
           /\ {<<a.user, a.info>>, <<a.user, a.label>>, <<a.user, a.icon>>} \subseteq facts[r]
           /\ 0 < a.info /\ a.info <= a.label /\ a.label <= a.icon]_vars
  BY AnswerComplies DEF Complies
<1>. QED
  BY <1>1, Invariant, PTL DEF Spec, AnswersOfOneUser

\* An answer to a request that has a record comes after a check of its very
\* name that found a user whose data the peer lends to the caller's device, and
\* is about this user or one active since; for any number of callers, names and
\* switches.
THEOREM AdmittedAnswers == Spec => AnswersAdmitted
<1>1. Inv /\ [Next]_vars =>
        [\A r \in Caller : Answered(r) /\ aclInfo[r] # "none" =>
           /\ <<Peer(r), checked[r]>> \in Trusted
           /\ {checked[r], Answer(r).user} \subseteq users[r]]_vars
  BY AnswerComplies DEF Complies
<1>. QED
  BY <1>1, Invariant, PTL DEF Spec, AnswersAdmitted
-----------------------------------------------------------------------------
(* No query goes back. *)

\* The names without an answer, while r's query is at work.
Open(r) == Len(ask[r].names) - Len(done[r])

LEMMA OpenNames ==
  ASSUME Inv, NEW r \in Caller, pc[r] # "idle"
  PROVE  /\ Len(ask[r].names) \in Nat /\ Len(done[r]) \in Nat /\ Open(r) \in Nat
         /\ pc[r] \in AtPeer \cup {"check"} => Open(r) > 0
         /\ pc[r] = "reply" => Open(r) = 0
         /\ pc[r] \in Pc
<1>1. CallType /\ CallOK(r)
  BY InvParts
<1>2. ask[r] \in Query /\ done[r] \in Seq(Item)
  BY <1>1 DEF CallOK, AskOK, CallType
<1>3. Len(ask[r].names) \in Nat /\ Len(done[r]) \in Nat
  BY <1>2, QueryAssumption, LenProperties
<1>4. CASE pc[r] \notin AtPeer \cup {"check", "reply"}
  BY <1>1, <1>3, <1>4, EmptyDone DEF CallOK, DoneOK, Open, CallType
<1>5. CASE pc[r] \in AtPeer \cup {"check", "reply"}
  BY <1>1, <1>3, <1>5 DEF CallOK, DoneOK, Open, CallType, AtPeer
<1>. QED
  BY <1>3, <1>4, <1>5

LEMMA RestNat ==
  ASSUME NEW label \in Pc \ {"idle"}
  PROVE  Rest(label) \in Nat /\ (label \notin AtPeer => 0 < Rest(label))
<1>1. CASE label \in AtPeer
  BY <1>1 DEF Rest, AtPeer
<1>2. CASE label \in {"check", "reply"}
  <2>1. Rest(label) = 4
    BY <1>2 DEF Rest
  <2>. QED
    BY <2>1
<1>3. CASE label = "stored"
  <2>1. Rest(label) = 1
    BY <1>3 DEF Rest
  <2>. QED
    BY <2>1
<1>4. CASE label \in {"accept", "resend", "send"}
  <2>1. /\ label = "accept" => Rest(label) = 5
        /\ label = "resend" => Rest(label) = 6
        /\ label = "send" => Rest(label) = 7
    BY DEF Rest
  <2>. QED
    BY <1>4, <2>1
<1>5. CASE label \in {"acl", "host", "proxy"}
  <2>1. /\ label = "acl" => Rest(label) = 8
        /\ label = "host" => Rest(label) = 9
        /\ label = "proxy" => Rest(label) = 10
    BY DEF Rest
  <2>. QED
    BY <1>5, <2>1
<1>. QED
  BY <1>1, <1>2, <1>3, <1>4, <1>5 DEF Pc, InCall, AtPeer

\* A query under way has at least one step before it.
LEMMA StepsLeftPositive ==
  ASSUME Inv, NEW r \in Caller, pc[r] # "idle"
  PROVE  StepsLeft(r) \in Nat /\ 0 < StepsLeft(r)
<1>1. Open(r) \in Nat /\ pc[r] \in Pc \ {"idle"} /\ (pc[r] \in AtPeer => Open(r) > 0)
  BY OpenNames
<1>2. Rest(pc[r]) \in Nat /\ (pc[r] \notin AtPeer => 0 < Rest(pc[r]))
  BY <1>1, RestNat
<1>3. StepsLeft(r) = 5 * Open(r) + Rest(pc[r])
  BY DEF StepsLeft, Open
<1>. QED
  BY <1>1, <1>2, <1>3

LEMMA ReturnAdvances ==
  ASSUME Inv, NEW r \in Caller, NEW res, Return(r, res), pc[r] # "idle"
  PROVE  StepsLeft(r)' < StepsLeft(r)
<1>1. pc'[r] = "idle"
  BY DEF Return, Inv, QueryTypeOK
<1>2. StepsLeft(r)' = 0
  BY <1>1 DEF StepsLeft
<1>. QED
  BY <1>2, StepsLeftPositive

\* The steps of a query that neither end it nor complete an answer.
Along(from, to) ==
    \/ from = "proxy" /\ to \in {"host", "stored"}
    \/ from = "host" /\ to = "acl"
    \/ from = "acl" /\ to = "send"
    \/ from = "send" /\ to \in {"resend", "accept", "check"}
    \/ from = "resend" /\ to \in {"accept", "check"}
    \/ from = "accept" /\ to = "check"
    \/ from = "check" /\ to = "user"
    \/ from = "user" /\ to = "query"
    \/ from = "query" /\ to = "label"
    \/ from = "label" /\ to = "icon"

LEMMA GotoAdvances ==
  ASSUME Inv, NEW r \in Caller, NEW label, Along(pc[r], label), Goto(r, label), UNCHANGED done
  PROVE  StepsLeft(r)' < StepsLeft(r)
<1>1. pc'[r] = label /\ ask' = ask
  BY DEF Goto, Inv, QueryTypeOK
<1>2. pc[r] # "idle" /\ label \in Pc \ {"idle"}
  <2>1. label \in {"host", "stored", "acl", "send", "resend", "accept", "check", "user",
                   "query", "label", "icon"}
    BY DEF Along
  <2>. QED
    BY <2>1 DEF Along, Pc, InCall, AtPeer
<1>3. Open(r) \in Nat /\ pc[r] \in Pc
  BY <1>2, OpenNames
<1>4. Rest(label) \in Nat /\ Rest(pc[r]) \in Nat
  BY <1>2, <1>3, RestNat
<1>5. Rest(label) < Rest(pc[r])
  BY DEF Along, Rest
<1>6. StepsLeft(r) = 5 * Open(r) + Rest(pc[r]) /\ StepsLeft(r)' = 5 * Open(r) + Rest(label)
  BY <1>1, <1>2 DEF StepsLeft, Open
<1>. QED
  BY <1>3, <1>4, <1>5, <1>6

\* With an answer the next name begins, five steps further on.
LEMMA PushAdvances ==
  ASSUME Inv, NEW r \in Caller, NEW i \in Version, NEW l \in Version, NEW c \in Version,
         Push(r, i, l, c), pc[r] \in AtPeer, work[r].user \in User
  PROVE  StepsLeft(r)' < StepsLeft(r)
<1>1. CallType /\ pc[r] # "idle"
  BY InvParts DEF AtPeer
<1>2. /\ Len(ask[r].names) \in Nat /\ Len(done[r]) \in Nat
      /\ Len(ask[r].names) - Len(done[r]) > 0
  BY <1>1, OpenNames DEF Open
<1>3. Len(done'[r]) = Len(done[r]) + 1
  BY PushParts
<1>4. ask'[r] = ask[r] /\ pc'[r] \in {"reply", "check"}
  BY <1>1 DEF Push, Goto, CallType
<1>5. StepsLeft(r)' = 5 * (Len(ask[r].names) - (Len(done[r]) + 1)) + 4
  BY <1>3, <1>4 DEF StepsLeft, Rest
<1>6. pc[r] \in Pc \ {"idle"} /\ Rest(pc[r]) \in Nat
  BY <1>1, OpenNames, RestNat
<1>7. StepsLeft(r) = 5 * (Len(ask[r].names) - Len(done[r])) + Rest(pc[r])
  BY <1>1 DEF StepsLeft
<1> DEFINE n == Len(ask[r].names)
           d == Len(done[r])
<1>8. n \in Nat /\ d \in Nat /\ StepsLeft(r)' = 5 * (n - (d + 1)) + 4
      /\ StepsLeft(r) = 5 * (n - d) + Rest(pc[r])
  BY <1>2, <1>5, <1>7
<1> HIDE DEF n, d
<1>. QED
  BY <1>6, <1>8

LEMMA StepAlone ==
  ASSUME Inv, NEW r \in Caller, Step(r), NEW s \in Caller \ {r}
  PROVE  Stage(s)' = Stage(s)
<1>1. /\ ask' = ask
      /\ \E x : pc' = [pc EXCEPT ![r] = x]
      /\ work' = work \/ (\E x : work' = [work EXCEPT ![r] = x])
                      \/ (\E x : work' = [work EXCEPT ![r].user = x])
                      \/ (\E x : work' = [work EXCEPT ![r].info = x])
                      \/ (\E x : work' = [work EXCEPT ![r].label = x])
      /\ done' = done \/ (\E x : done' = [done EXCEPT ![r] = x])
  <2>1. CASE \E res : Return(r, res)
    BY <2>1 DEF Return
  <2>2. CASE \E i, l, c : Push(r, i, l, c)
    BY <2>2 DEF Push, Goto
  <2>3. CASE GetUser(r) /\ ~Fail(r)
    BY <2>3 DEF GetUser, Goto
  <2>4. CASE (QueryAbility(r) \/ GetLabel(r)) /\ ~Fail(r)
    BY <2>4 DEF QueryAbility, GetLabel, Goto
  <2>5. CASE (ProxyOfAbilities(r) \/ ProxyOfBundles(r) \/ GetRemoteAbilityInfos(r)
                \/ GetRemoteBundleVersionCode(r) \/ BuildDistributedBmsAclInfo(r)
                \/ SendAbilities(r) \/ SendVersion(r) \/ Resend(r) \/ GetAbilityInfos(r)
                \/ Check(r)) /\ ~Fail(r)
    BY <2>5 DEF ProxyOfAbilities, ProxyOfBundles, GetRemoteAbilityInfos,
         GetRemoteBundleVersionCode, Find, BuildDistributedBmsAclInfo, SendAbilities, SendVersion,
         Resend, GetAbilityInfos, Check, Goto
  <2>6. QueryVersion(r) \/ GetAbilityIconByContent(r) => Fail(r) \/ \E i, l, c : Push(r, i, l, c)
    BY DEF QueryVersion, GetAbilityIconByContent
  <2>7. Fail(r) \/ GetStored(r) \/ Reply(r) \/ Lost(r) => \E res : Return(r, res)
    BY DEF Fail, GetStored, Reply, Lost
  <2>. QED
    BY <2>1, <2>2, <2>3, <2>4, <2>5, <2>6, <2>7 DEF Step
<1>. QED
  BY <1>1, InvParts DEF CallType, Stage

\* Every step of a query leaves it fewer, and the other queries where they are.
LEMMA StepAdvances ==
  ASSUME Inv, NEW r \in Caller, Step(r)
  PROVE  StepsLeft(r)' < StepsLeft(r)
<1>1. pc[r] # "idle"
  BY DEF Step, ProxyOfAbilities, ProxyOfBundles, GetRemoteAbilityInfos,
         GetRemoteBundleVersionCode, BuildDistributedBmsAclInfo, SendAbilities, SendVersion,
         Resend, GetStored, GetAbilityInfos, Check, GetUser, QueryVersion, QueryAbility,
         GetLabel, GetAbilityIconByContent, Reply, Lost, InCall, AtPeer
<1>2. CASE \E res : Return(r, res)
  BY <1>1, <1>2, ReturnAdvances
<1>3. CASE Fail(r) \/ GetStored(r) \/ Reply(r) \/ Lost(r)
  BY <1>2, <1>3 DEF Fail, GetStored, Reply, Lost
<1>4. CASE (QueryVersion(r) \/ GetAbilityIconByContent(r)) /\ ~Fail(r)
  BY <1>4, IconAndVersion, PushAdvances
<1>5. CASE (ProxyOfAbilities(r) \/ ProxyOfBundles(r)) /\ ~Fail(r)
  <2>1. PICK label \in {"host", "stored"} : pc[r] = "proxy" /\ Goto(r, label) /\ UNCHANGED done
    BY <1>5 DEF ProxyOfAbilities, ProxyOfBundles
  <2>. QED
    BY <2>1, GotoAdvances DEF Along
<1>6. CASE (GetRemoteAbilityInfos(r) \/ GetRemoteBundleVersionCode(r)) /\ ~Fail(r)
  <2>1. pc[r] = "host" /\ Goto(r, "acl") /\ UNCHANGED done
    BY <1>6 DEF GetRemoteAbilityInfos, GetRemoteBundleVersionCode, Find
  <2>. QED
    BY <2>1, GotoAdvances DEF Along
<1>7. CASE BuildDistributedBmsAclInfo(r)
  <2>1. pc[r] = "acl" /\ Goto(r, "send") /\ UNCHANGED done
    BY <1>7 DEF BuildDistributedBmsAclInfo
  <2>. QED
    BY <2>1, GotoAdvances DEF Along
<1>8. CASE (SendAbilities(r) \/ SendVersion(r) \/ Resend(r)) /\ ~Fail(r)
  <2>1. PICK label \in {"resend", "accept", "check"} :
          /\ pc[r] = "send" \/ (pc[r] = "resend" /\ label # "resend")
          /\ Goto(r, label) /\ UNCHANGED done
    BY <1>8 DEF SendAbilities, SendVersion, Resend, Accepted
  <2>. QED
    BY <2>1, GotoAdvances DEF Along
<1>9. CASE (GetAbilityInfos(r) \/ Check(r)) /\ ~Fail(r)
  <2>1. PICK label \in {"check", "user"} :
          /\ pc[r] = IF label = "check" THEN "accept" ELSE "check"
          /\ Goto(r, label) /\ UNCHANGED done
    BY <1>9 DEF GetAbilityInfos, Check
  <2>. QED
    BY <2>1, GotoAdvances DEF Along
<1>10. CASE (GetUser(r) \/ QueryAbility(r) \/ GetLabel(r)) /\ ~Fail(r)
  <2>1. PICK label \in {"query", "label", "icon"} :
          /\ pc[r] = CASE label = "query" -> "user" [] label = "label" -> "query"
                       [] label = "icon" -> "label"
          /\ Goto(r, label) /\ UNCHANGED done
    BY <1>10 DEF GetUser, QueryAbility, GetLabel
  <2>. QED
    BY <2>1, GotoAdvances DEF Along
<1>. QED
  BY <1>3, <1>4, <1>5, <1>6, <1>7, <1>8, <1>9, <1>10 DEF Step

\* A query ends after a bounded number of its own steps: each lowers
\* StepsLeft, which is a natural number (StepsLeftPositive), and nothing else
\* raises it; for batches of any length, with any changes, deaths and failures.
THEOREM QueriesAdvance == Spec => QueryAdvances
<1>1. Inv /\ [Next]_vars =>
        [\A r \in Caller :
           pc[r] # "idle" /\ (Step(r) \/ Stage(r)' # Stage(r)) =>
               StepsLeft(r)' < StepsLeft(r)]_vars
  <2> SUFFICES ASSUME Inv, [Next]_vars, NEW r \in Caller, pc[r] # "idle",
                      ~Step(r), Stage(r)' # Stage(r)
               PROVE  StepsLeft(r)' < StepsLeft(r)
    BY StepAdvances
  <2>1. CASE UNCHANGED vars
    BY <2>1 DEF vars, callVars, Stage
  <2>2. ASSUME NEW s \in Caller, Ask(s) PROVE FALSE
    <3>1. s # r /\ UNCHANGED <<work, done>> /\ pc'[r] = pc[r] /\ ask'[r] = ask[r]
      BY <2>2, InvParts DEF Ask, CallType
    <3>. QED
      BY <3>1 DEF Stage
  <2>3. ASSUME NEW s \in Caller, Step(s) PROVE StepsLeft(r)' < StepsLeft(r)
    BY <2>3, StepAlone, StepAdvances
  <2>4. CASE UNCHANGED <<pc, ask, work, done>>
    BY <2>4 DEF Stage
  <2>. QED
    BY <2>1, <2>2, <2>3, <2>4 DEF Next, Install, SwitchUser, Die, Start, callVars
<1>. QED
  BY <1>1, Invariant, PTL DEF Spec, QueryAdvances
=============================================================================
