---------------------------- MODULE RemoteLookup ----------------------------
(***************************************************************************)
(* The reading half of DistributedDataStorage.  A question about a peer    *)
(* runs on a binder thread t:                                              *)
(*                                                                         *)
(*   idle -> check -> udid -> uuid -> sync -> wait -> get -> idle          *)
(*                                              get -> erase -> idle       *)
(*                                                                         *)
(* At sync it asks the store to synchronise with the peer and hands it a   *)
(* callback object of its own; at wait it waits, at most 180 s, for the    *)
(* promise in that object; at get it reads the local copy; an entry that   *)
(* does not parse it deletes, at erase, still holding kvStorePtrMutex_.    *)
(*                                                                         *)
(* The store, outside the repository, exchanges entries with a peer that   *)
(* is online and reports a synchronisation as complete, perhaps late, more *)
(* than once, as failed, without a result for the peer, or never.  It      *)
(* takes no lock of ours.  What a thread holds while at erase is the only  *)
(* lock that spans two steps.                                              *)
(*                                                                         *)
(* A definition named D_X is a wrong variant of D, named for its mistake:  *)
(* no specification uses it, it serves to see the properties fail.         *)
(***************************************************************************)
EXTENDS RemoteRead

CONSTANTS Self,        \* the local udid
          MaxAsked,    \* bound on questions
          MaxReports,  \* bound on reports of one synchronisation
          MaxFaults    \* bound on failing calls

ASSUME LookupAssumption == /\ Self \in Device
                           /\ MaxAsked \in Nat /\ MaxReports \in Nat /\ MaxFaults \in Nat

VARIABLES local,     \* local[d][b]: the copy of d's entries in this device's store
          kvOpen,    \* kvStorePtr_ # nullptr
          online,    \* the peers the device manager knows
          pc,
          uuid,      \* uuid[t]: what GetUuidByNetworkId gave, a device or NoUuid
          callback,  \* callback[t]: the callback object of t's question
          sync,      \* sync[c]: the synchronisation c is to hear of
          asked,     \* questions so far; the n-th has callback object n
          changes,   \* changes of what is published so far
          faults,
          spoilt     \* history: threads some other thread's deletion may mislead,
                    \* until entries come over again

storeVars == <<local, online, sync>>
threadVars == <<pc, uuid, callback>>
vars == <<readVars, storeVars, threadVars, kvOpen, asked, changes, faults, spoilt>>

Pc == {"idle", "check", "udid", "uuid", "sync", "wait", "get", "erase"}
NoUuid == "no uuid"
Status == {"SUCCESS", "ERROR"}
Number == 1..MaxAsked

\* A synchronisation and its callback object: the device whose entries were
\* asked for (Self: not asked yet), the uuid_ set, whether entries came over
\* since, how often SyncCompleted was called, and the promise.
NoSync == [device |-> Self, uuid |-> NoUuid, copied |-> FALSE, reports |-> 0,
           promise |-> "unset"]
Sync == [device : Device, uuid : Device \cup {NoUuid}, copied : BOOLEAN,
         reports : 0..MaxReports, promise : Status \cup {"unset"}]

LookupTypeOK ==
    /\ published \in [Device -> [Bundle -> Value]]
    /\ ask \in [Thread -> Question \cup {NoQuestion}]
    /\ seen \in [Thread -> SUBSET [Bundle -> Value]]
    /\ result \in [Thread -> Result]
    /\ local \in [Device -> [Bundle -> Value]]
    /\ kvOpen \in BOOLEAN
    /\ online \subseteq Device \ {Self}
    /\ pc \in [Thread -> Pc]
    /\ uuid \in [Thread -> Device \cup {NoUuid}]
    /\ callback \in [Thread -> 0..MaxAsked]
    /\ sync \in [Number -> Sync]
    /\ asked \in 0..MaxAsked
    /\ changes \in 0..MaxChanges
    /\ faults \in 0..MaxFaults
    /\ spoilt \subseteq Thread

\* The local copy may be of any age.  This device's own entries are not read
\* here and left out.
Init ==
    /\ ReadInit
    /\ local \in [Device -> [Bundle -> [token : Token, version : {0}] \cup {NoEntry}]]
    /\ \A b \in Bundle : published[Self][b] = NoEntry /\ local[Self][b] = NoEntry
    /\ kvOpen = TRUE
    /\ online = Device \ {Self}
    /\ pc = [t \in Thread |-> "idle"]
    /\ uuid = [t \in Thread |-> NoUuid]
    /\ callback = [t \in Thread |-> 0]
    /\ sync = [c \in Number |-> NoSync]
    /\ asked = 0
    /\ changes = 0
    /\ faults = 0
    /\ spoilt = {}

-----------------------------------------------------------------------------
(* The steps of a question. *)

Peer(t) == ask[t].device
Unlocked == \A t \in Thread : pc[t] # "erase"
Fault == faults < MaxFaults /\ faults' = faults + 1
NoFault == UNCHANGED faults
Goto(t, label) == pc' = [pc EXCEPT ![t] = label] /\ UNCHANGED readVars

\* The call returns r to its caller.
Return(t, r) ==
    /\ Answer(t, r)
    /\ pc' = [pc EXCEPT ![t] = "idle"]
    /\ uuid' = [uuid EXCEPT ![t] = NoUuid]
    /\ callback' = [callback EXCEPT ![t] = 0]
    /\ spoilt' = spoilt \ {t}

Fail(t) == Return(t, [status |-> "failed"])

Begin(t) ==
    /\ pc[t] = "idle" /\ asked < MaxAsked
    /\ \E q \in Question : Ask(t, q)
    /\ pc' = [pc EXCEPT ![t] = "check"]
    /\ asked' = asked + 1
    /\ callback' = [callback EXCEPT ![t] = asked']
    /\ UNCHANGED <<storeVars, uuid, kvOpen, changes, faults, spoilt>>

\* CheckKvStore, its loop taken as one step: the store is open or gets opened,
\* or the question fails.
CheckKvStore(t) ==
    /\ pc[t] = "check" /\ Unlocked
    /\ \/ Goto(t, "udid") /\ kvOpen' = TRUE /\ NoFault /\ UNCHANGED <<uuid, callback, spoilt>>
       \/ ~kvOpen /\ Fault /\ Fail(t) /\ UNCHANGED kvOpen
    /\ UNCHANGED <<storeVars, asked, changes>>

\* GetUdidByNetworkId, GetLocalUdid and their comparison: a device that is
\* not known, and this one, are not asked.
GetUdid(t) ==
    /\ pc[t] = "udid"
    /\ \/ /\ Peer(t) \in online
          /\ Goto(t, "uuid")
          /\ NoFault
          /\ UNCHANGED <<uuid, callback, spoilt>>
       \/ /\ IF Peer(t) \in online THEN Fault ELSE NoFault
          /\ Fail(t)
    /\ UNCHANGED <<storeVars, kvOpen, asked, changes>>

\* GetUuidByNetworkId: the peer may have gone since.  An empty uuid is no
\* error, and what is checked for emptiness after it is the udid.
GetUuid(t) ==
    /\ pc[t] = "uuid"
    /\ \/ /\ Peer(t) \in online
          /\ Goto(t, "sync")
          /\ \/ uuid' = [uuid EXCEPT ![t] = Peer(t)] /\ NoFault
             \/ uuid' = [uuid EXCEPT ![t] = NoUuid] /\ Fault
          /\ UNCHANGED <<callback, spoilt>>
       \/ /\ IF Peer(t) \in online THEN Fault ELSE NoFault
          /\ Fail(t)
    /\ UNCHANGED <<storeVars, kvOpen, asked, changes>>

StartSync_SharedCallback(t) ==
    /\ pc[t] = "sync" /\ Unlocked
    /\ kvOpen
    /\ Goto(t, "wait")
    /\ callback' = [callback EXCEPT ![t] = 1]
    /\ sync' = IF sync[1].device = Self
               THEN [sync EXCEPT ![1].device = Peer(t), ![1].uuid = uuid[t]] ELSE sync
    /\ NoFault
    /\ UNCHANGED <<local, online, uuid, kvOpen, asked, changes, spoilt>>

\* Sync is asked for with the callback object made for this question.
StartSync(t) ==
    /\ pc[t] = "sync" /\ Unlocked
    /\ \/ /\ kvOpen
          /\ Goto(t, "wait")
          /\ sync' = [sync EXCEPT ![callback[t]].device = Peer(t), ![callback[t]].uuid = uuid[t]]
          /\ NoFault
          /\ UNCHANGED <<uuid, callback, spoilt>>
       \/ /\ IF kvOpen THEN Fault ELSE NoFault
          /\ Fail(t)
          /\ UNCHANGED sync
    /\ UNCHANGED <<local, online, kvOpen, asked, changes>>

GetResultCode_TimeoutIsSuccess(t) ==
    /\ pc[t] = "wait"
    /\ IF sync[callback[t]].promise = "ERROR"
       THEN Fail(t)
       ELSE Goto(t, "get") /\ UNCHANGED <<uuid, callback, spoilt>>
    /\ UNCHANGED <<storeVars, kvOpen, asked, changes, faults>>

GetResultCode_NoTimeout(t) ==
    /\ pc[t] = "wait"
    /\ sync[callback[t]].promise # "unset"
    /\ IF sync[callback[t]].promise = "SUCCESS"
       THEN Goto(t, "get") /\ UNCHANGED <<uuid, callback, spoilt>>
       ELSE Fail(t)
    /\ UNCHANGED <<storeVars, kvOpen, asked, changes, faults>>

\* The promise is taken, or the time is over; time passes at will.
GetResultCode(t) ==
    /\ pc[t] = "wait"
    /\ IF sync[callback[t]].promise = "SUCCESS"
       THEN Goto(t, "get") /\ UNCHANGED <<uuid, callback, spoilt>>
       ELSE Fail(t)
    /\ UNCHANGED <<storeVars, kvOpen, asked, changes, faults>>

\* What a reading of the local copy s answers.
ReadInfo(t, s) ==
    LET v == s[ask[t].bundle] IN
    IF v = Corrupt THEN Goto(t, "erase") /\ UNCHANGED <<uuid, callback, spoilt>>
    ELSE Return(t, IF v = NoEntry THEN [status |-> "failed"]
                   ELSE [status |-> "ok", answer |-> v])

ReadName_AnyToken(t, s) ==
    LET N == {b \in Bundle : Parses(s[b])} IN
    IF N = {} THEN Return(t, [status |-> "notExist"])
    ELSE \E b \in N : Return(t, [status |-> "ok", answer |-> b])

ReadName(t, s) ==
    LET N == Answers(ask[t], s) IN
    IF N = {} THEN Return(t, [status |-> "notExist"])
    ELSE \E b \in N : Return(t, [status |-> "ok", answer |-> b])

\* Get, or GetEntries and the search through them.
Get(t) ==
    /\ pc[t] = "get" /\ Unlocked
    /\ \/ /\ kvOpen
          /\ NoFault
          /\ IF ask[t].op = "info" THEN ReadInfo(t, local[Peer(t)]) ELSE ReadName(t, local[Peer(t)])
       \/ /\ IF kvOpen THEN Fault ELSE NoFault
          /\ Fail(t)
    /\ UNCHANGED <<storeVars, kvOpen, asked, changes>>

\* The entry that did not parse is deleted, if the call gets through; by now
\* it may be another one.
Erase(t) ==
    /\ pc[t] = "erase"
    /\ \/ /\ local' = [local EXCEPT ![Peer(t)][ask[t].bundle] = NoEntry]
          /\ NoFault
       \/ Fault /\ UNCHANGED local
    /\ Answer(t, [status |-> "failed"])
    /\ pc' = [pc EXCEPT ![t] = "idle"]
    /\ uuid' = [uuid EXCEPT ![t] = NoUuid]
    /\ callback' = [callback EXCEPT ![t] = 0]
    /\ spoilt' = (spoilt \ {t}) \cup {s \in Thread \ {t} : Asking(s) /\ Peer(s) = Peer(t)}
    /\ UNCHANGED <<online, sync, kvOpen, asked, changes>>

Step(t) == \/ CheckKvStore(t) \/ GetUdid(t) \/ GetUuid(t) \/ StartSync(t)
           \/ GetResultCode(t) \/ Get(t) \/ Erase(t)

-----------------------------------------------------------------------------
(* The store, the peers, the device manager. *)

\* The entries of the device a synchronisation asked for come over.
Exchange(c) ==
    LET d == sync[c].device IN
    /\ d \in online
    /\ local' = [local EXCEPT ![d] = published[d]]
    /\ sync' = [sync EXCEPT ![c].copied = TRUE]
    /\ spoilt' = {t \in spoilt : Peer(t) # d}
    /\ UNCHANGED <<readVars, threadVars, online, kvOpen, asked, changes, faults>>

SyncCompleted_NoFind(c) ==
    /\ sync[c].device # Self /\ sync[c].reports < MaxReports
    /\ \E Uuids \in SUBSET {sync[c].device}, status \in Status :
         /\ status = "SUCCESS" => sync[c].copied
         /\ sync' = [sync EXCEPT ![c].reports = @ + 1,
                                 ![c].promise = IF @ # "unset" THEN @
                                                ELSE IF sync[c].uuid \in Uuids THEN status
                                                ELSE "no status"]
    /\ UNCHANGED <<readVars, threadVars, local, online, kvOpen, asked, changes, faults, spoilt>>

\* SyncCompleted, called with a status per uuid.  A result without the uuid
\* of the callback is ignored; the first with it settles the promise.
SyncCompleted(c) ==
    /\ sync[c].device # Self /\ sync[c].reports < MaxReports
    /\ \E Uuids \in SUBSET {sync[c].device}, status \in Status :
         /\ status = "SUCCESS" => sync[c].copied
         /\ sync' = [sync EXCEPT ![c].reports = @ + 1,
                                 ![c].promise = IF sync[c].uuid \in Uuids /\ @ = "unset"
                                                THEN status ELSE @]
    /\ UNCHANGED <<readVars, threadVars, local, online, kvOpen, asked, changes, faults, spoilt>>

\* A peer's d-bms changes what it publishes; another version of it may
\* publish what does not parse here.
PeerPublishes ==
    /\ changes < MaxChanges
    /\ changes' = changes + 1
    /\ \E d \in Device \ {Self}, b \in Bundle :
         \/ \E v \in {NoEntry, Corrupt} : Publish(d, b, v)
         \/ \E token \in Token : Publish(d, b, [token |-> token, version |-> changes'])
    /\ UNCHANGED <<storeVars, threadVars, kvOpen, asked, faults, spoilt>>

\* Peers come and go.
PeerMoves ==
    /\ \E d \in Device \ {Self} : online' = IF d \in online THEN online \ {d} ELSE online \cup {d}
    /\ UNCHANGED <<readVars, local, sync, threadVars, kvOpen, asked, changes, faults, spoilt>>

\* GetKvStore, called by a thread of the publishing half, may null the pointer.
OtherGetKvStore ==
    /\ Unlocked /\ kvOpen /\ Fault
    /\ kvOpen' = FALSE
    /\ UNCHANGED <<readVars, storeVars, threadVars, asked, changes, spoilt>>

Next == \/ \E t \in Thread : Begin(t) \/ Step(t)
        \/ \E c \in Number : Exchange(c) \/ SyncCompleted(c)
        \/ PeerPublishes \/ PeerMoves \/ OtherGetKvStore

Fairness == \A t \in Thread : WF_vars(Step(t))

Spec == Init /\ [][Next]_vars /\ Fairness

-----------------------------------------------------------------------------

\* A token is said to belong to no bundle only when that was so of the peer at
\* some moment since the question, or another question's deletion of an entry
\* came in between and nothing came over since (GetDistributedBundleName, :241-267, against the Delete of
\* GetStorageDistributeInfo, :208).
NotExistIsHonest ==
    [][\A t \in Thread :
         result'[t] # result[t] /\ result'[t] = [status |-> "notExist"] =>
           \/ t \in spoilt
           \/ \E s \in seen[t] : Answers(ask[t], s) = {}]_vars

\* Every question is answered, whether or not the store ever reports
\* (GetResultCode gives up after MINIMUM_WAITING_TIME, :578-588).
EveryQuestionAnswered == \A t \in Thread : Asking(t) ~> ~Asking(t)

\* "get uuid is Empty" (:331) is the reason given for not starting a
\* synchronisation: no question waits for one without a uuid.
NoSyncWithoutUuid == \A t \in Thread : pc[t] = "wait" => uuid[t] # NoUuid
=============================================================================
