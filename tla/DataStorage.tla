---------------------------- MODULE DataStorage ----------------------------
(***************************************************************************)
(* The publishing half of DistributedDataStorage: the entries this device  *)
(* keeps in the distributed key-value store so that its peers can read     *)
(* what is installed here.  Three calls write it: Save and Delete, made on *)
(* package events, and Update, the refresh at service start and on a user  *)
(* switch.  Each runs on some thread t as the sequence of steps between    *)
(* which the code holds no lock: kvStorePtrMutex_ covers single accesses   *)
(* to the store, never the span from reading BMS to writing what was read. *)
(*                                                                         *)
(*   idle -> check -> user -> read -> write -> idle       Save             *)
(*           check -> user -> erase -> idle               Delete           *)
(*           check -> open ... open -> user               store not open   *)
(*   idle -> list -> old -> write ... write -> idle       Update           *)
(*                                                                         *)
(* A section under kvStorePtrMutex_ is one step (and the check of the      *)
(* pointer that follows a successful GetKvStore is part of that step).  A  *)
(* call into the store or into another service may fail: an IPC_ERROR is   *)
(* charged to ipcErrors, any other failure to faults, both bounded.        *)
(*                                                                         *)
(* Two history variables relate the threads.  stale[t] collects, from the  *)
(* beginning of t's call, the bundles that another thread settled, or for  *)
(* which t had to go on without an answer: what t writes for them may be   *)
(* older than what it overwrites.  doubt[b] says why the entry of b cannot *)
(* be relied on: BMS changed unseen, a step about b gave up (lost), a      *)
(* stale write hit it (overlap), or the refresh left it alone though BMS   *)
(* says something else under the same updateTime (skipped); a good write   *)
(* clears it.                                                              *)
(*                                                                         *)
(* A definition named D_X is a wrong variant of D, named for its mistake:  *)
(* no specification uses it, it serves to see the properties fail.         *)
(***************************************************************************)
EXTENDS BundleManager

CONSTANTS Thread,
          Device,        \* the devices whose entries the store holds
          Self,          \* the local udid
          Corrupt,       \* a value FromJsonString rejects
          MaxTries,      \* MAX_TIMES of CheckKvStore, 600
          MaxIpcErrors,  \* bound on calls that end in IPC_ERROR
          MaxFaults      \* bound on other failures

ASSUME DeviceAssumption == Self \in Device
ASSUME CorruptAssumption == Corrupt \notin Info \cup {NoInfo}
ASSUME BoundAssumption == MaxTries \in Nat /\ MaxIpcErrors \in Nat /\ MaxFaults \in Nat

VARIABLES store,      \* store[d][b]: the entry under the key d_b
          kvOpen,     \* kvStorePtr_ # nullptr
          pc, task, tries, snap, todo,   \* the calls in progress
          ipcErrors, faults,
          stale, doubt

threadVars == <<pc, task, tries, snap, todo>>
storageVars == <<store, kvOpen, threadVars, ipcErrors, faults, stale, doubt>>
vars == <<bmsVars, storageVars>>

PackageTask == [op : {"Save", "Delete"}, bundle : Bundle, user : AnyUser]
RefreshTask == [op : {"Update"}, user : User]
Task == PackageTask \cup RefreshTask
NoTask == [op |-> "none"]

Pc == {"idle", "check", "open", "user", "read", "write", "erase", "list", "old"}
Doubt == {"none", "unseen", "lost", "overlap", "skipped"}
Entry == Info \cup {NoInfo, Corrupt}
Mine == store[Self]

Busy(t) == pc[t] # "idle"

TypeOK ==
    /\ BundleManagerTypeOK
    /\ store \in [Device -> [Bundle -> Entry]]
    /\ kvOpen \in BOOLEAN
    /\ pc \in [Thread -> Pc]
    /\ task \in [Thread -> Task \cup {NoTask}]
    /\ tries \in [Thread -> 0..MaxTries]
    /\ snap \in [Thread -> [Bundle -> Info \cup {NoInfo}]]
    /\ todo \in [Thread -> SUBSET Bundle]
    /\ ipcErrors \in 0..MaxIpcErrors
    /\ faults \in 0..MaxFaults
    /\ stale \in [Thread -> SUBSET Bundle]
    /\ doubt \in [Bundle -> Doubt]

StorageInit ==
    /\ store \in [Device -> [Bundle -> {NoInfo, Corrupt}]]
    /\ kvOpen = FALSE
    /\ pc = [t \in Thread |-> "idle"]
    /\ task = [t \in Thread |-> NoTask]
    /\ tries = [t \in Thread |-> 0]
    /\ snap = [t \in Thread |-> NoBundles]
    /\ todo = [t \in Thread |-> {}]
    /\ ipcErrors = 0
    /\ faults = 0
    /\ stale = [t \in Thread |-> {}]
    /\ doubt = [b \in Bundle |-> "unseen"]

-----------------------------------------------------------------------------
(* Failures, control flow and history. *)

NoFailure == UNCHANGED <<ipcErrors, faults>>
Fault == faults < MaxFaults /\ faults' = faults + 1 /\ UNCHANGED ipcErrors

Retried_Never(ok) ==
    \/ ok /\ NoFailure
    \/ ~ok /\ Fault
    \/ /\ ~ok
       /\ ipcErrors < MaxIpcErrors
       /\ ipcErrors' = ipcErrors + 1
       /\ UNCHANGED faults

\* A store call with one retry on IPC_ERROR: it succeeds at once, after one
\* IPC_ERROR, or fails with another status or with a second IPC_ERROR.
Retried(ok) ==
    \/ ok /\ NoFailure
    \/ /\ ok
       /\ ipcErrors < MaxIpcErrors
       /\ ipcErrors' = ipcErrors + 1
       /\ UNCHANGED faults
    \/ ~ok /\ Fault
    \/ /\ ~ok
       /\ ipcErrors + 1 < MaxIpcErrors
       /\ ipcErrors' = ipcErrors + 2
       /\ UNCHANGED faults

Goto(t, label) == pc' = [pc EXCEPT ![t] = label]

Return(t) ==
    /\ Goto(t, "idle")
    /\ task' = [task EXCEPT ![t] = NoTask]
    /\ tries' = [tries EXCEPT ![t] = 0]
    /\ snap' = [snap EXCEPT ![t] = NoBundles]
    /\ todo' = [todo EXCEPT ![t] = {}]

\* t is done with the bundles Good, to which it did what its reading of BMS
\* asks for, and Lost, on which it gave up: what the other calls in progress
\* hold of them is stale from here on.
Judge(t, Good, Lost) ==
    /\ doubt' = [b \in Bundle |->
                   IF b \in Lost THEN "lost"
                   ELSE IF b \notin Good THEN doubt[b]
                   ELSE IF b \in stale[t] THEN "overlap"
                   ELSE IF pc[t] = "old" /\ snap[t][b] \notin {NoInfo, Mine[b]} THEN "skipped"
                   ELSE "none"]
    /\ stale' = [s \in Thread |->
                   IF s = t THEN IF pc'[t] = "idle" THEN {} ELSE stale[t]
                   ELSE IF Busy(s) THEN stale[s] \cup Good \cup Lost ELSE stale[s]]

\* The call of t returns without having touched the store.
GiveUp(t, Lost) == Return(t) /\ Judge(t, {}, Lost)

Begin(t, k) ==
    /\ ~Busy(t)
    /\ task' = [task EXCEPT ![t] = k]
    /\ Goto(t, IF k.op = "Update" THEN "list" ELSE "check")
    /\ UNCHANGED <<tries, snap, todo>>

-----------------------------------------------------------------------------
(* The steps of a call. *)

\* CheckKvStore looks at kvStorePtr_.
CheckKvStore(t) ==
    /\ pc[t] = "check"
    /\ Goto(t, IF kvOpen THEN "user" ELSE "open")
    /\ NoFailure
    /\ UNCHANGED <<store, kvOpen, task, tries, snap, todo, stale, doubt>>

OpenKvStore_NoLimit(t) ==
    /\ pc[t] = "open"
    /\ kvOpen' = FALSE
    /\ tries' = [tries EXCEPT ![t] = @ + 1]
    /\ NoFailure
    /\ UNCHANGED <<store, pc, task, snap, todo, stale, doubt>>

OpenKvStore_Uncounted(t) ==
    /\ pc[t] = "open" /\ tries[t] < MaxTries
    /\ \/ /\ kvOpen' = TRUE
          /\ Goto(t, "user")
          /\ tries' = [tries EXCEPT ![t] = 0]
          /\ NoFailure
       \/ /\ kvOpen' = FALSE
          /\ Fault
          /\ UNCHANGED <<pc, tries>>
    /\ UNCHANGED <<store, task, snap, todo, stale, doubt>>

\* A turn of CheckKvStore's loop calls GetKvStore, whatever other threads
\* have obtained since; a call that fails may leave kvStorePtr_ null.
OpenKvStore(t) ==
    /\ pc[t] = "open" /\ tries[t] < MaxTries
    /\ \/ /\ kvOpen' = TRUE
          /\ Goto(t, "user")
          /\ tries' = [tries EXCEPT ![t] = 0]
          /\ NoFailure
       \/ /\ kvOpen' \in {kvOpen, FALSE}
          /\ tries' = [tries EXCEPT ![t] = @ + 1]
          /\ Fault
          /\ UNCHANGED pc
    /\ UNCHANGED <<store, task, snap, todo, stale, doubt>>

\* After the last turn CheckKvStore looks once more.
LastCheck(t) ==
    /\ pc[t] = "open" /\ tries[t] = MaxTries
    /\ IF kvOpen
       THEN /\ Goto(t, "user")
            /\ tries' = [tries EXCEPT ![t] = 0]
            /\ UNCHANGED <<task, snap, todo, stale, doubt>>
       ELSE GiveUp(t, {task[t].bundle})
    /\ NoFailure
    /\ UNCHANGED <<store, kvOpen>>

\* GetCurrentActiveUserId is asked whether the event is about the active
\* user.  Save takes START_USERID when there is no answer, Delete does not.
\* An answer lost to a fault makes the outcome for b doubtful.
CurrentUser(t, answer) ==
    IF task[t].op = "Save" /\ answer = NoUser THEN StartUser ELSE answer

CheckUser(t) ==
    LET b == task[t].bundle IN
    /\ pc[t] = "user"
    /\ \E answer \in {activeUser, NoUser} :
         /\ IF answer = activeUser THEN NoFailure ELSE Fault
         /\ IF task[t].user = CurrentUser(t, answer)
            THEN /\ Goto(t, IF task[t].op = "Save" THEN "read" ELSE "erase")
                 /\ stale' = [stale EXCEPT ![t] = IF answer = activeUser THEN @ ELSE @ \cup {b}]
                 /\ UNCHANGED <<task, tries, snap, todo, doubt>>
            ELSE GiveUp(t, IF answer = activeUser THEN {} ELSE {b})
    /\ UNCHANGED <<store, kvOpen>>

\* Save reads b's description from BMS; if BMS has none, or does not answer,
\* it goes on as Delete.  Without a connection to BMS it returns.
ReadBundle(t) ==
    LET b == task[t].bundle
        i == bms[task[t].user][b]
    IN
    /\ pc[t] = "read"
    /\ \/ /\ i # NoInfo
          /\ NoFailure
          /\ Goto(t, "write")
          /\ snap' = [snap EXCEPT ![t][b] = i]
          /\ todo' = [todo EXCEPT ![t] = {b}]
          /\ UNCHANGED <<task, tries, stale, doubt>>
       \/ /\ IF i = NoInfo
             THEN NoFailure /\ UNCHANGED stale
             ELSE Fault /\ stale' = [stale EXCEPT ![t] = @ \cup {b}]
          /\ Goto(t, "check")
          /\ task' = [task EXCEPT ![t].op = "Delete"]
          /\ UNCHANGED <<tries, snap, todo, doubt>>
       \/ /\ Fault
          /\ GiveUp(t, {b})
    /\ UNCHANGED <<store, kvOpen>>

\* A write by t to the entry of b.  A call that reports failure may still
\* have reached the store.  Nothing is called without the store or the udid.
WriteEntry(t, b, v) ==
    /\ \/ /\ kvOpen /\ Retried(TRUE)
          /\ store' = [store EXCEPT ![Self][b] = v]
          /\ Judge(t, {b}, {})
       \/ /\ kvOpen /\ Retried(FALSE)
          /\ store' \in {store, [store EXCEPT ![Self][b] = v]}
          /\ Judge(t, {}, {b})
       \/ /\ (~kvOpen /\ NoFailure) \/ Fault      \* GetLocalUdid
          /\ UNCHANGED store
          /\ Judge(t, {}, {b})
    /\ UNCHANGED kvOpen

\* ConvertToDistributedBundleInfo: of what BMS reports, the attributes the
\* properties are about.
Convert_Narrowed(i) == [time |-> 1 + (i.time % 2), enabled |-> i.enabled, token |-> i.token]
Convert(i) == [time |-> i.time, enabled |-> i.enabled, token |-> i.token]

\* InnerSaveStorageDistributeInfo of one description t holds.  A failed Put
\* is only logged; Update goes on with the next bundle.
InnerSave(t, b) ==
    /\ pc[t] = "write" /\ b \in todo[t]
    /\ IF todo[t] = {b} THEN Return(t)
       ELSE todo' = [todo EXCEPT ![t] = @ \ {b}] /\ UNCHANGED <<pc, task, tries, snap>>
    /\ WriteEntry(t, b, Convert(snap[t][b]))

\* The last part of DeleteStorageDistributeInfo.
InnerDelete(t) ==
    /\ pc[t] = "erase"
    /\ Return(t)
    /\ WriteEntry(t, task[t].bundle, NoInfo)

\* Update reads every description BMS has for its user.
ListBundles(t) ==
    /\ pc[t] = "list"
    /\ \/ /\ NoFailure
          /\ Goto(t, "old")
          /\ snap' = [snap EXCEPT ![t] = bms[task[t].user]]
          /\ UNCHANGED <<task, tries, todo, stale, doubt>>
       \/ Fault /\ GiveUp(t, Bundle)
    /\ UNCHANGED <<store, kvOpen>>

Parses(v) == v \notin {NoInfo, Corrupt}

NeedsUpdate_OnlyNew(old, new) == ~Parses(old)

\* The entry is brought up to date only when updateTime differs.
NeedsUpdate(old, new) == ~(Parses(old) /\ old.time = new.time)

ToPut_Singletons(new, old) ==
    {b \in Bundle : new[b] # NoInfo /\ NeedsUpdate(old[b], new[b])}

\* What UpdateDistributedData will put, given the old entries it found.
ToPut(new, old) ==
    {b \in Bundle \ Singleton : new[b] # NoInfo /\ NeedsUpdate(old[b], new[b])}

ToPurge_AnyDevice(new) ==
    {k \in Device \X Bundle : Parses(store[k[1]][k[2]]) /\ new[k[2]] = NoInfo}

ToPurge_Nothing(new) == {}

ToPurge_All(new) == {k \in Device \X Bundle : k[1] = Self /\ Parses(store[k[1]][k[2]])}

\* The keys GetAllOldDistributionBundleInfo removes: this device's, whose
\* value parses and names a bundle BMS did not list.
ToPurge(new) ==
    {k \in Device \X Bundle : /\ k[1] = Self
                             /\ Parses(store[k[1]][k[2]])
                             /\ new[k[2]] = NoInfo}

Continue(t, B) ==
    IF B = {} THEN Return(t)
    ELSE Goto(t, "write") /\ todo' = [todo EXCEPT ![t] = B] /\ UNCHANGED <<task, tries, snap>>

\* GetAllOldDistributionBundleInfo, one locked section, purges and returns
\* the old entries; a Delete is not retried and a failed one is only
\* logged, as is an entry that does not parse, which stays.  Without the
\* store, the udid or the entries there is no purge and everything listed is
\* put.
RefreshOld(t) ==
    /\ pc[t] = "old"
    /\ \/ \E failed \in SUBSET ToPurge(snap[t]) : \E left \in SUBSET failed :
            LET purged == ToPurge(snap[t]) \ left
                put == ToPut(snap[t], Mine)
                lost == {b \in Bundle \ put : <<Self, b>> \in failed \/ Mine[b] = Corrupt}
            IN
            /\ kvOpen
            /\ IF failed = {} THEN NoFailure ELSE Fault
            /\ store' = [d \in Device |->
                           [b \in Bundle |-> IF <<d, b>> \in purged THEN NoInfo ELSE store[d][b]]]
            /\ Continue(t, put)
            /\ Judge(t, Bundle \ (put \cup lost), lost)
       \/ /\ IF kvOpen THEN Fault ELSE NoFailure
          /\ Continue(t, ToPut(snap[t], NoBundles))
          /\ Judge(t, {}, {b \in Bundle : snap[t][b] = NoInfo})
          /\ UNCHANGED store
    /\ UNCHANGED kvOpen

Step(t) ==
    \/ CheckKvStore(t) \/ OpenKvStore(t) \/ LastCheck(t)
    \/ CheckUser(t) \/ ReadBundle(t)
    \/ InnerDelete(t)
    \/ ListBundles(t) \/ RefreshOld(t)
    \/ \E b \in Bundle : InnerSave(t, b)

-----------------------------------------------------------------------------
(* The component on its own: any thread may make any call at any time, and *)
(* peers bring in their own entries.                                       *)

Call(t) == /\ \E k \in Task : Begin(t, k)
           /\ NoFailure
           /\ UNCHANGED <<store, kvOpen, stale, doubt>>

\* Of a peer's entry it only matters here whether it parses.
PeerEntry == {NoInfo, Corrupt} \cup {i \in Info : i.time = 1 /\ i.enabled /\ i.token = StartUser}

PeerSync(d, b) ==
    /\ d # Self
    /\ \E v \in PeerEntry : store' = [store EXCEPT ![d][b] = v]
    /\ UNCHANGED <<kvOpen, threadVars, ipcErrors, faults, stale, doubt>>

BmsStep == \/ \E b \in Bundle, u \in User : Install(b, u) \/ Toggle(b, u) \/ Uninstall(b, u)
           \/ \E u \in User : SwitchUser(u)

Init == BundleManagerInit /\ StorageInit

Next == \/ \E t \in Thread : (Call(t) \/ Step(t)) /\ UNCHANGED bmsVars
        \/ \E d \in Device, b \in Bundle : PeerSync(d, b) /\ UNCHANGED bmsVars
        \/ BmsStep /\ UNCHANGED storageVars

Spec == Init /\ [][Next]_vars

-----------------------------------------------------------------------------

\* What a call in progress holds at each of its steps.
CallOK(t) ==
    /\ pc[t] = "idle" => task[t] = NoTask
    /\ pc[t] \in {"check", "open", "user", "read", "erase"} => task[t] \in PackageTask
    /\ pc[t] = "read" => task[t].op = "Save" /\ task[t].user \in User
    /\ pc[t] \in {"list", "old"} => task[t] \in RefreshTask
    /\ pc[t] = "write" => task[t] \in Task
    /\ pc[t] \notin {"old", "write"} => snap[t] = NoBundles
    /\ pc[t] # "write" => todo[t] = {}
    /\ \A b \in todo[t] : snap[t][b] # NoInfo

CallsOK == \A t \in Thread : CallOK(t)

\* The entries of other devices are theirs: no call of this component, the
\* purge that walks over all entries included, changes one of them
\* (GetAllOldDistributionBundleInfo, distributed_data_storage.cpp:515-538).
ForeignUntouched ==
    [][threadVars' # threadVars => \A d \in Device \ {Self} : store'[d] = store[d]]_vars

\* In this step the description of a user's bundle gives way to an older one.
RolledBack(b) ==
    /\ Parses(Mine[b]) /\ Parses(Mine'[b])
    /\ Mine'[b].token = Mine[b].token
    /\ Mine'[b].time < Mine[b].time

\* The description of a user's bundle is replaced by an older one of the same
\* user's only by a call during which another call was done with the bundle, or
\* to which the answer about the active user or the bundle was lost.  A call
\* that nothing overlaps and nothing fails never publishes old news, however
\* the users switch meanwhile (SaveStorageDistributeInfo and
\* UpdateDistributedData hold no lock from reading BMS to Put,
\* distributed_data_storage.cpp:92-100, 470-494).
NoSilentRollback ==
    [][\A b \in Bundle : RolledBack(b) => \E t \in Thread : b \in todo[t] \cap stale[t]]_vars

\* What t's call has before it, a Save taken for a Delete: the turns of
\* CheckKvStore's loop count one by one, the puts of a refresh as one.
Rest(t) ==
    CASE pc[t] = "idle" -> 0
      [] pc[t] \in {"write", "erase"} -> 1
      [] pc[t] \in {"user", "old"} -> 2
      [] pc[t] = "list" -> 3
      [] pc[t] = "open" -> 3 + (MaxTries - tries[t])
      [] pc[t] = "check" -> 4 + MaxTries
      [] pc[t] = "read" -> 5 + MaxTries

\* What t's call has before it: a Save may become a Delete.
StepsLeft(t) == Rest(t) + IF pc[t] \in {"check", "open", "user"} /\ task[t].op = "Save"
                          THEN MaxTries + 4 ELSE 0

CallOf(t) == <<pc[t], task[t], tries[t], snap[t], todo[t]>>

\* Each step of a call brings it on, whatever fails, and nothing that others do
\* takes it back: the loop that waits for the store is left after MAX_TIMES
\* turns, a Save becomes a Delete once and never a Save again, a refresh puts
\* each bundle once.  So a call ends after a bounded number of its own steps, and
\* the events that wait behind it are received (distributed_data_storage.cpp:84-100,
\* 287-310, 483-494).
CallAdvances ==
    [][\A t \in Thread : Busy(t) /\ (CallOf(t)' # CallOf(t) \/ Step(t)) =>
         \/ StepsLeft(t)' < StepsLeft(t)
         \/ StepsLeft(t)' = StepsLeft(t) /\ todo'[t] \subseteq todo[t] /\ todo'[t] # todo[t]]_vars

\* The descriptions t has read and has yet to use: all of them until it has
\* seen the old entries, then those it goes on to put.
Held(t) == [b \in Bundle |-> IF pc[t] = "old" \/ b \in todo[t]
                            THEN {snap[t][b]} \ {NoInfo} ELSE {}]

Pub == INSTANCE Publication WITH
         Writer <- Thread, Name <- Bundle, Asker <- User, Nothing <- NoInfo,
         truth <- bms, entry <- Mine, held <- [t \in Thread |-> Held(t)]

\* This component implements Publication: with failing calls, calls that
\* fail after they took effect, retries, a store that closes under a call, and
\* calls about one bundle at the same time, an entry is only ever a whole
\* description one of them had read, put at most once per reading, and no call
\* removes an entry whose description it holds: the purge of a refresh leaves
\* what the refresh had BMS list (SaveStorageDistributeInfo,
\* DeleteStorageDistributeInfo, UpdateDistributedData,
\* GetAllOldDistributionBundleInfo, distributed_data_storage.cpp:77-157, 460-540).
PublishesReadings == Pub!Spec
=============================================================================
