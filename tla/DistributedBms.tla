--------------------------- MODULE DistributedBms ---------------------------
(***************************************************************************)
(* The service around the publishing half of the storage: DistributedBms   *)
(* starts on demand, subscribes to the package and user events, refreshes  *)
(* the entries on its main thread and from then on lets DistributedMonitor *)
(* handle one event after the other on the subscriber's thread.  The two   *)
(* threads overlap, since Init subscribes before it refreshes.  The        *)
(* process may stop, unloaded or crashed, at any moment; the store, BMS    *)
(* and the account service live on.                                        *)
(***************************************************************************)
EXTENDS DataStorage, Sequences

CONSTANTS Main, Monitor,
          MaxQueue,   \* bound on undelivered events
          MaxStarts   \* bound on process starts

ASSUME ThreadAssumption == Thread = {Main, Monitor} /\ Main # Monitor
ASSUME ServiceBoundAssumption == MaxQueue \in Nat /\ MaxStarts \in Nat

VARIABLES running,      \* the process is alive
          subscribed,   \* distributedSub_ is registered
          queue,        \* events published and not yet received
          starts,       \* process starts so far
          missed        \* history: bundles that changed with no subscriber

serviceVars == <<running, subscribed, queue, starts, missed>>
allVars == <<vars, serviceVars>>

Package == {"PACKAGE_ADDED", "PACKAGE_CHANGED", "PACKAGE_REMOVED"}
Event == [action : Package, bundle : Bundle, user : AnyUser]
           \cup [action : {"USER_SWITCHED"}, user : User]

ServiceTypeOK ==
    /\ TypeOK
    /\ running \in BOOLEAN
    /\ subscribed \in BOOLEAN
    /\ queue \in Seq(Event)
    /\ starts \in 0..MaxStarts
    /\ missed \subseteq Bundle

ServiceInit ==
    /\ Init
    /\ running = FALSE
    /\ subscribed = FALSE
    /\ queue = <<>>
    /\ starts = 0
    /\ missed = {}

-----------------------------------------------------------------------------

\* OnReceiveEvent: the storage call an event leads to.
TaskOf(e) ==
    CASE e.action = "USER_SWITCHED" -> [op |-> "Update", user |-> e.user]
      [] e.action \in {"PACKAGE_ADDED", "PACKAGE_CHANGED"} ->
           [op |-> "Save", bundle |-> e.bundle, user |-> e.user]
      [] e.action = "PACKAGE_REMOVED" -> [op |-> "Delete", bundle |-> e.bundle, user |-> e.user]

\* The bundles a call is about.
About(k) == CASE k.op = "none" -> {} [] k.op = "Update" -> Bundle [] OTHER -> {k.bundle}

\* What is still to be done about b: events to receive, calls to finish.
Pending(b) == \/ \E i \in 1..Len(queue) : b \in About(TaskOf(queue[i]))
              \/ \E t \in Thread : b \in About(task[t])

\* The refresh has to make good what was missed; without it, that is lost.
Missed(reason) ==
    [b \in Bundle |-> IF b \in missed \/ doubt[b] = "unseen" THEN reason ELSE doubt[b]]

Refresh_Never == UNCHANGED threadVars

\* Init refreshes the entries of the active user, if there is one.
Refresh == IF activeUser \in User
           THEN Begin(Main, [op |-> "Update", user |-> activeUser])
           ELSE UNCHANGED threadVars

\* What is charged for GetCurrentActiveUserId failing after the store was, or
\* was not, opened.
UserUnanswered(opened) ==
    /\ \E more \in IF opened THEN {<<0, 0>>, <<1, 0>>} ELSE {<<2, 0>>, <<0, 1>>} :
         /\ ipcErrors' = ipcErrors + more[1]
         /\ faults' = faults + 1 + more[2]
    /\ ipcErrors' <= MaxIpcErrors /\ faults' <= MaxFaults

\* OnStart and Init: the storage singleton is made, whose constructor tries
\* twice to open the store; then the subscription; then the active user,
\* without whom there is no refresh.
OnStart ==
    /\ ~running /\ starts < MaxStarts
    /\ starts' = starts + 1
    /\ running' = TRUE
    /\ subscribed' = TRUE
    /\ \/ /\ kvOpen' \in BOOLEAN
          /\ Retried(kvOpen')
          /\ doubt' = Missed("unseen")
          /\ Refresh
       \/ /\ kvOpen' \in BOOLEAN
          /\ UserUnanswered(kvOpen')
          /\ doubt' = Missed("lost")
          /\ UNCHANGED threadVars
    /\ missed' = {}
    /\ UNCHANGED <<bmsVars, store, stale, queue>>

\* DistributedMonitor::OnReceiveEvent.
OnReceiveEvent ==
    /\ running /\ queue # <<>>
    /\ Begin(Monitor, TaskOf(Head(queue)))
    /\ queue' = Tail(queue)
    /\ NoFailure
    /\ UNCHANGED <<bmsVars, store, kvOpen, stale, doubt,
                   running, subscribed, starts, missed>>

\* OnStop unsubscribes; what was published before may still be received.
OnStop ==
    /\ running /\ subscribed /\ ~Busy(Main)
    /\ subscribed' = FALSE
    /\ UNCHANGED <<bmsVars, storageVars, running, queue, starts, missed>>

\* The process ends, after OnStop or by a crash, with everything in it.
Exit ==
    /\ running
    /\ running' = FALSE
    /\ subscribed' = FALSE
    /\ queue' = <<>>
    /\ kvOpen' = FALSE
    /\ pc' = [t \in Thread |-> "idle"]
    /\ task' = [t \in Thread |-> NoTask]
    /\ tries' = [t \in Thread |-> 0]
    /\ snap' = [t \in Thread |-> NoBundles]
    /\ todo' = [t \in Thread |-> {}]
    /\ stale' = [t \in Thread |-> {}]
    /\ doubt' = [b \in Bundle |-> IF Pending(b) THEN "unseen" ELSE doubt[b]]
    /\ NoFailure
    /\ UNCHANGED <<bmsVars, store, starts, missed>>

\* A change of BMS or of the active user is published to the subscriber, if
\* there is one.
Publish(e) ==
    /\ IF subscribed
       THEN /\ Len(queue) < MaxQueue
            /\ queue' = Append(queue, e)
            /\ UNCHANGED missed
       ELSE /\ missed' = missed \cup About(TaskOf(e))
            /\ UNCHANGED queue
    /\ UNCHANGED <<storageVars, running, subscribed, starts>>

PackageEvent(a, b, u) == Publish([action |-> a, bundle |-> b, user |-> EventUser(b, u)])

Environment ==
    \/ \E b \in Bundle, u \in User :
         \/ Install(b, u) /\ PackageEvent("PACKAGE_ADDED", b, u)
         \/ Toggle(b, u) /\ PackageEvent("PACKAGE_CHANGED", b, u)
         \/ Uninstall(b, u) /\ PackageEvent("PACKAGE_REMOVED", b, u)
    \/ \E u \in User : SwitchUser(u) /\ Publish([action |-> "USER_SWITCHED", user |-> u])

Work(t) == Step(t) /\ UNCHANGED <<bmsVars, serviceVars>>

ServiceNext == \/ OnStart \/ OnReceiveEvent \/ OnStop \/ Exit
               \/ \E t \in Thread : Work(t)
               \/ Environment

\* Threads that have work do it; whether the service is stopped, or BMS
\* changes, is up to others.
Fairness == /\ WF_allVars(OnReceiveEvent)
            /\ \A t \in Thread : WF_allVars(Work(t))

ServiceSpec == ServiceInit /\ [][ServiceNext]_allVars /\ Fairness

-----------------------------------------------------------------------------

\* Once everything about a bundle is handled, its entry is what BMS reports
\* for the active user, up to the attributes that change without updateTime
\* when the refresh skipped the entry.  Save, Delete and Update together
\* promise this (distributed_data_storage.cpp:73-170, 461-541).
Agreement ==
    \A b \in Bundle \ Singleton :
      activeUser \in User /\ b \notin missed /\ ~Pending(b) =>
        LET i == bms[activeUser][b] IN
        /\ doubt[b] = "none" => Mine[b] = i
        /\ doubt[b] = "skipped" => Parses(Mine[b]) /\ i # NoInfo /\ Mine[b].time = i.time

\* A bundle is left in doubt for a failure only after a failure that the
\* single retry on IPC_ERROR does not absorb.
RetryAbsorbs ==
    faults = 0 /\ ipcErrors <= 1 => \A b \in Bundle : doubt[b] = "lost" => Mine[b] = Corrupt

\* No step publishes a singleton: Update skips it, and Save, which does not
\* look, is turned away because the event carries user 0.
SingletonNotPublished ==
    [][\A b \in Singleton : Mine'[b] \in {Mine[b], NoInfo}]_allVars

\* When changes cease, a running service ends up with the entries of the
\* active user, but for entries it lost, overwrote from an older reading,
\* cannot parse and has no bundle for, or left alone because BMS says something
\* else of the bundle under the updateTime they have (NeedsUpdate).
Converges ==
    <>[](running /\ subscribed /\ activeUser \in User =>
           \A b \in Bundle \ Singleton :
             LET i == bms[activeUser][b] IN
             \/ doubt[b] \in {"lost", "overlap"}
             \/ Mine[b] = i
             \/ doubt[b] = "skipped")
=============================================================================
