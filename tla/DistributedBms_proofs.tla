----------------------- MODULE DistributedBms_proofs -----------------------
(***************************************************************************)
(* What the service guarantees for any number of bundles and users.  The   *)
(* storage's invariant carries over, since every step of the service is    *)
(* one of the storage, a call of it, or leaves it alone.                   *)
(***************************************************************************)
EXTENDS DistributedBms, Publication_proofs

LEMMA TaskOfType == \A e \in Event : TaskOf(e) \in Task
BY DEF Event, TaskOf, Task, PackageTask, RefreshTask, Package

LEMMA MainType == Main \in Thread /\ Monitor \in Thread
BY ThreadAssumption

SInv == Inv /\ ServiceTypeOK

LEMMA ServiceInitInv == ServiceInit => SInv
<1> SUFFICES ASSUME ServiceInit PROVE SInv
  OBVIOUS
<1>1. Inv
  BY InitInv DEF ServiceInit
<1>2. starts \in 0..MaxStarts /\ queue \in Seq(Event) /\ missed \subseteq Bundle
  BY ServiceBoundAssumption DEF ServiceInit
<1>3. running \in BOOLEAN /\ subscribed \in BOOLEAN
  BY DEF ServiceInit
<1>. QED
  BY <1>1, <1>2, <1>3 DEF SInv, Inv, ServiceTypeOK

LEMMA OnStartInv ==
  ASSUME SInv, OnStart
  PROVE  SInv'
<1>1. /\ pc' \in [Thread -> Pc] /\ task' \in [Thread -> Task \cup {NoTask}]
      /\ UNCHANGED <<tries, snap, todo>>
      /\ CallsOK'
  <2>1. CASE UNCHANGED threadVars
    BY <2>1 DEF threadVars, SInv, Inv, TypeOK, CallsOK, CallOK
  <2>2. CASE /\ activeUser \in User
             /\ Begin(Main, [op |-> "Update", user |-> activeUser])
    <3>1. [op |-> "Update", user |-> activeUser] \in Task
      BY <2>2 DEF Task, RefreshTask
    <3>. QED
      BY <2>2, <3>1, MainType, BeginInv DEF SInv
  <2>. QED
    BY <2>1, <2>2 DEF OnStart, Refresh
<1>2. ipcErrors' \in 0..MaxIpcErrors /\ faults' \in 0..MaxFaults
  <2>1. CASE Retried(kvOpen')
    BY <2>1, FailureType DEF SInv, Inv, OnStart
  <2>2. CASE UserUnanswered(kvOpen')
    BY <2>2, BoundAssumption DEF UserUnanswered, SInv, Inv, TypeOK
  <2>. QED
    BY <2>1, <2>2 DEF OnStart
<1>3. doubt' \in [Bundle -> Doubt]
  BY DEF OnStart, Missed, SInv, Inv, TypeOK, Doubt
<1>4. kvOpen' \in BOOLEAN
  BY DEF OnStart
<1>5. TypeOK'
  BY <1>1, <1>2, <1>3, <1>4 DEF OnStart, SInv, Inv, TypeOK, BundleManagerTypeOK, bmsVars
<1>6. starts' \in 0..MaxStarts
  BY ServiceBoundAssumption DEF OnStart, SInv, ServiceTypeOK
<1>7. running' \in BOOLEAN /\ subscribed' \in BOOLEAN
  BY DEF OnStart
<1>. QED
  BY <1>1, <1>5, <1>6, <1>7 DEF OnStart, SInv, Inv, ServiceTypeOK

LEMMA OnReceiveEventInv ==
  ASSUME SInv, OnReceiveEvent
  PROVE  SInv'
<1>1. Head(queue) \in Event /\ Tail(queue) \in Seq(Event)
  BY DEF OnReceiveEvent, SInv, ServiceTypeOK
<1>2. /\ pc' \in [Thread -> Pc] /\ task' \in [Thread -> Task \cup {NoTask}]
      /\ UNCHANGED <<tries, snap, todo>>
      /\ CallsOK'
  BY <1>1, TaskOfType, MainType, BeginInv DEF OnReceiveEvent, SInv
<1>3. TypeOK'
  BY <1>2 DEF OnReceiveEvent, NoFailure, SInv, Inv, TypeOK, BundleManagerTypeOK, bmsVars
<1>. QED
  BY <1>1, <1>2, <1>3 DEF OnReceiveEvent, SInv, Inv, ServiceTypeOK

LEMMA OnStopInv ==
  ASSUME SInv, OnStop
  PROVE  SInv'
BY DEF OnStop, storageVars, threadVars, bmsVars, SInv, Inv, ServiceTypeOK, TypeOK,
       BundleManagerTypeOK, CallsOK, CallOK

LEMMA ExitInv ==
  ASSUME SInv, Exit
  PROVE  SInv'
<1>1. /\ pc' \in [Thread -> Pc] /\ task' \in [Thread -> Task \cup {NoTask}]
      /\ tries' \in [Thread -> 0..MaxTries]
      /\ snap' \in [Thread -> [Bundle -> Info \cup {NoInfo}]]
      /\ todo' \in [Thread -> SUBSET Bundle]
  BY BoundAssumption DEF Exit, Pc, NoBundles
<1>2. stale' \in [Thread -> SUBSET Bundle] /\ doubt' \in [Bundle -> Doubt]
  BY DEF Exit, SInv, Inv, TypeOK, Doubt
<1>3. TypeOK'
  BY <1>1, <1>2 DEF Exit, NoFailure, SInv, Inv, TypeOK, BundleManagerTypeOK, bmsVars
<1>4. CallsOK'
  BY DEF Exit, CallsOK, CallOK
<1>5. queue' \in Seq(Event)
  BY DEF Exit
<1>. QED
  BY <1>3, <1>4, <1>5 DEF Exit, SInv, Inv, ServiceTypeOK

LEMMA PublishInv ==
  ASSUME SInv, NEW e \in Event, Publish(e), BmsStep
  PROVE  SInv'
<1>1. BundleManagerTypeOK'
  BY BmsStepType DEF SInv, Inv, TypeOK
<1>2. queue' \in Seq(Event)
  BY DEF Publish, SInv, ServiceTypeOK
<1>3. About(TaskOf(e)) \subseteq Bundle
  BY TaskOfType DEF About, Task, PackageTask, RefreshTask
<1>4. missed' \subseteq Bundle
  BY <1>3 DEF Publish, SInv, ServiceTypeOK
<1>. QED
  BY <1>1, <1>2, <1>4
  DEF Publish, storageVars, threadVars, SInv, Inv, ServiceTypeOK, TypeOK, CallsOK, CallOK

\* A change of BMS or of the active user is published as an event.
LEMMA EnvironmentStep ==
  ASSUME Environment
  PROVE  BmsStep /\ \E e \in Event : Publish(e)
<1>1. ASSUME NEW b \in Bundle, NEW u \in User, NEW a \in Package, PackageEvent(a, b, u)
      PROVE  \E e \in Event : Publish(e)
  <2>1. [action |-> a, bundle |-> b, user |-> EventUser(b, u)] \in Event
    BY DEF Event, EventUser, AnyUser
  <2>. QED
    BY <1>1, <2>1 DEF PackageEvent
<1>2. ASSUME NEW u \in User, Publish([action |-> "USER_SWITCHED", user |-> u])
      PROVE  \E e \in Event : Publish(e)
  <2>1. [action |-> "USER_SWITCHED", user |-> u] \in Event
    BY DEF Event
  <2>. QED
    BY <1>2, <2>1
<1>. QED
  BY <1>1, <1>2 DEF Environment, BmsStep, Package

LEMMA ServiceNextInv == SInv /\ [ServiceNext]_allVars => SInv'
<1> SUFFICES ASSUME SInv, [ServiceNext]_allVars PROVE SInv'
  OBVIOUS
<1>1. ASSUME NEW t \in Thread, Work(t)
      PROVE  SInv'
  <2>1. Inv'
    BY <1>1, StepInv DEF Work, SInv
  <2>. QED
    BY <1>1, <2>1 DEF Work, serviceVars, SInv, Inv, ServiceTypeOK
<1>2. CASE Environment
  BY <1>2, EnvironmentStep, PublishInv
<1>3. CASE UNCHANGED allVars
  BY <1>3 DEF allVars, serviceVars, vars, storageVars, threadVars, bmsVars, SInv, Inv,
              ServiceTypeOK, TypeOK, BundleManagerTypeOK, CallsOK, CallOK
<1>. QED
  BY <1>1, <1>2, <1>3, OnStartInv, OnReceiveEventInv, OnStopInv, ExitInv DEF ServiceNext

\* Every reachable state of the service is well typed, its bounds included.
THEOREM ServiceTypeCorrect == ServiceSpec => []ServiceTypeOK
<1>1. SInv => ServiceTypeOK
  BY DEF SInv
<1>. QED
  BY <1>1, ServiceInitInv, ServiceNextInv, PTL DEF ServiceSpec

-----------------------------------------------------------------------------
(* The storage within the service, through starts, events, stops and       *)
(* crashes, promises what it promises on its own.                          *)

\* What a step of the service is to the storage: a step of a call, the
\* beginning of one, the end of all of them, or a change of BMS.
LEMMA ServiceStep ==
  ASSUME SInv, ServiceNext
  PROVE  \/ \E t \in Thread : Step(t) /\ UNCHANGED bmsVars
         \/ /\ \E t \in Thread : \E k : Begin(t, k)
            /\ UNCHANGED <<bmsVars, store, stale>>
         \/ UNCHANGED <<bmsVars, store, stale, threadVars>>
         \/ Exit
         \/ BmsStep /\ UNCHANGED storageVars
<1>1. CASE OnStart
  BY <1>1, MainType DEF OnStart, Refresh
<1>2. CASE OnReceiveEvent
  BY <1>2, MainType DEF OnReceiveEvent
<1>3. CASE OnStop
  BY <1>3 DEF OnStop, storageVars
<1>4. CASE Environment
  BY <1>4, EnvironmentStep DEF Publish
<1>. QED
  BY <1>1, <1>2, <1>3, <1>4 DEF ServiceNext, Work

\* A crash leaves the entries as they are and no reading.
LEMMA ExitClears ==
  ASSUME Exit
  PROVE  /\ UNCHANGED <<bms, clock, store>>
         /\ snap' = [t \in Thread |-> NoBundles]
         /\ \A t \in Thread : Held(t)' = Pub!NoReports
BY DEF Exit, bmsVars, Held, Pub!NoReports

LEMMA ServiceNextRefines == SInv /\ [ServiceNext]_allVars => [Pub!Next]_(Pub!publication)
<1> SUFFICES ASSUME SInv, [ServiceNext]_allVars PROVE Pub!Next \/ UNCHANGED Pub!publication
  OBVIOUS
<1>1. Inv
  BY DEF SInv
<1>2. ASSUME NEW t \in Thread, Step(t), UNCHANGED bmsVars
      PROVE  Pub!Next
  BY <1>1, <1>2, StepRefines
<1>3. ASSUME NEW t \in Thread, NEW k, Begin(t, k), UNCHANGED <<bmsVars, store>>
      PROVE  Pub!Next
  BY <1>1, <1>3, BeginRefines DEF bmsVars
<1>4. ASSUME UNCHANGED <<store, threadVars>>
      PROVE  Pub!Next
  BY <1>4 DEF threadVars, Held, Mine, Pub!Change, Pub!Next
<1>5. CASE Exit
  <2>1. Pub!Vanish
    BY <1>5, ExitClears DEF Pub!Vanish, Mine
  <2>. QED
    BY <2>1 DEF Pub!Next
<1>6. CASE UNCHANGED allVars
  BY <1>4, <1>6 DEF allVars, vars, storageVars
<1>. QED
  BY <1>2, <1>3, <1>4, <1>5, <1>6, ServiceStep DEF storageVars

\* The service implements Publication: through starts on demand, events, user
\* switches, stops and crashes in the middle of any call, an entry only ever
\* becomes a description that a call of this very process had got from BMS and
\* not used yet; for any number of bundles, users, starts and failures.
THEOREM ServicePublishes == ServiceSpec => PublishesReadings
<1>1. ServiceInit => Pub!Init
  BY InitRefines DEF ServiceInit
<1>. QED
  BY <1>1, ServiceInitInv, ServiceNextInv, ServiceNextRefines, PTL
     DEF ServiceSpec, PublishesReadings, Pub!Spec

LEMMA ServiceNextOrder == SInv /\ Order /\ [ServiceNext]_allVars => Order'
<1> SUFFICES ASSUME SInv, Order, [ServiceNext]_allVars PROVE Order'
  OBVIOUS
<1>1. Inv
  BY DEF SInv
<1>2. ASSUME NEW t \in Thread, Step(t), UNCHANGED bmsVars
      PROVE  Order'
  BY <1>1, <1>2, StepEffect, EffectOrder
<1>3. ASSUME UNCHANGED <<bmsVars, store, snap, stale>>
      PROVE  Order'
  BY <1>3 DEF bmsVars, Order, NotNewer, Parses, Mine
<1>4. CASE BmsStep /\ UNCHANGED storageVars
  BY <1>1, <1>4, BmsStepOrder
<1>5. CASE Exit
  BY <1>5, ExitClears DEF Order, NotNewer, Parses, NoBundles, Mine
<1>6. CASE UNCHANGED allVars
  BY <1>3, <1>6 DEF allVars, vars, storageVars, threadVars
<1>7. ASSUME NEW t \in Thread, NEW k, Begin(t, k)
      PROVE  UNCHANGED snap
  BY <1>7 DEF Begin
<1>. QED
  BY <1>2, <1>3, <1>4, <1>5, <1>6, <1>7, ServiceStep DEF threadVars

\* No step of the service rolls a user's description back, but that of a call
\* during which another call was done with the bundle or an answer was lost; a
\* restart does not bring old readings back.
THEOREM ServiceNeverRollsBack == ServiceSpec => NoSilentRollback
<1> HIDE DEF Mine
<1>1. SInv /\ Order /\ [ServiceNext]_allVars =>
        [\A b \in Bundle : RolledBack(b) => \E t \in Thread : b \in todo[t] \cap stale[t]]_vars
  <2> SUFFICES ASSUME SInv, Order, [ServiceNext]_allVars, NEW b \in Bundle, RolledBack(b)
               PROVE  \E t \in Thread : b \in todo[t] \cap stale[t]
    OBVIOUS
  <2>1. Inv
    BY DEF SInv
  <2>2. ASSUME UNCHANGED store
        PROVE  FALSE
    <3>1. Mine[b] \in Info
      BY <2>1, DeviceAssumption DEF RolledBack, Parses, Inv, TypeOK, Entry, Mine
    <3>2. Mine'[b] = Mine[b]
      BY <2>2 DEF Mine
    <3>. QED
      BY <3>1, <3>2 DEF RolledBack, Info
  <2>3. \E t \in Thread : Step(t)
    BY <2>2, ServiceStep, ExitClears DEF allVars, vars, storageVars
  <2>. QED
    BY <2>1, <2>3, StepForward
<1>2. ServiceInit => SInv /\ Order
  BY ServiceInitInv, InitOrder DEF ServiceInit
<1>. QED
  BY <1>1, <1>2, ServiceNextInv, ServiceNextOrder, PTL DEF ServiceSpec, NoSilentRollback

\* A crash is the end of every call.
LEMMA ExitAdvances ==
  ASSUME SInv, Exit, NEW t \in Thread, Busy(t)
  PROVE  Advances(t)
<1>1. pc'[t] = "idle"
  BY DEF Exit
<1>2. StepsLeft(t)' = 0
  BY <1>1 DEF StepsLeft, Rest
<1>. QED
  BY <1>2, StepsLeftNat DEF Advances, SInv

\* Neither events nor refreshes, starts, stops or crashes take a call back: it
\* ends after a bounded number of its own steps, and with it the next event can
\* be received.
THEOREM ServiceCallsAdvance == ServiceSpec => CallAdvances
<1>1. SInv /\ [ServiceNext]_allVars =>
        [\A t \in Thread : Busy(t) /\ (CallOf(t)' # CallOf(t) \/ Step(t)) =>
           \/ StepsLeft(t)' < StepsLeft(t)
           \/ StepsLeft(t)' = StepsLeft(t) /\ todo'[t] \subseteq todo[t] /\ todo'[t] # todo[t]]_vars
  <2> SUFFICES ASSUME SInv, ServiceNext, NEW t \in Thread, Busy(t), Step(t) \/ CallOf(t)' # CallOf(t)
               PROVE  Advances(t)
    BY DEF Advances, allVars
  <2>1. Inv
    BY DEF SInv
  <2>2. CASE Step(t)
    BY <2>1, <2>2, StepAdvances
  <2>3. CASE CallOf(t)' # CallOf(t)
    <3>1. ASSUME NEW s \in Thread, Step(s)
          PROVE  Advances(t)
      BY <2>1, <2>3, <3>1, StepAlone, StepAdvances
    <3>2. ASSUME NEW s \in Thread, NEW k, Begin(s, k)
          PROVE  FALSE
      BY <2>1, <2>3, <3>2, BeginAlone
    <3>3. CASE UNCHANGED threadVars
      BY <2>3, <3>3 DEF threadVars, CallOf
    <3>. QED
      BY <3>1, <3>2, <3>3, ServiceStep, ExitAdvances DEF storageVars
  <2>. QED
    BY <2>2, <2>3
<1>. QED
  BY <1>1, ServiceInitInv, ServiceNextInv, PTL DEF ServiceSpec, CallAdvances

-----------------------------------------------------------------------------
(* Singletons are not published.  Save does not look whether a bundle is a *)
(* singleton; it is turned away because the event came in the name of user *)
(* 0, who is never the active one.  So that has to hold of every event on  *)
(* its way and of every call made for one.                                 *)

QuietEvent ==
    {e \in Event : e.action \in Package /\ e.bundle \in Singleton => e.user = SystemUser}

QuietCall(t) ==
    /\ task[t].op \in {"Save", "Delete"} /\ task[t].bundle \in Singleton
         => task[t].user = SystemUser
    /\ todo[t] \cap Singleton = {}

Quiet == queue \in Seq(QuietEvent) /\ \A t \in Thread : QuietCall(t)

LEMMA QuietTask ==
  ASSUME NEW e \in QuietEvent, TaskOf(e).op \in {"Save", "Delete"}, TaskOf(e).bundle \in Singleton
  PROVE  TaskOf(e).user = SystemUser
BY DEF QuietEvent, Event, TaskOf, Package

LEMMA ReturnQuiet ==
  ASSUME Inv, NEW t \in Thread, Return(t)
  PROVE  QuietCall(t)'
BY DEF Inv, TypeOK, Return, NoTask, QuietCall

\* What a step of t takes up for writing is no singleton.
LEMMA StepQuiet ==
  ASSUME Inv, NEW t \in Thread, Step(t), \A s \in Thread : QuietCall(s)
  PROVE  \A s \in Thread : QuietCall(s)'
<1> USE DEF QuietCall
<1>1. CASE CheckKvStore(t) \/ OpenKvStore(t)
  BY <1>1 DEF CheckKvStore, OpenKvStore
<1>2. ASSUME NEW s \in Thread \ {t}
      PROVE  task'[s] = task[s] /\ todo'[s] = todo[s]
  BY DEF Step, CheckKvStore, OpenKvStore, LastCheck, CheckUser, ReadBundle, InnerSave,
         InnerDelete, ListBundles, RefreshOld, GiveUp, Return, Continue, Inv, TypeOK
<1>3. CASE LastCheck(t) \/ CheckUser(t) \/ InnerDelete(t) \/ ListBundles(t)
  <2>1. CASE Return(t)
    BY <1>2, <2>1, ReturnQuiet
  <2>2. CASE UNCHANGED <<task, todo>>
    BY <2>2
  <2>. QED
    BY <1>3, <2>1, <2>2 DEF LastCheck, CheckUser, InnerDelete, ListBundles, GiveUp
<1>4. CASE ReadBundle(t)
  <2> DEFINE b == task[t].bundle
  <2>1. /\ task[t] \in PackageTask /\ task[t].op = "Save" /\ task[t].user \in User
        /\ b \notin Singleton
    BY <1>4, UserAssumption DEF ReadBundle, Inv, CallsOK, CallOK
  <2>2. CASE todo' = [todo EXCEPT ![t] = {b}] /\ UNCHANGED task
    BY <1>2, <2>1, <2>2 DEF Inv, TypeOK
  <2>3. CASE task' = [task EXCEPT ![t].op = "Delete"] /\ UNCHANGED todo
    BY <1>2, <2>1, <2>3 DEF Inv, TypeOK, PackageTask
  <2>4. CASE Return(t)
    BY <1>2, <2>4, ReturnQuiet
  <2>. QED
    BY <1>4, <2>2, <2>3, <2>4 DEF ReadBundle, GiveUp
<1>5. CASE \E b \in Bundle : InnerSave(t, b)
  <2>1. CASE Return(t)
    BY <1>2, <2>1, ReturnQuiet
  <2>2. CASE \E b \in Bundle : todo' = [todo EXCEPT ![t] = @ \ {b}] /\ UNCHANGED task
    BY <1>2, <2>2 DEF Inv, TypeOK
  <2>. QED
    BY <1>5, <2>1, <2>2 DEF InnerSave
<1>6. CASE RefreshOld(t)
  <2>1. \A new, old : ToPut(new, old) \cap Singleton = {}
    BY DEF ToPut
  <2>2. PICK B : Continue(t, B) /\ B \cap Singleton = {}
    BY <1>6, <2>1 DEF RefreshOld
  <2>3. CASE Return(t)
    BY <1>2, <2>3, ReturnQuiet
  <2>4. CASE todo' = [todo EXCEPT ![t] = B] /\ UNCHANGED task
    BY <1>2, <2>2, <2>4 DEF Inv, TypeOK
  <2>. QED
    BY <2>2, <2>3, <2>4 DEF Continue
<1>. QED
  BY <1>1, <1>3, <1>4, <1>5, <1>6 DEF Step

LEMMA BeginQuiet ==
  ASSUME Inv, NEW t \in Thread, NEW k \in Task, Begin(t, k),
         k.op \in {"Save", "Delete"} /\ k.bundle \in Singleton => k.user = SystemUser,
         \A s \in Thread : QuietCall(s)
  PROVE  \A s \in Thread : QuietCall(s)'
BY DEF Begin, QuietCall, Inv, TypeOK

LEMMA ServiceInitQuiet == ServiceInit => Quiet
BY DEF ServiceInit, Init, StorageInit, NoTask, Quiet, QuietCall

LEMMA EnvironmentQuiet ==
  ASSUME SInv, Quiet, Environment
  PROVE  Quiet'
<1>1. \E e \in QuietEvent : Publish(e)
  <2>1. ASSUME NEW b \in Bundle, NEW u \in User, NEW a \in Package, PackageEvent(a, b, u)
        PROVE  \E e \in QuietEvent : Publish(e)
    <3>1. [action |-> a, bundle |-> b, user |-> EventUser(b, u)] \in QuietEvent
      BY DEF QuietEvent, Event, EventUser, AnyUser
    <3>. QED
      BY <2>1, <3>1 DEF PackageEvent
  <2>2. ASSUME NEW u \in User, Publish([action |-> "USER_SWITCHED", user |-> u])
        PROVE  \E e \in QuietEvent : Publish(e)
    <3>1. [action |-> "USER_SWITCHED", user |-> u] \in QuietEvent
      BY DEF QuietEvent, Event, Package
    <3>. QED
      BY <2>2, <3>1
  <2>. QED
    BY <2>1, <2>2 DEF Environment, Package
<1>2. queue' \in Seq(QuietEvent)
  BY <1>1 DEF Publish, Quiet
<1>3. UNCHANGED <<task, todo>>
  BY <1>1 DEF Publish, storageVars, threadVars
<1>. QED
  BY <1>2, <1>3 DEF Quiet, QuietCall

LEMMA ServiceNextQuiet == SInv /\ Quiet /\ [ServiceNext]_allVars => Quiet'
<1> SUFFICES ASSUME SInv, Quiet, [ServiceNext]_allVars PROVE Quiet'
  OBVIOUS
<1>1. CASE OnStart
  <2>1. CASE Refresh
    <3>1. CASE UNCHANGED threadVars
      BY <1>1, <3>1 DEF OnStart, Quiet, QuietCall, threadVars
    <3>2. CASE activeUser \in User /\ Begin(Main, [op |-> "Update", user |-> activeUser])
      <4>1. [op |-> "Update", user |-> activeUser] \in Task
        BY <3>2 DEF Task, RefreshTask
      <4>. QED
        BY <1>1, <3>2, <4>1, MainType, BeginQuiet DEF OnStart, Quiet, SInv
    <3>. QED
      BY <2>1, <3>1, <3>2 DEF Refresh
  <2>2. CASE UNCHANGED threadVars
    BY <1>1, <2>2 DEF OnStart, Quiet, QuietCall, threadVars
  <2>. QED
    BY <1>1, <2>1, <2>2 DEF OnStart
<1>2. CASE OnReceiveEvent
  <2>1. Head(queue) \in QuietEvent /\ queue' \in Seq(QuietEvent)
    BY <1>2 DEF OnReceiveEvent, Quiet
  <2>2. Head(queue) \in Event
    BY <2>1 DEF QuietEvent
  <2>. QED
    BY <1>2, <2>1, <2>2, TaskOfType, QuietTask, MainType, BeginQuiet DEF OnReceiveEvent, Quiet, SInv
<1>3. CASE OnStop
  BY <1>3 DEF OnStop, storageVars, threadVars, Quiet, QuietCall
<1>4. CASE Exit
  BY <1>4 DEF Exit, NoTask, Quiet, QuietCall
<1>5. ASSUME NEW t \in Thread, Work(t)
      PROVE  Quiet'
  BY <1>5, StepQuiet DEF Work, serviceVars, Quiet, SInv
<1>6. CASE Environment
  BY <1>6, EnvironmentQuiet
<1>7. CASE UNCHANGED allVars
  BY <1>7 DEF allVars, serviceVars, vars, storageVars, threadVars, Quiet, QuietCall
<1>. QED
  BY <1>1, <1>2, <1>3, <1>4, <1>5, <1>6, <1>7 DEF ServiceNext

\* A step that gives an entry content is a step of a call, and calls write
\* only what they took up.
LEMMA ServiceNextSingleton ==
  ASSUME SInv, Quiet, [ServiceNext]_allVars, NEW b \in Singleton
  PROVE  Mine'[b] \in {Mine[b], NoInfo}
<1>1. ASSUME NEW t \in Thread, Step(t)
      PROVE  Mine'[b] \in {Mine[b], NoInfo}
  BY <1>1, StepWrites, BundleAssumption DEF Quiet, QuietCall, SInv
<1>2. CASE OnStart \/ OnReceiveEvent \/ OnStop \/ Exit \/ Environment \/ UNCHANGED allVars
  <2>1. UNCHANGED store
    BY <1>2, EnvironmentStep DEF OnStart, OnReceiveEvent, OnStop, Exit, Publish, allVars, vars, storageVars
  <2>. QED
    BY <2>1 DEF Mine
<1>. QED
  BY <1>1, <1>2 DEF ServiceNext, Work

\* Whatever events arrive and whenever the service is refreshed, stopped or
\* crashes, it puts no description of a singleton into the store.
THEOREM SingletonsKeptOut == ServiceSpec => SingletonNotPublished
<1>1. SInv /\ Quiet /\ [ServiceNext]_allVars
        => [\A b \in Singleton : Mine'[b] \in {Mine[b], NoInfo}]_allVars
  BY ServiceNextSingleton
<1>. QED
  BY <1>1, ServiceInitInv, ServiceNextInv, ServiceInitQuiet, ServiceNextQuiet, PTL
  DEF ServiceSpec, SingletonNotPublished

-----------------------------------------------------------------------------
(* One IPC error is absorbed.  As long as nothing else fails, a running    *)
(* service has its store open, so that no call waits for it or gives up;   *)
(* what is still given up are entries that do not parse.                   *)

Calm == faults = 0 /\ ipcErrors <= 1

Absorbed ==
    /\ running => kvOpen
    /\ \A t \in Thread : pc[t] # "idle" => running /\ pc[t] # "open"
    /\ \A b \in Bundle : doubt[b] = "lost" => Mine[b] = Corrupt

\* In a calm step nothing fails but one call, once.
LEMMA CalmStep ==
  ASSUME Inv, Calm'
  PROVE  ~Fault /\ ~Retried(FALSE)
BY BoundAssumption DEF Inv, TypeOK, Calm, Fault, Retried

\* Failures are never forgotten.
LEMMA FailuresGrow ==
  ASSUME Inv, Calm', NoFailure \/ Fault \/ Retried(TRUE) \/ Retried(FALSE)
  PROVE  Calm
BY BoundAssumption DEF Inv, TypeOK, Calm, Fault, NoFailure, Retried

LEMMA StepFails ==
  ASSUME Inv, NEW t \in Thread, Step(t)
  PROVE  NoFailure \/ Fault \/ Retried(TRUE) \/ Retried(FALSE)
<1>1. CASE InnerDelete(t) \/ \E b \in Bundle : InnerSave(t, b)
  BY <1>1 DEF InnerDelete, InnerSave, WriteEntry
<1>2. CASE \/ CheckKvStore(t) \/ OpenKvStore(t) \/ LastCheck(t) \/ CheckUser(t)
           \/ ReadBundle(t) \/ ListBundles(t)
  BY <1>2 DEF CheckKvStore, OpenKvStore, LastCheck, CheckUser, ReadBundle, ListBundles
<1>3. CASE RefreshOld(t)
  BY <1>3 DEF RefreshOld
<1>. QED
  BY <1>1, <1>2, <1>3 DEF Step

\* What is given up by t after Judge is what it names, or was before.
LEMMA JudgeLost ==
  ASSUME Inv, NEW t \in Thread, NEW Good, NEW Lost, Judge(t, Good, Lost),
         NEW b \in Bundle, doubt'[b] = "lost"
  PROVE  b \in Lost \/ (b \notin Good /\ doubt[b] = "lost")
BY DEF Judge

\* The threads after a step of t: t is not at work on opening the store.
LEMMA AbsorbedParts ==
  ASSUME Inv, Absorbed, NEW t \in Thread, pc[t] # "idle", UNCHANGED <<running, kvOpen>>,
         pc'[t] # "open", \A s \in Thread \ {t} : pc'[s] = pc[s],
         \A b \in Bundle : doubt'[b] = "lost" => Mine'[b] = Corrupt
  PROVE  Absorbed'
BY DEF Absorbed

USE DEF Mine

LEMMA WriteAbsorbed ==
  ASSUME Inv, Absorbed, Calm', kvOpen, NEW t \in Thread, NEW b \in Bundle, NEW v,
         WriteEntry(t, b, v)
  PROVE  \A c \in Bundle : doubt'[c] = "lost" => Mine'[c] = Corrupt
<1>1. store' = [store EXCEPT ![Self][b] = v] /\ Judge(t, {b}, {})
  BY CalmStep DEF WriteEntry
<1>2. \A c \in Bundle \ {b} : Mine'[c] = Mine[c]
  BY <1>1, DeviceAssumption DEF Inv, TypeOK
<1>. QED
  BY <1>1, <1>2, JudgeLost DEF Absorbed

LEMMA StepAbsorbed ==
  ASSUME Inv, Absorbed, Calm', NEW t \in Thread, Step(t), UNCHANGED running
  PROVE  Absorbed'
<1>1. /\ pc[t] # "idle" /\ pc[t] # "open" /\ kvOpen
      /\ pc \in [Thread -> Pc]
  BY DEF Step, CheckKvStore, OpenKvStore, LastCheck, CheckUser, ReadBundle, InnerDelete,
         ListBundles, RefreshOld, InnerSave, Absorbed, Inv, TypeOK
<1>2. ~Fault /\ ~Retried(FALSE)
  BY CalmStep
<1>3. ASSUME NEW label \in Pc \ {"open"}, Goto(t, label)
      PROVE  pc'[t] # "open" /\ \A s \in Thread \ {t} : pc'[s] = pc[s]
  BY <1>1, <1>3 DEF Goto
<1>4. ASSUME Return(t)
      PROVE  pc'[t] # "open" /\ \A s \in Thread \ {t} : pc'[s] = pc[s]
  BY <1>3, <1>4 DEF Return, Pc
<1>5. CASE CheckKvStore(t)
  BY <1>1, <1>3, <1>5, AbsorbedParts DEF CheckKvStore, Absorbed, Pc
<1>6. CASE CheckUser(t)
  <2>1. UNCHANGED <<store, kvOpen>>
    BY <1>6 DEF CheckUser
  <2>2. CASE UNCHANGED doubt /\ (Goto(t, "read") \/ Goto(t, "erase"))
    BY <1>1, <1>3, <2>1, <2>2, AbsorbedParts DEF Absorbed, Pc
  <2>3. CASE GiveUp(t, {})
    BY <1>1, <1>4, <2>1, <2>3, JudgeLost, AbsorbedParts DEF GiveUp, Absorbed
  <2>. QED
    BY <1>2, <1>6, <2>2, <2>3 DEF CheckUser
<1>7. CASE ReadBundle(t)
  BY <1>1, <1>2, <1>3, <1>7, AbsorbedParts DEF ReadBundle, Absorbed, Pc
<1>8. CASE InnerDelete(t)
  <2>1. task[t].bundle \in Bundle
    BY <1>8 DEF InnerDelete, Inv, CallsOK, CallOK, PackageTask
  <2>2. UNCHANGED kvOpen /\ \A c \in Bundle : doubt'[c] = "lost" => Mine'[c] = Corrupt
    BY <1>1, <1>8, <2>1, WriteAbsorbed DEF InnerDelete, WriteEntry
  <2>. QED
    BY <1>1, <1>4, <1>8, <2>2, AbsorbedParts DEF InnerDelete
<1>9. CASE \E b \in Bundle : InnerSave(t, b)
  <2>1. PICK b \in Bundle : InnerSave(t, b)
    BY <1>9
  <2>2. UNCHANGED kvOpen /\ \A c \in Bundle : doubt'[c] = "lost" => Mine'[c] = Corrupt
    BY <1>1, <2>1, WriteAbsorbed DEF InnerSave, WriteEntry
  <2>3. pc'[t] # "open" /\ \A s \in Thread \ {t} : pc'[s] = pc[s]
    BY <1>1, <1>4, <2>1 DEF InnerSave
  <2>. QED
    BY <1>1, <2>2, <2>3, AbsorbedParts
<1>10. CASE ListBundles(t)
  BY <1>1, <1>2, <1>3, <1>10, AbsorbedParts DEF ListBundles, Absorbed, Pc
<1>11. CASE RefreshOld(t)
  <2> DEFINE put == ToPut(snap[t], Mine)
             lost == {b \in Bundle \ put : Mine[b] = Corrupt}
  <2>1. /\ store' = [d \in Device |->
                       [b \in Bundle |-> IF <<d, b>> \in ToPurge(snap[t])
                                         THEN NoInfo ELSE store[d][b]]]
        /\ Continue(t, put)
        /\ Judge(t, Bundle \ (put \cup lost), lost)
        /\ UNCHANGED kvOpen
    <3> DEFINE gone(F) == {b \in Bundle \ put : <<Self, b>> \in F \/ Mine[b] = Corrupt}
    <3>1. PICK failed, left :
            /\ failed = {} /\ left \subseteq failed
            /\ store' = [d \in Device |->
                           [b \in Bundle |-> IF <<d, b>> \in ToPurge(snap[t]) \ left
                                             THEN NoInfo ELSE store[d][b]]]
            /\ Continue(t, put)
            /\ Judge(t, Bundle \ (put \cup gone(failed)), gone(failed))
      BY <1>1, <1>2, <1>11 DEF RefreshOld
    <3>2. gone(failed) = lost /\ ToPurge(snap[t]) \ left = ToPurge(snap[t])
      BY <3>1
    <3>3. UNCHANGED kvOpen
      BY <1>11 DEF RefreshOld
    <3> HIDE DEF put, lost, gone
    <3>. QED
      BY <3>1, <3>2, <3>3
  <2>2. \A b \in Bundle : Mine[b] = Corrupt => Mine'[b] = Corrupt
    BY <2>1, DeviceAssumption DEF ToPurge, Parses
  <2>3. \A b \in Bundle : doubt'[b] = "lost" => Mine'[b] = Corrupt
    <3> HIDE DEF put
    <3>. QED
      BY <2>1, <2>2, JudgeLost DEF Absorbed
  <2>4. pc'[t] # "open" /\ \A s \in Thread \ {t} : pc'[s] = pc[s]
    BY <1>3, <1>4, <2>1 DEF Continue, Pc
  <2>. QED
    BY <1>1, <2>1, <2>3, <2>4, AbsorbedParts
<1>. QED
  BY <1>1, <1>5, <1>6, <1>7, <1>8, <1>9, <1>10, <1>11 DEF Step, OpenKvStore, LastCheck

LEMMA ServiceNextAbsorbed ==
  ASSUME SInv, Calm => Absorbed, [ServiceNext]_allVars
  PROVE  Calm' => Absorbed'
<1> SUFFICES ASSUME Calm' PROVE Absorbed'
  OBVIOUS
<1>1. Inv
  BY DEF SInv
<1>2. ASSUME NEW t \in Thread, Work(t)
      PROVE  Absorbed'
  <2>1. Step(t) /\ UNCHANGED running
    BY <1>2 DEF Work, serviceVars
  <2>2. NoFailure \/ Fault \/ Retried(TRUE) \/ Retried(FALSE)
    BY <1>1, <2>1, StepFails
  <2>. QED
    BY <1>1, <2>1, <2>2, FailuresGrow, StepAbsorbed
<1>3. CASE OnStart
  <2>1. Retried(kvOpen') /\ kvOpen' \in BOOLEAN /\ doubt' = Missed("unseen") /\ Refresh
    <3>1. ~UserUnanswered(kvOpen')
      BY <1>1 DEF UserUnanswered, Calm, Inv, TypeOK
    <3>. QED
      BY <1>3, <3>1 DEF OnStart
  <2>2. kvOpen' = TRUE /\ Retried(TRUE)
    BY <1>1, <2>1, CalmStep
  <2>3. Absorbed
    BY <1>1, <2>2, FailuresGrow
  <2>4. \A t \in Thread : pc'[t] # "open"
    <3>1. \A t \in Thread : pc[t] = "idle"
      BY <1>3, <2>3 DEF OnStart, Absorbed
    <3>2. pc' = pc \/ pc' = [pc EXCEPT ![Main] = "list"]
      BY <2>1 DEF Refresh, Begin, Goto, threadVars
    <3>. QED
      BY <1>1, <3>1, <3>2 DEF Inv, TypeOK
  <2>. QED
    BY <1>3, <2>1, <2>2, <2>3, <2>4 DEF OnStart, Missed, Absorbed
<1>4. CASE OnReceiveEvent
  <2>1. Absorbed /\ UNCHANGED <<store, kvOpen, doubt, running>>
    BY <1>1, <1>4, FailuresGrow DEF OnReceiveEvent
  <2>2. pc' = [pc EXCEPT ![Monitor] = "list"] \/ pc' = [pc EXCEPT ![Monitor] = "check"]
    BY <1>4 DEF OnReceiveEvent, Begin, Goto
  <2>3. running /\ pc \in [Thread -> Pc]
    BY <1>1, <1>4 DEF OnReceiveEvent, Inv, TypeOK
  <2>4. ASSUME NEW t \in Thread
        PROVE  pc'[t] # "open"
    BY <2>1, <2>2, <2>3 DEF Absorbed
  <2>. QED
    BY <2>1, <2>3, <2>4 DEF Absorbed
<1>5. CASE Exit
  <2>1. Absorbed
    BY <1>1, <1>5, FailuresGrow DEF Exit
  <2>. QED
    BY <1>5, <2>1 DEF Exit, Absorbed
<1>6. CASE OnStop \/ Environment \/ UNCHANGED allVars
  <2>1. UNCHANGED <<faults, ipcErrors, running, kvOpen, pc, doubt, store>>
    BY <1>6, EnvironmentStep DEF OnStop, Publish, allVars, vars, storageVars, threadVars, serviceVars
  <2>. QED
    BY <2>1 DEF Calm, Absorbed
<1>. QED
  BY <1>2, <1>3, <1>4, <1>5, <1>6 DEF ServiceNext

LEMMA ServiceInitAbsorbed == ServiceInit => Absorbed
BY DEF ServiceInit, Init, StorageInit, Absorbed

\* Whatever the calls and their order: as long as at most one call has ended in
\* an IPC error and nothing else has failed, no bundle is given up but for an
\* entry that does not parse.
THEOREM OneErrorAbsorbed == ServiceSpec => []RetryAbsorbs
<1>1. (Calm => Absorbed) => RetryAbsorbs
  BY DEF Calm, Absorbed, RetryAbsorbs
<1>. QED
  BY <1>1, ServiceInitInv, ServiceNextInv, ServiceInitAbsorbed, ServiceNextAbsorbed, PTL
  DEF ServiceSpec

HIDE DEF Mine

-----------------------------------------------------------------------------
(* What is handled agrees.  While something is pending for a bundle, its   *)
(* entry may be anything, so the invariant has to say that what is pending *)
(* will put it right.  For every bundle whose changes are not missed:      *)
(*   - its entry agrees with BMS, or somebody cares for it: an event not   *)
(*     yet received makes it good, or a call under way will;               *)
(*   - a call that is going to settle it, from a reading that may be old,  *)
(*     knows that it is stale or leaves it to somebody who cares;          *)
(*   - an event that would unsettle it, an old PACKAGE_REMOVED or a switch *)
(*     to a user who is no longer active, is followed by one that makes it *)
(*     good.                                                               *)
(* A step of a call either keeps caring, or settles the bundle and makes   *)
(* it stale for every other call that is going to settle it too.           *)

\* What BMS reports of b now, for the active user.
Reported(b) == bms[activeUser][b]

\* The call k, made now, brings the entry of b in line with BMS.
MakesGood(k, b) ==
    \/ k.op = "Update" /\ k.user = activeUser
    \/ k.op = "Save" /\ k.bundle = b /\ k.user = activeUser
    \/ k.op = "Delete" /\ k.bundle = b /\ k.user = activeUser /\ Reported(b) = NoInfo

\* The call of t is going to write or remove the entry of b, or decide not to.
Settling(t, b) ==
    \/ /\ pc[t] \in {"check", "open", "user"}
       /\ task[t].op = "Delete" /\ task[t].bundle = b /\ task[t].user = activeUser
    \/ pc[t] \in {"read", "erase"} /\ task[t].bundle = b
    \/ pc[t] \in {"list", "old"}
    \/ b \in todo[t]

\* The call of t brings the entry of b in line, or leaves it in doubt.
Will(t, b) ==
    \/ pc[t] \in {"check", "open", "user", "read", "list"} /\ MakesGood(task[t], b)
    \/ /\ pc[t] \in {"check", "open", "user"} /\ b \in stale[t]
       /\ task[t].op = "Delete" /\ task[t].bundle = b /\ task[t].user = activeUser
    \/ /\ pc[t] = "erase" /\ task[t].bundle = b
       /\ b \in stale[t] \/ (task[t].user = activeUser /\ Reported(b) = NoInfo)
    \/ /\ pc[t] = "old" \/ b \in todo[t]
       /\ b \in stale[t] \/ (task[t].user = activeUser /\ snap[t][b] = Reported(b))

\* What Agreement says of one bundle.
Agrees(b) ==
    /\ doubt[b] = "none" => Mine[b] = Reported(b)
    /\ doubt[b] = "skipped" =>
         Parses(Mine[b]) /\ Reported(b) # NoInfo /\ Mine[b].time = Reported(b).time

\* b agrees, and no call under way can undo it unnoticed.
Settled(b) == Agrees(b) /\ \A t \in Thread : Settling(t, b) => b \in stale[t]

\* What a step of t may do to b.
Careful(t, b) ==
    /\ Will(t, b) => Will(t, b)' \/ Settled(b)'
    /\ Agrees(b) /\ (Settling(t, b) => b \in stale[t]) => Agrees(b)'
    /\ Settling(t, b)' => \/ b \in stale[t]'
                          \/ Settling(t, b) /\ b \notin stale[t]
                          \/ Will(t, b)'

\* A return touches only its own thread.
LEMMA ReturnMoves ==
  ASSUME Inv, NEW t \in Thread, Return(t)
  PROVE  /\ pc'[t] = "idle" /\ todo'[t] = {}
         /\ \A s \in Thread \ {t} : /\ pc'[s] = pc[s] /\ task'[s] = task[s]
                                    /\ snap'[s] = snap[s] /\ todo'[s] = todo[s]
BY DEF Return, Goto, Inv, TypeOK

\* Bundles only become stale for the others.
LEMMA JudgeMoves ==
  ASSUME Inv, NEW t \in Thread, NEW Good, NEW Lost, Judge(t, Good, Lost)
  PROVE  /\ \A s \in Thread \ {t} : stale[s] \subseteq stale'[s]
         /\ pc'[t] # "idle" => stale'[t] = stale[t]
         /\ \A s \in Thread \ {t} : Busy(s) => Good \cup Lost \subseteq stale'[s]
BY DEF Judge

\* No thread but t moves.
Moves(t) ==
    \A s \in Thread \ {t} : /\ pc'[s] = pc[s] /\ task'[s] = task[s]
                            /\ snap'[s] = snap[s] /\ todo'[s] = todo[s]
                            /\ stale[s] \subseteq stale'[s]

LEMMA StepMoves ==
  ASSUME Inv, NEW t \in Thread, Step(t)
  PROVE  Moves(t)
<1> USE DEF Moves
<1>1. ASSUME NEW Good, NEW Lost, Return(t), Judge(t, Good, Lost)
      PROVE  Moves(t)
  BY <1>1, ReturnMoves, JudgeMoves
<1>2. CASE CheckKvStore(t) \/ OpenKvStore(t)
  BY <1>2 DEF CheckKvStore, OpenKvStore, Goto, Inv, TypeOK
<1>3. CASE LastCheck(t)
  <2>1. CASE UNCHANGED <<task, snap, todo, stale>> /\ Goto(t, "user")
    BY <2>1 DEF Goto, Inv, TypeOK
  <2>. QED
    BY <1>1, <1>3, <2>1 DEF LastCheck, GiveUp
<1>4. CASE CheckUser(t)
  <2>1. ASSUME NEW B, NEW label, UNCHANGED <<task, snap, todo>>, Goto(t, label),
               stale' = [stale EXCEPT ![t] = B]
        PROVE  Moves(t)
    BY <2>1 DEF Goto, Inv, TypeOK
  <2>. QED
    BY <1>1, <1>4, <2>1 DEF CheckUser, GiveUp
<1>5. CASE ReadBundle(t)
  <2>1. ASSUME NEW B, NEW label, Goto(t, label), stale' = [stale EXCEPT ![t] = B] \/ UNCHANGED stale,
               task' = [task EXCEPT ![t].op = "Delete"], UNCHANGED <<snap, todo>>
        PROVE  Moves(t)
    BY <2>1 DEF Goto, Inv, TypeOK
  <2>2. ASSUME NEW i, NEW B, Goto(t, "write"), UNCHANGED <<task, stale>>,
               snap' = [snap EXCEPT ![t][task[t].bundle] = i], todo' = [todo EXCEPT ![t] = B]
        PROVE  Moves(t)
    BY <2>2 DEF Goto, Inv, TypeOK
  <2>. QED
    BY <1>1, <1>5, <2>1, <2>2 DEF ReadBundle, GiveUp
<1>6. CASE InnerDelete(t)
  BY <1>1, <1>6 DEF InnerDelete, WriteEntry
<1>7. CASE \E b \in Bundle : InnerSave(t, b)
  <2>1. PICK b \in Bundle : InnerSave(t, b)
    BY <1>7
  <2>2. PICK Good, Lost : Judge(t, Good, Lost)
    BY <2>1 DEF InnerSave, WriteEntry
  <2>3. CASE todo' = [todo EXCEPT ![t] = @ \ {b}] /\ UNCHANGED <<pc, task, tries, snap>>
    BY <2>2, <2>3, JudgeMoves DEF Inv, TypeOK
  <2>. QED
    BY <1>1, <2>1, <2>2, <2>3 DEF InnerSave
<1>8. CASE ListBundles(t)
  <2>1. CASE /\ Goto(t, "old") /\ snap' = [snap EXCEPT ![t] = bms[task[t].user]]
             /\ UNCHANGED <<task, todo, stale>>
    BY <2>1 DEF Goto, Inv, TypeOK
  <2>. QED
    BY <1>1, <1>8, <2>1 DEF ListBundles, GiveUp
<1>9. CASE RefreshOld(t)
  <2>1. PICK Good, Lost, B : Judge(t, Good, Lost) /\ Continue(t, B)
    BY <1>9 DEF RefreshOld
  <2>2. CASE Goto(t, "write") /\ todo' = [todo EXCEPT ![t] = B] /\ UNCHANGED <<task, tries, snap>>
    BY <2>1, <2>2, JudgeMoves DEF Goto, Inv, TypeOK
  <2>. QED
    BY <1>1, <2>1, <2>2 DEF Continue
<1>. QED
  BY <1>2, <1>3, <1>4, <1>5, <1>6, <1>7, <1>8, <1>9 DEF Step

\* A bundle t is done with is stale for every other call.
LEMMA SettledBy ==
  ASSUME Inv, NEW t \in Thread, NEW b \in Bundle, NEW Good, NEW Lost,
         Moves(t), Judge(t, Good, Lost), b \in Good \cup Lost, UNCHANGED activeUser,
         ~Settling(t, b)', Agrees(b)'
  PROVE  Settled(b)'
<1>1. ASSUME NEW s \in Thread \ {t}, Settling(s, b)'
      PROVE  b \in stale[s]'
  <2>1. Busy(s)
    BY <1>1 DEF Settling, Moves, Busy, Inv, CallsOK, CallOK
  <2>. QED
    BY <2>1, JudgeMoves
<1>. QED
  BY <1>1 DEF Settled

-----------------------------------------------------------------------------

\* A step of t, seen from a bundle of the active user.
Serving(t, b) == /\ Inv /\ Step(t) /\ UNCHANGED bmsVars
                 /\ b \in Bundle \ Singleton /\ activeUser \in User

(* Every step is careful. *)

LEMMA OpeningCareful ==
  ASSUME NEW t \in Thread, NEW b, Serving(t, b),
         CheckKvStore(t) \/ OpenKvStore(t) \/ (LastCheck(t) /\ Goto(t, "user"))
  PROVE  Careful(t, b)
<1>1. /\ pc[t] \in {"check", "open"} /\ pc'[t] \in {"check", "open", "user"}
      /\ UNCHANGED <<store, task, snap, todo, stale, doubt>>
  BY DEF CheckKvStore, OpenKvStore, LastCheck, GiveUp, Return, Goto, Serving, Inv, TypeOK
<1>2. UNCHANGED bmsVars /\ todo[t] = {}
  BY <1>1 DEF Serving, Inv, CallsOK, CallOK
<1>. QED
  BY <1>1, <1>2 DEF Careful, Will, Settling, Agrees, MakesGood, Reported, Mine, bmsVars

\* A call that gives up leaves the bundle it would have served in doubt.
LEMMA GiveUpCareful ==
  ASSUME NEW t \in Thread, NEW b, Serving(t, b), NEW Lost, GiveUp(t, Lost),
         Will(t, b) => b \in Lost, UNCHANGED store
  PROVE  Careful(t, b)
<1>1. /\ pc'[t] = "idle" /\ todo'[t] = {} /\ Moves(t) /\ b \in Bundle /\ Inv
      /\ Judge(t, {}, Lost) /\ UNCHANGED bmsVars
  BY ReturnMoves, StepMoves DEF GiveUp, Serving
<1>2. ~Settling(t, b)'
  BY <1>1 DEF Settling
<1>3. Agrees(b) \/ b \in Lost => Agrees(b)'
  BY <1>1 DEF Agrees, Judge, Mine, Reported, bmsVars
<1>4. b \in Lost => Settled(b)'
  BY <1>1, <1>2, <1>3, SettledBy DEF bmsVars
<1>. QED
  BY <1>2, <1>3, <1>4 DEF Careful

LEMMA LastCheckCareful ==
  ASSUME NEW t \in Thread, NEW b, Serving(t, b), LastCheck(t)
  PROVE  Careful(t, b)
<1>1. CASE GiveUp(t, {task[t].bundle})
  <2>1. Will(t, b) => b = task[t].bundle
    BY DEF LastCheck, Serving, Inv, CallsOK, CallOK, PackageTask, Will, MakesGood
  <2>. QED
    BY <1>1, <2>1, GiveUpCareful DEF LastCheck
<1>. QED
  BY <1>1, OpeningCareful DEF LastCheck

LEMMA CheckUserCareful ==
  ASSUME NEW t \in Thread, NEW b, Serving(t, b), CheckUser(t)
  PROVE  Careful(t, b)
<1> USE DEF Serving
<1>1. PICK answer \in {activeUser, NoUser} :
         IF task[t].user = CurrentUser(t, answer)
         THEN /\ Goto(t, IF task[t].op = "Save" THEN "read" ELSE "erase")
              /\ stale' = [stale EXCEPT ![t] = IF answer = activeUser THEN @
                                               ELSE @ \cup {task[t].bundle}]
              /\ UNCHANGED <<task, tries, snap, todo, doubt>>
         ELSE GiveUp(t, IF answer = activeUser THEN {} ELSE {task[t].bundle})
  BY DEF CheckUser
<1>2. /\ pc[t] = "user" /\ task[t] \in PackageTask /\ UNCHANGED <<store, bmsVars>> /\ todo[t] = {}
      /\ activeUser # NoUser /\ task[t].user # NoUser
  BY UserAssumption DEF CheckUser, Inv, CallsOK, CallOK, PackageTask, AnyUser
<1>3. Will(t, b) => task[t].bundle = b /\ task[t].user = activeUser
  BY <1>2 DEF PackageTask, Will, MakesGood
<1>4. CASE task[t].user # CurrentUser(t, answer)
  <2>1. Will(t, b) => answer # activeUser
    BY <1>2, <1>3, <1>4 DEF CurrentUser
  <2>. QED
    BY <1>1, <1>2, <1>3, <1>4, <2>1, GiveUpCareful
<1>5. CASE task[t].user = CurrentUser(t, answer)
  <2>1. /\ pc'[t] = IF task[t].op = "Save" THEN "read" ELSE "erase"
        /\ stale'[t] = IF answer = activeUser THEN stale[t] ELSE stale[t] \cup {task[t].bundle}
        /\ UNCHANGED <<task, snap, todo, doubt>>
    BY <1>1, <1>5 DEF Goto, Inv, TypeOK
  <2>2. answer = activeUser => task[t].user = activeUser
    BY <1>2, <1>5 DEF CurrentUser
  <2>3. Will(t, b) => Will(t, b)'
    BY <1>2, <2>1 DEF PackageTask, Will, MakesGood, Reported, bmsVars
  <2>4. Agrees(b) => Agrees(b)'
    BY <1>2, <2>1 DEF Agrees, Mine, Reported, bmsVars
  <2>5. Settling(t, b)' => \/ b \in stale[t]'
                           \/ Settling(t, b) /\ b \notin stale[t]
                           \/ Will(t, b)'
    <3>1. Settling(t, b)' => task[t].bundle = b
      BY <1>2, <2>1 DEF Settling
    <3>2. CASE answer = activeUser
      BY <1>2, <2>1, <2>2, <3>1, <3>2 DEF PackageTask, Settling, Will, MakesGood, bmsVars
    <3>3. CASE answer # activeUser
      BY <2>1, <3>1, <3>3
    <3>. QED
      BY <3>2, <3>3
  <2>. QED
    BY <2>3, <2>4, <2>5 DEF Careful
<1>. QED
  BY <1>4, <1>5

LEMMA ReadBundleCareful ==
  ASSUME NEW t \in Thread, NEW b, Serving(t, b), ReadBundle(t)
  PROVE  Careful(t, b)
<1> USE DEF Serving
<1> DEFINE c == task[t].bundle
           i == bms[task[t].user][c]
<1>1. /\ pc[t] = "read" /\ task[t] \in PackageTask /\ task[t].op = "Save" /\ task[t].user \in User
      /\ UNCHANGED <<store, bmsVars>> /\ todo[t] = {} /\ c \in Bundle
  BY DEF ReadBundle, Inv, CallsOK, CallOK, PackageTask
<1>2. Will(t, b) => c = b /\ task[t].user = activeUser
  BY <1>1 DEF PackageTask, Will, MakesGood
<1>3. CASE /\ Goto(t, "write")
           /\ snap' = [snap EXCEPT ![t][c] = i]
           /\ todo' = [todo EXCEPT ![t] = {c}]
           /\ UNCHANGED <<task, tries, stale, doubt>>
  <2>1. pc'[t] = "write" /\ snap'[t][c] = i /\ todo'[t] = {c}
    BY <1>1, <1>3 DEF Goto, Inv, TypeOK
  <2>2. Will(t, b) => Will(t, b)'
    BY <1>1, <1>2, <1>3, <2>1 DEF Will, Reported, bmsVars
  <2>3. Agrees(b) => Agrees(b)'
    BY <1>1, <1>3 DEF Agrees, Mine, Reported, bmsVars
  <2>4. Settling(t, b)' => Settling(t, b)
    BY <1>1, <1>3, <2>1 DEF Settling
  <2>. QED
    BY <1>3, <2>2, <2>3, <2>4 DEF Careful
<1>4. CASE /\ IF i = NoInfo THEN UNCHANGED stale
              ELSE stale' = [stale EXCEPT ![t] = @ \cup {c}]
           /\ Goto(t, "check")
           /\ task' = [task EXCEPT ![t].op = "Delete"]
           /\ UNCHANGED <<tries, snap, todo, doubt>>
  <2>1. /\ pc'[t] = "check" /\ stale'[t] = IF i = NoInfo THEN stale[t] ELSE stale[t] \cup {c}
        /\ task'[t].op = "Delete" /\ task'[t].bundle = c /\ task'[t].user = task[t].user
        /\ todo'[t] = {}
    BY <1>1, <1>4 DEF Goto, Inv, TypeOK, PackageTask
  <2>2. Will(t, b) => Will(t, b)'
    BY <1>1, <1>2, <2>1 DEF Will, MakesGood, Reported, bmsVars
  <2>3. Agrees(b) => Agrees(b)'
    BY <1>1, <1>4 DEF Agrees, Mine, Reported, bmsVars
  <2>4. Settling(t, b)' => b \in stale[t]' \/ (Settling(t, b) /\ b \notin stale[t])
    BY <1>1, <2>1 DEF Settling
  <2>. QED
    BY <2>2, <2>3, <2>4 DEF Careful
<1>5. CASE GiveUp(t, {c})
  BY <1>1, <1>2, <1>5, GiveUpCareful
<1>. QED
  BY <1>3, <1>4, <1>5 DEF ReadBundle

\* A write settles the entry it is about.
LEMMA WriteCareful ==
  ASSUME NEW t \in Thread, NEW b, Serving(t, b), NEW v, WriteEntry(t, b, v),
         ~Settling(t, b)', Settling(t, b), pc[t] # "old",
         Will(t, b) => b \in stale[t] \/ v = Reported(b)
  PROVE  Careful(t, b)
<1> USE DEF Serving
<1>1. PICK Good, Lost :
        /\ Judge(t, Good, Lost)
        /\ \/ Good = {b} /\ Lost = {} /\ store' = [store EXCEPT ![Self][b] = v]
           \/ Good = {} /\ Lost = {b}
  BY DEF WriteEntry
<1>2. /\ Moves(t) /\ b \in Good \cup Lost /\ UNCHANGED bmsVars /\ doubt \in [Bundle -> Doubt]
      /\ b \in Bundle
  BY <1>1, StepMoves DEF Inv, TypeOK
<1>3. b \in stale[t] \/ v = Reported(b) => Agrees(b)'
  <2>1. CASE Good = {b} /\ Lost = {} /\ store' = [store EXCEPT ![Self][b] = v]
    <3>1. doubt'[b] = IF b \in stale[t] THEN "overlap" ELSE "none"
      BY <1>1, <1>2, <2>1 DEF Judge
    <3>2. Mine'[b] = v
      BY <1>2, <2>1, DeviceAssumption DEF Mine, Inv, TypeOK
    <3>. QED
      BY <1>2, <3>1, <3>2 DEF Agrees, Mine, Reported, bmsVars
  <2>2. CASE Lost = {b}
    <3>1. doubt'[b] = "lost"
      BY <1>1, <1>2, <2>2 DEF Judge
    <3>. QED
      BY <3>1 DEF Agrees
  <2>. QED
    BY <1>1, <2>1, <2>2
<1>4. Agrees(b)' => Settled(b)'
  BY <1>1, <1>2, SettledBy DEF bmsVars
<1>. QED
  BY <1>3, <1>4 DEF Careful

\* A write leaves the care of the other bundles as it was.
LEMMA OtherCareful ==
  ASSUME NEW t \in Thread, NEW b, Serving(t, b), NEW c \in Bundle \ {b}, NEW v,
         WriteEntry(t, c, v), ~Will(t, b) \/ (Will(t, b)' /\ pc'[t] # "idle"),
         Settling(t, b)' => Settling(t, b)
  PROVE  Careful(t, b)
<1> USE DEF Serving
<1>1. doubt'[b] = doubt[b]
  BY DEF WriteEntry, Judge
<1>2. Mine'[b] = Mine[b] /\ UNCHANGED bmsVars
  <2>1. store' = store \/ store' = [store EXCEPT ![Self][c] = v]
    BY DEF WriteEntry
  <2>2. store \in [Device -> [Bundle -> Entry]]
    BY DEF Inv, TypeOK
  <2>3. Mine'[b] = Mine[b]
    BY <2>1, <2>2, DeviceAssumption DEF Mine
  <2>. QED
    BY <2>3
<1>3. Agrees(b) => Agrees(b)'
  BY <1>1, <1>2 DEF Agrees, Mine, Reported, bmsVars
<1>4. pc'[t] # "idle" => stale'[t] = stale[t]
  BY JudgeMoves DEF WriteEntry
<1>5. Settling(t, b)' => pc'[t] # "idle"
  <2>1. CallsOK'
    BY StepInv DEF Inv
  <2>. QED
    BY <2>1 DEF Settling, CallsOK, CallOK
<1>. QED
  BY <1>3, <1>4, <1>5 DEF Careful

LEMMA InnerDeleteCareful ==
  ASSUME NEW t \in Thread, NEW b, Serving(t, b), InnerDelete(t)
  PROVE  Careful(t, b)
<1> USE DEF Serving
<1> DEFINE c == task[t].bundle
<1>1. /\ pc[t] = "erase" /\ todo[t] = {} /\ WriteEntry(t, c, NoInfo) /\ c \in Bundle
      /\ pc'[t] = "idle" /\ todo'[t] = {}
  BY ReturnMoves DEF InnerDelete, Inv, CallsOK, CallOK, PackageTask
<1>2. ~Settling(t, b)'
  BY <1>1 DEF Settling
<1>3. CASE b = c
  <2>1. Settling(t, b) /\ (Will(t, b) => b \in stale[t] \/ NoInfo = Reported(b))
    BY <1>1, <1>3 DEF Settling, Will
  <2>. QED
    BY <1>1, <1>2, <1>3, <2>1, WriteCareful
<1>4. CASE b # c
  <2>1. ~Will(t, b)
    BY <1>1, <1>4 DEF Will
  <2>. QED
    BY <1>1, <1>2, <1>4, <2>1, OtherCareful
<1>. QED
  BY <1>3, <1>4

LEMMA InnerSaveCareful ==
  ASSUME NEW t \in Thread, NEW b, Serving(t, b), NEW c \in Bundle, InnerSave(t, c)
  PROVE  Careful(t, b)
<1> USE DEF Serving
<1>1. /\ pc[t] = "write" /\ c \in todo[t] /\ WriteEntry(t, c, Convert(snap[t][c]))
      /\ pc'[t] \in {"write", "idle"} /\ todo'[t] = todo[t] \ {c}
      /\ pc'[t] = "idle" => todo[t] = {c}
      /\ pc'[t] # "idle" => UNCHANGED <<task, snap>>
  BY ReturnMoves DEF InnerSave, Inv, TypeOK
<1>2. CASE b = c
  <2>1. Convert(snap[t][c]) = snap[t][c]
    <3>1. snap[t][c] \in Info
      BY <1>1 DEF Inv, TypeOK, CallsOK, CallOK
    <3>. QED
      BY <3>1 DEF Convert, Info
  <2>2. Settling(t, b) /\ ~Settling(t, b)'
    BY <1>1, <1>2 DEF Settling
  <2>3. Will(t, b) => b \in stale[t] \/ snap[t][c] = Reported(b)
    BY <1>1, <1>2 DEF Will
  <2>. QED
    BY <1>1, <1>2, <2>1, <2>2, <2>3, WriteCareful
<1>3. CASE b # c
  <2>1. Settling(t, b)' => Settling(t, b)
    BY <1>1 DEF Settling
  <2>2. Will(t, b) => Will(t, b)' /\ pc'[t] # "idle"
    <3>1. SUFFICES ASSUME Will(t, b) PROVE Will(t, b)' /\ pc'[t] # "idle"
      OBVIOUS
    <3>2. b \in todo[t] /\ pc'[t] # "idle" /\ b \in todo'[t]
      BY <1>1, <1>3, <3>1 DEF Will
    <3>3. stale'[t] = stale[t]
      BY <3>2, JudgeMoves, <1>1 DEF WriteEntry
    <3>. QED
      BY <1>1, <3>1, <3>2, <3>3 DEF Will, Reported, bmsVars
  <2>. QED
    BY <1>1, <1>3, <2>1, <2>2, OtherCareful
<1>. QED
  BY <1>2, <1>3

LEMMA ListBundlesCareful ==
  ASSUME NEW t \in Thread, NEW b, Serving(t, b), ListBundles(t)
  PROVE  Careful(t, b)
<1> USE DEF Serving
<1>1. /\ pc[t] = "list" /\ task[t] \in RefreshTask /\ UNCHANGED <<store, bmsVars>> /\ b \in Bundle
  BY DEF ListBundles, Inv, CallsOK, CallOK
<1>2. CASE /\ Goto(t, "old") /\ snap' = [snap EXCEPT ![t] = bms[task[t].user]]
           /\ UNCHANGED <<task, tries, todo, stale, doubt>>
  <2>1. pc'[t] = "old" /\ snap'[t] = bms[task[t].user] /\ todo[t] = {}
    BY <1>1, <1>2 DEF Goto, Inv, TypeOK, CallsOK, CallOK
  <2>2. Will(t, b) => Will(t, b)'
    BY <1>1, <1>2, <2>1 DEF Will, MakesGood, RefreshTask, Reported, bmsVars
  <2>3. (Agrees(b) => Agrees(b)') /\ Settling(t, b)
    BY <1>1, <1>2 DEF Settling, Agrees, Mine, Reported, bmsVars
  <2>. QED
    BY <1>2, <2>2, <2>3 DEF Careful
<1>3. CASE GiveUp(t, Bundle)
  BY <1>1, <1>3, GiveUpCareful
<1>. QED
  BY <1>2, <1>3 DEF ListBundles

\* A refresh goes on with what it puts and settles the rest.
LEMMA ContinueCareful ==
  ASSUME NEW t \in Thread, NEW b, Serving(t, b), NEW Good, NEW Lost, NEW B,
         Judge(t, Good, Lost), Continue(t, B), pc[t] = "old", b \in B \cup Good \cup Lost,
         B \cap (Good \cup Lost) = {},
         b \in B => Mine'[b] = Mine[b],
         b \in stale[t] \/ (b \in Good /\ task[t].user = activeUser /\ snap[t][b] = Reported(b))
           => b \in B \/ Agrees(b)'
  PROVE  Careful(t, b)
<1> USE DEF Serving
<1>1. /\ UNCHANGED bmsVars /\ b \in Bundle /\ todo[t] = {} /\ Moves(t)
  BY StepMoves DEF Inv, CallsOK, CallOK
<1>2. CASE b \in B
  <2>1. pc'[t] = "write" /\ todo'[t] = B /\ UNCHANGED <<task, snap>>
    BY <1>2 DEF Continue, Goto, Inv, TypeOK
  <2>2. stale'[t] = stale[t]
    BY <2>1, JudgeMoves
  <2>3. Will(t, b) => Will(t, b)'
    BY <1>1, <1>2, <2>1, <2>2 DEF Will, Reported, bmsVars
  <2>4. doubt'[b] = doubt[b]
    BY <1>1, <1>2 DEF Judge
  <2>5. Agrees(b) => Agrees(b)'
    BY <1>1, <1>2, <2>4 DEF Agrees, Reported, bmsVars
  <2>. QED
    BY <2>2, <2>3, <2>5 DEF Careful, Settling
<1>3. CASE b \notin B
  <2>1. pc'[t] \in {"write", "idle"} /\ b \notin todo'[t]
    BY <1>3, ReturnMoves DEF Continue, Goto, Inv, TypeOK
  <2>2. ~Settling(t, b)'
    BY <2>1 DEF Settling
  <2>3. b \in Lost => Agrees(b)'
    BY <1>1 DEF Judge, Agrees
  <2>4. Agrees(b)' => Settled(b)'
    BY <1>1, <1>3, <2>2, SettledBy DEF bmsVars
  <2>5. Will(t, b) => b \in stale[t] \/ (task[t].user = activeUser /\ snap[t][b] = Reported(b))
    BY <1>1 DEF Will
  <2>6. Settling(t, b)
    BY DEF Settling
  <2>. QED
    BY <1>3, <2>2, <2>3, <2>4, <2>5, <2>6 DEF Careful
<1>. QED
  BY <1>2, <1>3

LEMMA RefreshOldCareful ==
  ASSUME NEW t \in Thread, NEW b, Serving(t, b), RefreshOld(t)
  PROVE  Careful(t, b)
<1> USE DEF Serving
<1>1. /\ pc[t] = "old" /\ UNCHANGED bmsVars /\ b \in Bundle \ Singleton /\ doubt \in [Bundle -> Doubt]
  BY DEF RefreshOld, Inv, TypeOK
<1>2. CASE \E failed \in SUBSET ToPurge(snap[t]) : \E left \in SUBSET failed :
             LET purged == ToPurge(snap[t]) \ left
                 put == ToPut(snap[t], Mine)
                 lost == {c \in Bundle \ put : <<Self, c>> \in failed \/ Mine[c] = Corrupt}
             IN /\ store' = [d \in Device |->
                              [c \in Bundle |-> IF <<d, c>> \in purged THEN NoInfo ELSE store[d][c]]]
                /\ Continue(t, put)
                /\ Judge(t, Bundle \ (put \cup lost), lost)
  <2>1. PICK failed, left, put, lost :
             /\ failed \subseteq ToPurge(snap[t]) /\ left \subseteq failed
             /\ put = ToPut(snap[t], Mine)
             /\ lost = {c \in Bundle \ put : <<Self, c>> \in failed \/ Mine[c] = Corrupt}
             /\ store' = [d \in Device |->
                            [c \in Bundle |-> IF <<d, c>> \in ToPurge(snap[t]) \ left
                                              THEN NoInfo ELSE store[d][c]]]
             /\ Continue(t, put)
             /\ Judge(t, Bundle \ (put \cup lost), lost)
    BY <1>2
  <2> DEFINE i == snap[t][b]
  <2>2. /\ <<Self, b>> \in ToPurge(snap[t]) <=> Parses(Mine[b]) /\ i = NoInfo
        /\ Mine'[b] = IF <<Self, b>> \in ToPurge(snap[t]) \ left THEN NoInfo ELSE Mine[b]
    BY <1>1, <2>1, DeviceAssumption DEF ToPurge, Mine
  <2>3. b \in put <=> i # NoInfo /\ NeedsUpdate(Mine[b], i)
    BY <1>1, <2>1 DEF ToPut
  <2>4. b \in put => Mine'[b] = Mine[b]
    BY <2>2, <2>3
  <2>5. ASSUME b \notin put, b \notin lost, i = Reported(b), b \notin stale[t]
        PROVE  Agrees(b)'
    <3>1. doubt'[b] = IF i \notin {NoInfo, Mine[b]} THEN "skipped" ELSE "none"
      BY <1>1, <2>1, <2>5 DEF Judge
    <3>2. Reported(b)' = i
      BY <1>1, <2>5 DEF Reported, bmsVars
    <3>3. CASE i = NoInfo
      <4>1. Mine'[b] = NoInfo
        BY <1>1, <2>1, <2>2, <2>5, <3>3 DEF Parses
      <4>. QED
        BY <3>1, <3>2, <3>3, <4>1 DEF Agrees
    <3>4. CASE i # NoInfo
      <4>1. Mine'[b] = Mine[b] /\ Parses(Mine[b]) /\ Mine[b].time = i.time
        BY <2>2, <2>3, <2>5, <3>4 DEF NeedsUpdate
      <4>. QED
        BY <3>1, <3>2, <3>4, <4>1 DEF Agrees
    <3>. QED
      BY <3>3, <3>4
  <2>6. ASSUME b \notin put, b \in stale[t]
        PROVE  Agrees(b)'
    <3>1. doubt'[b] \in {"lost", "overlap"}
      BY <1>1, <2>1, <2>6 DEF Judge
    <3>. QED
      BY <3>1 DEF Agrees
  <2> DEFINE good == Bundle \ (put \cup lost)
  <2>7. put \cap (good \cup lost) = {} /\ b \in put \cup good \cup lost
    BY <1>1, <2>1
  <2>8. b \in stale[t] \/ (b \in good /\ task[t].user = activeUser /\ snap[t][b] = Reported(b))
          => b \in put \/ Agrees(b)'
    BY <2>5, <2>6
  <2>9. Judge(t, good, lost) /\ Continue(t, put) /\ pc[t] = "old"
    BY <1>1, <2>1
  <2> HIDE DEF good, i
  <2>. QED
    BY <2>4, <2>7, <2>8, <2>9, ContinueCareful
<1>3. CASE /\ Continue(t, ToPut(snap[t], NoBundles))
           /\ Judge(t, {}, {c \in Bundle : snap[t][c] = NoInfo})
           /\ UNCHANGED store
  <2> DEFINE put == ToPut(snap[t], NoBundles)
             lost == {c \in Bundle : snap[t][c] = NoInfo}
  <2>1. b \in put <=> b \notin lost
    BY <1>1 DEF ToPut, NeedsUpdate, Parses, NoBundles
  <2>2. put \cap ({} \cup lost) = {}
    BY DEF ToPut
  <2>3. b \in lost => Agrees(b)'
    BY <1>1, <1>3 DEF Judge, Agrees
  <2>4. Mine'[b] = Mine[b]
    BY <1>3 DEF Mine
  <2> HIDE DEF put, lost
  <2>. QED
    BY <1>1, <1>3, <2>1, <2>2, <2>3, <2>4, ContinueCareful DEF put, lost
<1>. QED
  BY <1>2, <1>3 DEF RefreshOld

LEMMA StepCareful ==
  ASSUME NEW t \in Thread, NEW b, Serving(t, b)
  PROVE  Careful(t, b)
<1>1. Step(t)
  BY DEF Serving
<1>. QED
  BY <1>1, OpeningCareful, LastCheckCareful, CheckUserCareful, ReadBundleCareful,
     InnerDeleteCareful, InnerSaveCareful, ListBundlesCareful, RefreshOldCareful DEF Step

-----------------------------------------------------------------------------

(* The invariant. *)

Queued(b) == \E i \in 1..Len(queue) : MakesGood(TaskOf(queue[i]), b)

Cared(b) == Queued(b) \/ \E t \in Thread : Will(t, b)

\* The call k, made now, settles b, but perhaps not as BMS has it.
Unsettles(k, b) ==
    k.op = "Update" \/ (k.op = "Delete" /\ k.bundle = b /\ k.user = activeUser)

\* An event that unsettles b is followed by one that makes it good.
InOrder(b) ==
    \A i \in 1..Len(queue) : Unsettles(TaskOf(queue[i]), b) =>
        \E j \in i..Len(queue) : MakesGood(TaskOf(queue[j]), b)

KeptFor(b) ==
    /\ Agrees(b) \/ Cared(b)
    /\ \A t \in Thread : Settling(t, b) => b \in stale[t] \/ Cared(b)
    /\ InOrder(b)

Kept == activeUser \in User => \A b \in Bundle \ (Singleton \cup missed) : KeptFor(b)

\* A process that does not run has nothing under way.
Stopped == ~running => ~subscribed /\ queue = <<>> /\ \A t \in Thread : ~Busy(t)

\* A call writes only what it is about.
TodoAbout == \A t \in Thread : todo[t] \subseteq About(task[t])

AgreeInv == SInv /\ Kept /\ Stopped /\ TodoAbout

\* What a call will do good it is about.
LEMMA WillAbout ==
  ASSUME Inv, TodoAbout, NEW t \in Thread, NEW b \in Bundle, Will(t, b)
  PROVE  b \in About(task[t]) /\ Busy(t)
BY DEF Inv, CallsOK, CallOK, PackageTask, RefreshTask, Task, Will, MakesGood, TodoAbout,
       About, Busy

\* What is not pending is not cared for, so it agrees.
LEMMA AgreementFromInv == AgreeInv => Agreement
<1> SUFFICES ASSUME AgreeInv, NEW b \in Bundle \ Singleton,
                    activeUser \in User, b \notin missed, ~Pending(b)
             PROVE  Agrees(b)
  BY DEF Agreement, Agrees, Reported
<1>1. ~\E t \in Thread : Will(t, b)
  BY WillAbout DEF AgreeInv, SInv, Pending
<1>2. ASSUME NEW k, MakesGood(k, b)
      PROVE  b \in About(k)
  BY <1>2 DEF MakesGood, About
<1>3. ~Queued(b)
  BY <1>2 DEF Pending, Queued
<1>. QED
  BY <1>1, <1>3 DEF AgreeInv, Kept, KeptFor, Cared

\* What a step of t stops caring for, it has settled.
LEMMA StepKept ==
  ASSUME AgreeInv, NEW t \in Thread, Work(t)
  PROVE  Kept'
<1>1. Step(t) /\ UNCHANGED <<bmsVars, queue, missed>> /\ Inv /\ Moves(t)
  BY StepMoves DEF AgreeInv, SInv, Work, serviceVars
<1> SUFFICES ASSUME activeUser \in User, NEW b \in Bundle \ (Singleton \cup missed)
             PROVE  KeptFor(b)'
  BY <1>1 DEF Kept, bmsVars
<1>2. Careful(t, b) /\ KeptFor(b)
  BY <1>1, StepCareful DEF Serving, AgreeInv, Kept
<1>3. (Queued(b) => Queued(b)') /\ InOrder(b)'
  BY <1>1, <1>2 DEF KeptFor, InOrder, Unsettles, Queued, MakesGood, Reported, bmsVars
<1>4. ASSUME NEW s \in Thread \ {t}
      PROVE  /\ Will(s, b) => Will(s, b)'
             /\ Settling(s, b)' /\ b \notin stale[s]' => Settling(s, b) /\ b \notin stale[s]
  BY <1>1 DEF Moves, Will, Settling, MakesGood, Reported, bmsVars
<1>5. CASE Cared(b)'
  BY <1>3, <1>5 DEF KeptFor
<1>6. CASE ~Cared(b)' /\ Cared(b)
  <2>1. Will(t, b) /\ ~Will(t, b)'
    BY <1>3, <1>4, <1>6 DEF Cared
  <2>2. Settled(b)'
    BY <1>2, <2>1 DEF Careful
  <2>. QED
    BY <1>3, <2>2 DEF Settled, KeptFor
<1>7. CASE ~Cared(b)' /\ ~Cared(b)
  <2>1. Agrees(b) /\ \A s \in Thread : Settling(s, b) => b \in stale[s]
    BY <1>2, <1>7 DEF KeptFor
  <2>2. Agrees(b)'
    BY <1>2, <2>1 DEF Careful
  <2>3. \A s \in Thread : Settling(s, b)' => b \in stale[s]'
    BY <1>2, <1>4, <1>7, <2>1 DEF Careful, Cared
  <2>. QED
    BY <1>3, <2>2, <2>3 DEF KeptFor
<1>. QED
  BY <1>5, <1>6, <1>7

\* A change that leaves what BMS reports of b alone leaves b's care alone.
LEMMA OtherEvent ==
  ASSUME SInv, NEW b \in Bundle, NEW e \in Event, Publish(e), KeptFor(b),
         UNCHANGED activeUser, Reported(b)' = Reported(b), ~Unsettles(TaskOf(e), b)
  PROVE  KeptFor(b)'
<1>1. /\ UNCHANGED storageVars
      /\ queue \in Seq(Event)
      /\ queue' = queue \/ queue' = Append(queue, e)
  BY DEF Publish, SInv, ServiceTypeOK
<1>2. /\ \A k : MakesGood(k, b)' <=> MakesGood(k, b)
      /\ \A k : Unsettles(k, b)' <=> Unsettles(k, b)
  BY DEF MakesGood, Unsettles
<1>3. /\ Len(queue') \in Nat /\ Len(queue) <= Len(queue')
      /\ \A i \in 1..Len(queue) : queue'[i] = queue[i]
      /\ \A i \in 1..Len(queue') : i \in 1..Len(queue) \/ queue'[i] = e
  BY <1>1
<1>4. Agrees(b)' <=> Agrees(b)
  BY <1>1 DEF Agrees, Mine, storageVars
<1>5. ASSUME NEW t \in Thread
      PROVE  (Will(t, b)' <=> Will(t, b)) /\ (Settling(t, b)' <=> Settling(t, b))
  BY <1>1, <1>2 DEF Will, Settling, storageVars, threadVars
<1>6. Queued(b) => Queued(b)'
  BY <1>1, <1>2, <1>3 DEF Queued
<1>7. Cared(b) => Cared(b)'
  BY <1>5, <1>6 DEF Cared
<1>8. InOrder(b)'
  <2> SUFFICES ASSUME NEW i \in 1..Len(queue'), Unsettles(TaskOf(queue[i]), b)'
               PROVE  \E j \in i..Len(queue') : MakesGood(TaskOf(queue[j]), b)'
    BY DEF InOrder
  <2>1. i \in 1..Len(queue) /\ queue'[i] = queue[i]
    BY <1>2, <1>3
  <2>2. PICK j \in i..Len(queue) : MakesGood(TaskOf(queue[j]), b)
    BY <1>2, <2>1 DEF KeptFor, InOrder
  <2>3. j \in 1..Len(queue) /\ j \in i..Len(queue')
    BY <1>1, <1>3, <2>1
  <2>. QED
    BY <1>2, <1>3, <2>2, <2>3
<1>. QED
  BY <1>1, <1>4, <1>5, <1>7, <1>8 DEF KeptFor, storageVars

\* An event that makes b good takes care of it, whatever is under way.
LEMMA EventServes ==
  ASSUME SInv, NEW b \in Bundle, NEW e \in Event, queue' = Append(queue, e),
         MakesGood(TaskOf(e), b)'
  PROVE  KeptFor(b)'
<1>1. /\ queue \in Seq(Event) /\ Len(queue') = Len(queue) + 1 /\ Len(queue) \in Nat
      /\ queue'[Len(queue')] = e
  BY DEF SInv, ServiceTypeOK
<1>2. Len(queue') \in 1..Len(queue') /\ \A i \in 1..Len(queue') : Len(queue') \in i..Len(queue')
  BY <1>1
<1>3. Cared(b)' /\ InOrder(b)'
  BY <1>1, <1>2 DEF Cared, Queued, InOrder
<1>. QED
  BY <1>3 DEF KeptFor

\* A change is published in the event that takes care of it, or missed.
LEMMA EnvironmentKept ==
  ASSUME AgreeInv, Environment
  PROVE  Kept'
<1> SUFFICES ASSUME activeUser' \in User, NEW b \in Bundle \ (Singleton \cup missed')
             PROVE  KeptFor(b)'
  BY DEF Kept
<1>t. SInv /\ BundleManagerTypeOK
  BY DEF AgreeInv, SInv, Inv, TypeOK
<1>1. ASSUME NEW u \in User, SwitchUser(u), Publish([action |-> "USER_SWITCHED", user |-> u])
      PROVE  KeptFor(b)'
  <2> DEFINE e == [action |-> "USER_SWITCHED", user |-> u]
  <2>1. e \in Event /\ TaskOf(e) = [op |-> "Update", user |-> u]
    BY DEF Event, TaskOf
  <2>2. queue' = Append(queue, e)
    BY <1>1, <2>1 DEF Publish, About
  <2>3. MakesGood(TaskOf(e), b)'
    BY <1>1, <2>1 DEF SwitchUser, MakesGood
  <2>. QED
    BY <1>t, <2>1, <2>2, <2>3, EventServes
<1>2. ASSUME NEW c \in Bundle, NEW u \in User, NEW a \in Package, NEW i \in Info \cup {NoInfo},
             PackageEvent(a, c, u), SetInfo(c, u, i), UNCHANGED activeUser,
             a = "PACKAGE_REMOVED" => i = NoInfo
      PROVE  KeptFor(b)'
  <2> DEFINE e == [action |-> a, bundle |-> c, user |-> EventUser(c, u)]
             k == TaskOf(e)
  <2>1. /\ e \in Event /\ k.bundle = c /\ k.user = EventUser(c, u) /\ k.op # "Update" /\ k.op # "none"
        /\ k.op = IF a = "PACKAGE_REMOVED" THEN "Delete" ELSE "Save"
    BY DEF Event, EventUser, AnyUser, TaskOf, Package
  <2>2. Publish(e) /\ b \notin missed /\ activeUser \in User
    BY <1>2 DEF PackageEvent, Publish
  <2>3. KeptFor(b)
    BY <2>2 DEF AgreeInv, Kept
  <2>4. CASE b # c \/ u # activeUser
    <3>1. Reported(b)' = Reported(b)
      <4>1. activeUser \in Affected(c, u) => b # c
        BY <2>4, <2>2 DEF Affected
      <4>2. bms'[activeUser] = IF activeUser \in Affected(c, u) THEN [bms[activeUser] EXCEPT ![c] = i]
                               ELSE bms[activeUser]
        BY <1>2, <2>2 DEF SetInfo
      <4>3. bms[activeUser] \in [Bundle -> Info \cup {NoInfo}]
        BY <1>t, <2>2 DEF BundleManagerTypeOK
      <4>. QED
        BY <1>2, <4>1, <4>2, <4>3 DEF Reported
    <3>2. ~Unsettles(k, b)
      BY <2>1, <2>4 DEF Unsettles, EventUser
    <3>. QED
      BY <1>t, <1>2, <2>1, <2>2, <2>3, <3>1, <3>2, OtherEvent
  <2>5. CASE b = c /\ u = activeUser
    <3>1. About(k) = {b}
      BY <2>1, <2>5 DEF About
    <3>2. queue' = Append(queue, e)
      BY <2>2, <3>1 DEF Publish
    <3>3. bms'[activeUser] = [bms[activeUser] EXCEPT ![c] = i]
      BY <1>2, <2>2, <2>5 DEF SetInfo, Affected
    <3>4. bms[activeUser] \in [Bundle -> Info \cup {NoInfo}]
      BY <1>t, <2>2 DEF BundleManagerTypeOK
    <3>5. Reported(b)' = i
      BY <1>2, <2>5, <3>3, <3>4 DEF Reported
    <3>6. MakesGood(k, b)'
      BY <1>2, <2>1, <2>5, <3>5 DEF MakesGood, EventUser
    <3>. QED
      BY <1>t, <2>1, <3>2, <3>6, EventServes
  <2>. QED
    BY <2>4, <2>5
<1>3. ASSUME NEW c \in Bundle, NEW u \in User, Install(c, u), PackageEvent("PACKAGE_ADDED", c, u)
      PROVE  KeptFor(b)'
  <2>1. [time |-> clock + 1, enabled |-> TRUE, token |-> EventUser(c, u)] \in Info
    BY <1>t, <1>3, TimeAssumption DEF BundleManagerTypeOK, Install, Tick, Info, EventUser, AnyUser
  <2>. QED
    BY <1>2, <1>3, <2>1 DEF Install, Package
<1>4. ASSUME NEW c \in Bundle, NEW u \in User, Toggle(c, u), PackageEvent("PACKAGE_CHANGED", c, u)
      PROVE  KeptFor(b)'
  <2>1. bms[u][c] \in Info
    BY <1>t, <1>4 DEF BundleManagerTypeOK, Toggle
  <2>2. [bms[u][c] EXCEPT !.enabled = ~@] \in Info
    BY <2>1 DEF Info
  <2>. QED
    BY <1>2, <1>4, <2>2 DEF Toggle, Package
<1>5. ASSUME NEW c \in Bundle, NEW u \in User, Uninstall(c, u), PackageEvent("PACKAGE_REMOVED", c, u)
      PROVE  KeptFor(b)'
  BY <1>2, <1>5 DEF Uninstall, Package
<1>. QED
  BY <1>1, <1>3, <1>4, <1>5 DEF Environment

\* The call made for an event takes over its care.
LEMMA OnReceiveEventKept ==
  ASSUME AgreeInv, OnReceiveEvent
  PROVE  Kept'
<1> DEFINE k == TaskOf(Head(queue))
<1>1. /\ Inv /\ queue \in Seq(Event) /\ queue # <<>> /\ queue' = Tail(queue)
      /\ UNCHANGED <<bmsVars, store, stale, doubt, missed>> /\ Monitor \in Thread
      /\ k = TaskOf(queue[1]) /\ k \in Task
  BY MainType, TaskOfType DEF OnReceiveEvent, AgreeInv, SInv, ServiceTypeOK
<1>2. /\ pc[Monitor] = "idle" /\ todo[Monitor] = {}
      /\ pc'[Monitor] = IF k.op = "Update" THEN "list" ELSE "check"
      /\ task'[Monitor] = k /\ UNCHANGED <<snap, todo>>
      /\ \A s \in Thread \ {Monitor} : pc'[s] = pc[s] /\ task'[s] = task[s]
  BY <1>1 DEF OnReceiveEvent, Begin, Busy, Goto, Inv, TypeOK, CallsOK, CallOK
<1>3. /\ Len(queue) \in Nat \ {0} /\ Len(queue') = Len(queue) - 1
      /\ \A i \in 1..Len(queue') : queue'[i] = queue[i + 1] /\ i + 1 \in 1..Len(queue)
      /\ \A i \in 2..Len(queue) : i - 1 \in 1..Len(queue') /\ queue[i] = queue'[i - 1]
  BY <1>1
<1> SUFFICES ASSUME activeUser \in User, NEW b \in Bundle \ (Singleton \cup missed)
             PROVE  KeptFor(b)'
  BY <1>1 DEF Kept, bmsVars
<1>4. KeptFor(b)
  BY DEF AgreeInv, Kept
<1>5. /\ \A l : MakesGood(l, b)' <=> MakesGood(l, b)
      /\ \A l : Unsettles(l, b)' <=> Unsettles(l, b)
      /\ Agrees(b)' <=> Agrees(b)
  BY <1>1 DEF MakesGood, Unsettles, Agrees, Mine, Reported, bmsVars
<1>6. ASSUME NEW s \in Thread \ {Monitor}
      PROVE  (Will(s, b)' <=> Will(s, b)) /\ (Settling(s, b)' <=> Settling(s, b))
  BY <1>1, <1>2, <1>5 DEF Will, Settling, Reported, bmsVars
<1>7. /\ ~Will(Monitor, b)
      /\ MakesGood(k, b) => Will(Monitor, b)'
      /\ Settling(Monitor, b)' => Unsettles(k, b)
  BY <1>1, <1>2, <1>5 DEF Will, Settling, Unsettles, MakesGood, bmsVars
<1>8. ASSUME NEW i \in 1..Len(queue), MakesGood(TaskOf(queue[i]), b)
      PROVE  Cared(b)'
  <2>1. CASE i = 1
    BY <1>1, <1>7, <1>8, <2>1 DEF Cared
  <2>2. CASE i # 1
    <3>1. i \in 2..Len(queue)
      BY <1>3, <2>2
    <3>. QED
      BY <1>3, <1>5, <1>8, <3>1 DEF Cared, Queued
  <2>. QED
    BY <2>1, <2>2
<1>9. Cared(b) => Cared(b)'
  BY <1>6, <1>7, <1>8 DEF Cared, Queued
<1>10. Unsettles(k, b) => Cared(b)'
  <2>1. 1 \in 1..Len(queue) /\ \A j \in 1..Len(queue) : j \in 1..Len(queue)
    BY <1>3
  <2>. QED
    BY <1>1, <1>4, <1>8, <2>1 DEF KeptFor, InOrder
<1>11. InOrder(b)'
  <2> SUFFICES ASSUME NEW i \in 1..Len(queue'), Unsettles(TaskOf(queue[i]), b)'
               PROVE  \E j \in i..Len(queue') : MakesGood(TaskOf(queue[j]), b)'
    BY DEF InOrder
  <2>1. PICK j \in i + 1..Len(queue) : MakesGood(TaskOf(queue[j]), b)
    BY <1>3, <1>4, <1>5 DEF KeptFor, InOrder
  <2>2. j \in 2..Len(queue) /\ j - 1 \in i..Len(queue')
    BY <1>3
  <2>. QED
    BY <1>3, <1>5, <2>1, <2>2
<1>. QED
  BY <1>1, <1>4, <1>5, <1>6, <1>7, <1>9, <1>10, <1>11 DEF KeptFor

\* A process starts with nothing under way: what it left undone is what is
\* missed or unseen, and the refresh is about all of it.
LEMMA OnStartKept ==
  ASSUME AgreeInv, OnStart
  PROVE  Kept'
<1>1. /\ Inv /\ queue = <<>> /\ queue' = queue /\ \A t \in Thread : pc[t] = "idle" /\ todo[t] = {}
      /\ UNCHANGED <<bmsVars, store, stale>> /\ pc \in [Thread -> Pc]
      /\ task \in [Thread -> Task \cup {NoTask}]
  BY DEF OnStart, AgreeInv, SInv, Stopped, Busy, Inv, TypeOK, CallsOK, CallOK
<1> SUFFICES ASSUME activeUser \in User, NEW b \in Bundle \ Singleton
             PROVE  KeptFor(b)'
  BY <1>1 DEF Kept, bmsVars
<1>2. b \notin missed => Agrees(b)
  <2>1. ~Cared(b)
    BY <1>1 DEF Cared, Queued, Will
  <2>. QED
    BY <2>1 DEF AgreeInv, Kept, KeptFor
<1>3. PICK reason \in {"unseen", "lost"} : doubt' = Missed(reason)
  BY DEF OnStart
<1>4. Agrees(b)'
  <2>1. doubt'[b] = IF b \in missed \/ doubt[b] = "unseen" THEN reason ELSE doubt[b]
    BY <1>3 DEF Missed
  <2>. QED
    BY <1>1, <1>2, <2>1 DEF Agrees, Mine, Reported, bmsVars
<1>5. ASSUME NEW t \in Thread, Settling(t, b)'
      PROVE  Will(t, b)'
  <2>1. CASE UNCHANGED threadVars
    BY <1>1, <1>5, <2>1 DEF threadVars, Settling
  <2>2. CASE Begin(Main, [op |-> "Update", user |-> activeUser])
    <3>1. /\ todo' = todo
          /\ pc'[t] = IF t = Main THEN "list" ELSE "idle"
          /\ t = Main => task'[t] = [op |-> "Update", user |-> activeUser]
      BY <1>1, <2>2 DEF Begin, Goto
    <3>. QED
      BY <1>1, <1>5, <3>1 DEF Settling, Will, MakesGood, bmsVars
  <2>. QED
    BY <2>1, <2>2 DEF OnStart, Refresh
<1>6. InOrder(b)'
  BY <1>1 DEF InOrder
<1>. QED
  BY <1>4, <1>5, <1>6 DEF KeptFor, Cared

\* A process that ends leaves in doubt what was pending.
LEMMA ExitKept ==
  ASSUME AgreeInv, Exit
  PROVE  Kept'
<1>1. Agreement /\ UNCHANGED <<bmsVars, store, missed>> /\ queue' = <<>>
  BY AgreementFromInv DEF Exit
<1> SUFFICES ASSUME activeUser \in User, NEW b \in Bundle \ (Singleton \cup missed)
             PROVE  KeptFor(b)'
  BY <1>1 DEF Kept, bmsVars
<1>2. ~Pending(b) => Agrees(b)
  BY <1>1 DEF Agreement, Agrees, Reported
<1>3. doubt'[b] = IF Pending(b) THEN "unseen" ELSE doubt[b]
  BY DEF Exit
<1>4. Agrees(b)'
  BY <1>1, <1>2, <1>3 DEF Agrees, Mine, Reported, bmsVars
<1>5. \A t \in Thread : ~Settling(t, b)'
  BY DEF Exit, Settling
<1>6. InOrder(b)'
  BY <1>1 DEF InOrder
<1>. QED
  BY <1>4, <1>5, <1>6 DEF KeptFor

LEMMA NextStopped == AgreeInv /\ [ServiceNext]_allVars => Stopped'
<1> SUFFICES ASSUME AgreeInv, [ServiceNext]_allVars PROVE Stopped'
  OBVIOUS
<1> USE DEF Stopped, Busy
<1>1. ASSUME NEW t \in Thread, Work(t)
      PROVE  Stopped'
  <2>1. Busy(t) /\ UNCHANGED <<running, subscribed, queue>>
    BY <1>1 DEF Work, serviceVars, Step, CheckKvStore, OpenKvStore, LastCheck, CheckUser,
                ReadBundle, InnerSave, InnerDelete, ListBundles, RefreshOld
  <2>. QED
    BY <2>1 DEF AgreeInv
<1>2. CASE Environment
  <2>1. PICK e \in Event : Publish(e)
    BY <1>2, EnvironmentStep
  <2>2. UNCHANGED <<pc, running, subscribed>> /\ (subscribed \/ UNCHANGED queue)
    BY <2>1 DEF Publish, storageVars, threadVars
  <2>. QED
    BY <2>2 DEF AgreeInv
<1>3. CASE OnStart \/ OnReceiveEvent \/ OnStop \/ Exit \/ UNCHANGED allVars
  BY <1>3 DEF AgreeInv, OnStart, OnReceiveEvent, OnStop, Exit, allVars, vars, storageVars,
              threadVars, serviceVars
<1>. QED
  BY <1>1, <1>2, <1>3 DEF ServiceNext

\* A call takes up for writing only what it is about.
LEMMA StepTodo ==
  ASSUME Inv, TodoAbout, NEW t \in Thread, Step(t)
  PROVE  TodoAbout'
<1>1. Moves(t)
  BY StepMoves
<1>2. ASSUME todo'[t] \subseteq About(task[t])'
      PROVE  TodoAbout'
  BY <1>1, <1>2 DEF Moves, TodoAbout, About
<1>3. CASE Return(t)
  BY <1>2, <1>3, ReturnMoves
<1>4. CASE UNCHANGED <<task, todo>>
  BY <1>4 DEF TodoAbout, About
<1>5. CASE CheckKvStore(t) \/ OpenKvStore(t) \/ LastCheck(t) \/ CheckUser(t) \/ InnerDelete(t)
             \/ ListBundles(t)
  BY <1>3, <1>4, <1>5 DEF CheckKvStore, OpenKvStore, LastCheck, CheckUser, InnerDelete,
                          ListBundles, GiveUp
<1>6. CASE ReadBundle(t)
  <2>1. task[t].op = "Save" /\ task[t] \in PackageTask /\ todo[t] = {}
    BY <1>6 DEF ReadBundle, Inv, CallsOK, CallOK
  <2>2. CASE todo' = [todo EXCEPT ![t] = {task[t].bundle}] /\ UNCHANGED task
    BY <1>2, <2>1, <2>2 DEF About, Inv, TypeOK
  <2>3. CASE UNCHANGED todo
    BY <1>2, <2>1, <2>3
  <2>. QED
    BY <1>3, <1>6, <2>2, <2>3 DEF ReadBundle, GiveUp
<1>7. ASSUME NEW b \in Bundle, InnerSave(t, b)
      PROVE  TodoAbout'
  <2>1. CASE todo' = [todo EXCEPT ![t] = @ \ {b}] /\ UNCHANGED task
    BY <1>2, <2>1 DEF TodoAbout, About, Inv, TypeOK
  <2>. QED
    BY <1>3, <1>7, <2>1 DEF InnerSave
<1>8. CASE RefreshOld(t)
  <2>1. task[t] \in RefreshTask
    BY <1>8 DEF RefreshOld, Inv, CallsOK, CallOK
  <2>2. \A new, old : ToPut(new, old) \subseteq Bundle
    BY DEF ToPut
  <2>3. PICK B \in SUBSET Bundle : Continue(t, B)
    BY <1>8, <2>2 DEF RefreshOld
  <2>4. CASE todo' = [todo EXCEPT ![t] = B] /\ UNCHANGED task
    BY <1>2, <2>1, <2>4 DEF RefreshTask, About, Inv, TypeOK
  <2>. QED
    BY <1>3, <2>3, <2>4 DEF Continue
<1>. QED
  BY <1>5, <1>6, <1>7, <1>8 DEF Step

LEMMA NextTodo == AgreeInv /\ [ServiceNext]_allVars => TodoAbout'
<1> SUFFICES ASSUME AgreeInv, [ServiceNext]_allVars PROVE TodoAbout'
  OBVIOUS
<1>1. Inv /\ TodoAbout
  BY DEF AgreeInv, SInv
<1>2. ASSUME NEW t \in Thread, Work(t)
      PROVE  TodoAbout'
  BY <1>1, <1>2, StepTodo DEF Work
<1>3. CASE UNCHANGED <<task, todo>>
  BY <1>1, <1>3 DEF TodoAbout, About
<1>4. ASSUME NEW t \in Thread, NEW k, Begin(t, k)
      PROVE  TodoAbout'
  <2>1. todo[t] = {} /\ todo' = todo /\ \A s \in Thread \ {t} : task'[s] = task[s]
    BY <1>1, <1>4 DEF Begin, Busy, Inv, TypeOK, CallsOK, CallOK
  <2>. QED
    BY <1>1, <2>1 DEF TodoAbout, About
<1>5. CASE OnStart \/ OnReceiveEvent
  BY <1>3, <1>4, <1>5, MainType DEF OnStart, Refresh, OnReceiveEvent, threadVars
<1>6. CASE Environment
  BY <1>3, <1>6, EnvironmentStep DEF Publish, storageVars, threadVars
<1>7. CASE Exit
  BY <1>7 DEF Exit, TodoAbout
<1>8. CASE OnStop \/ UNCHANGED allVars
  BY <1>3, <1>8 DEF OnStop, allVars, vars, storageVars, threadVars
<1>. QED
  BY <1>2, <1>5, <1>6, <1>7, <1>8 DEF ServiceNext

LEMMA IdleKept ==
  ASSUME AgreeInv, UNCHANGED <<bmsVars, storageVars, queue, missed>>
  PROVE  Kept'
BY DEF AgreeInv, Kept, KeptFor, InOrder, Cared, Queued, Will, Settling, Unsettles, MakesGood, Agrees,
       Reported, Mine, bmsVars, storageVars, threadVars

LEMMA ServiceInitAgree == ServiceInit => AgreeInv
<1> SUFFICES ASSUME ServiceInit PROVE AgreeInv
  OBVIOUS
<1>1. /\ queue = <<>> /\ ~running /\ ~subscribed
      /\ doubt = [b \in Bundle |-> "unseen"]
      /\ \A t \in Thread : pc[t] = "idle" /\ todo[t] = {}
  BY DEF ServiceInit, Init, StorageInit
<1>2. Stopped /\ TodoAbout
  BY <1>1 DEF Stopped, Busy, TodoAbout
<1>3. \A b \in Bundle : KeptFor(b)
  <2>1. \A b \in Bundle : Agrees(b) /\ \A t \in Thread : ~Settling(t, b)
    BY <1>1 DEF Agrees, Settling
  <2>2. \A b : InOrder(b)
    BY <1>1 DEF InOrder
  <2>. QED
    BY <2>1, <2>2 DEF KeptFor
<1>. QED
  BY <1>2, <1>3, ServiceInitInv DEF AgreeInv, Kept

LEMMA ServiceNextAgree == AgreeInv /\ [ServiceNext]_allVars => AgreeInv'
<1> SUFFICES ASSUME AgreeInv, [ServiceNext]_allVars PROVE AgreeInv'
  OBVIOUS
<1>1. SInv' /\ Stopped' /\ TodoAbout'
  BY ServiceNextInv, NextStopped, NextTodo DEF AgreeInv
<1>2. Kept'
  <2>1. CASE OnStop \/ UNCHANGED allVars
    BY <2>1, IdleKept DEF OnStop, allVars, vars, serviceVars
  <2>. QED
    BY <2>1, OnStartKept, OnReceiveEventKept, ExitKept, StepKept, EnvironmentKept DEF ServiceNext
<1>. QED
  BY <1>1, <1>2 DEF AgreeInv

\* However events, refreshes, user switches, failing calls, stops and crashes
\* interleave: once everything about a bundle is handled, its entry is what BMS
\* reports for the active user, or the bundle is known to be in doubt.
THEOREM HandledAgree == ServiceSpec => []Agreement
BY AgreementFromInv, ServiceInitAgree, ServiceNextAgree, PTL DEF ServiceSpec
=============================================================================
