------------------------- MODULE DataStorage_proofs -------------------------
(***************************************************************************)
(* What DataStorage guarantees for any number of bundles, users, devices,  *)
(* threads and bounds.  The invariant is TypeOK with CallsOK, which says   *)
(* what a call holds at each of its steps: without it a step cannot be     *)
(* shown to find in task, snap and todo what it takes from them.           *)
(***************************************************************************)
EXTENDS DataStorage, TLAPS

Inv == TypeOK /\ CallsOK

LEMMA InitInv == Init => Inv
<1> SUFFICES ASSUME Init PROVE Inv
  OBVIOUS
<1> USE DEF Init, BundleManagerInit, StorageInit
<1>1. BundleManagerTypeOK
  BY UserAssumption, TimeAssumption DEF BundleManagerTypeOK, NoBundles
<1>2. store \in [Device -> [Bundle -> Entry]]
  BY DEF Entry
<1>3. /\ pc \in [Thread -> Pc] /\ task \in [Thread -> Task \cup {NoTask}]
      /\ tries \in [Thread -> 0..MaxTries]
      /\ snap \in [Thread -> [Bundle -> Info \cup {NoInfo}]]
      /\ todo \in [Thread -> SUBSET Bundle]
  BY BoundAssumption DEF Pc, NoBundles
<1>4. /\ ipcErrors \in 0..MaxIpcErrors /\ faults \in 0..MaxFaults
      /\ stale \in [Thread -> SUBSET Bundle] /\ doubt \in [Bundle -> Doubt]
  BY BoundAssumption DEF Doubt
<1>k. kvOpen \in BOOLEAN
  OBVIOUS
<1>5. TypeOK
  BY <1>1, <1>2, <1>3, <1>4, <1>k DEF TypeOK
<1>6. CallsOK
  BY DEF CallsOK, CallOK
<1>. QED
  BY <1>5, <1>6 DEF Inv

-----------------------------------------------------------------------------
(* The pieces the steps are made of. *)

\* A fault, or a retried call, keeps the failure counters in their bounds.
LEMMA FailureType ==
  ASSUME TypeOK, NEW ok \in BOOLEAN, NoFailure \/ Fault \/ Retried(ok)
  PROVE  ipcErrors' \in 0..MaxIpcErrors /\ faults' \in 0..MaxFaults
BY BoundAssumption DEF TypeOK, NoFailure, Fault, Retried

\* Judge keeps the history variables typed.
LEMMA JudgeType ==
  ASSUME TypeOK, NEW t \in Thread, NEW Good \in SUBSET Bundle, NEW Lost \in SUBSET Bundle,
         Judge(t, Good, Lost)
  PROVE  stale' \in [Thread -> SUBSET Bundle] /\ doubt' \in [Bundle -> Doubt]
BY DEF TypeOK, Judge, Doubt

\* A call that returns leaves its thread with nothing and no other touched.
LEMMA ReturnInv ==
  ASSUME Inv, NEW t \in Thread, Return(t)
  PROVE  /\ pc' \in [Thread -> Pc] /\ task' \in [Thread -> Task \cup {NoTask}]
         /\ tries' \in [Thread -> 0..MaxTries]
         /\ snap' \in [Thread -> [Bundle -> Info \cup {NoInfo}]]
         /\ todo' \in [Thread -> SUBSET Bundle]
         /\ CallsOK'
<1>1. NoBundles \in [Bundle -> Info \cup {NoInfo}]
  BY DEF NoBundles
<1>2. /\ pc' \in [Thread -> Pc] /\ task' \in [Thread -> Task \cup {NoTask}]
      /\ tries' \in [Thread -> 0..MaxTries]
      /\ snap' \in [Thread -> [Bundle -> Info \cup {NoInfo}]]
      /\ todo' \in [Thread -> SUBSET Bundle]
  BY <1>1, BoundAssumption DEF Inv, TypeOK, Return, Goto, Pc
<1>3. ASSUME NEW s \in Thread PROVE CallOK(s)'
  <2>1. CASE s = t
    BY <2>1 DEF Inv, TypeOK, CallOK, Return, Goto
  <2>2. CASE s # t
    <3>1. pc'[s] = pc[s] /\ task'[s] = task[s] /\ snap'[s] = snap[s] /\ todo'[s] = todo[s]
      BY <2>2 DEF Inv, TypeOK, Return, Goto
    <3>2. CallOK(s)
      BY DEF Inv, CallsOK
    <3>. QED
      BY <3>1, <3>2 DEF CallOK
  <2>. QED
    BY <2>1, <2>2
<1>. QED
  BY <1>2, <1>3 DEF CallsOK

\* A jump of t moves t only.
LEMMA GotoType ==
  ASSUME Inv, NEW t \in Thread, NEW label \in Pc, Goto(t, label)
  PROVE  /\ pc' \in [Thread -> Pc]
         /\ pc'[t] = label
         /\ \A s \in Thread \ {t} : pc'[s] = pc[s]
<1>1. pc \in [Thread -> Pc]
  BY DEF Inv, TypeOK
<1>. QED
  BY <1>1 DEF Goto

\* A step of t leaves the other calls in progress as they are.
LEMMA OtherCalls ==
  ASSUME Inv, NEW t \in Thread, CallOK(t)',
         \A s \in Thread \ {t} : /\ pc'[s] = pc[s] /\ task'[s] = task[s]
                                 /\ snap'[s] = snap[s] /\ todo'[s] = todo[s]
  PROVE  CallsOK'
BY DEF Inv, CallsOK, CallOK

\* GiveUp is a return that also settles the history.
LEMMA GiveUpInv ==
  ASSUME Inv, NEW t \in Thread, NEW Lost \in SUBSET Bundle, GiveUp(t, Lost)
  PROVE  /\ pc' \in [Thread -> Pc] /\ task' \in [Thread -> Task \cup {NoTask}]
         /\ tries' \in [Thread -> 0..MaxTries]
         /\ snap' \in [Thread -> [Bundle -> Info \cup {NoInfo}]]
         /\ todo' \in [Thread -> SUBSET Bundle]
         /\ stale' \in [Thread -> SUBSET Bundle] /\ doubt' \in [Bundle -> Doubt]
         /\ CallsOK'
BY ReturnInv, JudgeType DEF GiveUp, Inv

-----------------------------------------------------------------------------
(* Each step of a call preserves the invariant. *)

LEMMA CheckKvStoreInv ==
  ASSUME Inv, NEW t \in Thread, CheckKvStore(t), UNCHANGED bmsVars
  PROVE  Inv'
<1> USE DEF CheckKvStore, Goto, NoFailure
<1>1. pc' \in [Thread -> Pc]
  BY DEF Inv, TypeOK, Pc
<1>2. TypeOK'
  BY <1>1 DEF Inv, TypeOK, BundleManagerTypeOK, bmsVars
<1>3. CallOK(t)'
  BY DEF Inv, TypeOK, CallsOK, CallOK
<1>4. CallsOK'
  BY <1>3, OtherCalls DEF Inv, TypeOK
<1>. QED
  BY <1>2, <1>4 DEF Inv

LEMMA OpenKvStoreInv ==
  ASSUME Inv, NEW t \in Thread, OpenKvStore(t), UNCHANGED bmsVars
  PROVE  Inv'
<1>1. pc' \in [Thread -> Pc] /\ \A s \in Thread \ {t} : pc'[s] = pc[s]
  <2>1. CASE Goto(t, "user")
    BY <2>1, GotoType DEF Pc
  <2>2. CASE UNCHANGED pc
    BY <2>2 DEF Inv, TypeOK
  <2>. QED
    BY <2>1, <2>2 DEF OpenKvStore
<1>2. tries' \in [Thread -> 0..MaxTries]
  <2>1. tries \in [Thread -> 0..MaxTries] /\ tries[t] < MaxTries
    BY DEF Inv, TypeOK, OpenKvStore
  <2>2. CASE tries' = [tries EXCEPT ![t] = 0]
    BY <2>1, <2>2, BoundAssumption
  <2>3. CASE tries' = [tries EXCEPT ![t] = @ + 1]
    BY <2>1, <2>3, BoundAssumption
  <2>. QED
    BY <2>2, <2>3 DEF OpenKvStore
<1>3. ipcErrors' \in 0..MaxIpcErrors /\ faults' \in 0..MaxFaults
  BY FailureType DEF Inv, OpenKvStore
<1>4. kvOpen' \in BOOLEAN
  BY DEF Inv, TypeOK, OpenKvStore
<1>5. UNCHANGED <<store, task, snap, todo, stale, doubt>>
  BY DEF OpenKvStore
<1>6. TypeOK'
  BY <1>1, <1>2, <1>3, <1>4, <1>5 DEF Inv, TypeOK, BundleManagerTypeOK, bmsVars
<1>7. CallOK(t)'
  <2>1. pc[t] = "open" /\ pc'[t] \in {"user", "open"}
    BY GotoType DEF OpenKvStore, Pc
  <2>. QED
    BY <2>1, <1>5 DEF Inv, CallsOK, CallOK
<1>8. CallsOK'
  BY <1>1, <1>5, <1>7, OtherCalls
<1>. QED
  BY <1>6, <1>8 DEF Inv

LEMMA LastCheckInv ==
  ASSUME Inv, NEW t \in Thread, LastCheck(t), UNCHANGED bmsVars
  PROVE  Inv'
<1>1. CASE kvOpen
  <2>1. /\ pc[t] = "open" /\ Goto(t, "user") /\ tries' = [tries EXCEPT ![t] = 0]
        /\ UNCHANGED <<task, snap, todo, stale, doubt, store, kvOpen, ipcErrors, faults>>
    BY <1>1 DEF LastCheck, NoFailure
  <2>2. tries' \in [Thread -> 0..MaxTries]
    BY <2>1, BoundAssumption DEF Inv, TypeOK
  <2>3. pc' \in [Thread -> Pc] /\ pc'[t] = "user" /\ \A s \in Thread \ {t} : pc'[s] = pc[s]
    BY <2>1, GotoType DEF Pc
  <2>4. TypeOK'
    BY <2>1, <2>2, <2>3 DEF Inv, TypeOK, BundleManagerTypeOK, bmsVars
  <2>5. CallOK(t)'
    BY <2>1, <2>3 DEF Inv, CallsOK, CallOK
  <2>6. CallsOK'
    BY <2>1, <2>3, <2>5, OtherCalls
  <2>. QED
    BY <2>4, <2>6 DEF Inv
<1>2. CASE ~kvOpen
  <2>1. {task[t].bundle} \in SUBSET Bundle
    BY DEF LastCheck, Inv, CallsOK, CallOK, PackageTask
  <2>2. GiveUp(t, {task[t].bundle}) /\ NoFailure /\ UNCHANGED <<store, kvOpen>>
    BY <1>2 DEF LastCheck
  <2>. QED
    BY <2>1, <2>2, GiveUpInv DEF Inv, TypeOK, BundleManagerTypeOK, bmsVars, NoFailure
<1>. QED
  BY <1>1, <1>2

LEMMA CheckUserInv ==
  ASSUME Inv, NEW t \in Thread, CheckUser(t), UNCHANGED bmsVars
  PROVE  Inv'
<1> DEFINE b == task[t].bundle
<1>1. /\ pc[t] = "user" /\ b \in Bundle /\ task[t] \in PackageTask
      /\ task[t].op \in {"Save", "Delete"} /\ task[t].user \in AnyUser
  BY DEF CheckUser, Inv, CallsOK, CallOK, PackageTask
<1>2. PICK answer \in {activeUser, NoUser} :
         /\ IF answer = activeUser THEN NoFailure ELSE Fault
         /\ IF task[t].user = CurrentUser(t, answer)
            THEN /\ Goto(t, IF task[t].op = "Save" THEN "read" ELSE "erase")
                 /\ stale' = [stale EXCEPT ![t] = IF answer = activeUser THEN @ ELSE @ \cup {b}]
                 /\ UNCHANGED <<task, tries, snap, todo, doubt>>
            ELSE GiveUp(t, IF answer = activeUser THEN {} ELSE {b})
  BY DEF CheckUser
<1>3. ipcErrors' \in 0..MaxIpcErrors /\ faults' \in 0..MaxFaults
  BY <1>2, FailureType DEF Inv
<1>4. UNCHANGED <<store, kvOpen>>
  BY DEF CheckUser
<1>5. CASE task[t].user = CurrentUser(t, answer)
  <2> DEFINE label == IF task[t].op = "Save" THEN "read" ELSE "erase"
  <2>1. /\ pc' \in [Thread -> Pc] /\ pc'[t] = label
        /\ \A s \in Thread \ {t} : pc'[s] = pc[s]
    <3>1. label \in Pc /\ Goto(t, label)
      BY <1>2, <1>5 DEF Pc
    <3>. QED
      BY <3>1, GotoType
  <2>2. stale' \in [Thread -> SUBSET Bundle]
    <3>1. stale \in [Thread -> SUBSET Bundle]
      BY DEF Inv, TypeOK
    <3>. QED
      BY <3>1, <1>1, <1>2, <1>5
  <2>3. TypeOK'
    BY <2>1, <2>2, <1>2, <1>3, <1>4, <1>5 DEF Inv, TypeOK, BundleManagerTypeOK, bmsVars
  <2>4. task[t].op = "Save" => task[t].user \in User
    BY <1>1, <1>5, UserAssumption DEF CurrentUser, AnyUser, Inv, TypeOK, BundleManagerTypeOK
  <2>5. CallOK(t)'
    BY <1>1, <1>2, <1>5, <2>1, <2>4 DEF Inv, CallsOK, CallOK
  <2>6. CallsOK'
    BY <2>1, <2>5, <1>2, <1>5, OtherCalls
  <2>. QED
    BY <2>3, <2>6 DEF Inv
<1>6. CASE task[t].user # CurrentUser(t, answer)
  <2>1. PICK Lost \in SUBSET Bundle : GiveUp(t, Lost)
    BY <1>1, <1>2, <1>6
  <2>. QED
    BY <2>1, <1>3, <1>4, GiveUpInv DEF Inv, TypeOK, BundleManagerTypeOK, bmsVars
<1>. QED
  BY <1>5, <1>6

LEMMA ReadBundleInv ==
  ASSUME Inv, NEW t \in Thread, ReadBundle(t), UNCHANGED bmsVars
  PROVE  Inv'
<1> DEFINE b == task[t].bundle
           i == bms[task[t].user][b]
<1>1. /\ pc[t] = "read" /\ b \in Bundle /\ task[t].user \in User /\ task[t] \in PackageTask
      /\ snap[t] = NoBundles /\ todo[t] = {}
  BY DEF ReadBundle, Inv, CallsOK, CallOK, PackageTask
<1>2. i \in Info \cup {NoInfo}
  BY <1>1 DEF Inv, TypeOK, BundleManagerTypeOK
<1>3. UNCHANGED <<store, kvOpen>>
  BY DEF ReadBundle
<1>4. CASE /\ i # NoInfo
           /\ NoFailure
           /\ Goto(t, "write")
           /\ snap' = [snap EXCEPT ![t][b] = i]
           /\ todo' = [todo EXCEPT ![t] = {b}]
           /\ UNCHANGED <<task, tries, stale, doubt>>
  <2>1. /\ pc' \in [Thread -> Pc] /\ pc'[t] = "write"
        /\ \A s \in Thread \ {t} : pc'[s] = pc[s]
    BY <1>4, GotoType DEF Pc
  <2>2. /\ snap' \in [Thread -> [Bundle -> Info \cup {NoInfo}]]
        /\ snap'[t][b] = i
        /\ \A s \in Thread \ {t} : snap'[s] = snap[s]
    <3>1. snap \in [Thread -> [Bundle -> Info \cup {NoInfo}]]
      BY DEF Inv, TypeOK
    <3>. QED
      BY <3>1, <1>1, <1>2, <1>4
  <2>3. /\ todo' \in [Thread -> SUBSET Bundle]
        /\ todo'[t] = {b}
        /\ \A s \in Thread \ {t} : todo'[s] = todo[s]
    <3>1. todo \in [Thread -> SUBSET Bundle]
      BY DEF Inv, TypeOK
    <3>. QED
      BY <3>1, <1>1, <1>4
  <2>4. TypeOK'
    BY <2>1, <2>2, <2>3, <1>3, <1>4 DEF Inv, TypeOK, BundleManagerTypeOK, bmsVars, NoFailure
  <2>5. CallOK(t)'
    BY <2>1, <2>2, <2>3, <1>1, <1>4 DEF CallOK, Task
  <2>6. CallsOK'
    BY <2>1, <2>2, <2>3, <2>5, <1>4, OtherCalls
  <2>. QED
    BY <2>4, <2>6 DEF Inv
<1>5. CASE /\ IF i = NoInfo
              THEN NoFailure /\ UNCHANGED stale
              ELSE Fault /\ stale' = [stale EXCEPT ![t] = @ \cup {b}]
           /\ Goto(t, "check")
           /\ task' = [task EXCEPT ![t].op = "Delete"]
           /\ UNCHANGED <<tries, snap, todo, doubt>>
  <2>1. /\ pc' \in [Thread -> Pc] /\ pc'[t] = "check"
        /\ \A s \in Thread \ {t} : pc'[s] = pc[s]
    BY <1>5, GotoType DEF Pc
  <2>2. /\ task' \in [Thread -> Task \cup {NoTask}]
        /\ task'[t] \in PackageTask
        /\ \A s \in Thread \ {t} : task'[s] = task[s]
    <3>1. task \in [Thread -> Task \cup {NoTask}]
      BY DEF Inv, TypeOK
    <3>2. [task[t] EXCEPT !.op = "Delete"] \in PackageTask
      BY <1>1 DEF PackageTask
    <3>3. task' = [task EXCEPT ![t] = [task[t] EXCEPT !.op = "Delete"]]
      BY <1>5, <3>1
    <3>. QED
      BY <3>1, <3>2, <3>3 DEF Task
  <2>3. stale' \in [Thread -> SUBSET Bundle]
    <3>1. stale \in [Thread -> SUBSET Bundle]
      BY DEF Inv, TypeOK
    <3>. QED
      BY <3>1, <1>1, <1>5
  <2>4. ipcErrors' \in 0..MaxIpcErrors /\ faults' \in 0..MaxFaults
    BY <1>5, FailureType DEF Inv
  <2>5. TypeOK'
    BY <2>1, <2>2, <2>3, <2>4, <1>3, <1>5 DEF Inv, TypeOK, BundleManagerTypeOK, bmsVars
  <2>6. CallOK(t)'
    BY <2>1, <2>2, <1>1, <1>5 DEF CallOK
  <2>7. CallsOK'
    BY <2>1, <2>2, <2>6, <1>5, OtherCalls
  <2>. QED
    BY <2>5, <2>7 DEF Inv
<1>6. CASE Fault /\ GiveUp(t, {b})
  <2>1. ipcErrors' \in 0..MaxIpcErrors /\ faults' \in 0..MaxFaults
    BY <1>6, FailureType DEF Inv
  <2>2. {b} \in SUBSET Bundle
    BY <1>1
  <2>. QED
    BY <2>1, <2>2, <1>3, <1>6, GiveUpInv DEF Inv, TypeOK, BundleManagerTypeOK, bmsVars
<1>. QED
  BY <1>4, <1>5, <1>6 DEF ReadBundle

\* A write of a typed value keeps the store and the history typed.
LEMMA WriteEntryType ==
  ASSUME Inv, NEW t \in Thread, NEW b \in Bundle, NEW v \in Entry, WriteEntry(t, b, v)
  PROVE  /\ store' \in [Device -> [Bundle -> Entry]]
         /\ kvOpen' = kvOpen
         /\ ipcErrors' \in 0..MaxIpcErrors /\ faults' \in 0..MaxFaults
         /\ stale' \in [Thread -> SUBSET Bundle] /\ doubt' \in [Bundle -> Doubt]
<1>1. store' \in {store, [store EXCEPT ![Self][b] = v]}
  BY DEF WriteEntry
<1>2. store \in [Device -> [Bundle -> Entry]]
  BY DEF Inv, TypeOK
<1>3. store' \in [Device -> [Bundle -> Entry]]
  BY <1>1, <1>2, DeviceAssumption
<1>4. NoFailure \/ Fault \/ Retried(TRUE) \/ Retried(FALSE)
  BY DEF WriteEntry
<1>5. ipcErrors' \in 0..MaxIpcErrors /\ faults' \in 0..MaxFaults
  BY <1>4, FailureType DEF Inv
<1>6. Judge(t, {b}, {}) \/ Judge(t, {}, {b})
  BY DEF WriteEntry
<1>7. stale' \in [Thread -> SUBSET Bundle] /\ doubt' \in [Bundle -> Doubt]
  BY <1>6, JudgeType DEF Inv
<1>. QED
  BY <1>3, <1>5, <1>7 DEF WriteEntry

\* Convert makes a description of a description.
LEMMA ConvertType == \A i \in Info : Convert(i) = i /\ Convert(i) \in Info
BY DEF Convert, Info

LEMMA InnerSaveInv ==
  ASSUME Inv, NEW t \in Thread, NEW b \in Bundle, InnerSave(t, b), UNCHANGED bmsVars
  PROVE  Inv'
<1>1. pc[t] = "write" /\ b \in todo[t]
  BY DEF InnerSave
<1>2. snap[t][b] \in Info
  BY <1>1 DEF Inv, TypeOK, CallsOK, CallOK
<1>3. Convert(snap[t][b]) \in Entry
  BY <1>2, ConvertType DEF Entry
<1>4. /\ store' \in [Device -> [Bundle -> Entry]]
      /\ kvOpen' = kvOpen
      /\ ipcErrors' \in 0..MaxIpcErrors /\ faults' \in 0..MaxFaults
      /\ stale' \in [Thread -> SUBSET Bundle] /\ doubt' \in [Bundle -> Doubt]
  BY <1>3, WriteEntryType DEF InnerSave
<1>5. CASE Return(t)
  BY <1>4, <1>5, ReturnInv DEF Inv, TypeOK, BundleManagerTypeOK, bmsVars
<1>6. CASE todo' = [todo EXCEPT ![t] = @ \ {b}] /\ UNCHANGED <<pc, task, tries, snap>>
  <2>1. /\ todo' \in [Thread -> SUBSET Bundle]
        /\ todo'[t] = todo[t] \ {b}
        /\ \A s \in Thread \ {t} : todo'[s] = todo[s]
    BY <1>6 DEF Inv, TypeOK
  <2>2. TypeOK'
    BY <1>4, <1>6, <2>1 DEF Inv, TypeOK, BundleManagerTypeOK, bmsVars
  <2>3. CallOK(t)'
    BY <1>1, <1>6, <2>1 DEF Inv, CallsOK, CallOK
  <2>4. CallsOK'
    BY <1>6, <2>1, <2>3, OtherCalls
  <2>. QED
    BY <2>2, <2>4 DEF Inv
<1>. QED
  BY <1>5, <1>6 DEF InnerSave

LEMMA InnerDeleteInv ==
  ASSUME Inv, NEW t \in Thread, InnerDelete(t), UNCHANGED bmsVars
  PROVE  Inv'
<1>1. task[t].bundle \in Bundle
  BY DEF InnerDelete, Inv, CallsOK, CallOK, PackageTask
<1>2. /\ store' \in [Device -> [Bundle -> Entry]]
      /\ kvOpen' = kvOpen
      /\ ipcErrors' \in 0..MaxIpcErrors /\ faults' \in 0..MaxFaults
      /\ stale' \in [Thread -> SUBSET Bundle] /\ doubt' \in [Bundle -> Doubt]
  BY <1>1, WriteEntryType DEF InnerDelete, Entry
<1>3. Return(t)
  BY DEF InnerDelete
<1>. QED
  BY <1>2, <1>3, ReturnInv DEF Inv, TypeOK, BundleManagerTypeOK, bmsVars

LEMMA ListBundlesInv ==
  ASSUME Inv, NEW t \in Thread, ListBundles(t), UNCHANGED bmsVars
  PROVE  Inv'
<1>1. /\ pc[t] = "list" /\ task[t] \in RefreshTask /\ task[t].user \in User
      /\ todo[t] = {} /\ UNCHANGED <<store, kvOpen>>
  BY DEF ListBundles, Inv, CallsOK, CallOK, RefreshTask
<1>2. CASE /\ NoFailure
           /\ Goto(t, "old")
           /\ snap' = [snap EXCEPT ![t] = bms[task[t].user]]
           /\ UNCHANGED <<task, tries, todo, stale, doubt>>
  <2>1. /\ pc' \in [Thread -> Pc] /\ pc'[t] = "old"
        /\ \A s \in Thread \ {t} : pc'[s] = pc[s]
    BY <1>2, GotoType DEF Pc
  <2>2. /\ snap' \in [Thread -> [Bundle -> Info \cup {NoInfo}]]
        /\ \A s \in Thread \ {t} : snap'[s] = snap[s]
    <3>1. snap \in [Thread -> [Bundle -> Info \cup {NoInfo}]]
      BY DEF Inv, TypeOK
    <3>2. bms[task[t].user] \in [Bundle -> Info \cup {NoInfo}]
      BY <1>1 DEF Inv, TypeOK, BundleManagerTypeOK
    <3>. QED
      BY <3>1, <3>2, <1>2
  <2>3. TypeOK'
    BY <2>1, <2>2, <1>1, <1>2 DEF Inv, TypeOK, BundleManagerTypeOK, bmsVars, NoFailure
  <2>4. CallOK(t)'
    BY <2>1, <1>1, <1>2 DEF CallOK
  <2>5. CallsOK'
    BY <2>1, <2>2, <2>4, <1>2, OtherCalls
  <2>. QED
    BY <2>3, <2>5 DEF Inv
<1>3. CASE Fault /\ GiveUp(t, Bundle)
  <2>1. ipcErrors' \in 0..MaxIpcErrors /\ faults' \in 0..MaxFaults
    BY <1>3, FailureType DEF Inv
  <2>. QED
    BY <2>1, <1>1, <1>3, GiveUpInv DEF Inv, TypeOK, BundleManagerTypeOK, bmsVars
<1>. QED
  BY <1>2, <1>3 DEF ListBundles

\* Going on to put the bundles of B, all of which were listed.
LEMMA ContinueInv ==
  ASSUME Inv, NEW t \in Thread, pc[t] = "old", NEW B \in SUBSET Bundle,
         \A b \in B : snap[t][b] # NoInfo,
         Continue(t, B)
  PROVE  /\ pc' \in [Thread -> Pc] /\ task' \in [Thread -> Task \cup {NoTask}]
         /\ tries' \in [Thread -> 0..MaxTries]
         /\ snap' \in [Thread -> [Bundle -> Info \cup {NoInfo}]]
         /\ todo' \in [Thread -> SUBSET Bundle]
         /\ CallsOK'
<1>1. CASE Return(t)
  BY <1>1, ReturnInv
<1>2. CASE Goto(t, "write") /\ todo' = [todo EXCEPT ![t] = B] /\ UNCHANGED <<task, tries, snap>>
  <2>1. /\ pc' \in [Thread -> Pc] /\ pc'[t] = "write"
        /\ \A s \in Thread \ {t} : pc'[s] = pc[s]
    BY <1>2, GotoType DEF Pc
  <2>2. /\ todo' \in [Thread -> SUBSET Bundle]
        /\ todo'[t] = B
        /\ \A s \in Thread \ {t} : todo'[s] = todo[s]
    <3>1. todo \in [Thread -> SUBSET Bundle]
      BY DEF Inv, TypeOK
    <3>. QED
      BY <3>1, <1>2
  <2>3. CallOK(t)'
    BY <2>1, <2>2, <1>2 DEF Inv, CallsOK, CallOK, Task
  <2>4. CallsOK'
    BY <2>1, <2>2, <2>3, <1>2, OtherCalls
  <2>. QED
    BY <2>1, <2>2, <2>4, <1>2 DEF Inv, TypeOK
<1>. QED
  BY <1>1, <1>2 DEF Continue

LEMMA RefreshOldInv ==
  ASSUME Inv, NEW t \in Thread, RefreshOld(t), UNCHANGED bmsVars
  PROVE  Inv'
<1>1. pc[t] = "old" /\ UNCHANGED kvOpen
  BY DEF RefreshOld
<1>2. CASE \E failed \in SUBSET ToPurge(snap[t]) : \E left \in SUBSET failed :
             LET purged == ToPurge(snap[t]) \ left
                 put == ToPut(snap[t], Mine)
                 lost == {b \in Bundle \ put : <<Self, b>> \in failed \/ Mine[b] = Corrupt}
             IN
             /\ kvOpen
             /\ IF failed = {} THEN NoFailure ELSE Fault
             /\ store' = [d \in Device |->
                            [b \in Bundle |-> IF <<d, b>> \in purged THEN NoInfo ELSE store[d][b]]]
             /\ Continue(t, put)
             /\ Judge(t, Bundle \ (put \cup lost), lost)
  <2> DEFINE put == ToPut(snap[t], Mine)
  <2>1. PICK purged, lost :
             /\ NoFailure \/ Fault
             /\ store' = [d \in Device |->
                            [b \in Bundle |-> IF <<d, b>> \in purged THEN NoInfo ELSE store[d][b]]]
             /\ Continue(t, put)
             /\ lost \in SUBSET Bundle
             /\ Judge(t, Bundle \ (put \cup lost), lost)
    BY <1>2
  <2>2. store' \in [Device -> [Bundle -> Entry]]
    BY <2>1 DEF Inv, TypeOK, Entry
  <2>3. ipcErrors' \in 0..MaxIpcErrors /\ faults' \in 0..MaxFaults
    BY <2>1, FailureType DEF Inv
  <2>4. stale' \in [Thread -> SUBSET Bundle] /\ doubt' \in [Bundle -> Doubt]
    BY <2>1, JudgeType DEF Inv
  <2>5. put \in SUBSET Bundle /\ \A b \in put : snap[t][b] # NoInfo
    BY DEF ToPut
  <2>. QED
    BY <1>1, <2>1, <2>2, <2>3, <2>4, <2>5, ContinueInv
    DEF Inv, TypeOK, BundleManagerTypeOK, bmsVars
<1>3. CASE /\ IF kvOpen THEN Fault ELSE NoFailure
           /\ Continue(t, ToPut(snap[t], NoBundles))
           /\ Judge(t, {}, {b \in Bundle : snap[t][b] = NoInfo})
           /\ UNCHANGED store
  <2> DEFINE put == ToPut(snap[t], NoBundles)
  <2>1. ipcErrors' \in 0..MaxIpcErrors /\ faults' \in 0..MaxFaults
    BY <1>3, FailureType DEF Inv
  <2>2. stale' \in [Thread -> SUBSET Bundle] /\ doubt' \in [Bundle -> Doubt]
    BY <1>3, JudgeType DEF Inv
  <2>3. put \in SUBSET Bundle /\ \A b \in put : snap[t][b] # NoInfo
    BY DEF ToPut
  <2>. QED
    BY <1>1, <1>3, <2>1, <2>2, <2>3, ContinueInv
    DEF Inv, TypeOK, BundleManagerTypeOK, bmsVars
<1>. QED
  BY <1>2, <1>3 DEF RefreshOld

LEMMA StepInv ==
  ASSUME Inv, NEW t \in Thread, Step(t), UNCHANGED bmsVars
  PROVE  Inv'
BY CheckKvStoreInv, OpenKvStoreInv, LastCheckInv, CheckUserInv, ReadBundleInv, InnerSaveInv,
   InnerDeleteInv, ListBundlesInv, RefreshOldInv DEF Step

\* A new call starts on an idle thread.
LEMMA BeginInv ==
  ASSUME Inv, NEW t \in Thread, NEW k \in Task, Begin(t, k)
  PROVE  /\ pc' \in [Thread -> Pc] /\ task' \in [Thread -> Task \cup {NoTask}]
         /\ UNCHANGED <<tries, snap, todo>>
         /\ CallsOK'
<1> DEFINE label == IF k.op = "Update" THEN "list" ELSE "check"
<1>1. /\ pc' \in [Thread -> Pc] /\ pc'[t] = label
      /\ \A s \in Thread \ {t} : pc'[s] = pc[s]
  <2>1. label \in Pc /\ Goto(t, label)
    BY DEF Begin, Pc
  <2>. QED
    BY <2>1, GotoType
<1>2. /\ task' \in [Thread -> Task \cup {NoTask}] /\ task'[t] = k
      /\ \A s \in Thread \ {t} : task'[s] = task[s]
  <2>1. task \in [Thread -> Task \cup {NoTask}] /\ task' = [task EXCEPT ![t] = k]
    BY DEF Inv, TypeOK, Begin
  <2>. QED
    BY <2>1
<1>3. IF k.op = "Update" THEN k \in RefreshTask ELSE k \in PackageTask
  BY DEF Task, PackageTask, RefreshTask
<1>4. UNCHANGED <<tries, snap, todo>> /\ pc[t] = "idle"
  BY DEF Begin, Busy
<1>5. CallOK(t)'
  BY <1>1, <1>2, <1>3, <1>4 DEF Inv, CallsOK, CallOK
<1>6. CallsOK'
  BY <1>1, <1>2, <1>4, <1>5, OtherCalls
<1>. QED
  BY <1>1, <1>2, <1>4, <1>6

\* A change of BMS, of the active user or of the clock keeps them typed.
LEMMA BmsStepType ==
  ASSUME BundleManagerTypeOK, BmsStep
  PROVE  BundleManagerTypeOK'
<1> USE TimeAssumption
<1>1. ASSUME NEW b \in Bundle, NEW u \in User, NEW i \in Info \cup {NoInfo}, SetInfo(b, u, i)
      PROVE  bms' \in [User -> [Bundle -> Info \cup {NoInfo}]]
  BY <1>1 DEF SetInfo, BundleManagerTypeOK
<1>2. ASSUME Tick
      PROVE  clock' \in 0..MaxTime /\ clock + 1 \in 1..MaxTime
  BY <1>2 DEF Tick, BundleManagerTypeOK
<1>3. ASSUME NEW b \in Bundle, NEW u \in User, Install(b, u)
      PROVE  BundleManagerTypeOK'
  <2>1. [time |-> clock + 1, enabled |-> TRUE, token |-> EventUser(b, u)] \in Info
    BY <1>2, <1>3 DEF Install, Info, EventUser, AnyUser
  <2>. QED
    BY <1>1, <1>2, <1>3, <2>1 DEF Install, BundleManagerTypeOK
<1>4. ASSUME NEW b \in Bundle, NEW u \in User, Toggle(b, u)
      PROVE  BundleManagerTypeOK'
  <2>1. bms[u][b] \in Info
    BY <1>4 DEF Toggle, BundleManagerTypeOK
  <2>2. [bms[u][b] EXCEPT !.enabled = ~@] \in Info
    BY <2>1 DEF Info
  <2>. QED
    BY <1>1, <1>2, <1>4, <2>2 DEF Toggle, BundleManagerTypeOK
<1>5. ASSUME NEW b \in Bundle, NEW u \in User, Uninstall(b, u)
      PROVE  BundleManagerTypeOK'
  BY <1>1, <1>2, <1>5 DEF Uninstall, BundleManagerTypeOK
<1>6. ASSUME NEW u \in User, SwitchUser(u)
      PROVE  BundleManagerTypeOK'
  BY <1>2, <1>6 DEF SwitchUser, BundleManagerTypeOK
<1>. QED
  BY <1>3, <1>4, <1>5, <1>6 DEF BmsStep

LEMMA PeerEntryType ==
  ASSUME NEW d \in Device, NEW b \in Bundle, PeerSync(d, b)
  PROVE  \E v \in Entry : store' = [store EXCEPT ![d][b] = v]
BY DEF PeerSync, PeerEntry, Entry

LEMMA NextInv == Inv /\ [Next]_vars => Inv'
<1> SUFFICES ASSUME Inv, [Next]_vars PROVE Inv'
  OBVIOUS
<1>1. ASSUME NEW t \in Thread, Call(t), UNCHANGED bmsVars
      PROVE  Inv'
  <2>1. PICK k \in Task : Begin(t, k)
    BY <1>1 DEF Call
  <2>2. UNCHANGED <<bmsVars, store, kvOpen, ipcErrors, faults, stale, doubt>>
    BY <1>1 DEF Call, NoFailure
  <2>. QED
    BY <2>1, <2>2, BeginInv DEF Inv, TypeOK, BundleManagerTypeOK, bmsVars
<1>2. ASSUME NEW t \in Thread, Step(t), UNCHANGED bmsVars
      PROVE  Inv'
  BY <1>2, StepInv
<1>3. ASSUME NEW d \in Device, NEW b \in Bundle, PeerSync(d, b), UNCHANGED bmsVars
      PROVE  Inv'
  <2>1. PICK v \in Entry : store' = [store EXCEPT ![d][b] = v]
    BY <1>3, PeerEntryType
  <2>2. store' \in [Device -> [Bundle -> Entry]]
    BY <2>1 DEF Inv, TypeOK
  <2>. QED
    BY <1>3, <2>2
    DEF PeerSync, threadVars, bmsVars, Inv, TypeOK, BundleManagerTypeOK, CallsOK, CallOK
<1>4. ASSUME BmsStep, UNCHANGED storageVars
      PROVE  Inv'
  <2>1. BundleManagerTypeOK'
    BY <1>4, BmsStepType DEF Inv, TypeOK
  <2>. QED
    BY <1>4, <2>1 DEF storageVars, threadVars, Inv, TypeOK, CallsOK, CallOK
<1>5. CASE UNCHANGED vars
  BY <1>5 DEF vars, storageVars, threadVars, bmsVars, Inv, TypeOK, BundleManagerTypeOK,
              CallsOK, CallOK
<1>. QED
  BY <1>1, <1>2, <1>3, <1>4, <1>5 DEF Next

\* Every reachable state is well typed and every call in progress holds what
\* its step needs: a kept counter, a description for each bundle still to be
\* put, a package task where the code reads bundleName.
THEOREM TypeCorrect == Spec => [](TypeOK /\ CallsOK)
BY InitInv, NextInv, PTL DEF Spec, Inv

-----------------------------------------------------------------------------
(* No call touches the entries of another device. *)

LEMMA StepForeign ==
  ASSUME Inv, NEW t \in Thread, Step(t), NEW d \in Device \ {Self}
  PROVE  store'[d] = store[d]
<1>1. store \in [Device -> [Bundle -> Entry]]
  BY DEF Inv, TypeOK
<1>2. ASSUME NEW b \in Bundle, NEW v, WriteEntry(t, b, v)
      PROVE  store'[d] = store[d]
  <2>1. store' \in {store, [store EXCEPT ![Self][b] = v]}
    BY <1>2 DEF WriteEntry
  <2>. QED
    BY <1>1, <2>1
<1>3. CASE \E b \in Bundle : InnerSave(t, b)
  BY <1>2, <1>3 DEF InnerSave
<1>4. CASE InnerDelete(t)
  <2>1. task[t].bundle \in Bundle
    BY <1>4 DEF InnerDelete, Inv, CallsOK, CallOK, PackageTask
  <2>. QED
    BY <1>2, <1>4, <2>1 DEF InnerDelete
<1>5. CASE RefreshOld(t)
  <2>1. CASE UNCHANGED store
    BY <2>1
  <2>2. CASE \E failed \in SUBSET ToPurge(snap[t]) : \E left \in SUBSET failed :
               store' = [e \in Device |->
                           [b \in Bundle |-> IF <<e, b>> \in ToPurge(snap[t]) \ left
                                             THEN NoInfo ELSE store[e][b]]]
    <3>1. \A b \in Bundle : <<d, b>> \notin ToPurge(snap[t])
      BY DEF ToPurge
    <3>2. store'[d] = [b \in Bundle |-> store[d][b]]
      BY <2>2, <3>1
    <3>. QED
      BY <1>1, <3>2
  <2>. QED
    BY <1>5, <2>1, <2>2 DEF RefreshOld
<1>6. CASE \/ CheckKvStore(t) \/ OpenKvStore(t) \/ LastCheck(t)
           \/ CheckUser(t) \/ ReadBundle(t) \/ ListBundles(t)
  BY <1>6 DEF CheckKvStore, OpenKvStore, LastCheck, CheckUser, ReadBundle, ListBundles
<1>. QED
  BY <1>3, <1>4, <1>5, <1>6 DEF Step

\* Whatever the calls in progress and the entries found in the store, the
\* purge and the writes stay within this device's own entries.
THEOREM ForeignEntriesKept == Spec => ForeignUntouched
<1>1. Inv /\ [Next]_vars
        => [threadVars' # threadVars => \A d \in Device \ {Self} : store'[d] = store[d]]_vars
  <2> SUFFICES ASSUME Inv, Next, threadVars' # threadVars, NEW d \in Device \ {Self}
               PROVE  store'[d] = store[d]
    BY DEF vars, storageVars
  <2>1. ASSUME NEW t \in Thread, Call(t)
        PROVE  store'[d] = store[d]
    BY <2>1 DEF Call
  <2>2. ASSUME NEW t \in Thread, Step(t)
        PROVE  store'[d] = store[d]
    BY <2>2, StepForeign
  <2>3. ASSUME NEW e \in Device, NEW b \in Bundle, PeerSync(e, b)
        PROVE  FALSE
    BY <2>3 DEF PeerSync
  <2>4. ASSUME UNCHANGED storageVars
        PROVE  FALSE
    BY <2>4 DEF storageVars
  <2>. QED
    BY <2>1, <2>2, <2>3, <2>4 DEF Next
<1>. QED
  BY <1>1, InitInv, NextInv, PTL DEF Spec, ForeignUntouched

-----------------------------------------------------------------------------
(* Entries get their content from readings only. *)

LEMMA StepWrites ==
  ASSUME Inv, NEW t \in Thread, Step(t), NEW b \in Bundle, Mine'[b] \notin {Mine[b], NoInfo}
  PROVE  b \in todo[t] /\ Mine'[b] = snap[t][b]
<1> USE DEF Mine
<1>1. store \in [Device -> [Bundle -> Entry]]
  BY DEF Inv, TypeOK
<1>2. ASSUME NEW c \in Bundle, NEW v, WriteEntry(t, c, v)
      PROVE  Mine'[b] = Mine[b] \/ (b = c /\ Mine'[b] = v)
  <2>1. store' \in {store, [store EXCEPT ![Self][c] = v]}
    BY <1>2 DEF WriteEntry
  <2>. QED
    BY <1>1, <2>1, DeviceAssumption
<1>3. CASE \E c \in Bundle : InnerSave(t, c)
  <2>1. PICK c \in Bundle : InnerSave(t, c)
    BY <1>3
  <2>2. c \in todo[t] /\ snap[t][c] \in Info
    BY <2>1 DEF InnerSave, Inv, TypeOK, CallsOK, CallOK
  <2>. QED
    BY <1>2, <2>1, <2>2, ConvertType DEF InnerSave
<1>4. CASE InnerDelete(t)
  <2>1. task[t].bundle \in Bundle
    BY <1>4 DEF InnerDelete, Inv, CallsOK, CallOK, PackageTask
  <2>. QED
    BY <1>2, <1>4, <2>1 DEF InnerDelete
<1>5. CASE RefreshOld(t)
  <2>1. CASE UNCHANGED store
    BY <2>1
  <2>2. CASE \E P : store' = [d \in Device |->
                                [c \in Bundle |-> IF <<d, c>> \in P THEN NoInfo ELSE store[d][c]]]
    BY <2>2, DeviceAssumption
  <2>. QED
    BY <1>5, <2>1, <2>2 DEF RefreshOld
<1>6. CASE \/ CheckKvStore(t) \/ OpenKvStore(t) \/ LastCheck(t)
           \/ CheckUser(t) \/ ReadBundle(t) \/ ListBundles(t)
  BY <1>6 DEF CheckKvStore, OpenKvStore, LastCheck, CheckUser, ReadBundle, ListBundles
<1>. QED
  BY <1>3, <1>4, <1>5, <1>6 DEF Step

-----------------------------------------------------------------------------
(* An older description of a user's bundle replaces a newer one of that    *)
(* user's only from a stale reading.                                       *)

\* v, a description of b, is not from the future, nor newer than what BMS has
\* of the same installation.
NotNewer(v, b) ==
    /\ v.time <= clock
    /\ \A u \in User : bms[u][b] # NoInfo /\ bms[u][b].token = v.token => v.time <= bms[u][b].time

\* Entries and readings are not newer than BMS, and a reading that is not
\* stale is at least as new as the entry, if that is the same user's.
Order ==
    /\ \A u \in User, b \in Bundle : bms[u][b] # NoInfo =>
         bms[u][b].token = EventUser(b, u) /\ NotNewer(bms[u][b], b)
    /\ \A b \in Bundle : Parses(Mine[b]) => NotNewer(Mine[b], b)
    /\ \A t \in Thread, b \in Bundle :
         snap[t][b] # NoInfo =>
           /\ NotNewer(snap[t][b], b)
           /\ b \notin stale[t] /\ Parses(Mine[b]) /\ Mine[b].token = snap[t][b].token
                => Mine[b].time <= snap[t][b].time

\* What a step of t may do to the entries and readings, as far as their
\* order is concerned.
Effect(t) ==
    /\ \A b \in Bundle : Mine'[b] \notin {Mine[b], NoInfo} =>
         /\ b \in todo[t] /\ Mine'[b] = snap[t][b]
         /\ snap'[t] \in {snap[t], NoBundles}
         /\ \A s \in Thread \ {t} : Busy(s) => b \in stale'[s]
    /\ \A s \in Thread \ {t} : snap'[s] = snap[s] /\ stale[s] \subseteq stale'[s]
    /\ \/ snap'[t] = NoBundles
       \/ snap'[t] = snap[t] /\ stale[t] \subseteq stale'[t]
       \/ Mine' = Mine /\ \A b \in Bundle : snap'[t][b] = NoInfo
                                           \/ \E u \in User : snap'[t][b] = bms[u][b]

USE DEF Mine

\* What Judge and Return do to the readings.
LEMMA JudgeEffect ==
  ASSUME Inv, NEW t \in Thread, NEW Good \in SUBSET Bundle, NEW Lost \in SUBSET Bundle,
         Judge(t, Good, Lost)
  PROVE  /\ \A s \in Thread \ {t} : /\ stale[s] \subseteq stale'[s]
                                    /\ Busy(s) => Good \cup Lost \subseteq stale'[s]
         /\ pc'[t] # "idle" => stale'[t] = stale[t]
BY DEF Judge, Inv, TypeOK

LEMMA ReturnEffect ==
  ASSUME Inv, NEW t \in Thread, Return(t)
  PROVE  snap'[t] = NoBundles /\ \A s \in Thread \ {t} : snap'[s] = snap[s]
BY DEF Return, Inv, TypeOK

LEMMA GiveUpEffect ==
  ASSUME Inv, NEW t \in Thread, NEW Lost \in SUBSET Bundle, GiveUp(t, Lost), UNCHANGED store
  PROVE  Effect(t)
<1>1. Mine' = Mine
  OBVIOUS
<1>. QED
  BY <1>1, JudgeEffect, ReturnEffect DEF GiveUp, Effect

LEMMA WriteEntryEffect ==
  ASSUME Inv, NEW t \in Thread, NEW b \in Bundle, NEW v, WriteEntry(t, b, v)
  PROVE  /\ \A c \in Bundle : Mine'[c] # Mine[c] => c = b /\ Mine'[c] = v
         /\ \A s \in Thread \ {t} : stale[s] \subseteq stale'[s] /\ (Busy(s) => b \in stale'[s])
         /\ pc'[t] # "idle" => stale'[t] = stale[t]
<1>1. store' \in {store, [store EXCEPT ![Self][b] = v]}
  BY DEF WriteEntry
<1>2. store \in [Device -> [Bundle -> Entry]]
  BY DEF Inv, TypeOK
<1>3. \A c \in Bundle : Mine'[c] # Mine[c] => c = b /\ Mine'[c] = v
  BY <1>1, <1>2, DeviceAssumption
<1>4. Judge(t, {b}, {}) \/ Judge(t, {}, {b})
  BY DEF WriteEntry
<1>5. PICK Good \in SUBSET Bundle, Lost \in SUBSET Bundle :
        Judge(t, Good, Lost) /\ b \in Good \cup Lost
  BY <1>4
<1>. QED
  BY <1>3, <1>5, JudgeEffect

LEMMA StepEffect ==
  ASSUME Inv, NEW t \in Thread, Step(t)
  PROVE  Effect(t)
<1>1. CASE CheckKvStore(t) \/ OpenKvStore(t)
  BY <1>1 DEF CheckKvStore, OpenKvStore, Effect
<1>2. CASE LastCheck(t)
  <2>1. {task[t].bundle} \in SUBSET Bundle
    BY <1>2 DEF LastCheck, Inv, CallsOK, CallOK, PackageTask
  <2>2. CASE UNCHANGED <<snap, stale>>
    BY <1>2, <2>2 DEF LastCheck, Effect
  <2>3. CASE GiveUp(t, {task[t].bundle})
    BY <1>2, <2>1, <2>3, GiveUpEffect DEF LastCheck
  <2>. QED
    BY <1>2, <2>2, <2>3 DEF LastCheck
<1>3. CASE CheckUser(t)
  <2>1. {task[t].bundle} \in SUBSET Bundle
    BY <1>3 DEF CheckUser, Inv, CallsOK, CallOK, PackageTask
  <2>2. CASE \E B \in SUBSET Bundle : stale' = [stale EXCEPT ![t] = @ \cup B] /\ UNCHANGED snap
    BY <1>3, <2>2 DEF CheckUser, Effect, Inv, TypeOK
  <2>3. CASE \E Lost \in SUBSET Bundle : GiveUp(t, Lost)
    BY <1>3, <2>3, GiveUpEffect DEF CheckUser
  <2>4. stale = [stale EXCEPT ![t] = @ \cup {}]
    BY DEF Inv, TypeOK
  <2>. QED
    BY <1>3, <2>1, <2>2, <2>3, <2>4 DEF CheckUser
<1>4. CASE ReadBundle(t)
  <2> DEFINE b == task[t].bundle
             i == bms[task[t].user][b]
  <2>1. /\ b \in Bundle /\ task[t].user \in User /\ snap[t] = NoBundles
        /\ UNCHANGED store
    BY <1>4 DEF ReadBundle, Inv, CallsOK, CallOK, PackageTask
  <2>2. CASE snap' = [snap EXCEPT ![t][b] = i] /\ UNCHANGED stale
    <3>1. /\ \A c \in Bundle : snap'[t][c] \in {NoInfo, bms[task[t].user][c]}
          /\ \A s \in Thread \ {t} : snap'[s] = snap[s]
      BY <2>1, <2>2 DEF NoBundles, Inv, TypeOK
    <3>. QED
      BY <2>1, <2>2, <3>1 DEF Effect
  <2>3. CASE UNCHANGED snap /\ stale' \in {stale, [stale EXCEPT ![t] = @ \cup {b}]}
    BY <2>1, <2>3 DEF Effect, Inv, TypeOK
  <2>4. CASE GiveUp(t, {b})
    BY <2>1, <2>4, GiveUpEffect
  <2>. QED
    BY <1>4, <2>2, <2>3, <2>4 DEF ReadBundle
<1>5. CASE \E b \in Bundle : InnerSave(t, b)
  <2>1. PICK b \in Bundle : InnerSave(t, b)
    BY <1>5
  <2>2. b \in todo[t] /\ snap[t][b] \in Info
    BY <2>1 DEF InnerSave, Inv, TypeOK, CallsOK, CallOK
  <2>3. WriteEntry(t, b, snap[t][b])
    BY <2>1, <2>2, ConvertType DEF InnerSave
  <2>4. snap'[t] \in {snap[t], NoBundles} /\ \A s \in Thread \ {t} : snap'[s] = snap[s]
    BY <2>1, ReturnEffect DEF InnerSave
  <2>5. snap'[t] = NoBundles \/ (snap'[t] = snap[t] /\ pc'[t] # "idle")
    BY <2>1, ReturnEffect DEF InnerSave
  <2>. QED
    BY <2>2, <2>3, <2>4, <2>5, WriteEntryEffect DEF Effect
<1>6. CASE InnerDelete(t)
  <2>1. task[t].bundle \in Bundle
    BY <1>6 DEF InnerDelete, Inv, CallsOK, CallOK, PackageTask
  <2>. QED
    BY <1>6, <2>1, WriteEntryEffect, ReturnEffect DEF InnerDelete, Effect
<1>7. CASE ListBundles(t)
  <2>1. task[t].user \in User
    BY <1>7 DEF ListBundles, Inv, CallsOK, CallOK, RefreshTask
  <2>2. CASE snap' = [snap EXCEPT ![t] = bms[task[t].user]] /\ UNCHANGED stale
    <3>1. /\ \A c \in Bundle : snap'[t][c] = bms[task[t].user][c]
          /\ \A s \in Thread \ {t} : snap'[s] = snap[s]
      BY <2>2 DEF Inv, TypeOK
    <3>. QED
      BY <1>7, <2>1, <2>2, <3>1 DEF ListBundles, Effect
  <2>3. CASE GiveUp(t, Bundle)
    BY <1>7, <2>3, GiveUpEffect DEF ListBundles
  <2>. QED
    BY <1>7, <2>2, <2>3 DEF ListBundles
<1>8. CASE RefreshOld(t)
  <2>1. \A b \in Bundle : Mine'[b] \in {Mine[b], NoInfo}
    <3>1. CASE UNCHANGED store
      BY <3>1
    <3>2. CASE \E P : store' = [d \in Device |->
                                [b \in Bundle |-> IF <<d, b>> \in P THEN NoInfo ELSE store[d][b]]]
      BY <3>2, DeviceAssumption
    <3>. QED
      BY <1>8, <3>1, <3>2 DEF RefreshOld
  <2>2. PICK Good \in SUBSET Bundle, Lost \in SUBSET Bundle : Judge(t, Good, Lost)
    <3>1. \A B, Lost : Bundle \ (B \cup Lost) \in SUBSET Bundle
      OBVIOUS
    <3>2. \E Lost \in SUBSET Bundle : \E Good : Good \in SUBSET Bundle /\ Judge(t, Good, Lost)
      BY <1>8, <3>1 DEF RefreshOld
    <3>. QED
      BY <3>2
  <2>3. CASE Return(t)
    BY <2>1, <2>2, <2>3, ReturnEffect, JudgeEffect DEF Effect
  <2>4. CASE Goto(t, "write") /\ UNCHANGED snap
    <3>1. pc'[t] # "idle"
      BY <2>4, GotoType DEF Pc
    <3>. QED
      BY <2>1, <2>2, <2>4, <3>1, JudgeEffect DEF Effect
  <2>. QED
    BY <1>8, <2>3, <2>4 DEF RefreshOld, Continue
<1>. QED
  BY <1>1, <1>2, <1>3, <1>4, <1>5, <1>6, <1>7, <1>8 DEF Step

\* A step that makes an entry older, for the same user, uses a stale reading.
LEMMA StepForward ==
  ASSUME Inv, Order, NEW t \in Thread, Step(t), NEW b \in Bundle, RolledBack(b)
  PROVE  b \in todo[t] \cap stale[t]
<1>1. Mine[b] \in Info
  BY DeviceAssumption DEF RolledBack, Parses, Inv, TypeOK, Entry
<1>2. Mine'[b] # Mine[b]
  BY <1>1 DEF RolledBack, Info
<1>3. b \in todo[t] /\ Mine'[b] = snap[t][b]
  BY <1>2, StepEffect DEF RolledBack, Effect, Parses
<1>4. snap[t][b] \in Info
  BY <1>3 DEF Inv, TypeOK, CallsOK, CallOK
<1>5. b \notin stale[t] => Mine[b].time <= snap[t][b].time
  BY <1>3, <1>4, InfoAssumption DEF RolledBack, Order
<1>. QED
  BY <1>1, <1>3, <1>4, <1>5 DEF RolledBack, Info

LEMMA InitOrder == Init => Order
<1> SUFFICES ASSUME Init PROVE Order
  OBVIOUS
<1>1. \A u \in User, b \in Bundle : bms[u][b] = NoInfo
  BY DEF Init, BundleManagerInit, NoBundles
<1>2. \A b \in Bundle : ~Parses(Mine[b])
  BY DeviceAssumption DEF Init, StorageInit, Parses
<1>3. \A t \in Thread, b \in Bundle : snap[t][b] = NoInfo
  BY DEF Init, StorageInit, NoBundles
<1>. QED
  BY <1>1, <1>2, <1>3 DEF Order

\* A step with these effects keeps the order.
LEMMA EffectOrder ==
  ASSUME Inv, Order, NEW t \in Thread, Effect(t), UNCHANGED bmsVars
  PROVE  Order'
<1>1. clock' = clock /\ bms' = bms
  BY DEF bmsVars
<1>2. ASSUME NEW b \in Bundle, Mine'[b] \notin {Mine[b], NoInfo}
      PROVE  /\ b \in todo[t] /\ Mine'[b] = snap[t][b] /\ snap[t][b] \in Info
             /\ snap'[t] \in {snap[t], NoBundles}
             /\ \A s \in Thread \ {t} : Busy(s) => b \in stale'[s]
  <2>1. b \in todo[t] => snap[t][b] \in Info
    BY DEF Inv, TypeOK, CallsOK, CallOK
  <2>. QED
    BY <1>2, <2>1 DEF Effect
<1>3. ASSUME NEW b \in Bundle, Parses(Mine'[b])
      PROVE  NotNewer(Mine'[b], b)
  <2>1. CASE Mine'[b] = Mine[b]
    BY <1>3, <2>1 DEF Order
  <2>2. CASE Mine'[b] # Mine[b]
    <3>1. Mine'[b] = snap[t][b] /\ snap[t][b] # NoInfo
      BY <1>2, <1>3, <2>2, InfoAssumption DEF Parses
    <3>. QED
      BY <3>1 DEF Order
  <2>. QED
    BY <2>1, <2>2
<1>4. ASSUME NEW s \in Thread, NEW b \in Bundle, snap'[s][b] # NoInfo
      PROVE  /\ NotNewer(snap'[s][b], b)
             /\ b \notin stale'[s] /\ Parses(Mine'[b]) /\ Mine'[b].token = snap'[s][b].token
                  => Mine'[b].time <= snap'[s][b].time
  <2>1. CASE s # t
    <3>1. snap'[s] = snap[s] /\ stale[s] \subseteq stale'[s]
      BY <2>1 DEF Effect
    <3>2. Busy(s)
      BY <1>4, <3>1 DEF Inv, CallsOK, CallOK, Busy, NoBundles
    <3>3. b \notin stale'[s] /\ Parses(Mine'[b]) => Mine'[b] = Mine[b]
      BY <1>2, <2>1, <3>2 DEF Parses
    <3>. QED
      BY <1>4, <3>1, <3>3 DEF Order
  <2>2. CASE s = t /\ snap'[t] = snap[t] /\ stale[t] \subseteq stale'[t]
    <3>1. CASE Mine'[b] \in {Mine[b], NoInfo}
      BY <1>4, <2>2, <3>1 DEF Order, Parses
    <3>2. CASE Mine'[b] \notin {Mine[b], NoInfo}
      <4>1. Mine'[b] = snap[t][b] /\ snap[t][b].time \in 1..MaxTime
        BY <1>2, <3>2 DEF Info
      <4>2. Mine'[b].time <= snap'[s][b].time
        BY <4>1, <2>2, TimeAssumption
      <4>. QED
        BY <1>4, <2>2, <4>2 DEF Order
    <3>. QED
      BY <3>1, <3>2
  <2>3. CASE /\ s = t /\ Mine' = Mine
             /\ \A c \in Bundle : snap'[t][c] = NoInfo \/ \E u \in User : snap'[t][c] = bms[u][c]
    <3>1. PICK u \in User : snap'[s][b] = bms[u][b] /\ bms[u][b] # NoInfo
      BY <1>4, <2>3
    <3>2. NotNewer(bms[u][b], b)
      BY <3>1 DEF Order
    <3>3. Parses(Mine[b]) /\ Mine[b].token = bms[u][b].token => Mine[b].time <= bms[u][b].time
      BY <3>1 DEF Order, NotNewer
    <3>. QED
      BY <2>3, <3>1, <3>2, <3>3
  <2>4. CASE s = t /\ snap'[t] = NoBundles
    BY <1>4, <2>4 DEF NoBundles
  <2>. QED
    BY <2>1, <2>2, <2>3, <2>4 DEF Effect
<1>5. \A u \in User, b \in Bundle : bms[u][b] # NoInfo =>
        bms[u][b].token = EventUser(b, u) /\ NotNewer(bms[u][b], b)
  BY DEF Order
<1>. QED
  BY <1>1, <1>3, <1>4, <1>5 DEF Order, NotNewer

\* A change of BMS gives one installation, which every user sees whose events
\* about c carry the id e, a description that is new or as old as before.
Described(c, e, i) ==
    /\ \A w \in User, b \in Bundle :
         bms'[w][b] = IF b = c /\ EventUser(c, w) = e THEN i ELSE bms[w][b]
    /\ i # NoInfo =>
         /\ i.token = e
         /\ \/ i.time = clock + 1
            \/ \E u \in User : bms[u][c] # NoInfo /\ bms[u][c].token = e /\ bms[u][c].time = i.time

LEMMA BmsStepDescribes ==
  ASSUME Inv, Order, BmsStep
  PROVE  \/ bms' = bms
         \/ \E c \in Bundle, e \in AnyUser, i \in Info \cup {NoInfo} : Described(c, e, i)
<1>1. bms \in [User -> [Bundle -> Info \cup {NoInfo}]] /\ clock \in 0..MaxTime
  BY DEF Inv, TypeOK, BundleManagerTypeOK
<1>2. ASSUME NEW c \in Bundle, NEW u \in User, NEW i, SetInfo(c, u, i), NEW w \in User, NEW b \in Bundle
      PROVE  bms'[w][b] = IF b = c /\ EventUser(c, w) = EventUser(c, u) THEN i ELSE bms[w][b]
  <2>1. w \in Affected(c, u) <=> EventUser(c, w) = EventUser(c, u)
    BY DEF Affected, EventUser
  <2>2. bms'[w] = IF w \in Affected(c, u) THEN [bms[w] EXCEPT ![c] = i] ELSE bms[w]
    BY <1>2 DEF SetInfo
  <2>. QED
    BY <1>1, <2>1, <2>2
<1>3. \A c \in Bundle, u \in User : EventUser(c, u) \in AnyUser
  BY DEF EventUser, AnyUser
<1>4. ASSUME NEW c \in Bundle, NEW u \in User, Install(c, u)
      PROVE  \E i \in Info \cup {NoInfo} : Described(c, EventUser(c, u), i)
  <2> DEFINE i == [time |-> clock + 1, enabled |-> TRUE, token |-> EventUser(c, u)]
  <2>1. i \in Info
    BY <1>1, <1>3, <1>4, TimeAssumption DEF Install, Tick, Info
  <2>2. Described(c, EventUser(c, u), i)
    BY <1>2, <1>4 DEF Install, Described
  <2>. QED
    BY <2>1, <2>2
<1>5. ASSUME NEW c \in Bundle, NEW u \in User, Toggle(c, u)
      PROVE  \E i \in Info \cup {NoInfo} : Described(c, EventUser(c, u), i)
  <2> DEFINE i == [bms[u][c] EXCEPT !.enabled = ~@]
  <2>1. bms[u][c] \in Info /\ bms[u][c] # NoInfo /\ bms[u][c].token = EventUser(c, u)
    BY <1>1, <1>5 DEF Toggle, Order
  <2>2. i \in Info /\ i.time = bms[u][c].time /\ i.token = bms[u][c].token
    BY <2>1 DEF Info
  <2>3. SetInfo(c, u, i)
    BY <1>5 DEF Toggle
  <2>4. Described(c, EventUser(c, u), i)
    <3> HIDE DEF i
    <3>. QED
      BY <1>2, <2>1, <2>2, <2>3 DEF Described
  <2>. QED
    BY <2>2, <2>4
<1>6. ASSUME NEW c \in Bundle, NEW u \in User, Uninstall(c, u)
      PROVE  Described(c, EventUser(c, u), NoInfo)
  BY <1>2, <1>6 DEF Uninstall, Described
<1>7. ASSUME NEW u \in User, SwitchUser(u)
      PROVE  bms' = bms
  BY <1>7 DEF SwitchUser
<1>. QED
  BY <1>3, <1>4, <1>5, <1>6, <1>7 DEF BmsStep

\* A change of BMS keeps the order: an installation is newer than all
\* before it.
LEMMA BmsStepOrder ==
  ASSUME Inv, Order, BmsStep, UNCHANGED storageVars
  PROVE  Order'
<1>1. UNCHANGED <<store, snap, stale>>
  BY DEF storageVars, threadVars
<1>2. clock \in 0..MaxTime /\ clock' = clock + 1
  BY DEF BmsStep, Install, Toggle, Uninstall, SwitchUser, Tick, Inv, TypeOK, BundleManagerTypeOK
<1>3. /\ \A b \in Bundle : Parses(Mine[b]) => Mine[b] \in Info
      /\ \A t \in Thread, b \in Bundle : snap[t][b] \in Info \cup {NoInfo}
      /\ \A u \in User, b \in Bundle : bms[u][b] \in Info \cup {NoInfo}
  BY DeviceAssumption DEF Inv, TypeOK, BundleManagerTypeOK, Entry, Parses
<1>4. CASE bms' = bms
  BY <1>1, <1>2, <1>3, <1>4 DEF Order, NotNewer, Info
<1>5. ASSUME NEW c \in Bundle, NEW e \in AnyUser, NEW i \in Info \cup {NoInfo}, Described(c, e, i)
      PROVE  Order'
  <2>1. ASSUME NEW b \in Bundle, NEW v \in Info, NotNewer(v, b)
        PROVE  NotNewer(v, b)'
    <3>1. v.time \in Nat /\ v.time <= clock
      BY <2>1 DEF NotNewer, Info
    <3>2. ASSUME NEW u \in User, bms'[u][b] # NoInfo, bms'[u][b].token = v.token
          PROVE  v.time <= bms'[u][b].time
      <4>1. CASE bms'[u][b] = bms[u][b]
        BY <2>1, <3>2, <4>1 DEF NotNewer
      <4>2. CASE b = c /\ bms'[u][b] = i
        BY <1>2, <1>5, <2>1, <3>1, <3>2, <4>2 DEF NotNewer, Described
      <4>. QED
        BY <1>5, <4>1, <4>2 DEF Described
    <3>. QED
      BY <1>2, <3>1, <3>2 DEF NotNewer
  <2>2. ASSUME NEW u \in User, NEW b \in Bundle, bms'[u][b] # NoInfo
        PROVE  /\ bms'[u][b].token = EventUser(b, u) /\ bms'[u][b].time <= clock'
               /\ bms'[u][b] \in Info
    <3>1. CASE b = c /\ EventUser(c, u) = e
      <4>1. bms'[u][b] = i
        BY <1>5, <3>1 DEF Described
      <4>2. i.time = clock + 1 \/ i.time <= clock
        BY <1>5, <2>2, <4>1 DEF Described, Order, NotNewer
      <4>3. i \in Info /\ i.token = e
        BY <1>5, <2>2, <4>1 DEF Described
      <4>4. i.time \in Nat
        BY <4>3 DEF Info
      <4>. QED
        BY <1>2, <3>1, <4>1, <4>2, <4>3, <4>4
    <3>2. CASE ~(b = c /\ EventUser(c, u) = e)
      <4>1. bms'[u][b] = bms[u][b] /\ bms[u][b] \in Info
        BY <1>3, <1>5, <2>2, <3>2 DEF Described
      <4>2. bms[u][b].time <= clock /\ bms[u][b].time \in Nat /\ bms[u][b].token = EventUser(b, u)
        BY <2>2, <4>1 DEF Order, NotNewer, Info
      <4>. QED
        BY <1>2, <4>1, <4>2
    <3>. QED
      BY <3>1, <3>2
  <2>3. ASSUME NEW u \in User, NEW w \in User, NEW b \in Bundle,
               bms'[u][b] # NoInfo, bms'[w][b] # NoInfo, bms'[u][b].token = bms'[w][b].token
        PROVE  bms'[u][b].time <= bms'[w][b].time
    <3>1. EventUser(b, u) = EventUser(b, w)
      BY <2>2, <2>3
    <3>2. CASE b = c /\ EventUser(c, u) = e
      <4>1. bms'[u][b] = bms'[w][b] /\ bms'[u][b] \in Info
        BY <1>5, <2>2, <2>3, <3>1, <3>2 DEF Described
      <4>. QED
        BY <4>1 DEF Info
    <3>3. CASE ~(b = c /\ EventUser(c, u) = e)
      <4>1. bms'[u][b] = bms[u][b] /\ bms'[w][b] = bms[w][b]
        BY <1>5, <3>1, <3>3 DEF Described
      <4>. QED
        BY <2>3, <4>1 DEF Order, NotNewer
    <3>. QED
      BY <3>2, <3>3
  <2>4. \A u \in User, b \in Bundle : bms'[u][b] # NoInfo =>
          bms'[u][b].token = EventUser(b, u) /\ NotNewer(bms[u][b], b)'
    BY <2>2, <2>3 DEF NotNewer
  <2>. QED
    BY <1>1, <1>3, <2>1, <2>4 DEF Order
<1>. QED
  BY <1>4, <1>5, BmsStepDescribes

LEMMA NextOrder == Inv /\ Order /\ [Next]_vars => Order'
<1> SUFFICES ASSUME Inv, Order, [Next]_vars PROVE Order'
  OBVIOUS
<1>1. ASSUME NEW t \in Thread, Step(t), UNCHANGED bmsVars
      PROVE  Order'
  BY <1>1, StepEffect, EffectOrder
<1>2. ASSUME BmsStep, UNCHANGED storageVars
      PROVE  Order'
  BY <1>2, BmsStepOrder
<1>3. ASSUME UNCHANGED bmsVars, UNCHANGED snap, UNCHANGED stale, Mine' = Mine
      PROVE  Order'
  BY <1>3 DEF bmsVars, Order, NotNewer, Parses
<1>4. ASSUME NEW d \in Device, NEW b \in Bundle, PeerSync(d, b), UNCHANGED bmsVars
      PROVE  Order'
  <2>1. d # Self /\ \E v \in Entry : store' = [store EXCEPT ![d][b] = v]
    BY <1>4, PeerEntryType DEF PeerSync
  <2>2. Mine' = Mine
    BY <2>1, DeviceAssumption DEF Inv, TypeOK
  <2>. QED
    BY <1>3, <1>4, <2>2 DEF PeerSync, threadVars
<1>5. ASSUME NEW t \in Thread, Call(t), UNCHANGED bmsVars
      PROVE  Order'
  BY <1>3, <1>5 DEF Call, Begin
<1>6. CASE UNCHANGED vars
  BY <1>3, <1>6 DEF vars, storageVars, threadVars
<1>. QED
  BY <1>1, <1>2, <1>4, <1>5, <1>6 DEF Next

LEMMA NextRollback ==
  Inv /\ Order /\ [Next]_vars =>
    [\A b \in Bundle : RolledBack(b) => \E t \in Thread : b \in todo[t] \cap stale[t]]_vars
<1> SUFFICES ASSUME Inv, Order, Next, NEW b \in Bundle, RolledBack(b)
             PROVE  \E t \in Thread : b \in todo[t] \cap stale[t]
  OBVIOUS
<1>1. Mine[b] \in Info
  BY DeviceAssumption DEF RolledBack, Parses, Inv, TypeOK, Entry
<1>2. Mine'[b] # Mine[b]
  BY <1>1 DEF RolledBack, Info
<1>3. PICK t \in Thread : Step(t)
  <2>1. ASSUME NEW d \in Device, NEW c \in Bundle, PeerSync(d, c)
        PROVE  Mine' = Mine
    BY <2>1, DeviceAssumption DEF PeerSync, Inv, TypeOK
  <2>2. ASSUME NEW t \in Thread, Call(t)
        PROVE  Mine' = Mine
    BY <2>2 DEF Call
  <2>3. ASSUME UNCHANGED storageVars
        PROVE  Mine' = Mine
    BY <2>3 DEF storageVars
  <2>. QED
    BY <1>2, <2>1, <2>2, <2>3 DEF Next
<1>. QED
  BY <1>1, <1>2, <1>3, StepForward

\* An entry goes back in updateTime, for one and the same user, only by a call
\* during which another call was done with the bundle, or which lost an answer.
THEOREM NoRollback == Spec => NoSilentRollback
<1> HIDE DEF Mine
<1>1. Inv /\ Order /\ [Next]_vars => Inv' /\ Order'
  BY NextInv, NextOrder
<1>2. Init => Inv /\ Order
  BY InitInv, InitOrder
<1>. QED
  BY <1>1, <1>2, NextRollback, PTL DEF Spec, NoSilentRollback
-----------------------------------------------------------------------------
(* No call goes back. *)

\* The step of t brings its call nearer its end.
Advances(t) ==
    \/ StepsLeft(t)' < StepsLeft(t)
    \/ StepsLeft(t)' = StepsLeft(t) /\ todo'[t] \subseteq todo[t] /\ todo'[t] # todo[t]

LEMMA StepsLeftNat ==
  ASSUME Inv, NEW t \in Thread
  PROVE  /\ Rest(t) \in Nat /\ StepsLeft(t) \in Nat
         /\ Busy(t) => 0 < StepsLeft(t)
<1>1. pc[t] \in Pc /\ tries[t] \in 0..MaxTries /\ MaxTries \in Nat
  BY BoundAssumption DEF Inv, TypeOK
<1>2. CASE pc[t] \in {"idle", "write", "erase"}
  BY <1>2 DEF Rest, StepsLeft, Busy
<1>3. CASE pc[t] \in {"old", "list"}
  BY <1>3 DEF Rest, StepsLeft
<1>4. CASE pc[t] = "read"
  BY <1>1, <1>4 DEF Rest, StepsLeft
<1>5. CASE pc[t] = "user"
  BY <1>1, <1>5 DEF Rest, StepsLeft
<1>6. CASE pc[t] = "open"
  BY <1>1, <1>6 DEF Rest, StepsLeft
<1>7. CASE pc[t] = "check"
  BY <1>1, <1>7 DEF Rest, StepsLeft
<1>. QED
  BY <1>1, <1>2, <1>3, <1>4, <1>5, <1>6, <1>7 DEF Pc

LEMMA ReturnAdvances ==
  ASSUME Inv, NEW t \in Thread, Busy(t), Return(t)
  PROVE  Advances(t)
<1>1. pc'[t] = "idle"
  BY DEF Return, Goto, Inv, TypeOK
<1>2. StepsLeft(t)' = 0
  BY <1>1 DEF StepsLeft, Rest
<1>. QED
  BY <1>2, StepsLeftNat DEF Advances

\* CheckKvStore, within one and the same task.
LEMMA OpeningAdvances ==
  ASSUME Inv, NEW t \in Thread, CheckKvStore(t) \/ OpenKvStore(t) \/ LastCheck(t)
  PROVE  Advances(t)
<1> DEFINE more == IF task[t].op = "Save" THEN MaxTries + 4 ELSE 0
<1>1. /\ pc \in [Thread -> Pc] /\ tries \in [Thread -> 0..MaxTries] /\ MaxTries \in Nat
      /\ more \in Nat
  BY BoundAssumption DEF Inv, TypeOK
<1>2. CASE Return(t)
  BY <1>2, ReturnAdvances DEF CheckKvStore, OpenKvStore, LastCheck, Busy
<1>3. CASE CheckKvStore(t)
  <2>1. pc[t] = "check" /\ pc'[t] \in {"user", "open"} /\ task' = task /\ tries' = tries
    BY <1>1, <1>3 DEF CheckKvStore, Goto
  <2>2. StepsLeft(t) = 4 + MaxTries + more
    BY <2>1 DEF StepsLeft, Rest
  <2>3. CASE pc'[t] = "user"
    <3>1. StepsLeft(t)' = 2 + more
      BY <2>1, <2>3 DEF StepsLeft, Rest
    <3> HIDE DEF more
    <3>. QED
      BY <1>1, <2>2, <3>1 DEF Advances
  <2>4. CASE pc'[t] = "open"
    <3>1. StepsLeft(t)' = 3 + (MaxTries - tries[t]) + more
      BY <2>1, <2>4 DEF StepsLeft, Rest
    <3> HIDE DEF more
    <3>. QED
      BY <1>1, <2>2, <3>1 DEF Advances
  <2>. QED
    BY <2>1, <2>3, <2>4
<1>4. CASE (OpenKvStore(t) \/ LastCheck(t)) /\ ~Return(t)
  <2>1. /\ pc[t] = "open" /\ task' = task
        /\ \/ pc'[t] = "user"
           \/ pc'[t] = "open" /\ tries'[t] = tries[t] + 1 /\ tries[t] < MaxTries
    BY <1>1, <1>4 DEF OpenKvStore, LastCheck, GiveUp, Goto
  <2>2. StepsLeft(t) = 3 + (MaxTries - tries[t]) + more
    BY <2>1 DEF StepsLeft, Rest
  <2>3. CASE pc'[t] = "user"
    <3>1. StepsLeft(t)' = 2 + more
      BY <2>1, <2>3 DEF StepsLeft, Rest
    <3> HIDE DEF more
    <3>. QED
      BY <1>1, <2>2, <3>1 DEF Advances
  <2>4. CASE pc'[t] = "open" /\ tries'[t] = tries[t] + 1 /\ tries[t] < MaxTries
    <3>1. StepsLeft(t)' = 3 + (MaxTries - (tries[t] + 1)) + more
      BY <2>1, <2>4 DEF StepsLeft, Rest
    <3> HIDE DEF more
    <3>. QED
      BY <1>1, <2>2, <3>1 DEF Advances
  <2>. QED
    BY <2>1, <2>3, <2>4
<1>. QED
  BY <1>2, <1>3, <1>4

\* A Save comes to read with more before it than a Delete begins with.
LEMMA PackageAdvances ==
  ASSUME Inv, NEW t \in Thread, CheckUser(t) \/ ReadBundle(t)
  PROVE  Advances(t)
<1>1. pc \in [Thread -> Pc] /\ task \in [Thread -> Task \cup {NoTask}] /\ MaxTries \in Nat
  BY BoundAssumption DEF Inv, TypeOK
<1>2. CASE Return(t)
  BY <1>2, ReturnAdvances DEF CheckUser, ReadBundle, Busy
<1>3. CASE CheckUser(t) /\ ~Return(t)
  <2>1. pc[t] = "user" /\ pc'[t] = IF task[t].op = "Save" THEN "read" ELSE "erase"
    BY <1>1, <1>3 DEF CheckUser, GiveUp, Goto
  <2>2. CASE task[t].op = "Save"
    <3>1. StepsLeft(t) = 2 + (MaxTries + 4) /\ StepsLeft(t)' = 5 + MaxTries + 0
      BY <2>1, <2>2 DEF StepsLeft, Rest
    <3>. QED
      BY <1>1, <3>1 DEF Advances
  <2>3. CASE task[t].op # "Save"
    <3>1. StepsLeft(t) = 2 + 0 /\ StepsLeft(t)' = 1 + 0
      BY <2>1, <2>3 DEF StepsLeft, Rest
    <3>. QED
      BY <3>1 DEF Advances
  <2>. QED
    BY <2>2, <2>3
<1>4. CASE ReadBundle(t) /\ ~Return(t)
  <2>1. task[t] \in PackageTask /\ pc[t] = "read"
    BY <1>4 DEF ReadBundle, Inv, CallsOK, CallOK
  <2>2. \/ pc'[t] = "write"
        \/ pc'[t] = "check" /\ task'[t].op = "Delete"
    BY <1>1, <1>4, <2>1 DEF ReadBundle, GiveUp, Goto, PackageTask
  <2>3. StepsLeft(t) = 5 + MaxTries + 0
    BY <2>1 DEF StepsLeft, Rest
  <2>4. CASE pc'[t] = "write"
    <3>1. StepsLeft(t)' = 1 + 0
      BY <2>4 DEF StepsLeft, Rest
    <3>. QED
      BY <1>1, <2>3, <3>1 DEF Advances
  <2>5. CASE pc'[t] = "check" /\ task'[t].op = "Delete"
    <3>1. StepsLeft(t)' = 4 + MaxTries + 0
      BY <2>5 DEF StepsLeft, Rest
    <3>. QED
      BY <1>1, <2>3, <3>1 DEF Advances
  <2>. QED
    BY <2>2, <2>4, <2>5
<1>. QED
  BY <1>2, <1>3, <1>4

\* The refresh, and every put and delete.
LEMMA WritingAdvances ==
  ASSUME Inv, NEW t \in Thread,
         \/ ListBundles(t) \/ RefreshOld(t) \/ InnerDelete(t)
         \/ \E b \in Bundle : InnerSave(t, b)
  PROVE  Advances(t)
<1>1. pc \in [Thread -> Pc] /\ todo \in [Thread -> SUBSET Bundle]
  BY DEF Inv, TypeOK
<1>2. CASE Return(t)
  BY <1>2, ReturnAdvances DEF ListBundles, RefreshOld, InnerDelete, InnerSave, Busy
<1>3. CASE ListBundles(t) /\ ~Return(t)
  <2>1. pc[t] = "list" /\ pc'[t] = "old"
    BY <1>1, <1>3 DEF ListBundles, GiveUp, Goto
  <2>2. StepsLeft(t) = 3 + 0 /\ StepsLeft(t)' = 2 + 0
    BY <2>1 DEF StepsLeft, Rest
  <2>. QED
    BY <2>2 DEF Advances
<1>4. CASE RefreshOld(t) /\ ~Return(t)
  <2>1. pc[t] = "old" /\ pc'[t] = "write"
    BY <1>1, <1>4 DEF RefreshOld, Continue, Goto
  <2>2. StepsLeft(t) = 2 + 0 /\ StepsLeft(t)' = 1 + 0
    BY <2>1 DEF StepsLeft, Rest
  <2>. QED
    BY <2>2 DEF Advances
<1>5. ASSUME NEW b \in Bundle, InnerSave(t, b), ~Return(t)
      PROVE  Advances(t)
  <2>1. /\ pc[t] = "write" /\ pc'[t] = "write" /\ b \in todo[t]
        /\ todo'[t] = todo[t] \ {b}
    BY <1>1, <1>5 DEF InnerSave
  <2>2. StepsLeft(t) = 1 + 0 /\ StepsLeft(t)' = 1 + 0
    BY <2>1 DEF StepsLeft, Rest
  <2>. QED
    BY <2>1, <2>2 DEF Advances
<1>. QED
  BY <1>2, <1>3, <1>4, <1>5 DEF InnerDelete

\* Every step of a call brings it nearer its end.
LEMMA StepAdvances ==
  ASSUME Inv, NEW t \in Thread, Step(t)
  PROVE  Advances(t)
BY OpeningAdvances, PackageAdvances, WritingAdvances DEF Step

LEMMA StepAlone ==
  ASSUME Inv, NEW t \in Thread, Step(t), NEW s \in Thread \ {t}
  PROVE  CallOf(s)' = CallOf(s)
<1> USE DEF CallOf, Inv, TypeOK, Goto, Return
<1>1. CASE Return(t)
  BY <1>1
<1>2. CASE CheckKvStore(t) \/ OpenKvStore(t) \/ LastCheck(t)
  BY <1>1, <1>2 DEF CheckKvStore, OpenKvStore, LastCheck, GiveUp
<1>3. CASE CheckUser(t) \/ ReadBundle(t)
  BY <1>1, <1>3 DEF CheckUser, ReadBundle, GiveUp
<1>4. CASE ListBundles(t) \/ RefreshOld(t) \/ InnerDelete(t)
  BY <1>1, <1>4 DEF ListBundles, RefreshOld, Continue, InnerDelete, GiveUp
<1>5. ASSUME NEW b \in Bundle, InnerSave(t, b)
      PROVE  CallOf(s)' = CallOf(s)
  BY <1>1, <1>5 DEF InnerSave
<1>. QED
  BY <1>2, <1>3, <1>4, <1>5 DEF Step

\* A new call is that of a thread that had none.
LEMMA BeginAlone ==
  ASSUME Inv, NEW t \in Thread, NEW k, Begin(t, k), NEW s \in Thread, Busy(s)
  PROVE  CallOf(s)' = CallOf(s)
BY DEF Begin, Goto, Busy, CallOf, Inv, TypeOK

\* A call ends after a bounded number of its own steps: each lowers
\* StepsLeft, a natural number (StepsLeftNat), or puts one of the bundles left
\* (StepAdvances), and no step of another call undoes that; for any number of threads and
\* bundles, any MAX_TIMES and any failures.
THEOREM CallsAdvance == Spec => CallAdvances
<1>1. Inv /\ [Next]_vars =>
        [\A t \in Thread : Busy(t) /\ (CallOf(t)' # CallOf(t) \/ Step(t)) =>
           \/ StepsLeft(t)' < StepsLeft(t)
           \/ StepsLeft(t)' = StepsLeft(t) /\ todo'[t] \subseteq todo[t] /\ todo'[t] # todo[t]]_vars
  <2> SUFFICES ASSUME Inv, Next, NEW t \in Thread, Busy(t), Step(t) \/ CallOf(t)' # CallOf(t)
               PROVE  Advances(t)
    BY DEF Advances
  <2>1. CASE Step(t)
    BY <2>1, StepAdvances
  <2>2. CASE CallOf(t)' # CallOf(t)
    <3>1. ASSUME NEW s \in Thread, Step(s)
          PROVE  Advances(t)
      BY <2>2, <3>1, StepAlone, StepAdvances
    <3>2. ASSUME NEW s \in Thread, Call(s)
          PROVE  FALSE
      BY <2>2, <3>2, BeginAlone DEF Call
    <3>3. CASE UNCHANGED threadVars
      BY <2>2, <3>3 DEF threadVars, CallOf
    <3>. QED
      BY <3>1, <3>2, <3>3 DEF Next, PeerSync, storageVars
  <2>. QED
    BY <2>1, <2>2
<1>. QED
  BY <1>1, InitInv, NextInv, PTL DEF Spec, CallAdvances
=============================================================================
