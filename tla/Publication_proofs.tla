------------------------- MODULE Publication_proofs -------------------------
(***************************************************************************)
(* DataStorage implements Publication: every step of a call is a look, a   *)
(* publication, a withdrawal or a stutter of the abstract writer.          *)
(***************************************************************************)
EXTENDS DataStorage_proofs

USE DEF Mine

Reports == [t \in Thread |-> Held(t)]

LEMMA HeldByCall ==
  ASSUME Inv, NEW t \in Thread
  PROVE  /\ Held(t) \in [Bundle -> SUBSET Info]
         /\ pc[t] \notin {"old", "write"} => Held(t) = Pub!NoReports
BY DEF Inv, TypeOK, CallsOK, CallOK, Held, Pub!NoReports

LEMMA InitRefines == Init => Pub!Init
BY DEF Init, StorageInit, Pub!Init, Pub!NoReports, Held

\* t withdraws the names in N and keeps or drops its reports of the others.
LEMMA IsWithdraw ==
  ASSUME Inv, NEW t \in Thread, UNCHANGED bms, NEW N \in SUBSET Bundle,
         \A b \in N : Held(t)[b] = {},
         Mine' = [b \in Bundle |-> IF b \in N THEN NoInfo ELSE Mine[b]],
         \A b \in Bundle : Held(t)'[b] \in {Held(t)[b], {}},
         \A s \in Thread \ {t} : Held(s)' = Held(s)
  PROVE  Pub!Next
<1> DEFINE K == {b \in Bundle : Held(t)'[b] = Held(t)[b]}
<1>1. Held(t)' = [b \in Bundle |-> IF b \in K THEN Held(t)[b] ELSE {}]
  BY DEF Held
<1>2. Reports' = [Reports EXCEPT ![t] = [b \in Bundle |-> IF b \in K THEN Reports[t][b] ELSE {}]]
  <2> HIDE DEF K
  <2>. QED
    BY <1>1 DEF Reports
<1>3. Pub!Withdraw(t, N)
  <2>1. \A b \in N : Reports[t][b] = {}
    BY DEF Reports
  <2>2. K \in SUBSET Bundle
    OBVIOUS
  <2> HIDE DEF K
  <2>. QED
    BY <1>2, <2>1, <2>2 DEF Pub!Withdraw, Reports
<1>. QED
  BY <1>3 DEF Pub!Next

LEMMA IsStutter ==
  ASSUME Inv, NEW t \in Thread, UNCHANGED <<bms, store>>,
         \A b \in Bundle : Held(t)'[b] \in {Held(t)[b], {}},
         \A s \in Thread \ {t} : Held(s)' = Held(s)
  PROVE  Pub!Next
<1>1. Mine' = [b \in Bundle |-> IF b \in {} THEN NoInfo ELSE Mine[b]]
  BY DeviceAssumption DEF Inv, TypeOK
<1>. QED
  BY <1>1, IsWithdraw

LEMMA OthersHold ==
  ASSUME Inv, NEW t \in Thread,
         \A s \in Thread \ {t} : pc'[s] = pc[s] /\ snap'[s] = snap[s] /\ todo'[s] = todo[s]
  PROVE  \A s \in Thread \ {t} : Held(s)' = Held(s)
BY DEF Held

\* A call that returns holds nothing any more.
LEMMA ReturnHolds ==
  ASSUME Inv, NEW t \in Thread, Return(t)
  PROVE  /\ Held(t)' = Pub!NoReports
         /\ \A s \in Thread \ {t} : Held(s)' = Held(s)
<1>1. /\ pc'[t] = "idle" /\ todo'[t] = {}
      /\ \A s \in Thread \ {t} : pc'[s] = pc[s] /\ snap'[s] = snap[s] /\ todo'[s] = todo[s]
  BY DEF Return, Goto, Inv, TypeOK
<1>. QED
  BY <1>1, OthersHold DEF Held, Pub!NoReports

LEMMA ReturnStutters ==
  ASSUME Inv, NEW t \in Thread, Return(t), UNCHANGED <<bms, store>>
  PROVE  Pub!Next
BY ReturnHolds, IsStutter DEF Pub!NoReports

\* A step between labels at which t holds nothing.
LEMMA EmptyHanded ==
  ASSUME Inv, NEW t \in Thread, pc[t] \notin {"old", "write"}, UNCHANGED <<bms, store, snap, todo>>,
         pc'[t] # "old", \A s \in Thread \ {t} : pc'[s] = pc[s]
  PROVE  Pub!Next
<1>1. Held(t)' = Held(t)
  BY DEF Held, Inv, CallsOK, CallOK
<1>. QED
  BY <1>1, OthersHold, IsStutter

LEMMA IsLook ==
  ASSUME Inv, NEW t \in Thread, NEW u \in User, NEW N \in SUBSET Bundle,
         pc[t] \notin {"old", "write"}, UNCHANGED <<bms, store>>,
         Held(t)' = Pub!Listing(u, N),
         \A s \in Thread \ {t} : Held(s)' = Held(s)
  PROVE  Pub!Next
<1>1. Reports[t] = Pub!NoReports
  BY HeldByCall DEF Reports
<1>2. Reports' = [Reports EXCEPT ![t] = Pub!Listing(u, N)]
  BY DEF Reports
<1>3. Pub!Look(t)
  BY <1>1, <1>2 DEF Pub!Look, Reports
<1>. QED
  BY <1>3 DEF Pub!Next

-----------------------------------------------------------------------------
(* The steps of a call. *)

LEMMA ChecksRefine ==
  ASSUME Inv, NEW t \in Thread, CheckKvStore(t) \/ OpenKvStore(t) \/ LastCheck(t) \/ CheckUser(t),
         UNCHANGED bms
  PROVE  Pub!Next
<1>1. /\ pc[t] \notin {"old", "write"} /\ UNCHANGED store
      /\ pc \in [Thread -> Pc]
  BY DEF CheckKvStore, OpenKvStore, LastCheck, CheckUser, Inv, TypeOK
<1>2. \/ \E B : GiveUp(t, B)
      \/ /\ UNCHANGED <<snap, todo>>
         /\ \/ UNCHANGED pc
            \/ Goto(t, "user") \/ Goto(t, "open") \/ Goto(t, "read") \/ Goto(t, "erase")
  BY DEF CheckKvStore, OpenKvStore, LastCheck, CheckUser
<1>3. CASE \E B : GiveUp(t, B)
  BY <1>1, <1>3, ReturnStutters DEF GiveUp
<1>4. CASE /\ UNCHANGED <<snap, todo>>
           /\ \/ UNCHANGED pc
              \/ Goto(t, "user") \/ Goto(t, "open") \/ Goto(t, "read") \/ Goto(t, "erase")
  <2>1. pc'[t] # "old" /\ \A s \in Thread \ {t} : pc'[s] = pc[s]
    BY <1>1, <1>4 DEF Goto
  <2>. QED
    BY <1>1, <1>4, <2>1, EmptyHanded
<1>. QED
  BY <1>2, <1>3, <1>4

LEMMA ReadBundleRefines ==
  ASSUME Inv, NEW t \in Thread, ReadBundle(t), UNCHANGED bms
  PROVE  Pub!Next
<1> DEFINE b == task[t].bundle
           u == task[t].user
           i == bms[u][b]
<1>1. /\ pc[t] = "read" /\ b \in Bundle /\ u \in User /\ snap[t] = NoBundles
      /\ UNCHANGED store
      /\ pc \in [Thread -> Pc]
  BY DEF ReadBundle, Inv, TypeOK, CallsOK, CallOK, PackageTask
<1>2. CASE /\ i # NoInfo /\ Goto(t, "write")
           /\ snap' = [snap EXCEPT ![t][b] = i]
           /\ todo' = [todo EXCEPT ![t] = {b}]
  <2>1. pc'[t] = "write" /\ \A s \in Thread \ {t} : pc'[s] = pc[s]
    BY <1>1, <1>2 DEF Goto
  <2>2. /\ snap'[t] = [snap[t] EXCEPT ![b] = i] /\ todo'[t] = {b}
        /\ \A s \in Thread \ {t} : snap'[s] = snap[s] /\ todo'[s] = todo[s]
    BY <1>2 DEF Inv, TypeOK
  <2>3. snap[t] \in [Bundle -> Info \cup {NoInfo}]
    BY DEF Inv, TypeOK
  <2>4. Held(t)' = [c \in Bundle |-> IF c = b THEN {i} \ {NoInfo} ELSE {}]
    BY <2>1, <2>2, <2>3 DEF Held
  <2>5. Held(t)' = Pub!Listing(u, {b})
    BY <2>4 DEF Pub!Listing
  <2>6. {b} \in SUBSET Bundle
    BY <1>1
  <2> HIDE DEF b, u, i
  <2>. QED
    BY <1>1, <2>1, <2>2, <2>5, <2>6, OthersHold, IsLook
<1>3. CASE Goto(t, "check") /\ UNCHANGED <<snap, todo>>
  <2>1. pc'[t] # "old" /\ \A s \in Thread \ {t} : pc'[s] = pc[s]
    BY <1>1, <1>3 DEF Goto
  <2>. QED
    BY <1>1, <1>3, <2>1, EmptyHanded
<1>4. CASE GiveUp(t, {b})
  BY <1>1, <1>4, ReturnStutters DEF GiveUp
<1>. QED
  BY <1>2, <1>3, <1>4 DEF ReadBundle

LEMMA ListBundlesRefines ==
  ASSUME Inv, NEW t \in Thread, ListBundles(t), UNCHANGED bms
  PROVE  Pub!Next
<1> DEFINE u == task[t].user
<1>1. /\ pc[t] = "list" /\ u \in User /\ UNCHANGED store /\ pc \in [Thread -> Pc]
  BY DEF ListBundles, Inv, TypeOK, CallsOK, CallOK, RefreshTask
<1>2. CASE Goto(t, "old") /\ snap' = [snap EXCEPT ![t] = bms[u]] /\ UNCHANGED todo
  <2>1. /\ pc'[t] = "old" /\ snap'[t] = bms[u]
        /\ \A s \in Thread \ {t} : pc'[s] = pc[s] /\ snap'[s] = snap[s] /\ todo'[s] = todo[s]
    BY <1>1, <1>2 DEF Goto, Inv, TypeOK
  <2>2. Held(t)' = Pub!Listing(u, Bundle)
    BY <2>1 DEF Held, Pub!Listing
  <2> HIDE DEF u
  <2>. QED
    BY <1>1, <2>1, <2>2, OthersHold, IsLook
<1>3. CASE GiveUp(t, Bundle)
  BY <1>1, <1>3, ReturnStutters DEF GiveUp
<1>. QED
  BY <1>2, <1>3 DEF ListBundles

\* What a write, successful or not, does to the entries of this device.
LEMMA WrittenEntry ==
  ASSUME Inv, NEW t \in Thread, NEW b \in Bundle, NEW v, WriteEntry(t, b, v)
  PROVE  Mine' \in {Mine, [Mine EXCEPT ![b] = v]}
<1>1. store' \in {store, [store EXCEPT ![Self][b] = v]}
  BY DEF WriteEntry
<1>. QED
  BY <1>1, DeviceAssumption DEF Inv, TypeOK

LEMMA InnerSaveRefines ==
  ASSUME Inv, NEW t \in Thread, NEW b \in Bundle, InnerSave(t, b), UNCHANGED bms
  PROVE  Pub!Next
<1>1. b \in todo[t] /\ pc[t] = "write" /\ snap[t][b] \in Info
  BY DEF InnerSave, Inv, TypeOK, CallsOK, CallOK
<1>2. Mine' \in {Mine, [Mine EXCEPT ![b] = snap[t][b]]}
  BY <1>1, ConvertType, WrittenEntry DEF InnerSave
<1>3. Held(t)[b] = {snap[t][b]}
  BY <1>1, InfoAssumption DEF Held
<1>4. /\ Held(t)' = [Held(t) EXCEPT ![b] = {}]
      /\ \A s \in Thread \ {t} : Held(s)' = Held(s)
  <2>1. CASE todo[t] = {b} /\ Return(t)
    <3>1. Held(t) = [c \in Bundle |-> IF c = b THEN {snap[t][b]} ELSE {}]
      BY <1>1, <1>3, <2>1 DEF Held
    <3>. QED
      BY <2>1, <3>1, ReturnHolds DEF Pub!NoReports
  <2>2. CASE todo' = [todo EXCEPT ![t] = @ \ {b}] /\ UNCHANGED <<pc, snap>>
    <3>1. /\ todo'[t] = todo[t] \ {b}
          /\ \A s \in Thread \ {t} : todo'[s] = todo[s]
      BY <2>2 DEF Inv, TypeOK
    <3>2. \A c \in Bundle : Held(t)'[c] = IF c = b THEN {} ELSE Held(t)[c]
      BY <1>1, <2>2, <3>1 DEF Held
    <3>3. Held(t)' = [c \in Bundle |-> Held(t)'[c]]
      BY DEF Held
    <3>4. Held(t) \in [Bundle -> SUBSET Info]
      BY HeldByCall
    <3>5. Held(t)' = [Held(t) EXCEPT ![b] = {}]
      BY <3>2, <3>3, <3>4
    <3>. QED
      BY <2>2, <3>1, <3>5, OthersHold
  <2>. QED
    BY <2>1, <2>2 DEF InnerSave
<1>5. Reports' = [Reports EXCEPT ![t][b] = {}]
  BY <1>4 DEF Reports
<1>6. snap[t][b] \in Reports[t][b]
  BY <1>3 DEF Reports
<1>7. Pub!Publish(t, b)
  BY <1>2, <1>5, <1>6 DEF Pub!Publish, Reports
<1>. QED
  BY <1>7 DEF Pub!Next

LEMMA InnerDeleteRefines ==
  ASSUME Inv, NEW t \in Thread, InnerDelete(t), UNCHANGED bms
  PROVE  Pub!Next
<1> DEFINE b == task[t].bundle
<1>1. pc[t] = "erase" /\ b \in Bundle /\ Return(t) /\ Held(t) = Pub!NoReports
  BY HeldByCall DEF InnerDelete, Inv, CallsOK, CallOK, PackageTask
<1>2. Mine' \in {Mine, [Mine EXCEPT ![b] = NoInfo]}
  BY <1>1, WrittenEntry DEF InnerDelete
<1>3. PICK N \in SUBSET Bundle : Mine' = [c \in Bundle |-> IF c \in N THEN NoInfo ELSE Mine[c]]
  <2>1. Mine \in [Bundle -> Entry]
    BY DeviceAssumption DEF Inv, TypeOK
  <2>2. CASE Mine' = Mine
    <3>1. Mine' = [c \in Bundle |-> IF c \in {} THEN NoInfo ELSE Mine[c]]
      BY <2>1, <2>2
    <3> WITNESS {} \in SUBSET Bundle
    <3>. QED
      BY <3>1
  <2>3. CASE Mine' = [Mine EXCEPT ![b] = NoInfo]
    <3>1. Mine' = [c \in Bundle |-> IF c \in {b} THEN NoInfo ELSE Mine[c]]
      BY <1>1, <2>1, <2>3
    <3> {b} \in SUBSET Bundle
      BY <1>1
    <3> WITNESS {b} \in SUBSET Bundle
    <3>. QED
      BY <3>1
  <2>. QED
    BY <1>2, <2>2, <2>3
<1>. QED
  BY <1>1, <1>3, ReturnHolds, IsWithdraw DEF Pub!NoReports

\* The purge takes no entry whose description the refresh holds.
LEMMA RefreshOldRefines ==
  ASSUME Inv, NEW t \in Thread, RefreshOld(t), UNCHANGED bms
  PROVE  Pub!Next
<1>1. pc[t] = "old" /\ pc \in [Thread -> Pc]
  BY DEF RefreshOld, Inv, TypeOK
<1>2. PICK B \in SUBSET Bundle : Continue(t, B)
  BY DEF RefreshOld, ToPut
<1>3. /\ \A c \in Bundle : Held(t)'[c] \in {Held(t)[c], {}}
      /\ \A s \in Thread \ {t} : Held(s)' = Held(s)
  <2>1. CASE Return(t)
    BY <2>1, ReturnHolds DEF Pub!NoReports
  <2>2. CASE Goto(t, "write") /\ todo' = [todo EXCEPT ![t] = B] /\ UNCHANGED snap
    <3>1. /\ pc'[t] = "write" /\ todo'[t] = B
          /\ \A s \in Thread \ {t} : pc'[s] = pc[s] /\ todo'[s] = todo[s]
      BY <1>1, <2>2 DEF Goto, Inv, TypeOK
    <3>. QED
      BY <1>1, <2>2, <3>1, OthersHold DEF Held
  <2>. QED
    BY <1>2, <2>1, <2>2 DEF Continue
<1>4. PICK N \in SUBSET Bundle :
        /\ Mine' = [c \in Bundle |-> IF c \in N THEN NoInfo ELSE Mine[c]]
        /\ \A c \in N : snap[t][c] = NoInfo
  <2>1. Mine = [c \in Bundle |-> IF c \in {} THEN NoInfo ELSE Mine[c]]
    BY DeviceAssumption DEF Inv, TypeOK
  <2>2. CASE UNCHANGED store
    <3> WITNESS {} \in SUBSET Bundle
    <3>. QED
      BY <2>1, <2>2
  <2>3. CASE \E failed \in SUBSET ToPurge(snap[t]) : \E left \in SUBSET failed :
               store' = [d \in Device |->
                           [c \in Bundle |-> IF <<d, c>> \in ToPurge(snap[t]) \ left
                                             THEN NoInfo ELSE store[d][c]]]
    <3>1. PICK left : store' = [d \in Device |->
                           [c \in Bundle |-> IF <<d, c>> \in ToPurge(snap[t]) \ left
                                             THEN NoInfo ELSE store[d][c]]]
      BY <2>3
    <3> DEFINE N == {c \in Bundle : <<Self, c>> \in ToPurge(snap[t]) \ left}
    <3>2. \A c \in N : snap[t][c] = NoInfo
      BY DEF ToPurge
    <3>3. Mine' = [c \in Bundle |-> IF c \in N THEN NoInfo ELSE Mine[c]]
      BY <3>1, DeviceAssumption
    <3>. QED
      BY <3>2, <3>3
  <2>. QED
    BY <2>2, <2>3 DEF RefreshOld
<1>5. \A c \in N : Held(t)[c] = {}
  BY <1>1, <1>4 DEF Held
<1>. QED
  BY <1>3, <1>4, <1>5, IsWithdraw

LEMMA StepRefines ==
  ASSUME Inv, NEW t \in Thread, Step(t), UNCHANGED bmsVars
  PROVE  Pub!Next
BY ChecksRefine, ReadBundleRefines, InnerDeleteRefines, ListBundlesRefines, RefreshOldRefines,
   InnerSaveRefines DEF Step, bmsVars

-----------------------------------------------------------------------------

LEMMA BeginRefines ==
  ASSUME Inv, NEW t \in Thread, NEW k, Begin(t, k), UNCHANGED <<bms, store>>
  PROVE  Pub!Next
<1>1. /\ pc[t] = "idle" /\ UNCHANGED <<snap, todo>>
      /\ Goto(t, "list") \/ Goto(t, "check")
      /\ pc \in [Thread -> Pc]
  BY DEF Begin, Busy, Inv, TypeOK
<1>2. pc'[t] # "old" /\ \A s \in Thread \ {t} : pc'[s] = pc[s]
  BY <1>1 DEF Goto
<1>. QED
  BY <1>1, <1>2, EmptyHanded

LEMMA NextRefines == Inv /\ [Next]_vars => [Pub!Next]_(Pub!publication)
<1> SUFFICES ASSUME Inv, [Next]_vars PROVE Pub!Next \/ UNCHANGED Pub!publication
  OBVIOUS
<1>1. ASSUME NEW t \in Thread, Call(t), UNCHANGED bmsVars
      PROVE  Pub!Next
  BY <1>1, BeginRefines DEF Call, bmsVars
<1>2. ASSUME NEW d \in Device, NEW b \in Bundle, PeerSync(d, b), UNCHANGED bmsVars
      PROVE  UNCHANGED Pub!publication
  <2>1. PICK v \in Entry : store' = [store EXCEPT ![d][b] = v]
    BY <1>2, PeerEntryType
  <2>2. Mine' = Mine
    BY <1>2, <2>1, DeviceAssumption DEF PeerSync, Inv, TypeOK
  <2>. QED
    BY <1>2, <2>2 DEF PeerSync, threadVars, bmsVars, Pub!publication, Held
<1>3. ASSUME UNCHANGED storageVars
      PROVE  Pub!Next
  BY <1>3 DEF storageVars, threadVars, Held, Pub!Change, Pub!Next
<1>4. CASE UNCHANGED vars
  BY <1>3, <1>4 DEF vars
<1>. QED
  BY <1>1, <1>2, <1>3, <1>4, StepRefines DEF Next

\* DataStorage implements Publication, for any number of threads, bundles and
\* users, any number of failing calls and any order of their steps: every
\* change of an entry is the publication of a report its writer had got from
\* BMS and not yet used, or a withdrawal by a writer that holds none of it.
THEOREM ImplementsPublication == Spec => PublishesReadings
BY InitInv, NextInv, InitRefines, NextRefines, PTL DEF Spec, PublishesReadings, Pub!Spec
=============================================================================
