-------------------------- MODULE ProxyClient_proofs --------------------------
(* Theorems about ProxyClient, for any number of threads and deaths.        *)
EXTENDS ProxyClient, TLAPS

\* Whose proxies there are: nothing is ahead of d-bms.
KnownOK ==
    /\ alive => latest # 0
    /\ dProxy <= latest /\ \A n \in watched : n <= latest

\* At most the kept proxy is watched, and a thread that looks for a proxy has
\* found none.
KeptOK ==
    /\ watched \subseteq {dProxy}
    /\ \A t \in Thread : pc[t] \in {"check", "device", "load"} => dProxy = 0

IInv == ClientTypeOK /\ KnownOK /\ KeptOK /\ KeptIsWatched /\ NoticedIsGone

LEMMA InitIInv == Init => IInv
<1> SUFFICES ASSUME Init PROVE IInv
  OBVIOUS
<1>1. 0 \in Proxy
  BY DeathsAssumption DEF Proxy
<1>2. ClientTypeOK
  BY <1>1 DEF Init, ClientTypeOK, InGetter
<1>3. KnownOK /\ KeptOK /\ KeptIsWatched /\ NoticedIsGone
  BY DEF Init, KnownOK, KeptOK, KeptIsWatched, NoticedIsGone
<1> QED
  BY <1>2, <1>3 DEF IInv

\* Steps that touch nothing but a thread, none of which gets into the getter.
LEMMA QuietStep ==
    ASSUME IInv, NEW t \in Thread, NEW label \in {"idle", "enter", "use"}, pc[t] # "watch",
           Goto(t, label), mine' \in [Thread -> Proxy],
           isInit' \in BOOLEAN, UNCHANGED <<dProxy, watched, latest, alive, unwatched, noticed>>
    PROVE  IInv'
<1>1. /\ pc' \in [Thread -> InGetter \cup {"idle", "enter", "use"}]
      /\ \A u \in Thread : pc'[u] = IF u = t THEN label ELSE pc[u]
  BY DEF IInv, ClientTypeOK, Goto
<1>2. Dead' = Dead
  BY DEF Dead
<1>3. ClientTypeOK'
  BY <1>1, <1>2 DEF IInv, ClientTypeOK, InGetter
<1>4. KnownOK' /\ NoticedIsGone'
  BY DEF IInv, KnownOK, NoticedIsGone
<1>5. KeptOK'
  BY <1>1 DEF IInv, KeptOK
<1>6. KeptIsWatched'
  BY <1>1 DEF IInv, KeptIsWatched
<1> QED
  BY <1>3, <1>4, <1>5, <1>6 DEF IInv

\* The thread in the getter goes on, and keeps a proxy if it has found one.
LEMMA GetterStep ==
    ASSUME IInv, NEW t \in Thread, NEW label \in InGetter, pc[t] \in {"check", "device", "load"},
           Goto(t, label), isInit' \in BOOLEAN,
           \/ label # "watch" /\ UNCHANGED dProxy
           \/ label = "watch" /\ dProxy' = latest /\ alive,
           UNCHANGED <<mine, watched, latest, alive, unwatched, noticed>>
    PROVE  IInv'
<1>1. /\ pc' \in [Thread -> InGetter \cup {"idle", "enter", "use"}]
      /\ \A u \in Thread : pc'[u] = IF u = t THEN label ELSE pc[u]
  BY DEF IInv, ClientTypeOK, Goto
<1>2. Dead' = Dead
  BY DEF Dead
<1>3. \A u \in Thread : u # t => pc[u] \notin InGetter
  BY DEF IInv, ClientTypeOK, InGetter
<1>4. dProxy = 0 /\ watched = {}
  BY DEF IInv, ClientTypeOK, KeptOK
<1>5. latest \in Proxy /\ (alive => latest \notin noticed)
  BY DeathsAssumption DEF IInv, ClientTypeOK, Dead, Proxy
<1>6. ClientTypeOK'
  BY <1>1, <1>2, <1>3, <1>5 DEF IInv, ClientTypeOK, InGetter
<1>7. KnownOK' /\ NoticedIsGone'
  BY <1>4, <1>5 DEF IInv, KnownOK, NoticedIsGone, Proxy
<1>8. KeptOK'
  BY <1>1, <1>3, <1>4 DEF KeptOK, InGetter
<1>9. KeptIsWatched'
  BY <1>1, <1>4 DEF KeptIsWatched
<1> QED
  BY <1>6, <1>7, <1>8, <1>9 DEF IInv

LEMMA StepIInv == IInv /\ [Next]_vars => IInv'
<1> SUFFICES ASSUME IInv, [Next]_vars
             PROVE  IInv'
  OBVIOUS
<1>0. ClientTypeOK /\ KnownOK /\ KeptOK /\ KeptIsWatched /\ NoticedIsGone
  BY DEF IInv
<1>1. ASSUME NEW t \in Thread, Call(t) PROVE IInv'
  BY <1>0, <1>1, QuietStep DEF Call, ClientTypeOK
<1>2. ASSUME NEW t \in Thread, Enter(t) PROVE IInv'
  <2>1. CASE dProxy # 0
    BY <1>0, <1>2, <2>1, QuietStep DEF Enter, ClientTypeOK
  <2>2. CASE dProxy = 0
    <3>1. /\ Goto(t, "check")
          /\ UNCHANGED <<mine, dProxy, isInit, watched, latest, alive, unwatched, noticed>>
          /\ \A u \in Thread : pc[u] \notin InGetter
      BY <1>2, <2>2 DEF Enter
    <3>2. /\ pc' \in [Thread -> InGetter \cup {"idle", "enter", "use"}]
          /\ \A u \in Thread : pc'[u] = IF u = t THEN "check" ELSE pc[u]
      BY <1>0, <3>1 DEF ClientTypeOK, Goto, InGetter
    <3>3. Dead' = Dead
      BY <3>1 DEF Dead
    <3>4. ClientTypeOK'
      BY <1>0, <3>1, <3>2, <3>3 DEF ClientTypeOK
    <3>5. KnownOK' /\ KeptOK' /\ KeptIsWatched' /\ NoticedIsGone'
      BY <1>0, <2>2, <3>1, <3>2 DEF KnownOK, KeptOK, KeptIsWatched, NoticedIsGone
    <3> QED
      BY <3>4, <3>5 DEF IInv
  <2> QED
    BY <2>1, <2>2
<1>3. ASSUME NEW t \in Thread, CheckSystemAbility(t) PROVE IInv'
  <2>1. pc[t] = "check" /\ UNCHANGED <<mine, isInit, watched, latest, alive, unwatched, noticed>>
        /\ isInit' \in BOOLEAN /\ mine' \in [Thread -> Proxy]
    BY <1>0, <1>3 DEF CheckSystemAbility, ClientTypeOK
  <2>2. CASE Goto(t, "idle") /\ UNCHANGED dProxy
    BY <1>0, <2>1, <2>2, QuietStep
  <2>3. CASE ~(Goto(t, "idle") /\ UNCHANGED dProxy)
    <3>1. \/ Goto(t, "watch") /\ dProxy' = latest /\ alive
          \/ Goto(t, "device") /\ UNCHANGED dProxy
      BY <1>3, <2>3 DEF CheckSystemAbility
    <3> QED
      BY <2>1, <3>1, GetterStep DEF InGetter
  <2> QED
    BY <2>2, <2>3
<1>4. ASSUME NEW t \in Thread, GetTrustedDeviceList(t) PROVE IInv'
  <2>1. pc[t] = "device" /\ UNCHANGED <<mine, dProxy, watched, latest, alive, unwatched, noticed>>
        /\ isInit' \in BOOLEAN /\ mine' \in [Thread -> Proxy]
    BY <1>0, <1>4 DEF GetTrustedDeviceList, InitDeviceManager, ClientTypeOK
  <2>2. Goto(t, "load") \/ Goto(t, "idle")
    BY <1>4 DEF GetTrustedDeviceList
  <2> QED
    BY <2>1, <2>2, QuietStep, GetterStep DEF InGetter
<1>5. ASSUME NEW t \in Thread, LoadSystemAbility(t) PROVE IInv'
  <2>1. pc[t] = "load" /\ UNCHANGED <<mine, isInit, watched, latest, alive, unwatched, noticed>>
        /\ isInit' \in BOOLEAN /\ mine' \in [Thread -> Proxy]
    BY <1>0, <1>5 DEF LoadSystemAbility, ClientTypeOK
  <2>2. \/ Goto(t, "watch") /\ dProxy' = latest /\ alive
        \/ Goto(t, "idle") /\ UNCHANGED dProxy
    BY <1>5 DEF LoadSystemAbility
  <2> QED
    BY <2>1, <2>2, QuietStep, GetterStep DEF InGetter
<1>6. ASSUME NEW t \in Thread, AddDeathRecipient(t) PROVE IInv'
  <2>1. PICK label \in {"idle", "use"} : Goto(t, label)
    BY <1>6 DEF AddDeathRecipient
  <2>2. /\ pc' \in [Thread -> InGetter \cup {"idle", "enter", "use"}]
        /\ \A u \in Thread : pc'[u] = IF u = t THEN label ELSE pc[u]
    BY <1>0, <2>1 DEF ClientTypeOK, Goto
  <2>3. /\ pc[t] = "watch" /\ mine' \in [Thread -> Proxy]
        /\ \/ dProxy # 0 /\ watched' = watched \cup {dProxy} /\ UNCHANGED unwatched
           \/ watched' = watched /\ unwatched' = unwatched \cup ({dProxy} \ {0})
        /\ UNCHANGED <<dProxy, isInit, latest, alive, noticed>>
    BY <1>0, <1>6 DEF AddDeathRecipient, ClientTypeOK
  <2>4. Dead' = Dead
    BY <2>3 DEF Dead
  <2>5. ClientTypeOK'
    BY <1>0, <2>2, <2>3, <2>4 DEF ClientTypeOK, InGetter
  <2>6. KnownOK' /\ NoticedIsGone'
    BY <1>0, <2>3 DEF KnownOK, NoticedIsGone
  <2>7. KeptOK' /\ KeptIsWatched'
    BY <1>0, <2>2, <2>3 DEF KeptOK, KeptIsWatched
  <2> QED
    BY <2>5, <2>6, <2>7 DEF IInv
<1>7. ASSUME NEW t \in Thread, Use(t) PROVE IInv'
  <2>1. 0 \in Proxy
    BY DeathsAssumption DEF Proxy
  <2>2. mine' \in [Thread -> Proxy] /\ isInit' \in BOOLEAN
    BY <1>0, <1>7, <2>1 DEF Use, ClientTypeOK
  <2> QED
    BY <1>7, <2>2, QuietStep DEF Use
<1>8. CASE OnRemoteDied
  <2>1. PICK n \in watched \cap Dead : Reset(watched \ {n}) /\ noticed' = noticed \cup {n}
    BY <1>8 DEF OnRemoteDied
  <2>2. UNCHANGED <<pc, mine, isInit, latest, alive, unwatched>> /\ Dead' = Dead
    BY <1>8 DEF OnRemoteDied, Dead
  <2>3. dProxy' = 0 /\ watched' = {}
    BY <1>0, <2>1 DEF Reset, KeptOK
  <2>4. 0 \notin Dead
    BY DEF Dead
  <2>5. ClientTypeOK'
    BY <1>0, <2>1, <2>2, <2>3, DeathsAssumption DEF ClientTypeOK, Proxy
  <2>6. KnownOK'
    BY <1>0, <2>2, <2>3, DeathsAssumption DEF KnownOK, ClientTypeOK, Proxy
  <2>7. KeptOK' /\ KeptIsWatched'
    BY <2>2, <2>3 DEF KeptOK, KeptIsWatched
  <2>8. NoticedIsGone'
    BY <1>0, <2>1, <2>3, <2>4 DEF NoticedIsGone, ClientTypeOK
  <2> QED
    BY <2>5, <2>6, <2>7, <2>8 DEF IInv
<1>9. CASE Start \/ Die
  <2>1. /\ UNCHANGED <<pc, mine, dProxy, isInit, watched, unwatched, noticed>>
        /\ latest' \in Proxy /\ alive' \in BOOLEAN /\ latest <= latest' /\ latest' # 0
        /\ (latest' = latest => ~alive')
        /\ (latest' # latest => ~alive)
    <3>1. CASE Start
      <4>1. /\ UNCHANGED <<pc, mine, dProxy, isInit, watched, unwatched, noticed>>
            /\ ~alive /\ alive' = TRUE /\ latest' = latest + 1
        BY <3>1 DEF Start
      <4>2. latest \in Proxy /\ latest <= MaxDeaths /\ (alive => latest # 0)
        BY <1>0, <3>1 DEF Start, ClientTypeOK, KnownOK
      <4> QED
        BY <4>1, <4>2, DeathsAssumption DEF Proxy
    <3>2. CASE Die
      <4>1. /\ UNCHANGED <<pc, mine, dProxy, isInit, watched, unwatched, noticed>>
            /\ alive /\ ~alive' /\ alive' \in BOOLEAN /\ latest' = latest
        BY <3>2 DEF Die
      <4>2. latest \in Proxy /\ latest <= MaxDeaths /\ (alive => latest # 0)
        BY <1>0, <3>2 DEF Die, ClientTypeOK, KnownOK
      <4> QED
        BY <4>1, <4>2, DeathsAssumption DEF Proxy
    <3> QED
      BY <1>9, <3>1, <3>2
  <2>2. Dead \subseteq Dead'
    BY <1>0, <2>1, DeathsAssumption DEF Dead, ClientTypeOK, Proxy
  <2>3. ClientTypeOK'
    BY <1>0, <2>1, <2>2 DEF ClientTypeOK
  <2>4. KnownOK'
    BY <1>0, <2>1, DeathsAssumption DEF KnownOK, ClientTypeOK, Proxy
  <2>5. KeptOK' /\ KeptIsWatched' /\ NoticedIsGone'
    BY <1>0, <2>1 DEF KeptOK, KeptIsWatched, NoticedIsGone
  <2> QED
    BY <2>3, <2>4, <2>5 DEF IInv
<1>10. CASE UNCHANGED vars
  BY <1>0, <1>10
     DEF vars, IInv, ClientTypeOK, KnownOK, KeptOK, KeptIsWatched, NoticedIsGone, Dead
<1> QED
  BY <1>1, <1>2, <1>3, <1>4, <1>5, <1>6, <1>7, <1>8, <1>9, <1>10 DEF Next, Get

LEMMA Invariant == Spec => []IInv
<1> QED
  BY InitIInv, StepIInv, PTL DEF Spec

-----------------------------------------------------------------------------

\* Every reachable state of the client is well typed, and at most one thread
\* is in the getter.
THEOREM ClientTypeCorrect == Spec => []ClientTypeOK
<1>1. IInv => ClientTypeOK
  BY DEF IInv
<1> QED
  BY <1>1, Invariant, PTL

\* No proxy is kept that has not our recipient, but for the moment before the
\* thread that got it tries to add one, and for a proxy with which it failed.
THEOREM KeptWatched == Spec => []KeptIsWatched
<1>1. IInv => KeptIsWatched
  BY DEF IInv
<1> QED
  BY <1>1, Invariant, PTL

\* A proxy whose death was told is never kept again.
THEOREM NoticedGone == Spec => []NoticedIsGone
<1>1. IInv => NoticedIsGone
  BY DEF IInv
<1> QED
  BY <1>1, Invariant, PTL

LEMMA GetsThrough == IInv => DeathGetsThrough
<1> SUFFICES ASSUME IInv, dProxy \in Dead \ unwatched, \A t \in Thread : pc[t] # "watch"
             PROVE  dProxy \in watched /\ \A t \in Thread : pc[t] # "load"
  BY DEF DeathGetsThrough
<1>1. dProxy # 0
  BY DEF Dead
<1> QED
  BY <1>1 DEF IInv, KeptIsWatched, KeptOK

\* The recipient of a kept proxy, if it could be added, can be told of its death
\* as soon as the thread that got the proxy is out of the getter: no thread
\* holds the mutex it needs while it waits for d-bms.
THEOREM NoDeathHeldUp == Spec => []DeathGetsThrough
BY GetsThrough, Invariant, PTL

\* All that drops the proxy is its own death.
LEMMA StepDrops ==
  IInv /\ [Next]_vars =>
    [dProxy # 0 /\ dProxy' # dProxy => dProxy \in Dead /\ dProxy \in noticed']_vars
<1> SUFFICES ASSUME IInv, [Next]_vars, dProxy # 0, dProxy' # dProxy
             PROVE  dProxy \in Dead /\ dProxy \in noticed'
  BY DEF vars
<1>1. ASSUME NEW t \in Thread PROVE ~CheckSystemAbility(t) /\ ~LoadSystemAbility(t)
  BY DEF IInv, KeptOK, CheckSystemAbility, LoadSystemAbility
<1>2. OnRemoteDied
  BY <1>1 DEF Next, Get, Call, Enter, GetTrustedDeviceList, AddDeathRecipient, Use, Start, Die, vars
<1>3. PICK n \in watched \cap Dead : noticed' = noticed \cup {n}
  BY <1>2 DEF OnRemoteDied
<1>4. n = dProxy
  BY <1>3 DEF IInv, KeptOK
<1> QED
  BY <1>3, <1>4

\* The news of one death never drops the proxy of another incarnation: what
\* is watched is what is kept, so what died is what is dropped
\* (distributed_bundle_mgr_death_recipient.cpp:23-31).
THEOREM OnlyTheDeadDropped == Spec => DropsOnlyTheDead
BY StepDrops, Invariant, PTL DEF Spec, DropsOnlyTheDead
=============================================================================
