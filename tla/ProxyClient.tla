------------------------------ MODULE ProxyClient ------------------------------
(***************************************************************************)
(* The client library, of which a process has one object for all of its    *)
(* threads: it keeps a proxy of the d-bms of its device and drops it when  *)
(* d-bms dies.  A thread that calls a method of it goes                    *)
(*                                                                         *)
(*   idle -> enter -> check -> device -> load -> watch -> use -> idle      *)
(*                                                                         *)
(* where a thread that finds a proxy goes from enter to use, one whose     *)
(* d-bms runs from check to watch, and one that fails to idle.  From check *)
(* to watch it holds getProxyMutex_, in load dProxyMutex_ as well.         *)
(* A definition named D_X is a wrong variant of D that no specification    *)
(* uses: it serves to see the properties fail.                             *)
(*                                                                         *)
(* A proxy is the number of the incarnation of d-bms it is of, 0 is none.  *)
(***************************************************************************)
EXTENDS Naturals

CONSTANTS Thread,
          MaxDeaths   \* bound on deaths of d-bms

ASSUME DeathsAssumption == MaxDeaths \in Nat

VARIABLES pc,
          mine,     \* mine[t]: the proxy t calls a method of
          dProxy,   \* dProxy_
          isInit,   \* isInit_: the device manager is initialised
          watched,  \* the incarnations that have our death recipient
          latest,   \* d-bms: its latest incarnation
          alive,    \* whether that one runs
          unwatched,  \* history: incarnations our recipient could not be added to
          noticed   \* history: incarnations whose death has been told to us
vars == <<pc, mine, dProxy, isInit, watched, latest, alive, unwatched, noticed>>

Proxy == 0..MaxDeaths + 1
InGetter == {"check", "device", "load", "watch"}
Dead == {n \in Proxy \ {0} : n < latest \/ (n = latest /\ ~alive)}

\* Only one thread is in the getter at a time.
ClientTypeOK ==
    /\ pc \in [Thread -> InGetter \cup {"idle", "enter", "use"}]
    /\ \A t, u \in Thread : pc[t] \in InGetter /\ pc[u] \in InGetter => t = u
    /\ mine \in [Thread -> Proxy]
    /\ dProxy \in Proxy
    /\ isInit \in BOOLEAN
    /\ watched \subseteq Proxy \ {0}
    /\ latest \in Proxy
    /\ alive \in BOOLEAN
    /\ unwatched \subseteq Proxy \ {0}
    /\ noticed \subseteq Dead

Init ==
    /\ pc = [t \in Thread |-> "idle"]
    /\ mine = [t \in Thread |-> 0]
    /\ dProxy = 0
    /\ isInit = FALSE
    /\ watched = {}
    /\ latest = 0 /\ alive = FALSE
    /\ unwatched = {}
    /\ noticed = {}

-----------------------------------------------------------------------------

Goto(t, label) == pc' = [pc EXCEPT ![t] = label]

\* A method of the client is called.
Call(t) ==
    /\ pc[t] = "idle"
    /\ Goto(t, "enter")
    /\ UNCHANGED <<mine, dProxy, isInit, watched, latest, alive, unwatched, noticed>>

Enter_NoLock(t) ==
    /\ pc[t] = "enter"
    /\ IF dProxy # 0
       THEN mine' = [mine EXCEPT ![t] = dProxy] /\ Goto(t, "use")
       ELSE UNCHANGED mine /\ Goto(t, "check")
    /\ UNCHANGED <<dProxy, isInit, watched, latest, alive, unwatched, noticed>>

\* GetDistributedBundleMgrProxy begins.
Enter(t) ==
    /\ pc[t] = "enter"
    /\ \A u \in Thread : pc[u] \notin InGetter
    /\ IF dProxy # 0
       THEN mine' = [mine EXCEPT ![t] = dProxy] /\ Goto(t, "use")
       ELSE UNCHANGED mine /\ Goto(t, "check")
    /\ UNCHANGED <<dProxy, isInit, watched, latest, alive, unwatched, noticed>>

\* LoadDistributedBundleMgrService asks for a d-bms that runs.
CheckSystemAbility(t) ==
    /\ pc[t] = "check"
    /\ \/ /\ alive
          /\ dProxy' = latest
          /\ Goto(t, "watch")
       \/ /\ ~alive
          /\ Goto(t, "device")
          /\ UNCHANGED dProxy
       \/ Goto(t, "idle") /\ UNCHANGED dProxy
    /\ UNCHANGED <<mine, isInit, watched, latest, alive, unwatched, noticed>>

\* InitDeviceManager, until it has succeeded once.
InitDeviceManager == isInit' = TRUE \/ (~isInit /\ UNCHANGED isInit)

\* There is no use in a d-bms if the device is not networked.
GetTrustedDeviceList(t) ==
    /\ pc[t] = "device"
    /\ InitDeviceManager
    /\ (isInit' /\ Goto(t, "load")) \/ Goto(t, "idle")
    /\ UNCHANGED <<mine, dProxy, watched, latest, alive, unwatched, noticed>>

Load_Waits(t) ==
    /\ pc[t] = "load"
    /\ alive
    /\ dProxy' = latest
    /\ Goto(t, "watch")
    /\ UNCHANGED <<mine, isInit, watched, latest, alive, unwatched, noticed>>

\* d-bms is there within four seconds or is not.
LoadSystemAbility(t) ==
    /\ pc[t] = "load"
    /\ \/ /\ alive
          /\ dProxy' = latest
          /\ Goto(t, "watch")
       \/ Goto(t, "idle") /\ UNCHANGED dProxy
    /\ UNCHANGED <<mine, isInit, watched, latest, alive, unwatched, noticed>>

Watch_Returns(t) ==
    /\ pc[t] = "watch"
    /\ mine' = [mine EXCEPT ![t] = dProxy]
    /\ Goto(t, IF dProxy = 0 THEN "idle" ELSE "use")
    /\ UNCHANGED <<dProxy, isInit, watched, latest, alive, unwatched, noticed>>

\* A new death recipient is added to the proxy, if it is still there.  Null is
\* returned when it is not, or when it has no object or no recipient can be made,
\* and a proxy is kept then without one.  It is kept and used without one, too,
\* when the recipient is not added: the result of that call is not looked at.
AddDeathRecipient(t) ==
    /\ pc[t] = "watch"
    /\ \/ /\ dProxy # 0
          /\ \/ watched' = watched \cup {dProxy} /\ UNCHANGED unwatched
             \/ unwatched' = unwatched \cup {dProxy} /\ UNCHANGED watched
          /\ mine' = [mine EXCEPT ![t] = dProxy]
          /\ Goto(t, "use")
       \/ /\ unwatched' = unwatched \cup ({dProxy} \ {0})
          /\ Goto(t, "idle")
          /\ UNCHANGED <<mine, watched>>
    /\ UNCHANGED <<dProxy, isInit, latest, alive, noticed>>

Use_Reset(t) ==
    /\ pc[t] = "use"
    /\ mine' = [mine EXCEPT ![t] = 0]
    /\ Goto(t, "idle")
    /\ IF mine[t] \in Dead
       THEN dProxy' = 0 /\ watched' = watched \ {dProxy}
       ELSE UNCHANGED <<dProxy, watched>>
    /\ UNCHANGED <<isInit, latest, alive, unwatched, noticed>>

\* The method of the proxy returns, with an error if d-bms is dead.
Use(t) ==
    /\ pc[t] = "use"
    /\ mine' = [mine EXCEPT ![t] = 0]
    /\ Goto(t, "idle")
    /\ UNCHANGED <<dProxy, isInit, watched, latest, alive, unwatched, noticed>>

Reset_Keep(w) == watched' = w \ {dProxy} /\ UNCHANGED dProxy

\* ResetDistributedBundleMgrProxy, with the recipients that are left.
Reset(w) == watched' = w \ {dProxy} /\ dProxy' = 0

\* The death of an incarnation is told, once, to the recipient it has, as soon
\* as no thread holds dProxyMutex_.
OnRemoteDied ==
    /\ \A t \in Thread : pc[t] # "load"
    /\ \E n \in watched \cap Dead :
         /\ Reset(watched \ {n})
         /\ noticed' = noticed \cup {n}
    /\ UNCHANGED <<pc, mine, isInit, latest, alive, unwatched>>

\* d-bms is started on demand, and ends.
Start ==
    /\ ~alive /\ latest <= MaxDeaths
    /\ latest' = latest + 1 /\ alive' = TRUE
    /\ UNCHANGED <<pc, mine, dProxy, isInit, watched, unwatched, noticed>>

Die ==
    /\ alive /\ latest <= MaxDeaths
    /\ alive' = FALSE
    /\ UNCHANGED <<pc, mine, dProxy, isInit, watched, latest, unwatched, noticed>>

Get(t) == \/ Enter(t) \/ CheckSystemAbility(t) \/ GetTrustedDeviceList(t)
          \/ LoadSystemAbility(t) \/ AddDeathRecipient(t) \/ Use(t)

Next == (\E t \in Thread : Call(t) \/ Get(t)) \/ OnRemoteDied \/ Start \/ Die

Fairness == (\A t \in Thread : WF_vars(Get(t))) /\ WF_vars(OnRemoteDied)

Spec == Init /\ [][Next]_vars /\ Fairness

-----------------------------------------------------------------------------

\* A proxy that is kept has our recipient, or the thread that got it is about
\* to add one, or that was tried and failed: a recipient that cannot be made, or
\* is not added, is the only way for a proxy to stay behind unwatched
\* (distributed_bundle_mgr_client.cpp:149-171).
KeptIsWatched ==
    dProxy # 0 => dProxy \in watched \cup unwatched \/ \E t \in Thread : pc[t] = "watch"

\* A proxy whose death was told is not given out again: neither kept by the
\* reset nor set again by a getter that was under way
\* (distributed_bundle_mgr_client.cpp:137-141, 159-163).
NoticedIsGone == dProxy \notin noticed

\* The news that one incarnation died does not drop the proxy of another: the
\* recipient resets whatever is kept, and does not look at what died
\* (distributed_bundle_mgr_death_recipient.cpp:23-31).
DropsOnlyTheDead ==
    [][dProxy # 0 /\ dProxy' # dProxy => dProxy \in Dead /\ dProxy \in noticed']_vars

\* Nothing holds up the news that the kept proxy is dead, unless the recipient
\* could not be added (distributed_bundle_mgr_client.cpp:160-170): it is there,
\* and no thread waits for a d-bms to be loaded, which it does with
\* dProxyMutex_ held, while a proxy is kept; or else the thread that got the
\* proxy is about to add the recipient, and waits for nothing
\* (distributed_bundle_mgr_client.cpp:137-171, 202-208).
DeathGetsThrough ==
    dProxy \in Dead \ unwatched =>
        \/ dProxy \in watched /\ \A t \in Thread : pc[t] # "load"
        \/ \E t \in Thread : pc[t] = "watch"

\* A dead proxy is dropped, whatever the getter was about when it died, unless
\* the recipient could not be added: that one stays
\* (distributed_bundle_mgr_client.cpp:149-151, 160-170).
DeadIsDropped ==
    \A n \in Proxy \ {0} : (dProxy = n /\ n \in Dead) ~> (dProxy # n \/ n \in unwatched)
==============================================================================
