--------------------------- MODULE BundleManager ---------------------------
(***************************************************************************)
(* What d-bms sees of its two neighbours on the device, both outside the   *)
(* repository: the bundle manager service, which says what is installed    *)
(* for each user, and the account service, which says which user is        *)
(* active.  A change of either is one step; the common event that tells of *)
(* it is the parameter the step is given to and is delivered, or not, by   *)
(* the module that composes this one with the service.                     *)
(*                                                                         *)
(* A bundle's description is abstracted to what the properties tell apart: *)
(* updateTime, on which UpdateDistributedData decides, one attribute       *)
(* (enabled) that changes without it, and accessTokenId (token), which     *)
(* tells the installations for different users apart and is given as the   *)
(* user installed for.  clock counts the changes, so updateTime is unique  *)
(* to an installation, and is bounded by MaxTime.                          *)
(***************************************************************************)
EXTENDS Naturals

CONSTANTS Bundle,      \* bundle names
          Singleton,   \* the bundles installed once, for user 0
          User,        \* the users that can be active
          StartUser,   \* Constants::START_USERID, 100
          SystemUser,  \* user 0, in whose name events on singletons arrive
          NoUser,      \* Constants::INVALID_USERID
          NoInfo,      \* no description: not installed, or no entry
          MaxTime      \* bound on the number of changes

ASSUME BundleAssumption == Singleton \subseteq Bundle
ASSUME UserAssumption == /\ StartUser \in User
                         /\ SystemUser \notin User
                         /\ NoUser \notin User \cup {SystemUser}
ASSUME TimeAssumption == MaxTime \in Nat

VARIABLES bms,         \* bms[u][b]: what GetBundleInfoV9 reports of b for user u
          activeUser,  \* the user GetCurrentActiveUserId returns
          clock        \* the number of changes so far

bmsVars == <<bms, activeUser, clock>>

AnyUser == User \cup {SystemUser}

Info == [time : 1..MaxTime, enabled : BOOLEAN, token : AnyUser]
ASSUME InfoAssumption == NoInfo \notin Info

NoBundles == [b \in Bundle |-> NoInfo]

\* The users whose installation a change made for u is seen by: a singleton
\* is one installation that every user sees.
Affected(b, u) == IF b \in Singleton THEN User ELSE {u}

\* The user id an event about b carries when the change was made for u.
EventUser(b, u) == IF b \in Singleton THEN SystemUser ELSE u

SetInfo(b, u, i) ==
    bms' = [v \in User |-> IF v \in Affected(b, u)
                           THEN [bms[v] EXCEPT ![b] = i] ELSE bms[v]]

Tick == clock < MaxTime /\ clock' = clock + 1

BundleManagerTypeOK ==
    /\ bms \in [User -> [Bundle -> Info \cup {NoInfo}]]
    /\ activeUser \in User \cup {NoUser}
    /\ clock \in 0..MaxTime

BundleManagerInit ==
    /\ bms = [u \in User |-> NoBundles]
    /\ activeUser \in {StartUser, NoUser}
    /\ clock = 0

\* b is installed or updated for u: PACKAGE_ADDED.
Install(b, u) ==
    /\ Tick
    /\ SetInfo(b, u, [time |-> clock + 1, enabled |-> TRUE, token |-> EventUser(b, u)])
    /\ UNCHANGED activeUser

\* b is enabled or disabled for u; updateTime stays: PACKAGE_CHANGED.
Toggle(b, u) ==
    /\ Tick
    /\ bms[u][b] # NoInfo
    /\ SetInfo(b, u, [bms[u][b] EXCEPT !.enabled = ~@])
    /\ UNCHANGED activeUser

\* b is uninstalled for u: PACKAGE_REMOVED.
Uninstall(b, u) ==
    /\ Tick
    /\ bms[u][b] # NoInfo
    /\ SetInfo(b, u, NoInfo)
    /\ UNCHANGED activeUser

\* u becomes the active user: USER_SWITCHED, with u as its code.
SwitchUser(u) ==
    /\ Tick
    /\ u # activeUser
    /\ activeUser' = u
    /\ UNCHANGED bms
=============================================================================
