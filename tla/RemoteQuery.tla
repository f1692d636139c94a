----------------------------- MODULE RemoteQuery -----------------------------
(***************************************************************************)
(* The query path of d-bms.  A query about abilities or a bundle of a peer *)
(* goes from the caller's proxy to the d-bms of its own device and from    *)
(* there to the d-bms of the peer, which asks its own bundle manager:      *)
(*                                                                         *)
(*   idle -> proxy -> host -> acl -> send (-> resend) -> accept            *)
(*                   for each name:  check -> user -> query -> label       *)
(*                                     -> icon -> check ... -> reply       *)
(*                                                                         *)
(* From accept to reply the query runs in a binder thread of the peer,     *)
(* while bundles of the peer change, its user switches and its d-bms may   *)
(* die.  A query of stored information (stored) does not leave the device: *)
(* RemoteLookup is what answers it.                                        *)
(*                                                                         *)
(* A definition named D_X is a wrong variant of D, named for its mistake:  *)
(* no specification uses it, it serves to see the properties fail.         *)
(***************************************************************************)
EXTENDS Naturals, Sequences

CONSTANTS Caller,
          SystemApp,   \* callers VerifySystemApp accepts
          Permitted,   \* callers with GET_BUNDLE_INFO_PRIVILEGED
          Device,      \* the peers, by network id
          Ability,
          Nothing,     \* an empty device id, an empty bundle or ability name
          User,
          NoUser,      \* INVALID_USERID
          Trusted,     \* <<d, u>>: with u active, d's access control admits us
          Query,       \* the queries asked
          MaxSize,     \* GET_REMOTE_ABILITY_INFO_MAX_SIZE
          MaxChanges,  \* bound on changes of the peers' bundles and users
          MaxDeaths,   \* bound on deaths of a peer's d-bms
          MaxFaults    \* bound on failing calls

Name == [device : Device \cup {Nothing}, ability : Ability \cup {Nothing}]
Batch == {"info", "infos"}
Stored == {"bundleInfo", "bundleName"}
Op == Batch \cup Stored \cup {"version"}

ASSUME ConstantsAssumption ==
    /\ Nothing \notin Device \cup Ability
    /\ NoUser \notin User
    /\ MaxSize \in Nat \ {0}
    /\ MaxChanges \in Nat /\ MaxDeaths \in Nat /\ MaxFaults \in Nat

\* Only infos takes several names.  A query has a record of the caller for the
\* peer's access control, or comes from a d-bms that sends none with it: the
\* peer's interface lets it (hasInfo, distributed_bms_proxy.cpp:143-147).
ASSUME QueryAssumption ==
    \A q \in Query : /\ q \in [op : Op, names : Seq(Name), record : BOOLEAN]
                     /\ q.op # "infos" => Len(q.names) = 1

VARIABLES pc, ask, result,
          remote,     \* remote[r]: the incarnation of the peer's d-bms r has a handle of
          aclInfo,    \* aclInfo[r]: the record the peer gets of r, if any
          work,       \* work[r]: what the peer has of the name it is at
          done,       \* done[r]: the answers so far
          running,    \* the devices whose d-bms runs
          deaths,     \* deaths[d]: how often it died
          bundleMgr,  \* the devices whose d-bms has fetched bundleMgr_
          active,     \* active[d]: d's active user, or NoUser while one switches
          shown,      \* shown[d][u][a]: the version of a installed for u on d, 0: none
          changes, faults,
          checked,    \* history: the user active on the peer at r's last check
          users,      \* history: that user and those active there since
          facts       \* history: <<user, version>> of the ability since then

callVars == <<pc, ask, result, remote, aclInfo, work, done, checked, users, facts>>
peerVars == <<running, deaths, bundleMgr, active, shown, changes>>
vars == <<callVars, peerVars, faults>>

Version == 0..MaxChanges + 1
AtPeer == {"user", "query", "label", "icon"}
InCall == AtPeer \cup {"accept", "check", "reply"}
Pc == InCall \cup {"idle", "proxy", "host", "acl", "send", "resend", "stored"}

\* The record of a call that failed is sent blank.
AclInfo == {"none", "blank", "filled"}

NoQuery == [op |-> "none"]
NoWork == [user |-> NoUser, info |-> 0, label |-> 0]
Work == [user : User \cup {NoUser}, info : Version, label : Version]
\* An answer: the versions that its ability, label and icon were read from.
Item == [name : Name, user : User, info : Version, label : Version, icon : Version]
NoResult == [status |-> "none"]
Result == [status : {"none", "failed"}]
            \cup [status : {"ok"}, items : Seq(Item)]
            \cup [status : {"stored"}, found : BOOLEAN]

QueryTypeOK ==
    /\ pc \in [Caller -> Pc]
    /\ ask \in [Caller -> Query \cup {NoQuery}]
    /\ result \in [Caller -> Result]
    /\ remote \in [Caller -> 0..MaxDeaths]
    /\ aclInfo \in [Caller -> AclInfo]
    /\ work \in [Caller -> Work]
    /\ done \in [Caller -> Seq(Item)] /\ \A r \in Caller : Len(done[r]) <= MaxSize
    /\ running \subseteq Device /\ bundleMgr \subseteq Device
    /\ deaths \in [Device -> 0..MaxDeaths]
    /\ active \in [Device -> User \cup {NoUser}]
    /\ shown \in [Device -> [User -> [Ability -> Version]]]
    /\ changes \in 0..MaxChanges
    /\ faults \in 0..MaxFaults
    /\ checked \in [Caller -> User \cup {NoUser}]
    /\ users \in [Caller -> SUBSET (User \cup {NoUser})]
    /\ facts \in [Caller -> SUBSET (User \X Version)]

Init ==
    /\ pc = [r \in Caller |-> "idle"]
    /\ ask = [r \in Caller |-> NoQuery]
    /\ result = [r \in Caller |-> NoResult]
    /\ remote = [r \in Caller |-> 0]
    /\ aclInfo = [r \in Caller |-> "none"]
    /\ work = [r \in Caller |-> NoWork]
    /\ done = [r \in Caller |-> <<>>]
    /\ running = Device
    /\ deaths = [d \in Device |-> 0]
    /\ bundleMgr = {}
    /\ active \in [Device -> User]
    /\ shown = [d \in Device |-> [u \in User |-> [a \in Ability |-> 1]]]
    /\ changes = 0
    /\ faults = 0
    /\ checked = [r \in Caller |-> NoUser]
    /\ users = [r \in Caller |-> {}]
    /\ facts = [r \in Caller |-> {}]

-----------------------------------------------------------------------------
(* On the caller's device. *)

Peer(r) == ask[r].names[1].device
Current(r) == ask[r].names[Len(done[r]) + 1]
Fault == faults < MaxFaults /\ faults' = faults + 1
NoFault == UNCHANGED faults
FaultUnless(ok) == IF ok THEN Fault ELSE NoFault

Goto(r, label) == pc' = [pc EXCEPT ![r] = label] /\ UNCHANGED <<ask, result>>

\* The handler of the caller's d-bms is done: it writes the whole result or
\* returns an error and nothing else.
Return(r, res) ==
    /\ pc' = [pc EXCEPT ![r] = "idle"]
    /\ result' = [result EXCEPT ![r] = res]
    /\ remote' = [remote EXCEPT ![r] = 0]
    /\ aclInfo' = [aclInfo EXCEPT ![r] = "none"]
    /\ work' = [work EXCEPT ![r] = NoWork]
    /\ done' = [done EXCEPT ![r] = <<>>]
    /\ checked' = [checked EXCEPT ![r] = NoUser]
    /\ users' = [users EXCEPT ![r] = {}]
    /\ facts' = [facts EXCEPT ![r] = {}]
    /\ UNCHANGED ask

Fail(r) == Return(r, [status |-> "failed"])

\* A method of the client is called.
Ask(r) ==
    /\ pc[r] = "idle"
    /\ \E q \in Query :
         ask' = [ask EXCEPT ![r] = q]
    /\ pc' = [pc EXCEPT ![r] = "proxy"]
    /\ result' = [result EXCEPT ![r] = NoResult]
    /\ UNCHANGED <<remote, aclInfo, work, done, checked, users, facts, peerVars, faults>>

CheckElementName(n) == n.device # Nothing /\ n.ability # Nothing

Names(r) == {ask[r].names[i] : i \in DOMAIN ask[r].names}

\* GetRemoteAbilityInfo and GetRemoteAbilityInfos of the proxy of the local
\* d-bms, if it can be had and reached: one name that is not complete refuses
\* them all.
ProxyOfAbilities(r) ==
    /\ pc[r] = "proxy" /\ ask[r].op \in Batch
    /\ \/ /\ \A n \in Names(r) : CheckElementName(n)
          /\ NoFault
          /\ Goto(r, "host")
          /\ UNCHANGED <<remote, aclInfo, work, done, checked, users, facts>>
       \/ /\ FaultUnless(\A n \in Names(r) : CheckElementName(n))
          /\ Fail(r)
    /\ UNCHANGED peerVars

\* The other methods of the proxy send what they are given.
ProxyOfBundles(r) ==
    /\ pc[r] = "proxy" /\ ask[r].op \notin Batch
    /\ \/ /\ NoFault
          /\ Goto(r, IF ask[r].op \in Stored THEN "stored" ELSE "host")
          /\ UNCHANGED <<remote, aclInfo, work, done, checked, users, facts>>
       \/ Fault /\ Fail(r)
    /\ UNCHANGED peerVars

VerifySystemApp(r) == r \in SystemApp
VerifyCallingPermission(r) == r \in Permitted

\* GetDistributedBundleMgr: the first name says which device, for all of them,
\* and its d-bms must run.
Find(r, allowed) ==
    /\ IF allowed /\ VerifySystemApp(r) /\ VerifyCallingPermission(r) /\ Peer(r) \in running
       THEN /\ Goto(r, "acl")
            /\ remote' = [remote EXCEPT ![r] = deaths[Peer(r)]]
            /\ UNCHANGED <<aclInfo, work, done, checked, users, facts>>
       ELSE Fail(r)
    /\ UNCHANGED <<peerVars, faults>>

GetRemoteAbilityInfos_NoLimit(r) ==
    /\ pc[r] = "host" /\ ask[r].op \in Batch
    /\ Find(r, ask[r].names # <<>>)

\* GetRemoteAbilityInfo and GetRemoteAbilityInfos, whose handler reads the
\* names and refuses more than the limit.
GetRemoteAbilityInfos(r) ==
    /\ pc[r] = "host" /\ ask[r].op \in Batch
    /\ Find(r, Len(ask[r].names) \in 1..MaxSize)

GetRemoteBundleVersionCode(r) ==
    /\ pc[r] = "host" /\ ask[r].op = "version"
    /\ Find(r, CheckElementName(ask[r].names[1]))

\* A call that fails leaves the record blank; the query goes on with it.
BuildDistributedBmsAclInfo(r) ==
    /\ pc[r] = "acl"
    /\ Goto(r, "send")
    /\ \/ ask[r].record /\ NoFault /\ aclInfo' = [aclInfo EXCEPT ![r] = "filled"]
       \/ ask[r].record /\ Fault /\ aclInfo' = [aclInfo EXCEPT ![r] = "blank"]
       \/ ~ask[r].record /\ NoFault /\ UNCHANGED aclInfo
    /\ UNCHANGED <<remote, work, done, checked, users, facts, peerVars>>

Alive(r) == Peer(r) \in running /\ deaths[Peer(r)] = remote[r]

\* The handler a request comes to: a batch is checked once more as a whole.
Accepted(r) == IF ask[r].op = "infos" THEN "accept" ELSE "check"

\* The request for abilities is sent with the code that has a locale, which a
\* peer of an older release does not know: any peer may be one.
SendAbilities(r) ==
    /\ pc[r] = "send" /\ ask[r].op \in Batch
    /\ \/ /\ Alive(r)
          /\ NoFault
          /\ Goto(r, Accepted(r)) \/ Goto(r, "resend")
          /\ UNCHANGED <<remote, aclInfo, work, done, checked, users, facts>>
       \/ FaultUnless(Alive(r)) /\ Fail(r)
    /\ UNCHANGED peerVars

\* The request for a version has one code.
SendVersion(r) ==
    /\ pc[r] = "send" /\ ask[r].op = "version"
    /\ \/ /\ Alive(r)
          /\ NoFault
          /\ Goto(r, "check")
          /\ UNCHANGED <<remote, aclInfo, work, done, checked, users, facts>>
       \/ FaultUnless(Alive(r)) /\ Fail(r)
    /\ UNCHANGED peerVars

Resend_SameCode(r) ==
    /\ pc[r] = "resend"
    /\ IF Alive(r)
       THEN Goto(r, "send") /\ UNCHANGED <<remote, aclInfo, work, done, checked, users, facts>>
       ELSE Fail(r)
    /\ UNCHANGED <<peerVars, faults>>

\* The same data is sent with the code without a locale.
Resend(r) ==
    /\ pc[r] = "resend"
    /\ \/ /\ Alive(r)
          /\ NoFault
          /\ Goto(r, Accepted(r))
          /\ UNCHANGED <<remote, aclInfo, work, done, checked, users, facts>>
       \/ FaultUnless(Alive(r)) /\ Fail(r)
    /\ UNCHANGED peerVars

\* GetDistributedBundleInfo and GetDistributedBundleName.  The first returns
\* a bool, and the code for "permission denied", which is not 0, as it.
GetStored(r) ==
    /\ pc[r] = "stored"
    /\ \/ /\ VerifyCallingPermission(r)
          /\ Return(r, [status |-> "stored", found |-> TRUE]) \/ Fail(r)
       \/ /\ ~VerifyCallingPermission(r)
          /\ IF ask[r].op = "bundleInfo"
             THEN Return(r, [status |-> "stored", found |-> FALSE])
             ELSE Fail(r)
    /\ UNCHANGED <<peerVars, faults>>

-----------------------------------------------------------------------------
(* On the peer. *)

\* The access control of the peer, which has to have a record; the handler of
\* a version refuses a request that has none.
CheckAclData(r) == aclInfo[r] = "filled" /\ <<Peer(r), active[Peer(r)]>> \in Trusted

\* For a caller on another device the check is CheckAclData, if a record has
\* come: a request for abilities without one is let through.
VerifyCallingPermissionOrAclCheck(r) ==
    \/ ask[r].op \in Batch /\ aclInfo[r] = "none"
    \/ CheckAclData(r)

\* The check of a whole batch, before its first name.
GetAbilityInfos(r) ==
    /\ pc[r] = "accept" /\ Alive(r)
    /\ \/ /\ VerifyCallingPermissionOrAclCheck(r)
          /\ NoFault
          /\ Goto(r, "check")
          /\ UNCHANGED <<remote, aclInfo, work, done, checked, users, facts>>
       \/ FaultUnless(VerifyCallingPermissionOrAclCheck(r)) /\ Fail(r)
    /\ UNCHANGED peerVars

\* The versions of r's ability, for every user.
Installed(r) == {<<u, shown[Peer(r)][u][Current(r).ability]>> : u \in User}

Check_OnlyBatch(r) ==
    /\ pc[r] = "check" /\ Alive(r)
    /\ IF ask[r].op = "infos" \/ VerifyCallingPermissionOrAclCheck(r)
       THEN /\ Goto(r, "user")
            /\ checked' = [checked EXCEPT ![r] = active[Peer(r)]]
            /\ users' = [users EXCEPT ![r] = {active[Peer(r)]}]
            /\ facts' = [facts EXCEPT ![r] = Installed(r)]
            /\ UNCHANGED <<remote, aclInfo, work, done>>
       ELSE Fail(r)
    /\ UNCHANGED <<peerVars, faults>>

\* The check for one name, repeated for each of a batch.
Check(r) ==
    /\ pc[r] = "check" /\ Alive(r)
    /\ \/ /\ VerifyCallingPermissionOrAclCheck(r)
          /\ NoFault
          /\ Goto(r, "user")
          /\ checked' = [checked EXCEPT ![r] = active[Peer(r)]]
          /\ users' = [users EXCEPT ![r] = {active[Peer(r)]}]
          /\ facts' = [facts EXCEPT ![r] = Installed(r)]
          /\ UNCHANGED <<remote, aclInfo, work, done>>
       \/ FaultUnless(VerifyCallingPermissionOrAclCheck(r)) /\ Fail(r)
    /\ UNCHANGED peerVars

\* GetBundleMgr, which can fail as long as bundleMgr_ is not fetched, and the
\* user who is active now.
GetUser(r) ==
    /\ pc[r] = "user" /\ Alive(r)
    /\ \/ /\ active[Peer(r)] # NoUser
          /\ NoFault
          /\ bundleMgr' = bundleMgr \cup {Peer(r)}
          /\ work' = [work EXCEPT ![r].user = active[Peer(r)]]
          /\ Goto(r, "query")
          /\ UNCHANGED <<remote, aclInfo, done, checked, users, facts>>
       \/ Peer(r) \notin bundleMgr /\ Fault /\ Fail(r) /\ UNCHANGED bundleMgr
       \/ /\ FaultUnless(active[Peer(r)] # NoUser)
          /\ bundleMgr' = bundleMgr \cup {Peer(r)}
          /\ Fail(r)
    /\ UNCHANGED <<running, deaths, active, shown, changes>>

\* What the peer's BMS has of r's ability for the user of r's work.
Reading(r) == shown[Peer(r)][work[r].user][Current(r).ability]

\* The answer for the current name is complete; label and icon were read as
\* said, and the next name, or the reply, follows.
Push(r, i, l, c) ==
    /\ done' = [done EXCEPT ![r] =
                 Append(@, [name |-> Current(r), user |-> work[r].user,
                            info |-> i, label |-> l, icon |-> c])]
    /\ work' = [work EXCEPT ![r] = NoWork]
    /\ checked' = [checked EXCEPT ![r] = NoUser]
    /\ users' = [users EXCEPT ![r] = {}]
    /\ facts' = [facts EXCEPT ![r] = {}]
    /\ Goto(r, IF Len(done[r]) + 1 = Len(ask[r].names) THEN "reply" ELSE "check")

\* GetBundleVersionCode needs no more than GetApplicationInfoV9.
QueryVersion(r) ==
    /\ pc[r] = "query" /\ ask[r].op = "version" /\ Alive(r)
    /\ \/ /\ Reading(r) # 0
          /\ NoFault
          /\ Push(r, Reading(r), Reading(r), Reading(r))
          /\ UNCHANGED <<remote, aclInfo>>
       \/ FaultUnless(Reading(r) # 0) /\ Fail(r)
    /\ UNCHANGED peerVars

\* QueryAbilityInfosV9.
QueryAbility(r) ==
    /\ pc[r] = "query" /\ ask[r].op # "version" /\ Alive(r)
    /\ \/ /\ Reading(r) # 0
          /\ NoFault
          /\ work' = [work EXCEPT ![r].info = Reading(r)]
          /\ Goto(r, "label")
          /\ UNCHANGED <<remote, aclInfo, done, checked, users, facts>>
       \/ FaultUnless(Reading(r) # 0) /\ Fail(r)
    /\ UNCHANGED peerVars

\* GetStringById; an empty label is a failure.
GetLabel(r) ==
    /\ pc[r] = "label" /\ Alive(r)
    /\ \/ /\ Reading(r) # 0
          /\ NoFault
          /\ work' = [work EXCEPT ![r].label = Reading(r)]
          /\ Goto(r, "icon")
          /\ UNCHANGED <<remote, aclInfo, done, checked, users, facts>>
       \/ FaultUnless(Reading(r) # 0) /\ Fail(r)
    /\ UNCHANGED peerVars

IconOf_CurrentUser(r) ==
    IF active[Peer(r)] = NoUser THEN 0 ELSE shown[Peer(r)][active[Peer(r)]][Current(r).ability]

\* The icon is asked for with the user the ability was found for.
IconOf(r) == Reading(r)

GetAbilityIconByContent_SkipFailed(r) ==
    /\ pc[r] = "icon" /\ Alive(r)
    /\ IF IconOf(r) # 0
       THEN Push(r, work[r].info, work[r].label, IconOf(r))
       ELSE /\ Goto(r, "reply")
            /\ UNCHANGED <<done, work, checked, users, facts>>
    /\ UNCHANGED <<remote, aclInfo, peerVars, faults>>

\* GetMediaData and the encoding of what it gives; an image that is not
\* understood fails the query like a call that fails.
GetAbilityIconByContent(r) ==
    /\ pc[r] = "icon" /\ Alive(r)
    /\ \/ /\ IconOf(r) # 0
          /\ NoFault
          /\ Push(r, work[r].info, work[r].label, IconOf(r))
          /\ UNCHANGED <<remote, aclInfo>>
       \/ FaultUnless(IconOf(r) # 0) /\ Fail(r)
    /\ UNCHANGED peerVars

-----------------------------------------------------------------------------

\* The reply arrives.
Reply(r) ==
    /\ pc[r] = "reply" /\ Alive(r)
    /\ Return(r, [status |-> "ok", items |-> done[r]])
    /\ UNCHANGED <<peerVars, faults>>

\* The call ends without a reply: the peer's d-bms died, or the link did.
Lost(r) ==
    /\ pc[r] \in InCall
    /\ FaultUnless(Alive(r))
    /\ Fail(r)
    /\ UNCHANGED peerVars

Step(r) == \/ ProxyOfAbilities(r) \/ ProxyOfBundles(r)
           \/ GetRemoteAbilityInfos(r) \/ GetRemoteBundleVersionCode(r)
           \/ BuildDistributedBmsAclInfo(r) \/ SendAbilities(r) \/ SendVersion(r) \/ Resend(r)
           \/ GetStored(r)
           \/ GetAbilityInfos(r) \/ Check(r) \/ GetUser(r) \/ QueryVersion(r) \/ QueryAbility(r)
           \/ GetLabel(r) \/ GetAbilityIconByContent(r) \/ Reply(r) \/ Lost(r)

\* The queries the peer d is at work on.
At(d) == {r \in Caller : pc[r] \in AtPeer /\ Peer(r) = d}

\* An ability of d is updated, or removed, for a user.
Install(d, u, a) ==
    /\ changes < MaxChanges
    /\ changes' = changes + 1
    /\ \E v \in {0, changes' + 1} :
         /\ shown' = [shown EXCEPT ![d][u][a] = v]
         /\ facts' = [r \in Caller |-> IF r \in At(d) /\ Current(r).ability = a
                                       THEN facts[r] \cup {<<u, v>>} ELSE facts[r]]
    /\ UNCHANGED <<pc, ask, result, remote, aclInfo, work, done, checked, users,
                   running, deaths, bundleMgr, active, faults>>

\* d has no active user for a while, or another one.
SwitchUser(d, u) ==
    /\ changes < MaxChanges /\ u # active[d]
    /\ changes' = changes + 1
    /\ active' = [active EXCEPT ![d] = u]
    /\ users' = [r \in Caller |-> IF r \in At(d) THEN users[r] \cup {u} ELSE users[r]]
    /\ UNCHANGED <<pc, ask, result, remote, aclInfo, work, done, checked, facts,
                   running, deaths, bundleMgr, shown, faults>>

\* d-bms of d ends, by a crash or by being unloaded, and is started on demand.
Die(d) ==
    /\ d \in running /\ deaths[d] < MaxDeaths
    /\ running' = running \ {d}
    /\ deaths' = [deaths EXCEPT ![d] = @ + 1]
    /\ bundleMgr' = bundleMgr \ {d}
    /\ UNCHANGED <<callVars, active, shown, changes, faults>>

Start(d) ==
    /\ d \notin running
    /\ running' = running \cup {d}
    /\ UNCHANGED <<callVars, deaths, bundleMgr, active, shown, changes, faults>>

Next == \/ \E r \in Caller : Ask(r) \/ Step(r)
        \/ \E d \in Device :
             \/ \E u \in User, a \in Ability : Install(d, u, a)
             \/ \E u \in User \cup {NoUser} : SwitchUser(d, u)
             \/ Die(d) \/ Start(d)

Fairness == \A r \in Caller : WF_vars(Step(r))

Spec == Init /\ [][Next]_vars /\ Fairness

-----------------------------------------------------------------------------

\* A query for abilities that succeeds has an answer for every name asked for,
\* in the order they were asked in (GetAbilityInfos gives up at the
\* first name that fails, distributed_bms.cpp:482-488).
AllOrNothing ==
    \A r \in Caller : result[r].status = "ok" =>
        [i \in DOMAIN result[r].items |-> result[r].items[i].name] = ask[r].names

\* The answer r's query has got in this step.
Answered(r) == Len(done'[r]) > Len(done[r])
Answer(r) == done'[r][Len(done'[r])]

\* Every answer is about one user, who was active on the peer after the check,
\* and what it says of the ability, its label and its icon was installed for
\* that user at a moment since, the later read being no older (GetAbilityInfo
\* takes the user once and hands it on, distributed_bms.cpp:380-406).
AnswersOfOneUser ==
    [][\A r \in Caller : Answered(r) =>
         LET a == Answer(r) IN
         /\ a.user \in users[r]
         /\ {<<a.user, a.info>>, <<a.user, a.label>>, <<a.user, a.icon>>} \subseteq facts[r]
         /\ 0 < a.info /\ a.info <= a.label /\ a.label <= a.icon]_vars

\* When a request has come with a record, filled or blank, each of its answers
\* was given after a check of its very name, by which the peer lends the data
\* of the user it found to the caller's device; the answer is about this user
\* or one who has become active since (GetAbilityInfo checks for each name
\* anew, distributed_bms.cpp:371, 482).  A request without a record is not
\* subject to the peer's access control (distributed_bms.cpp:746).
AnswersAdmitted ==
    [][\A r \in Caller : Answered(r) /\ aclInfo[r] # "none" =>
         /\ <<Peer(r), checked[r]>> \in Trusted
         /\ {checked[r], Answer(r).user} \subseteq users[r]]_vars

\* How far a step is from the end of its name, or from the first name.
Rest(label) == CASE label = "icon" -> 0
                 [] label \in {"label", "stored"} -> 1
                 [] label = "query" -> 2
                 [] label = "user" -> 3
                 [] label \in {"check", "reply"} -> 4
                 [] label = "accept" -> 5
                 [] label = "resend" -> 6
                 [] label = "send" -> 7
                 [] label = "acl" -> 8
                 [] label = "host" -> 9
                 [] label = "proxy" -> 10

\* What r's query has before it at most, with five steps for each name.
StepsLeft(r) == IF pc[r] = "idle" THEN 0
                ELSE 5 * (Len(ask[r].names) - Len(done[r])) + Rest(pc[r])

Stage(r) == <<pc[r], ask[r], work[r], done[r]>>

\* Whatever fails, and whatever others do, every step of a query brings it
\* forward and no step of another takes it back: it ends after StepsLeft steps
\* of its own at the latest.  A request the peer does not
\* know is sent once more and not again (distributed_bms_proxy.cpp:155-160,
\* 203-208), a name that fails is not tried again (distributed_bms.cpp:482-488).
QueryAdvances ==
    [][\A r \in Caller :
         pc[r] # "idle" /\ (Step(r) \/ Stage(r)' # Stage(r)) =>
             StepsLeft(r)' < StepsLeft(r)]_vars

\* Every query ends, whatever becomes of the peer.
EveryQueryEnds == \A r \in Caller : pc[r] # "idle" ~> pc[r] = "idle"

\* A caller whose permission was found missing ("verify
\* GET_BUNDLE_INFO_PRIVILEGED failed", distributed_bms.cpp:518) is not told
\* that the query succeeded.
DeniedIsNoSuccess ==
    \A r \in Caller : result[r].status = "stored" => result[r].found
=============================================================================
