-------------------------------- MODULE Kits --------------------------------
(***************************************************************************)
(* The kits of an application over the client library: "bundleMgr" (the    *)
(* older of the JavaScript kits), "bundle" and "ani" (ArkTS).  A request   *)
(*                                                                         *)
(*   fresh -> queued -> running -> executed -> settled                     *)
(*                                                                         *)
(* is taken by the JavaScript thread, run by a worker, which is a thread   *)
(* of ProxyClient, and settled by the JavaScript thread again, through a   *)
(* callback or a promise.  A request whose arguments are refused at once,  *)
(* or that cannot be queued, is thrown back: fresh -> settled.             *)
(* The JavaScript kits copy the arguments into a record that the native    *)
(* function, the work queued and its completion hand on to one another.    *)
(* A definition named D_X is a wrong variant of D that no specification    *)
(* uses: it serves to see the properties fail.                             *)
(***************************************************************************)
EXTENDS ProxyClient, Sequences

CONSTANTS Request,    \* each is made once
          NoRequest,
          MaxSize,    \* GET_REMOTE_ABILITY_INFO_MAX_SIZE
          Input,      \* the names an application may give
          Through     \* Through[r]: the kits r may be made through

Kit == {"bundleMgr", "bundle", "ani"}
Name == {"good",    \* complete
         "blank",   \* with an empty string where there must be none
         "bad"}     \* not an object, or without one of its strings

ASSUME KitsAssumption ==
    /\ NoRequest \notin Request
    /\ MaxSize \in Nat \ {0}
    /\ Input \subseteq Seq(Name)
    /\ Through \in [Request -> SUBSET Kit]

VARIABLES stage,    \* of each request
          info,     \* its arguments and what came of it, until it is settled
          record,   \* whose its record is: the native call's, the work's, nobody's
          js,       \* the request whose native function the JS thread is in
          serves,   \* serves[t]: the request t calls the client for
          outcome   \* what the application got; broken: nothing, or half a value
kitOnly == <<stage, info, record, js, serves, outcome>>
kitVars == <<vars, kitOnly>>

Single == {s \in Input : Len(s) = 1}
\* Nothing has come of the request yet.
Given(kit, op, names) ==
    [kit |-> kit, op |-> op, names |-> names, err |-> "none", answers |-> 0]

NoInfo == Given("none", "none", <<>>)

Info == [kit : Kit \cup {"none"}, op : {"one", "many", "version", "none"}, names : Seq(Name),
         err : {"none", "argument", "failed"}, answers : Nat]

Live == {"queued", "running", "executed"}

\* A request runs on one thread, which is in the client for it.
KitTypeOK ==
    /\ stage \in [Request -> Live \cup {"fresh", "settled"}]
    /\ info \in [Request -> Info]
    /\ record \in [Request -> {"none", "call", "work", "leaked"}]
    /\ js \in Request \cup {NoRequest}
    /\ serves \in [Thread -> Request \cup {NoRequest}]
    /\ \A t \in Thread : pc[t] = "idle" <=> serves[t] = NoRequest
    /\ \A r \in Request : stage[r] = "running" <=> \E t \in Thread : serves[t] = r
    /\ \A t, u \in Thread : serves[t] = serves[u] /\ serves[t] # NoRequest => t = u
    /\ outcome \in [Request -> {"none", "thrown", "error", "value", "broken"}]

KitInit ==
    /\ Init
    /\ stage = [r \in Request |-> "fresh"]
    /\ info = [r \in Request |-> NoInfo]
    /\ record = [r \in Request |-> "none"]
    /\ js = NoRequest
    /\ serves = [t \in Thread |-> NoRequest]
    /\ outcome = [r \in Request |-> "none"]

-----------------------------------------------------------------------------

\* The JavaScript thread, which runs one function at a time.
Free == js = NoRequest

Settle(r, how) ==
    /\ stage' = [stage EXCEPT ![r] = "settled"]
    /\ outcome' = [outcome EXCEPT ![r] = how]
    /\ info' = [info EXCEPT ![r] = NoInfo]

\* The application gets an exception; the record is freed with the call or is
\* leaked.
Throw(r, left) ==
    /\ Settle(r, "thrown")
    /\ record' = [record EXCEPT ![r] = left]
    /\ UNCHANGED <<vars, js, serves>>

\* A worker may start while the native function is still on its way out.
Queue(r, i) ==
    /\ stage' = [stage EXCEPT ![r] = "queued"]
    /\ info' = [info EXCEPT ![r] = i]
    /\ record' = [record EXCEPT ![r] = IF i.kit = "ani" THEN "none" ELSE "call"]
    /\ js' = r
    /\ UNCHANGED <<vars, serves, outcome>>

Made(r, kit) == stage[r] = "fresh" /\ Free /\ kit \in Through[r]

HasBad(names) == \E i \in DOMAIN names : names[i] = "bad"

-----------------------------------------------------------------------------
(* The older JavaScript kit.  An error in the arguments is kept in the      *)
(* record, and told when the request is settled.                            *)

\* The argument after the names may be of the wrong type, too.
Parsed(i, refused) == IF refused THEN [i EXCEPT !.err = "argument"] ELSE i

ParseElementNames(names) == ~HasBad(names)

BundleMgr_GetRemoteAbilityInfo(r) ==
    /\ Made(r, "bundleMgr")
    /\ \E names \in Single, misfit \in BOOLEAN :
         Queue(r, Parsed(Given("bundleMgr", "one", names), HasBad(names) \/ misfit))
           \/ Throw(r, "none")

BundleMgr_GetRemoteAbilityInfos(r) ==
    /\ Made(r, "bundleMgr")
    /\ \E names \in Input, misfit \in BOOLEAN :
         Queue(r, Parsed(Given("bundleMgr", "many", names),
                         ~ParseElementNames(names) \/ Len(names) > MaxSize \/ misfit))
           \/ Throw(r, "none")

\* An array that is empty is refused by the worker.
InnerGetRemoteAbilityInfos(i) == Parsed(i, i.names = <<>>)

BundleMgrValue_Any(i) == i.err = "none" \/ i.answers > 0

\* Whether the completion has a value to give.
BundleMgrValue(i) == i.err = "none"

-----------------------------------------------------------------------------
(* The JavaScript kit.  An error in the arguments is thrown.                *)

Bundle_ParseElementNames(names) == names # <<>> /\ ~HasBad(names)

\* The call that is not queued has thrown, and is released all the same.
AsyncCallNativeMethod(r, i) == Queue(r, i) \/ Throw(r, "leaked")

Bundle_GetRemoteAbilityInfo(r) ==
    /\ Made(r, "bundle")
    /\ \E op \in {"one", "many"}, misfit \in BOOLEAN :
         \E names \in IF op = "one" THEN Single ELSE Input :
           IF Bundle_ParseElementNames(names) /\ Len(names) <= MaxSize /\ ~misfit
           THEN AsyncCallNativeMethod(r, Given("bundle", op, names))
           ELSE Throw(r, "none")

\* A request with a device and a bundle for its name.
Bundle_GetRemoteBundleVersionCode(r) ==
    /\ Made(r, "bundle")
    /\ \E names \in Single :
         IF ~HasBad(names)
         THEN AsyncCallNativeMethod(r, Given("bundle", "version", names))
         ELSE Throw(r, "none")

BundleValue(i) == i.err = "none" /\ i.answers > 0
VersionValue(i) == i.err = "none"

\* What the worker finds before it calls the client; of the ArkTS kit, too.
InnerGetRemoteAbilityInfo(i) == Parsed(i, i.names = <<>>)
InnerGetRemoteBundleVersionCode(i) == Parsed(i, i.names = <<"blank">>)

-----------------------------------------------------------------------------
(* The ArkTS kit.  It checks the names when it is called, and the worker    *)
(* reads them, from the objects of the application.                         *)

checkElementNames(names) == names # <<>> /\ ~HasBad(names) /\ Len(names) <= MaxSize

Ani_getRemoteAbilityInfo(r) ==
    /\ Made(r, "ani")
    /\ \E op \in {"one", "many"} : \E names \in IF op = "one" THEN Single ELSE Input :
         IF checkElementNames(names) THEN Queue(r, Given("ani", op, names))
         ELSE Throw(r, "none")

Ani_getRemoteBundleVersionCode(r) ==
    /\ Made(r, "ani")
    /\ \E names \in Single : IF ~HasBad(names) THEN Queue(r, Given("ani", "version", names))
                             ELSE Throw(r, "none")

\* The application goes on, and changes what it gave.
Modify(r) ==
    /\ Free /\ stage[r] = "queued" /\ info[r].kit = "ani" /\ info[r].op # "version"
    /\ \E names \in IF info[r].op = "one" THEN Single ELSE Input :
         info' = [info EXCEPT ![r].names = names]
    /\ UNCHANGED <<vars, stage, record, js, serves, outcome>>

\* A device that is undefined is read as an empty string.
ParseAniArray(names) == [k \in DOMAIN names |-> IF names[k] = "bad" THEN "blank" ELSE names[k]]

TooMany_Never(names) == FALSE
TooMany(names) == Len(names) > MaxSize

\* What the worker hands on, or refuses.
GetRemoteAbilityInfoInner(i) ==
    LET parsed == [i EXCEPT !.names = ParseAniArray(i.names)]
    IN  InnerGetRemoteAbilityInfo(Parsed(parsed, TooMany(parsed.names)))

AniValue(i) == i.err = "none"

-----------------------------------------------------------------------------
(* All kits.                                                                *)

Return_Frees(r) ==
    /\ js = r
    /\ js' = NoRequest
    /\ record' = [record EXCEPT ![r] = IF @ = "call" THEN "none" ELSE @]
    /\ UNCHANGED <<vars, stage, info, serves, outcome>>

\* The native function returns, having left its record to the work.
Return(r) ==
    /\ js = r
    /\ js' = NoRequest
    /\ record' = [record EXCEPT ![r] = IF @ = "call" THEN "work" ELSE @]
    /\ UNCHANGED <<vars, stage, info, serves, outcome>>

Taken(i) ==
    IF i.op = "version" THEN InnerGetRemoteBundleVersionCode(i)
    ELSE CASE i.kit = "bundleMgr" -> InnerGetRemoteAbilityInfos(i)
           [] i.kit = "bundle"    -> InnerGetRemoteAbilityInfo(i)
           [] i.kit = "ani"       -> GetRemoteAbilityInfoInner(i)

\* A worker begins, and calls the client unless there is an error already.
Execute(t, r) ==
    /\ stage[r] = "queued" /\ pc[t] = "idle"
    /\ info' = [info EXCEPT ![r] = Taken(info[r])]
    /\ IF Taken(info[r]).err = "none"
       THEN /\ Call(t)
            /\ serves' = [serves EXCEPT ![t] = r]
            /\ stage' = [stage EXCEPT ![r] = "running"]
       ELSE /\ stage' = [stage EXCEPT ![r] = "executed"]
            /\ UNCHANGED <<vars, serves>>
    /\ UNCHANGED <<record, js, outcome>>

\* The proxy answers for every name, if all are complete and the limit is
\* kept; a reply that breaks off leaves some of the answers behind, and a
\* request for one has its one place filled in any case.
Answered(t, i) ==
    \/ /\ pc[t] = "use" /\ mine[t] \notin Dead
       /\ Len(i.names) \in 1..MaxSize /\ \A k \in DOMAIN i.names : i.names[k] = "good"
       /\ info' = [info EXCEPT ![serves[t]].answers = Len(i.names)]
    \/ \E n \in IF i.op = "one" THEN {1} ELSE {k \in 0..Len(i.names) - 1 : k = 0 \/ pc[t] = "use"} :
         info' = [info EXCEPT ![serves[t]].err = "failed", ![serves[t]].answers = n]

\* The client takes its next step for a worker, or returns to it.
ClientStep(t) ==
    /\ Get(t)
    /\ IF pc'[t] = "idle"
       THEN /\ Answered(t, info[serves[t]])
            /\ stage' = [stage EXCEPT ![serves[t]] = "executed"]
            /\ serves' = [serves EXCEPT ![t] = NoRequest]
       ELSE UNCHANGED <<stage, info, serves>>
    /\ UNCHANGED <<record, js, outcome>>

\* What the application is given if the engine does as it is asked: the value
\* or the error, not both.
HasValue(i) == CASE i.kit = "ani"        -> AniValue(i)
                 [] i.kit = "bundleMgr"  -> BundleMgrValue(i)
                 [] i.kit = "bundle"     -> IF i.op = "version" THEN VersionValue(i)
                                            ELSE BundleValue(i)

Complete_Cancels(r) ==
    /\ stage[r] \in {"running", "executed"} /\ Free
    /\ Settle(r, IF HasValue(info[r]) THEN "value" ELSE "error")
    /\ record' = [record EXCEPT ![r] = IF @ = "work" THEN "none" ELSE @]
    /\ UNCHANGED <<vars, js, serves>>

\* The completions of the JavaScript kits return when a call of the engine fails,
\* having told nothing, or give an object with parts missing; the native function
\* of the ArkTS kit returns null, which is given as the value.
EngineFails(i) == i.kit = "ani" => AniValue(i) /\ i.op # "version"

\* The completion, which frees the record.
Complete(r) ==
    /\ stage[r] = "executed" /\ Free
    /\ \/ Settle(r, IF HasValue(info[r]) THEN "value" ELSE "error")
       \/ EngineFails(info[r]) /\ Settle(r, "broken")
    /\ record' = [record EXCEPT ![r] = IF @ = "work" THEN "none" ELSE @]
    /\ UNCHANGED <<vars, js, serves>>

\* d-bms and its system go on by themselves.
System == (OnRemoteDied \/ Start \/ Die) /\ UNCHANGED kitOnly

Make(r) == \/ BundleMgr_GetRemoteAbilityInfo(r) \/ BundleMgr_GetRemoteAbilityInfos(r)
           \/ Bundle_GetRemoteAbilityInfo(r) \/ Bundle_GetRemoteBundleVersionCode(r)
           \/ Ani_getRemoteAbilityInfo(r) \/ Ani_getRemoteBundleVersionCode(r)

KitNext ==
    \/ \E r \in Request : \/ Make(r) \/ Modify(r) \/ Return(r) \/ Complete(r)
                          \/ \E t \in Thread : Execute(t, r)
    \/ \E t \in Thread : ClientStep(t)
    \/ System

KitFairness ==
    /\ \A r \in Request : /\ WF_kitVars(Return(r))
                          /\ WF_kitVars(Complete(r))
                          /\ WF_kitVars(\E t \in Thread : Execute(t, r))
    /\ \A t \in Thread : WF_kitVars(ClientStep(t))
    /\ WF_kitVars(OnRemoteDied /\ UNCHANGED kitOnly)

KitSpec == KitInit /\ [][KitNext]_kitVars /\ KitFairness

-----------------------------------------------------------------------------

\* The client is asked for some names and no more than the limit, and by the
\* JavaScript kits for none that could not be read, whatever the application
\* does to its array after the kit has looked at it
\* (@ohos.bundle.distributedBundleManager.ets:49-61 checks on the caller's
\* thread, ani_distributed_bundle_manager.cpp:37-54 reads on the worker's).
AskedWithinLimits ==
    \A t \in Thread : serves[t] # NoRequest =>
        LET i == info[serves[t]]
        IN  Len(i.names) \in 1..MaxSize /\ ~HasBad(i.names) /\ i.err = "none"

\* A request is settled with a value only if there is an answer for each of
\* its names and none of them was at fault, and one that failed half way never
\* shows what it has so far, unless it is the engine that fails to make an
\* object of what has come (distributed_bundle_mgr.cpp:371-376,
\* distributed_bundle.cpp:202-214, ani_distributed_bundle_manager.cpp:56-75).
ValueIsWhole ==
    [][\A r \in Request : outcome[r] # "value" /\ outcome'[r] = "value" =>
          /\ info[r].answers = Len(info[r].names) /\ info[r].names # <<>>
          /\ \A k \in DOMAIN info[r].names : info[r].names[k] = "good"]_kitVars

\* The record of a request lives, with one owner, until its completion, and no
\* request that has been settled through its work leaves one behind
\* (distributed_bundle_mgr.cpp:392-394, distributed_bundle.cpp:268-270).
RecordLives ==
    \A r \in Request :
        /\ stage[r] \in Live /\ info[r].kit # "ani" =>
             record[r] = IF js = r THEN "call" ELSE "work"
        /\ outcome[r] \in {"error", "value", "broken"} => record[r] = "none"

\* Every request comes to its completion, with d-bms there or not, and dying or
\* not, and is settled by it.  What the application is told then is nothing at
\* all if a call of the engine fails (distributed_bundle_mgr.cpp:375-387,
\* distributed_bundle.cpp:203-226).
EveryRequestSettles == \A r \in Request : stage[r] = "queued" ~> stage[r] = "settled"
=============================================================================
