----------------------------- MODULE Kits_proofs -----------------------------
(***************************************************************************)
(* Proofs about Kits.  The kits' steps are steps of the client or leave it *)
(* alone, so its invariant IInv holds of them; to it KitInv adds what is   *)
(* known of a request at each of its stages.                               *)
(***************************************************************************)
EXTENDS Kits, ProxyClient_proofs

AllGood(names) == \A k \in DOMAIN names : names[k] = "good"

\* What the native function has made sure of: the ArkTS kit of nothing that
\* the application cannot change.
Checked(i) ==
    /\ i.kit \in Kit /\ i.op \in {"one", "many", "version"} /\ i.answers = 0
    /\ i.op # "many" => Len(i.names) = 1
    /\ i.op = "version" => ~HasBad(i.names) /\ i.kit # "bundleMgr"
    /\ i.kit # "ani" /\ i.err = "none" => ~HasBad(i.names) /\ Len(i.names) <= MaxSize

\* What is asked of the client.
Asked(i) ==
    /\ i.kit \in Kit /\ i.op \in {"one", "many", "version"} /\ i.err = "none"
    /\ i.op = "one" => Len(i.names) = 1
    /\ Len(i.names) \in 1..MaxSize
    /\ ~HasBad(i.names)

\* What the completion is given.
Finished(i) ==
    /\ i.kit \in Kit
    /\ i.err = "none" => /\ i.answers = Len(i.names) /\ i.names # <<>>
                         /\ AllGood(i.names)

RequestOK(r) ==
    /\ stage[r] = "queued" => Checked(info[r])
    /\ stage[r] = "running" => Asked(info[r])
    /\ stage[r] = "executed" => Finished(info[r])
    /\ stage[r] \in Live =>
         record[r] = IF info[r].kit = "ani" THEN "none" ELSE IF js = r THEN "call" ELSE "work"
    /\ js = r => stage[r] \in Live
    /\ outcome[r] # "none" => stage[r] = "settled"
    /\ outcome[r] \in {"error", "value", "broken"} => record[r] = "none"

KitInv == IInv /\ KitTypeOK /\ \A r \in Request : RequestOK(r)

LEMMA KitInitInv == KitInit => KitInv
<1> SUFFICES ASSUME KitInit PROVE KitInv
  OBVIOUS
<1>1. IInv
  BY InitIInv DEF KitInit
<1>2. KitTypeOK
  BY KitsAssumption DEF KitInit, Init, KitTypeOK, NoInfo, Given, Info
<1>3. \A r \in Request : RequestOK(r)
  BY KitsAssumption DEF KitInit, RequestOK, Live
<1> QED
  BY <1>1, <1>2, <1>3 DEF KitInv

-----------------------------------------------------------------------------

\* A step of the client for one thread, and what it does to pc.
LEMMA GetIsOnesOwn ==
    ASSUME ClientTypeOK, NEW t \in Thread, Get(t)
    PROVE  /\ pc[t] # "idle"
           /\ \A u \in Thread : u # t => pc'[u] = pc[u]
BY DEF Get, Enter, CheckSystemAbility, GetTrustedDeviceList, LoadSystemAbility,
       AddDeathRecipient, Use, Goto, ClientTypeOK, InGetter

\* The requests a step leaves alone, while js stays or turns from one of them
\* that is not on it.
LEMMA OthersKept ==
    ASSUME KitInv, NEW r \in Request,
           \A q \in Request \ {r} : /\ stage'[q] = stage[q] /\ info'[q] = info[q]
                                    /\ record'[q] = record[q] /\ outcome'[q] = outcome[q]
                                    /\ js' = q <=> js = q
    PROVE  \A q \in Request \ {r} : RequestOK(q)'
BY DEF KitInv, RequestOK, Checked, Asked, Finished, HasBad, AllGood, Live

LEMMA SettleStep ==
    ASSUME KitInv, NEW r \in Request, NEW how \in {"thrown", "error", "value", "broken"},
           Settle(r, how), js # r, stage[r] # "running",
           NEW left \in {"none", "leaked"}, record' = [record EXCEPT ![r] = left],
           how # "thrown" => left = "none",
           UNCHANGED <<vars, js, serves>>
    PROVE  KitInv'
<1>1. /\ stage'[r] = "settled" /\ outcome'[r] = how /\ record'[r] = left /\ info'[r] = NoInfo
      /\ \A q \in Request \ {r} : /\ stage'[q] = stage[q] /\ info'[q] = info[q]
                                  /\ record'[q] = record[q] /\ outcome'[q] = outcome[q]
  BY DEF KitInv, KitTypeOK, Settle
<1>2. IInv'
  BY StepIInv DEF KitInv
<1>3. KitTypeOK'
  <2>1. NoInfo \in Info
    BY DEF NoInfo, Given, Info
  <2> QED
    BY <1>1, <2>1 DEF KitInv, KitTypeOK, Settle, vars, Live
<1>4. RequestOK(r)'
  BY <1>1 DEF RequestOK, Live
<1> QED
  BY <1>1, <1>2, <1>3, <1>4, OthersKept DEF KitInv

LEMMA QueueStep ==
    ASSUME KitInv, NEW r \in Request, stage[r] = "fresh", js = NoRequest,
           NEW i \in Info,
           Checked(i), Queue(r, i)
    PROVE  KitInv'
<1>1. /\ stage'[r] = "queued" /\ info'[r] = i
      /\ record'[r] = IF i.kit = "ani" THEN "none" ELSE "call"
      /\ js' = r /\ outcome'[r] = outcome[r]
      /\ \A q \in Request \ {r} : /\ stage'[q] = stage[q] /\ info'[q] = info[q]
                                  /\ record'[q] = record[q] /\ outcome'[q] = outcome[q]
                                  /\ js' = q <=> js = q
  BY KitsAssumption DEF KitInv, KitTypeOK, Queue
<1>2. IInv'
  BY StepIInv DEF KitInv, Queue
<1>3. KitTypeOK'
  BY <1>1 DEF KitInv, KitTypeOK, Queue, vars, Live
<1>4. RequestOK(r)'
  <2>1. outcome[r] = "none"
    BY DEF KitInv, RequestOK, KitTypeOK
  <2> QED
    BY <1>1, <2>1 DEF RequestOK, Live, Checked, HasBad
<1> QED
  BY <1>1, <1>2, <1>3, <1>4, OthersKept DEF KitInv

LEMMA ThrowStep ==
    ASSUME KitInv, NEW r \in Request, stage[r] = "fresh", js = NoRequest,
           NEW left \in {"none", "leaked"}, Throw(r, left)
    PROVE  KitInv'
BY KitsAssumption, SettleStep DEF Throw

-----------------------------------------------------------------------------
(* One lemma for each kit: what it queues has been checked.                 *)

LEMMA BundleMgrStep ==
    ASSUME KitInv, NEW r \in Request,
           BundleMgr_GetRemoteAbilityInfo(r) \/ BundleMgr_GetRemoteAbilityInfos(r)
    PROVE  KitInv'
<1>1. stage[r] = "fresh" /\ js = NoRequest
  BY DEF BundleMgr_GetRemoteAbilityInfo, BundleMgr_GetRemoteAbilityInfos, Made, Free
<1>2. ASSUME NEW op \in {"one", "many"}, NEW names \in Input, op = "one" => Len(names) = 1,
             NEW refused \in BOOLEAN,
             ~refused => ~HasBad(names) /\ Len(names) <= MaxSize,
             Queue(r, Parsed(Given("bundleMgr", op, names), refused))
      PROVE  KitInv'
  <2> DEFINE i == [kit |-> "bundleMgr", op |-> op, names |-> names,
                   err |-> IF refused THEN "argument" ELSE "none", answers |-> 0]
  <2>1. Parsed(Given("bundleMgr", op, names), refused) = i
    BY DEF Given, Parsed
  <2>2. names \in Seq(Name)
    BY KitsAssumption
  <2>3. i \in Info
    BY <2>2 DEF Kit, Info
  <2>4. Checked(i)
    BY <1>2 DEF Checked, Kit
  <2> HIDE DEF i
  <2> QED
    BY <1>1, <1>2, <2>1, <2>3, <2>4, QueueStep
<1>3. CASE BundleMgr_GetRemoteAbilityInfo(r)
  <2>1. PICK names \in Single, misfit \in BOOLEAN :
          \/ Queue(r, Parsed(Given("bundleMgr", "one", names), HasBad(names) \/ misfit))
          \/ Throw(r, "none")
    BY <1>3 DEF BundleMgr_GetRemoteAbilityInfo
  <2>2. names \in Input /\ Len(names) = 1 /\ (HasBad(names) \/ misfit) \in BOOLEAN
    BY DEF Single, HasBad
  <2>3. 1 <= MaxSize
    BY KitsAssumption
  <2> QED
    BY <1>1, <1>2, <2>1, <2>2, <2>3, ThrowStep
<1>4. CASE BundleMgr_GetRemoteAbilityInfos(r)
  <2>1. PICK names \in Input, misfit \in BOOLEAN :
          \/ Queue(r, Parsed(Given("bundleMgr", "many", names),
                             ~ParseElementNames(names) \/ Len(names) > MaxSize \/ misfit))
          \/ Throw(r, "none")
    BY <1>4 DEF BundleMgr_GetRemoteAbilityInfos
  <2> DEFINE refused == ~ParseElementNames(names) \/ Len(names) > MaxSize \/ misfit
  <2>2. refused \in BOOLEAN
    BY DEF ParseElementNames, HasBad
  <2>3. ~refused => ~HasBad(names) /\ Len(names) <= MaxSize
    <3>1. names \in Seq(Name) /\ MaxSize \in Nat
      BY KitsAssumption
    <3> QED
      BY <3>1 DEF ParseElementNames
  <2>4. Queue(r, Parsed(Given("bundleMgr", "many", names), refused)) \/ Throw(r, "none")
    BY <2>1
  <2> HIDE DEF refused
  <2> QED
    BY <1>1, <1>2, <2>2, <2>3, <2>4, ThrowStep
<1> QED
  BY <1>3, <1>4

\* The other kits queue only what has no error yet.
LEMMA GivenStep ==
    ASSUME KitInv, NEW r \in Request, stage[r] = "fresh", js = NoRequest,
           NEW kit \in Kit, NEW op \in {"one", "many", "version"}, NEW names \in Input,
           op # "many" => Len(names) = 1, op = "version" => kit # "bundleMgr",
           ~HasBad(names), Len(names) <= MaxSize,
           Queue(r, Given(kit, op, names))
    PROVE  KitInv'
<1> DEFINE i == [kit |-> kit, op |-> op, names |-> names, err |-> "none", answers |-> 0]
<1>1. Given(kit, op, names) = i
  BY DEF Given
<1>2. names \in Seq(Name)
  BY KitsAssumption
<1>3. i \in Info
  BY <1>2 DEF Info
<1>4. Checked(i)
  BY DEF Checked
<1> HIDE DEF i
<1> QED
  BY <1>1, <1>3, <1>4, QueueStep

LEMMA BundleStep ==
    ASSUME KitInv, NEW r \in Request,
           Bundle_GetRemoteAbilityInfo(r) \/ Bundle_GetRemoteBundleVersionCode(r)
    PROVE  KitInv'
<1>1. stage[r] = "fresh" /\ js = NoRequest
  BY DEF Bundle_GetRemoteAbilityInfo, Bundle_GetRemoteBundleVersionCode, Made, Free
<1>2. CASE Bundle_GetRemoteAbilityInfo(r)
  <2>1. PICK op \in {"one", "many"}, misfit \in BOOLEAN :
          \E names \in IF op = "one" THEN Single ELSE Input :
            IF Bundle_ParseElementNames(names) /\ Len(names) <= MaxSize /\ ~misfit
            THEN AsyncCallNativeMethod(r, Given("bundle", op, names))
            ELSE Throw(r, "none")
    BY <1>2 DEF Bundle_GetRemoteAbilityInfo
  <2>2. PICK names \in IF op = "one" THEN Single ELSE Input :
            IF Bundle_ParseElementNames(names) /\ Len(names) <= MaxSize /\ ~misfit
            THEN AsyncCallNativeMethod(r, Given("bundle", op, names))
            ELSE Throw(r, "none")
    BY <2>1
  <2>3. names \in Input /\ (op = "one" => Len(names) = 1)
    BY DEF Single
  <2> QED
    BY <1>1, <2>2, <2>3, GivenStep, ThrowStep
       DEF Bundle_ParseElementNames, AsyncCallNativeMethod, Kit
<1>3. CASE Bundle_GetRemoteBundleVersionCode(r)
  <2>1. PICK names \in Single : IF ~HasBad(names)
                                THEN AsyncCallNativeMethod(r, Given("bundle", "version", names))
                                ELSE Throw(r, "none")
    BY <1>3 DEF Bundle_GetRemoteBundleVersionCode
  <2>2. names \in Input /\ Len(names) = 1
    BY DEF Single
  <2>3. 1 <= MaxSize
    BY KitsAssumption
  <2> QED
    BY <1>1, <2>1, <2>2, <2>3, GivenStep, ThrowStep DEF AsyncCallNativeMethod, Kit
<1> QED
  BY <1>2, <1>3

LEMMA AniStep ==
    ASSUME KitInv, NEW r \in Request,
           Ani_getRemoteAbilityInfo(r) \/ Ani_getRemoteBundleVersionCode(r)
    PROVE  KitInv'
<1>1. stage[r] = "fresh" /\ js = NoRequest
  BY DEF Ani_getRemoteAbilityInfo, Ani_getRemoteBundleVersionCode, Made, Free
<1>2. CASE Ani_getRemoteAbilityInfo(r)
  <2>1. PICK op \in {"one", "many"} :
          \E names \in IF op = "one" THEN Single ELSE Input :
            IF checkElementNames(names) THEN Queue(r, Given("ani", op, names))
            ELSE Throw(r, "none")
    BY <1>2 DEF Ani_getRemoteAbilityInfo
  <2>2. PICK names \in IF op = "one" THEN Single ELSE Input :
            IF checkElementNames(names) THEN Queue(r, Given("ani", op, names))
            ELSE Throw(r, "none")
    BY <2>1
  <2>3. names \in Input /\ (op = "one" => Len(names) = 1)
    BY DEF Single
  <2> QED
    BY <1>1, <2>2, <2>3, GivenStep, ThrowStep DEF checkElementNames, Kit
<1>3. CASE Ani_getRemoteBundleVersionCode(r)
  <2>1. PICK names \in Single : IF ~HasBad(names) THEN Queue(r, Given("ani", "version", names))
                                ELSE Throw(r, "none")
    BY <1>3 DEF Ani_getRemoteBundleVersionCode
  <2>2. names \in Input /\ Len(names) = 1
    BY DEF Single
  <2>3. 1 <= MaxSize
    BY KitsAssumption
  <2> QED
    BY <1>1, <2>1, <2>2, <2>3, GivenStep, ThrowStep DEF Kit
<1> QED
  BY <1>2, <1>3

\* Changes of one field of what is known of a request.
LEMMA ParsedFields ==
    ASSUME NEW i \in Info, NEW refused \in BOOLEAN
    PROVE  /\ Parsed(i, refused) \in Info
           /\ Parsed(i, refused).kit = i.kit /\ Parsed(i, refused).op = i.op
           /\ Parsed(i, refused).names = i.names
           /\ Parsed(i, refused).answers = i.answers
           /\ Parsed(i, refused).err = IF refused THEN "argument" ELSE i.err
<1>1. CASE refused
  BY <1>1 DEF Parsed, Info
<1>2. CASE ~refused
  BY <1>2 DEF Parsed
<1> QED
  BY <1>1, <1>2

LEMMA NamesFields ==
    ASSUME NEW i \in Info, NEW names \in Seq(Name)
    PROVE  /\ [i EXCEPT !.names = names] \in Info
           /\ [i EXCEPT !.names = names].names = names
           /\ [i EXCEPT !.names = names].kit = i.kit /\ [i EXCEPT !.names = names].op = i.op
           /\ [i EXCEPT !.names = names].answers = i.answers
           /\ [i EXCEPT !.names = names].err = i.err
BY DEF Info

-----------------------------------------------------------------------------
(* The steps of all kits.                                                   *)

LEMMA ModifyStep == ASSUME KitInv, NEW r \in Request, Modify(r) PROVE KitInv'
<1>1. PICK names \in IF info[r].op = "one" THEN Single ELSE Input :
        info' = [info EXCEPT ![r].names = names]
  BY DEF Modify
<1>2. /\ names \in Seq(Name) /\ (info[r].op # "many" => Len(names) = 1)
      /\ stage[r] = "queued" /\ info[r].kit = "ani" /\ info[r].op # "version" /\ Checked(info[r])
  BY KitsAssumption DEF KitInv, RequestOK, Single, Modify, Checked
<1>3. UNCHANGED <<vars, stage, record, js, serves, outcome>>
  BY DEF Modify
<1>4. IInv'
  BY <1>3, StepIInv DEF KitInv
<1>5. /\ info'[r] = [info[r] EXCEPT !.names = names]
      /\ \A q \in Request \ {r} : info'[q] = info[q]
  BY <1>1 DEF KitInv, KitTypeOK
<1>6. KitTypeOK'
  <2>1. info' \in [Request -> Info]
    BY <1>1, <1>2, NamesFields DEF KitInv, KitTypeOK
  <2> QED
    BY <2>1, <1>3 DEF KitInv, KitTypeOK, vars
<1>7. RequestOK(r)'
  <2>1. Checked(info'[r])
    BY <1>2, <1>5 DEF Checked, KitInv, KitTypeOK
  <2> QED
    BY <2>1, <1>2, <1>3, <1>5 DEF KitInv, RequestOK, KitTypeOK
<1> QED
  BY <1>3, <1>4, <1>5, <1>6, <1>7, OthersKept DEF KitInv

LEMMA ReturnStep == ASSUME KitInv, NEW r \in Request, Return(r) PROVE KitInv'
<1>1. /\ UNCHANGED <<vars, stage, info, serves, outcome>>
      /\ js = r /\ js' = NoRequest /\ stage[r] \in Live
      /\ record'[r] = IF record[r] = "call" THEN "work" ELSE record[r]
      /\ \A q \in Request \ {r} : record'[q] = record[q]
  BY DEF Return, KitInv, KitTypeOK, RequestOK
<1>2. IInv'
  BY <1>1, StepIInv DEF KitInv
<1>3. KitTypeOK'
  BY <1>1 DEF KitInv, KitTypeOK, Return, vars
<1>4. RequestOK(r)'
  BY <1>1, KitsAssumption DEF KitInv, RequestOK, Live
<1>5. \A q \in Request \ {r} : js' = q <=> js = q
  BY <1>1, KitsAssumption
<1> QED
  BY <1>1, <1>2, <1>3, <1>4, <1>5, OthersKept DEF KitInv

LEMMA CompleteStep == ASSUME KitInv, NEW r \in Request, Complete(r) PROVE KitInv'
<1>1. stage[r] = "executed" /\ js # r /\ UNCHANGED <<vars, js, serves>>
  BY KitsAssumption DEF Complete, Free
<1>2. record[r] \in {"none", "work"}
  BY <1>1 DEF KitInv, RequestOK, Live
<1>3. record' = [record EXCEPT ![r] = "none"]
  BY <1>2 DEF Complete
<1>4. PICK how \in {"error", "value", "broken"} : Settle(r, how)
  BY DEF Complete
<1> QED
  BY <1>1, <1>3, <1>4, SettleStep

\* What the worker finds without an error is fit to be asked.
LEMMA TakenIsAsked ==
    ASSUME NEW i \in Info, Checked(i)
    PROVE  /\ Taken(i) \in Info
           /\ Taken(i).kit = i.kit
           /\ Taken(i).err = "none" => Asked(Taken(i))
<1>1. /\ MaxSize \in Nat /\ 1 <= MaxSize
      /\ i.names \in Seq(Name)
      /\ i.kit \in Kit /\ i.op \in {"one", "many", "version"}
  BY KitsAssumption DEF Info, Checked
<1>2. Len(i.names) \in Nat /\ (i.names # <<>> => Len(i.names) >= 1)
  BY <1>1
<1>3. CASE i.op = "version"
  <2>1. Taken(i) = Parsed(i, i.names = <<"blank">>)
    BY <1>3 DEF Taken, InnerGetRemoteBundleVersionCode
  <2>2. (i.names = <<"blank">>) \in BOOLEAN
    OBVIOUS
  <2>3. /\ Taken(i) \in Info /\ Taken(i).kit = i.kit /\ Taken(i).op = i.op
        /\ Taken(i).names = i.names
        /\ Taken(i).err = IF i.names = <<"blank">> THEN "argument" ELSE i.err
    BY <2>1, <2>2, ParsedFields
  <2> QED
    <3>1. Len(i.names) \in 1..MaxSize /\ ~HasBad(i.names)
      <4>1. Len(i.names) = 1 /\ ~HasBad(i.names)
        BY <1>3 DEF Checked
      <4> QED
        BY <1>1, <4>1
    <3>2. Asked(Taken(i)) <=> Taken(i).err = "none"
      BY <1>1, <1>3, <2>3, <3>1 DEF Asked
    <3> QED
      BY <2>3, <3>2
<1>4. CASE i.op # "version" /\ i.kit \in {"bundleMgr", "bundle"}
  <2>1. Taken(i) = Parsed(i, i.names = <<>>)
    BY <1>4 DEF Taken, InnerGetRemoteAbilityInfos, InnerGetRemoteAbilityInfo
  <2>2. (i.names = <<>>) \in BOOLEAN
    OBVIOUS
  <2>3. /\ Taken(i) \in Info /\ Taken(i).kit = i.kit /\ Taken(i).op = i.op
        /\ Taken(i).names = i.names
        /\ Taken(i).err = IF i.names = <<>> THEN "argument" ELSE i.err
    BY <2>1, <2>2, ParsedFields
  <2> QED
    BY <1>1, <1>2, <1>4, <2>3 DEF Asked, Checked
<1>5. CASE i.op # "version" /\ i.kit = "ani"
  <2> DEFINE p == ParseAniArray(i.names)
             parsed == [i EXCEPT !.names = p]
             first == Parsed(parsed, Len(p) > MaxSize)
  <2>1. p \in Seq(Name) /\ Len(p) = Len(i.names) /\ ~HasBad(p)
    <3>1. \A k \in DOMAIN i.names : i.names[k] \in Name
      BY <1>1
    <3>2. p = [k \in 1..Len(i.names) |-> IF i.names[k] = "bad" THEN "blank" ELSE i.names[k]]
      BY <1>1 DEF ParseAniArray
    <3>3. \A k \in 1..Len(i.names) : p[k] \in Name /\ p[k] # "bad"
      BY <1>1, <3>1, <3>2 DEF Name
    <3> HIDE DEF p
    <3> QED
      BY <1>2, <3>2, <3>3 DEF HasBad
  <2>2. parsed \in Info /\ parsed.names = p /\ parsed.kit = i.kit /\ parsed.op = i.op
    BY <2>1, NamesFields
  <2>3. Taken(i) = Parsed(first, first.names = <<>>)
    BY <1>5, <2>2 DEF Taken, GetRemoteAbilityInfoInner, InnerGetRemoteAbilityInfo, TooMany
  <2> HIDE DEF p, parsed
  <2>4. (Len(p) > MaxSize) \in BOOLEAN
    OBVIOUS
  <2>5. /\ first \in Info /\ first.kit = i.kit /\ first.op = i.op /\ first.names = p
        /\ first.err = IF Len(p) > MaxSize THEN "argument" ELSE parsed.err
    BY <2>2, <2>4, ParsedFields
  <2> HIDE DEF first
  <2>6. (first.names = <<>>) \in BOOLEAN
    OBVIOUS
  <2>7. /\ Taken(i) \in Info /\ Taken(i).kit = i.kit /\ Taken(i).op = i.op
        /\ Taken(i).names = p
        /\ Taken(i).err = IF p = <<>> THEN "argument" ELSE first.err
    BY <2>3, <2>5, <2>6, ParsedFields
  <2> QED
    BY <1>1, <1>2, <1>5, <2>1, <2>5, <2>7 DEF Asked, Checked
<1> QED
  BY <1>1, <1>3, <1>4, <1>5 DEF Kit

LEMMA ExecuteStep == ASSUME KitInv, NEW t \in Thread, NEW r \in Request, Execute(t, r) PROVE KitInv'
<1> DEFINE i == Taken(info[r])
<1>1. stage[r] = "queued" /\ pc[t] = "idle" /\ UNCHANGED <<record, js, outcome>>
      /\ info' = [info EXCEPT ![r] = i]
  BY DEF Execute
<1>2. /\ i \in Info
      /\ i.kit = info[r].kit /\ i.kit \in Kit
      /\ i.err = "none" => Asked(i)
  BY <1>1, TakenIsAsked DEF KitInv, KitTypeOK, RequestOK, Checked
<1>3. /\ i.err = "none" => Call(t) /\ serves' = [serves EXCEPT ![t] = r]
                           /\ stage' = [stage EXCEPT ![r] = "running"]
      /\ i.err # "none" => stage' = [stage EXCEPT ![r] = "executed"] /\ UNCHANGED <<vars, serves>>
  BY DEF Execute
<1> HIDE DEF i
<1>4. /\ info'[r] = i /\ stage'[r] = IF i.err = "none" THEN "running" ELSE "executed"
      /\ \A q \in Request \ {r} : info'[q] = info[q] /\ stage'[q] = stage[q]
  BY <1>1, <1>3 DEF KitInv, KitTypeOK
<1>5. IInv'
  BY <1>3, StepIInv DEF KitInv, Next
<1>6. KitTypeOK'
  <2>1. CASE i.err # "none"
    BY <1>1, <1>2, <1>3, <2>1 DEF KitInv, KitTypeOK, vars, Live
  <2>2. CASE i.err = "none"
    <3>1. \A u \in Thread : /\ pc'[u] = IF u = t THEN "enter" ELSE pc[u]
                            /\ serves'[u] = IF u = t THEN r ELSE serves[u]
      BY <1>3, <2>2 DEF KitInv, KitTypeOK, IInv, ClientTypeOK, Call, Goto
    <3> QED
      BY <1>1, <1>2, <1>3, <1>4, <2>2, <3>1, KitsAssumption DEF KitInv, KitTypeOK, Live
  <2> QED
    BY <2>1, <2>2
<1>7. RequestOK(r)'
  BY <1>1, <1>2, <1>4 DEF KitInv, RequestOK, Finished, Live
<1> QED
  BY <1>1, <1>4, <1>5, <1>6, <1>7, OthersKept DEF KitInv

\* What the client returns is told or is an answer for every name.
LEMMA AnsweredInfo ==
    ASSUME KitInv, NEW t \in Thread, serves[t] \in Request, Answered(t, info[serves[t]]),
           Asked(info[serves[t]])
    PROVE  /\ info' \in [Request -> Info]
           /\ Finished(info'[serves[t]]) /\ info'[serves[t]].kit = info[serves[t]].kit
           /\ \A q \in Request \ {serves[t]} : info'[q] = info[q]
<1>0. PICK r \in Request : r = serves[t]
  OBVIOUS
<1> DEFINE i == info[r]
<1>1. /\ info \in [Request -> Info] /\ i \in Info /\ Len(i.names) \in Nat
      /\ i.kit \in Kit /\ i.err = "none" /\ Len(i.names) >= 1
  <2>1. info \in [Request -> Info] /\ i \in Info
    BY DEF KitInv, KitTypeOK
  <2>2. Len(i.names) \in Nat
    BY <2>1 DEF Info
  <2> QED
    BY <1>0, <2>1, <2>2, KitsAssumption DEF Asked
<1>2. CASE /\ \A k \in DOMAIN i.names : i.names[k] = "good"
           /\ info' = [info EXCEPT ![r].answers = Len(i.names)]
  <2>1. /\ info'[r] = [i EXCEPT !.answers = Len(i.names)]
        /\ \A q \in Request \ {r} : info'[q] = info[q]
    BY <1>1, <1>2
  <2>2. info'[r] \in Info /\ info'[r].kit = i.kit /\ info'[r].names = i.names
        /\ info'[r].answers = Len(i.names)
    BY <1>1, <2>1 DEF Info
  <2>3. i.names # <<>>
    BY <1>1
  <2>4. info' \in [Request -> Info]
    BY <1>1, <1>2, <2>2
  <2> QED
    BY <1>0, <1>1, <1>2, <2>1, <2>2, <2>3, <2>4 DEF Finished, AllGood
<1>3. CASE \E n \in Nat :
             info' = [info EXCEPT ![r].err = "failed", ![r].answers = n]
  <2>1. PICK n \in Nat : info' = [info EXCEPT ![r].err = "failed", ![r].answers = n]
    BY <1>3
  <2>2. /\ info'[r] = [[i EXCEPT !.err = "failed"] EXCEPT !.answers = n]
        /\ \A q \in Request \ {r} : info'[q] = info[q]
    BY <1>1, <2>1
  <2>3. info'[r] \in Info /\ info'[r].kit = i.kit /\ info'[r].err = "failed"
    BY <1>1, <2>2 DEF Info
  <2>4. info' \in [Request -> Info]
    BY <1>1, <2>1, <2>3
  <2> QED
    BY <1>0, <1>1, <2>2, <2>3, <2>4 DEF Finished
<1>4. Answered(t, i)
  BY <1>0
<1> HIDE DEF i
<1>5. ASSUME NEW n \in IF i.op = "one" THEN {1} ELSE {k \in 0..Len(i.names) - 1 : k = 0 \/ pc[t] = "use"}
      PROVE  n \in Nat
  BY <1>1, <1>5
<1> QED
  BY <1>0, <1>2, <1>3, <1>4, <1>5 DEF Answered

LEMMA ClientKept == ASSUME KitInv, NEW t \in Thread, ClientStep(t) PROVE KitInv'
<1>1. Get(t) /\ UNCHANGED <<record, js, outcome>>
  BY DEF ClientStep
<1>2. IInv'
  BY <1>1, StepIInv DEF KitInv, Next
<1>3. pc[t] # "idle" /\ \A u \in Thread : u # t => pc'[u] = pc[u]
  BY <1>1, GetIsOnesOwn DEF KitInv, IInv
<1>4. serves[t] \in Request /\ stage[serves[t]] = "running"
  BY <1>3 DEF KitInv, KitTypeOK
<1>5. CASE pc'[t] = "idle"
  <2>0. PICK r \in Request : r = serves[t]
    BY <1>4
  <2>1. /\ Answered(t, info[r]) /\ stage' = [stage EXCEPT ![r] = "executed"]
        /\ serves' = [serves EXCEPT ![t] = NoRequest]
    BY <1>5, <2>0 DEF ClientStep
  <2>2. Asked(info[r])
    BY <1>4, <2>0 DEF KitInv, RequestOK
  <2>3. /\ info' \in [Request -> Info] /\ Finished(info'[r]) /\ info'[r].kit = info[r].kit
        /\ \A q \in Request \ {r} : info'[q] = info[q]
    BY <1>4, <2>0, <2>1, <2>2, AnsweredInfo
  <2>4. /\ stage'[r] = "executed" /\ \A q \in Request \ {r} : stage'[q] = stage[q]
        /\ \A u \in Thread : serves'[u] = IF u = t THEN NoRequest ELSE serves[u]
    BY <1>4, <2>0, <2>1 DEF KitInv, KitTypeOK
  <2>5. KitTypeOK'
    <3>1. /\ stage' \in [Request -> Live \cup {"fresh", "settled"}]
          /\ serves' \in [Thread -> Request \cup {NoRequest}]
      BY <2>1 DEF KitInv, KitTypeOK, Live
    <3>2. \A u \in Thread : pc'[u] = "idle" <=> serves'[u] = NoRequest
      BY <1>3, <1>5, <2>4 DEF KitInv, KitTypeOK
    <3>3. \A u \in Thread : serves[u] = r <=> u = t
      BY <2>0, KitsAssumption DEF KitInv, KitTypeOK
    <3>4. \A q \in Request : stage'[q] = "running" <=> \E u \in Thread : serves'[u] = q
      BY <2>4, <3>3, KitsAssumption DEF KitInv, KitTypeOK
    <3>5. \A u, v \in Thread : serves'[u] = serves'[v] /\ serves'[u] # NoRequest => u = v
      BY <2>4 DEF KitInv, KitTypeOK
    <3> QED
      BY <1>1, <2>3, <3>1, <3>2, <3>4, <3>5 DEF KitInv, KitTypeOK
  <2>6. RequestOK(r)'
    BY <1>1, <1>4, <2>0, <2>3, <2>4 DEF KitInv, RequestOK, Live
  <2> QED
    BY <1>1, <1>2, <1>4, <2>0, <2>3, <2>4, <2>5, <2>6, OthersKept DEF KitInv
<1>6. CASE pc'[t] # "idle"
  <2>1. UNCHANGED <<stage, info, serves>>
    BY <1>6 DEF ClientStep
  <2>2. KitTypeOK'
    BY <1>1, <1>3, <1>6, <2>1 DEF KitInv, KitTypeOK
  <2>3. \A q \in Request : RequestOK(q)'
    BY <1>1, <2>1 DEF KitInv, RequestOK, Checked, Asked, Finished, HasBad, AllGood
  <2> QED
    BY <1>2, <2>2, <2>3 DEF KitInv
<1> QED
  BY <1>5, <1>6

\* A step that leaves the kits and every thread where they are.
LEMMA SystemKept ==
    ASSUME KitInv, [Next]_vars, UNCHANGED <<kitOnly, pc>>
    PROVE  KitInv'
<1>1. IInv'
  BY StepIInv DEF KitInv
<1>2. KitTypeOK' /\ \A r \in Request : RequestOK(r)'
  BY DEF KitInv, KitTypeOK, kitOnly, RequestOK, Checked, Asked, Finished, HasBad, AllGood
<1> QED
  BY <1>1, <1>2 DEF KitInv

LEMMA KitStepInv == KitInv /\ [KitNext]_kitVars => KitInv'
<1> SUFFICES ASSUME KitInv, [KitNext]_kitVars PROVE KitInv'
  OBVIOUS
<1>1. ASSUME NEW r \in Request, Make(r) PROVE KitInv'
  BY <1>1, BundleMgrStep, BundleStep, AniStep DEF Make
<1>2. ASSUME NEW r \in Request, Modify(r) \/ Return(r) \/ Complete(r) PROVE KitInv'
  BY <1>2, ModifyStep, ReturnStep, CompleteStep
<1>3. ASSUME NEW r \in Request, NEW t \in Thread, Execute(t, r) PROVE KitInv'
  BY <1>3, ExecuteStep
<1>4. ASSUME NEW t \in Thread, ClientStep(t) PROVE KitInv'
  BY <1>4, ClientKept
<1>5. CASE System
  <2>1. Next /\ UNCHANGED <<kitOnly, pc>>
    BY <1>5 DEF System, Next, OnRemoteDied, Start, Die
  <2> QED
    BY <2>1, SystemKept
<1>6. CASE UNCHANGED kitVars
  BY <1>6, SystemKept DEF kitVars, vars
<1> QED
  BY <1>1, <1>2, <1>3, <1>4, <1>5, <1>6 DEF KitNext

LEMMA KitInvariant == KitSpec => []KitInv
<1> QED
  BY KitInitInv, KitStepInv, PTL DEF KitSpec

-----------------------------------------------------------------------------

\* Every reachable state of the kits is well typed: a request that runs does
\* so on one worker, and a worker is in the client for one request.
THEOREM KitTypeCorrect == KitSpec => []KitTypeOK
<1>1. KitInv => KitTypeOK
  BY DEF KitInv
<1> QED
  BY <1>1, KitInvariant, PTL

\* What is asked of the client keeps the limit and could be read, although the
\* application may change its array once the ArkTS kit has looked at it
\* (ani_distributed_bundle_manager.cpp:37-54).
THEOREM LimitsKept == KitSpec => []AskedWithinLimits
<1>1. KitInv => AskedWithinLimits
  <2> SUFFICES ASSUME KitInv, NEW t \in Thread, serves[t] # NoRequest
               PROVE  Asked(info[serves[t]])
    BY DEF AskedWithinLimits, Asked
  <2>1. serves[t] \in Request /\ stage[serves[t]] = "running"
    BY DEF KitInv, KitTypeOK
  <2> QED
    BY <2>1 DEF KitInv, RequestOK
<1> QED
  BY <1>1, KitInvariant, PTL

\* A record has its one owner from the call to the completion
\* (distributed_bundle_mgr.cpp:392-394).
THEOREM RecordsLive == KitSpec => []RecordLives
<1>1. KitInv => RecordLives
  BY DEF KitInv, RequestOK, RecordLives
<1> QED
  BY <1>1, KitInvariant, PTL

\* A value has an answer for every name, and every name was complete
\* (distributed_bundle.cpp:202-214).
THEOREM ValuesWhole == KitSpec => ValueIsWhole
<1> DEFINE Whole == \A r \in Request : outcome[r] # "value" /\ outcome'[r] = "value" =>
                      /\ info[r].answers = Len(info[r].names) /\ info[r].names # <<>>
                      /\ \A k \in DOMAIN info[r].names : info[r].names[k] = "good"
<1>1. KitInv /\ [KitNext]_kitVars => [Whole]_kitVars
  <2> SUFFICES ASSUME KitInv, KitNext, NEW r \in Request, outcome[r] # "value", outcome'[r] = "value"
               PROVE  /\ info[r].answers = Len(info[r].names) /\ info[r].names # <<>>
                      /\ \A k \in DOMAIN info[r].names : info[r].names[k] = "good"
    OBVIOUS
  <2>1. ASSUME NEW q \in Request, NEW how, Settle(q, how), how # "value" PROVE FALSE
    BY <2>1 DEF KitInv, KitTypeOK, Settle
  <2>2. ASSUME NEW q \in Request, Make(q) PROVE FALSE
    BY <2>1, <2>2 DEF Make, BundleMgr_GetRemoteAbilityInfo, BundleMgr_GetRemoteAbilityInfos,
          Bundle_GetRemoteAbilityInfo, Bundle_GetRemoteBundleVersionCode, Ani_getRemoteAbilityInfo,
          Ani_getRemoteBundleVersionCode, AsyncCallNativeMethod, Throw, Queue
  <2>3. PICK q \in Request : Complete(q)
    BY <2>2 DEF KitNext, Modify, Return, Execute, ClientStep, System, kitOnly
  <2>4. q = r /\ stage[r] = "executed" /\ HasValue(info[r])
    <3>1. /\ stage[q] = "executed"
          /\ Settle(q, IF HasValue(info[q]) THEN "value" ELSE "error") \/ Settle(q, "broken")
      BY <2>3 DEF Complete
    <3>2. ~Settle(q, "broken") /\ ~Settle(q, "error")
      BY <2>1
    <3>3. HasValue(info[q]) /\ Settle(q, "value")
      BY <3>1, <3>2
    <3> QED
      BY <3>1, <3>3 DEF KitInv, KitTypeOK, Settle
  <2>5. Finished(info[r])
    BY <2>4 DEF KitInv, RequestOK
  <2>6. info[r].err = "none"
    BY <2>4, <2>5 DEF HasValue, AniValue, BundleMgrValue, BundleValue, VersionValue, Finished, Kit
  <2> QED
    BY <2>5, <2>6 DEF Finished, AllGood
<1>2. ValueIsWhole <=> [][Whole]_kitVars
  BY PTL DEF ValueIsWhole
<1> QED
  BY <1>1, KitInvariant, PTL DEF KitSpec, ValueIsWhole

-----------------------------------------------------------------------------

\* What the kits do to the client is what its own specification lets happen.
LEMMA ClientStepOrNone == [KitNext]_kitVars => [Next]_vars
<1> SUFFICES ASSUME KitNext PROVE Next \/ UNCHANGED vars
  BY DEF kitVars
<1>1. ASSUME NEW r \in Request, Make(r) PROVE UNCHANGED vars
  BY <1>1 DEF Make, BundleMgr_GetRemoteAbilityInfo, BundleMgr_GetRemoteAbilityInfos,
        Bundle_GetRemoteAbilityInfo, Bundle_GetRemoteBundleVersionCode, Ani_getRemoteAbilityInfo,
        Ani_getRemoteBundleVersionCode, AsyncCallNativeMethod, Throw, Queue
<1>2. ASSUME NEW r \in Request, Modify(r) \/ Return(r) \/ Complete(r) PROVE UNCHANGED vars
  BY <1>2 DEF Modify, Return, Complete
<1>3. ASSUME NEW r \in Request, NEW t \in Thread, Execute(t, r) PROVE Next \/ UNCHANGED vars
  BY <1>3 DEF Execute, Next
<1>4. ASSUME NEW t \in Thread, ClientStep(t) PROVE Next
  BY <1>4 DEF ClientStep, Next
<1>5. CASE System
  BY <1>5 DEF System, Next
<1> QED
  BY <1>1, <1>2, <1>3, <1>4, <1>5 DEF KitNext

\* The kits drive the client as its own specification has it called: whatever
\* the requests do, they are calls of the client by threads that are idle.
THEOREM KitsCallTheClient == KitSpec => Init /\ [][Next]_vars
<1>1. KitInit => Init
  BY DEF KitInit
<1> QED
  BY <1>1, ClientStepOrNone, PTL DEF KitSpec

\* So a proxy that is kept is watched with the kits at work, too, unless the
\* recipient could not be added
\* (distributed_bundle_mgr_client.cpp:159-171),
THEOREM KeptWatchedByKits == KitSpec => []KeptIsWatched
<1>1. KitInv => KeptIsWatched
  BY DEF KitInv, IInv
<1> QED
  BY <1>1, KitInvariant, PTL

\* no incarnation whose death was told is given out to a request again
\* (distributed_bundle_mgr_client.cpp:137-141),
THEOREM NoticedGoneByKits == KitSpec => []NoticedIsGone
<1>1. KitInv => NoticedIsGone
  BY DEF KitInv, IInv
<1> QED
  BY <1>1, KitInvariant, PTL

\* no request that waits for d-bms to be loaded holds up the news that the
\* kept one has died, if there is a recipient to bring it
\* (distributed_bundle_mgr_client.cpp:202-208),
THEOREM NoDeathHeldUpByKits == KitSpec => []DeathGetsThrough
<1>1. KitInv => DeathGetsThrough
  BY GetsThrough DEF KitInv
<1> QED
  BY <1>1, KitInvariant, PTL

\* and no request loses its proxy to the death of another incarnation
\* (distributed_bundle_mgr_death_recipient.cpp:23-31).
THEOREM OnlyTheDeadDroppedByKits == KitSpec => DropsOnlyTheDead
<1>1. KitInv => IInv
  BY DEF KitInv
<1> QED
  BY <1>1, ClientStepOrNone, StepDrops, KitInvariant, PTL DEF KitSpec, DropsOnlyTheDead
=============================================================================
