# d-bms, the distributed bundle manager: a TLA+ model

The repository (`src/`) is OpenHarmony's distributed bundle framework: a system
ability, **d-bms**, that runs on every device of a group, tells its peers what
is installed on its own device and answers questions about theirs.  This
directory holds TLA+ modules of it, the TLC runs that check them on small
instances, and proofs, checked by TLAPS, that hold for every instance.

Contents: 1 the system, 2 the modules, 3 the runs, 4 fairness, 5 the proofs,
6 findings, 7 what is left out, 8 the plan.

## 1. The system

| Component (source) | State | Operations | Talks to |
|---|---|---|---|
| **Data storage, publishing half** (`services/dbms/src/distributed_data_storage.cpp:61-170, 287-310, 361-401, 423-541`) | `kvStorePtr_`, the entries `<udid>_<bundle>` in the distributed key-value store | `SaveStorageDistributeInfo`, `DeleteStorageDistributeInfo`, `UpdateDistributedData`, `CheckKvStore` | key-value store, BMS, account service |
| **Data storage, reading half** (same file, `:172-285, 312-359, 403-421, 543-589`) | the entries, one callback object with a promise per sync | `GetStorageDistributeInfo`, `GetDistributedBundleName`, `SyncAndCompleted`, `SyncCompleted`, `GetResultCode` | key-value store, device manager |
| **Service lifecycle** (`distributed_bms.cpp:125-176`, `sa_profile/402.json`) | `distributedSub_`, `dbmsDeviceManager_` | `OnStart`, `Init`, `OnStop` | common events, storage |
| **Event monitor** (`include/distributed_monitor.h`) | none | `OnReceiveEvent` | storage |
| **Query path** (`distributed_bms.cpp:178-626, 672-752`) | `bundleMgr_` (fetched once) | `GetRemoteAbilityInfo(s)`, `GetAbilityInfo(s)`, `GetDistributedBundleInfo`, `GetDistributedBundleName`, `GetRemoteBundleVersionCode`, `GetBundleVersionCode` | the peer's d-bms, BMS, access token and account services |
| **Icon encoding** (`distributed_bms.cpp:409-461, 502-512, 628-670`, `image_compress.cpp`) | none | `GetAbilityIconByContent`, `EncodeBase64`, `CompressImageByContent` | image codec |
| **IPC stub and proxy** (`distributed_bms_host.cpp`, `distributed_bms_proxy.cpp`) | none | one handler and one method per request code | binder |
| **Client** (`inner_api/src/distributed_bundle_mgr_client.cpp`, `..._death_recipient.cpp`) | `dProxy_`, `recipient_`, `isInit_` | one method per query, `GetDistributedBundleMgrProxy`, `ResetDistributedBundleMgrProxy` | system ability manager, device manager |
| **Device manager adapter** (`dbms_device_manager.cpp`) | `isInit_` | `GetUdidByNetworkId`, `GetUuidByNetworkId`, `GetLocalDevice`, `CheckAclData` | device manager |
| **Account helper** (`account_manager_helper.cpp`) | none | `GetCurrentActiveUserId`, `GetOsAccountData` | account service |
| **JS and ArkTS kits** (`interfaces/kits/`) | one work record per request | `getRemoteAbilityInfo(s)`, `getRemoteBundleVersionCode`: the arguments are read on the JavaScript thread, the client is called by a worker, the result is given back on the JavaScript thread | client |
| **Event report** (`event_report.cpp`) | none | log of a query's outcome | HiSysEvent |

### How the parts interact

*Publishing.*  The service is started on demand.  `Init` makes the storage
singleton, whose constructor tries twice to open the store, subscribes to the
package and user events and then refreshes all entries of the active user
(`UpdateDistributedData`) on the main thread.  From the subscription on,
`OnReceiveEvent` runs on the subscriber's thread and calls the storage: a
package added or changed is saved, a package removed is deleted, a switch of the
user refreshes everything.  `kvStorePtrMutex_` covers single accesses to the
store, never the span from reading BMS to putting what was read.

*Reading.*  A query for a peer's bundle runs on a binder thread: it maps the
network id to a udid and a uuid, asks the store to synchronise with that
device, waits up to 180 s for the callback, then reads the local copy.

*Forwarding.*  A query for an ability's label and icon is sent on to the peer's
d-bms, which asks its own BMS.

*Asking.*  An application asks through one of three kits: the older JavaScript
kit, the newer one, and the ArkTS kit.  Each queues the request for a worker,
which calls the client library; the client looks for the proxy of the local
d-bms, which all threads of the application share.

### What is hard about it, and what makes each part correct

| Component | Hard behaviour | Correct means |
|---|---|---|
| publishing half | two threads interleave between reading BMS and putting; every call may fail, some are retried, most failures are only logged; the pointer to the store can vanish; the user can switch in the middle | an entry that has been handled says what BMS says; an old description replaces a newer one only if two calls overlapped or an answer was lost; only own entries are touched; singletons are never published |
| reading half | completions that are late, repeated, for another device, or never come; entries that do not parse | an answer is something the peer published after the question was asked; every question is answered |
| lifecycle | stop and crash at any point, changes while stopped | the entries converge to the active user's bundles once changes cease |
| query path | a batch is answered element by element while users and bundles change; a peer of an older release, or one whose d-bms dies | all or nothing, one answer per element, in order; an answer is about one user, and each name was checked if the request carries a record of the caller; every query ends |
| client | death of the service against a concurrent lookup of the proxy | a dead proxy is dropped, if it could be watched, and no other |
| kits | the worker may start before the native function has returned, and read an array the application has changed since it was checked; a batch may fail half way | the client is asked within its limit; a record is freed once; a value is whole; every request is settled |
| icon encoding | group boundaries; a compression that fails half way | the text is the base64 of the data (it is not for lengths that are multiples of three, section 6) and names its format |

## 2. The modules

| Module | Models | Extends |
|---|---|---|
| `BundleManager` | the two services d-bms reads, external: what is installed per user (`bms`), who is active (`activeUser`), a clock | Naturals |
| `Publication` | abstract: what publishing promises, with no store, no failure and no steps inside a call | nothing |
| `DataStorage` | the publishing half, any number of threads making arbitrary calls; implements `Publication` | `BundleManager` |
| `DistributedBms` | lifecycle and events around it: main thread and subscriber's thread, queue of events, stop, crash, restart | `DataStorage` |
| `RemoteRead` | abstract: what a question about a peer promises, with no store and no synchronisation | Naturals |
| `RemoteLookup` | the reading half, any number of binder threads; implements `RemoteRead` | `RemoteRead` |
| `RemoteQuery` | the query path, from a caller's proxy to the peer's BMS and back, any number of callers and peers | Naturals, Sequences |
| `IconEncoding` | how an icon becomes text, with `EncodeBase64` byte by byte | Integers, Sequences |
| `ProxyClient` | the client's cached proxy, any number of threads, against starts and deaths of d-bms | Naturals |
| `Kits` | the three kits of an application, composed with the client: any number of requests on any number of workers | `ProxyClient` |
| `DataStorage_proofs`, `RemoteLookup_proofs`, `RemoteQuery_proofs`, `IconEncoding_proofs`, `ProxyClient_proofs` | theorems | the module named, TLAPS |
| `Kits_proofs` | theorems about the kits, and those of the client carried over to them | `Kits`, `ProxyClient_proofs` |
| `Publication_proofs` | that `DataStorage` implements `Publication` | `DataStorage_proofs` |
| `DistributedBms_proofs` | theorems about the service, and those of the storage carried over to it | `DistributedBms`, `Publication_proofs` |
| `MC...` | instances for TLC | the module named |

### DataStorage

A call runs on a thread `t` with a program counter `pc[t]`; its steps are the
stretches of code between which another thread can come in.

| Step | Code | What it does |
|---|---|---|
| `CheckKvStore`, `OpenKvStore`, `LastCheck` | `:287-310` | look at the pointer; one turn of the 600-fold loop; the look after the loop |
| `CheckUser` | `:80-83`, `:142-146` | compare the event's user with the active one; Save falls back to user 100, Delete does not |
| `ReadBundle` | `:84-100` | ask BMS; no answer makes the call go on as a Delete |
| `InnerSave` | `:106-133` | Put with one retry on `IPC_ERROR`, under the mutex |
| `InnerDelete` | `:148-170` | Delete with one retry |
| `ListBundles` | `:461-477` | ask BMS for everything |
| `RefreshOld` | `:478-494`, `:497-541` | purge what BMS did not list, find what needs to be put; one locked section |

`snap[t]` is what the call read of BMS, `todo[t]` what it still has to put.
A bundle's description is reduced to `time` (updateTime, on which the refresh
decides), `enabled`, which stands for all that changes without it, and `token`
(accessTokenId), which tells whose installation it describes.

The failures a step can meet are charged to `ipcErrors` and `faults`.  Two
history variables say what the properties need to know: `stale[t]` (bundles that
another call settled since `t`'s began, or about which `t` got no answer) and
`doubt[b]` (why the entry of `b` cannot be relied on: changed unseen, lost to a
failure, overlapped, or skipped by the refresh for an equal updateTime).

### Publication

`Publication` is what the publishing half comes to when everything inside a call
is hidden: a writer looks at the source, publishes a report it holds, or
withdraws entries it holds no report of, or all writers stop at once and what they
held is gone.  `DataStorage` instantiates it as `Pub`:

| `Publication` | `DataStorage` |
|---|---|
| `truth` | `bms`, what BMS reports per user |
| `entry` | `Mine`, the entries under this device's keys |
| `held[w]` | `Held(t)`: of `snap[t]`, everything in `old`, and what is left in `todo[t]` after it; nothing else a call has read can reach the store |

The property `PublishesReadings` is `Pub!Spec`.  It says that whatever fails,
is retried or overlaps, an entry is a whole description one call had read, for one
user and at one moment, that a reading is put at most once, and that the purge of
a refresh, which works on the entries and not on what was read, removes nothing
the refresh is going to put.  `Agreement` says when it is the right description.
`DistributedBms`, which extends `DataStorage`, implements it too: the end of the
process is `Publication`'s `Vanish`.

### DistributedBms

`OnStart` is `OnStart` with `Init` up to the refresh, which it begins on `Main`; the
store may fail to open, the active user may not be told, or both;
`OnReceiveEvent` takes the next event and begins its call on `Monitor`; `OnStop`
unsubscribes; `Exit` ends the process wherever its threads are; `Environment` is
a change of BMS or of the active user with the event that tells of it, which is
queued if there is a subscriber and else noted in `missed`.

### RemoteRead and RemoteLookup

`RemoteRead` says what a caller may rely on: `published[d][b]` is what `d` has
published of `b`, `ask[t]` the question `t` is at work on, `seen[t]` what the
device asked about has published since, and an answer must be true of one of
them.  `RemoteLookup` keeps these variables under the same names and adds what
the code works with, so that it implements `RemoteRead` as it stands
(`ReadSpec` is a property of its runs).

| Step | Code | What it does |
|---|---|---|
| `Begin` | `:172`, `:217` | a query reaches the storage |
| `CheckKvStore` | `:287-310` | as in `DataStorage`, its loop taken as one step |
| `GetUdid` | `:179-184`, `:224-233`, `:312-323` | the peer is known and is not this device |
| `GetUuid` | `:324-332` | the peer may have gone; the uuid may be empty |
| `StartSync` | `:333-350` | asks the store to synchronise, with a callback object of this question |
| `GetResultCode` | `:351-359`, `:578-588` | takes the promise, or gives up |
| `Get` | `:191-214`, `:241-268` | reads the local copy under the mutex |
| `Erase` | `:206-211` | deletes what did not parse, still under the mutex |
| `SyncCompleted` | `:553-571` | the store's report to a callback object |
| `OtherGetKvStore` | `:361-380` | the publishing half loses the pointer |

An entry is a token and a version that tells it from the ones before.  `Exchange`
and the peer are external: the store may bring entries over at any time the peer
is online, once a synchronisation has asked for them, and reports success only
when it has.  `spoilt` is history: the threads whose search another thread's
`Erase` may have misled.

### RemoteQuery

A query of caller `r` passes from its proxy (`proxy`) to its own d-bms (`host`,
`acl`, `send`) and to the peer's (`accept` and, for each name, `check`, `user`,
`query`, `label`, `icon`), and the reply comes back.

| Step | Code | What it does |
|---|---|---|
| `Ask`, `ProxyOfAbilities`, `ProxyOfBundles` | `distributed_bms_proxy.cpp` | the proxy checks the names of abilities, of bundles it does not |
| `GetRemoteAbilityInfos`, `GetRemoteBundleVersionCode` (by `Find`) | `distributed_bms.cpp:226-325`, `:558-593`, `:672-731` | limits, permissions, the handle of the d-bms of the first name's device |
| `BuildDistributedBmsAclInfo` | `:327-357` | fills the record the peer's check needs; a failure leaves it blank; a request may also come without one |
| `SendAbilities`, `Resend`, `SendVersion` | `distributed_bms_proxy.cpp` | with a locale, and once more without if the peer does not know that code |
| `GetAbilityInfos`, `Check` | `:463-491`, `:733-752`, `dbms_device_manager.cpp:102-132` | the peer's check (`VerifyCallingPermissionOrAclCheck`), once for a batch and again for each name of it; without a record there is no access control (`:746`) |
| `GetUser` | `:375-384` | `GetBundleMgr` and the user who is active now |
| `QueryAbility`, `GetLabel`, `GetAbilityIconByContent`, `QueryVersion` | `:385-461`, `:595-626` | what BMS has for that user |
| `GetStored` | `:514-556` | the permission check before `RemoteLookup` takes over |
| `Reply`, `Lost` | binder | the result arrives whole, or the call fails |

`Install`, `SwitchUser`, `Die` and `Start` are the peer's environment.  `remote[r]`
is the incarnation of the peer's d-bms that `r` has a handle of; a call to another
one fails.  `ask[r].record` says whether the request carries a record of the caller
(`distributed_bms_host.cpp:144-158`, `:185-199`); the d-bms of this release gives its
proxy one, the interface allows for none.  `checked[r]`, `users[r]` and `facts[r]` are
history: the user the last check found, who was active, and what was installed of
the ability, since the check of the current name.  The exact lines
of each definition are in `PROJECT.json`.

### IconEncoding

| Step | Code | What it does |
|---|---|---|
| `GetMediaData`, `IsImageNeedCompressBySize` | `distributed_bms.cpp:409-432`, `image_compress.cpp` | BMS gives an image; is it to be compressed? |
| `CompressImageByContent` | `image_compress.cpp` | compresses, or fails with the type already set |
| `Base64WithoutCompress`, `GetMediaBase64` | `:440-461`, `:502-512` | the image as it is; the data to encode |
| `Group`, `EncodeTail` | `:628-670` | one turn of the loop; what is left after it |

A letter is its index in `DECODE_TABLE`.  A read outside of the source gives any
byte, so that a property that holds does so whatever lies there.  `Base64` is the
reference: it takes three bytes as one number and four letters as its digits, and
shares with the loop no more than `OutLen`.

### ProxyClient

| Step | Code | What it does |
|---|---|---|
| `Call`, `Enter` | `distributed_bundle_mgr_client.cpp` | a method asks for the proxy and gets the kept one |
| `CheckSystemAbility`, `GetTrustedDeviceList`, `LoadSystemAbility` | the same | a running d-bms, or one that is loaded if the device is networked |
| `AddDeathRecipient` | the same | watches the proxy just stored, if it is still there |
| `Use` | the same | the method returns |
| `OnRemoteDied` (with `Reset`) | the recipient, `ResetDistributedBundleMgrProxy` | drops what is kept |

A thread holds `getProxyMutex_` from `check` to `watch`, and `dProxyMutex_` in
`load`.  A proxy is the number of the incarnation it is of.  `AddDeathRecipient`
has the ways in which a proxy is kept unwatched: there is no object in it, or the
recipient cannot be made (null is returned, `dProxy_` stays set), or it is not
added, a result at which the code does not look.  `unwatched` is history and holds
the incarnations this has happened to; the properties about the kept proxy except
them, and only them.  Assumed of the system: the ability manager hands out a d-bms
that runs when asked, and a recipient that was added is told of the death, also of
one that came before it was added.

### Kits

| Step | Code | What it does |
|---|---|---|
| `BundleMgr_GetRemoteAbilityInfo(s)` | `js/distributebundlemgr/distributed_bundle_mgr.cpp` | keeps an error in the arguments in the record, queues the work, or throws if it cannot |
| `Bundle_...` | `js/distributedBundle/distributed_bundle.cpp` | throws an error in the arguments; a record that cannot be queued is left behind |
| `Ani_...`, `Modify` | `ani/.../ets/@ohos.bundle.distributedBundleManager.ets` | checks the names and hands the application's own array on, which it may change meanwhile |
| `Return` | the end of the native functions | the record now belongs to the work |
| `Execute` | the `execute` callbacks and `Inner...`, `ani_distributed_bundle_manager.cpp` | a worker takes the request; what it refuses itself never reaches the client |
| `ClientStep` | `distributed_bundle_mgr_client.cpp` | the next step of `ProxyClient` for this request, and its result |
| `Complete` | the `complete` callbacks, the settling of the promise | value or error, or nothing of use if a call of the engine fails (`broken`), and the record is freed |

A request goes `fresh -> queued -> running -> executed -> settled`; `record[r]`
says who owns its record.  A name is `good`, `blank` (an empty string where there
must be none) or `bad` (no object, or one without a string it needs).  The
completion of a JavaScript request runs when no native function is at work (`js`),
as both run on the one JavaScript thread; the worker waits for neither.

## 3. The runs

| Run | Instance | Shows |
|---|---|---|
| `storage_open` | 2 interchangeable threads (symmetry), 2 devices, 1 bundle, 2 users, 2 changes | `TypeOK`, `ForeignUntouched`, `NoSilentRollback` for arbitrary overlapping calls, and that they implement `Publication` (`PublishesReadings`); `CallAdvances` with failing turns of `CheckKvStore`'s loop and the look after it |
| `bms_users` | 1 bundle, 2 users, 4 changes, 2 starts | `ServiceTypeOK`, `Agreement`, `RetryAbsorbs` with user switches, failures and restarts; `NoSilentRollback` and `PublishesReadings` of the whole service |
| `bms_bundles` | 2 ordinary bundles and a singleton, 1 user, 3 changes | `Agreement` when the refresh works on several bundles, and `SingletonNotPublished` |
| `bms_live` | 1 bundle, 2 users, 3 changes, no failures | `Converges` |
| `lookup` | 2 threads, 1 peer, 1 bundle, 2 questions, 2 reports each, 2 changes | `LookupTypeOK`, `ReadSpec`, `NotExistIsHonest` |
| `lookup_live` | 2 threads, 2 tokens, 1 report each, no symmetry | `EveryQuestionAnswered`; `ReadSpec` for which bundle has a token |
| `lookup_uuid` | 1 thread | a finding of section 6 |
| `query` | 1 caller, 1 peer, 2 users, 2 abilities, queries of every kind | `QueryTypeOK`, `AllOrNothing`, `AnswersOfOneUser`, `AnswersAdmitted`, `QueryAdvances`, `EveryQueryEnds` |
| `query_denied` | 2 callers, one without the permission | a finding of section 6 |
| `icon` | all images and compressed images of 0 to 7 bytes of two values | `IconTypeOK`, `NoOverrun`, `TextOfData`, `TypeOfData`, `RecognisedGetsText` |
| `icon_length` | the same | a finding of section 6 |
| `kits` | 2 requests, one of them through two of the kits, 2 workers, 1 death of d-bms, names of every kind, limit 2 | `KitTypeOK`, `AskedWithinLimits`, `RecordLives`, `ValueIsWhole`, `EveryRequestSettles`; of the client below them `ClientTypeOK`, `KeptIsWatched`, `NoticedIsGone`, `DeathGetsThrough`, `DropsOnlyTheDead`, `DeadIsDropped` |

**The bounds.**  `MaxTime` bounds the changes of BMS and of the active user;
`MaxIpcErrors` and `MaxFaults` the failed calls (one IPC error and one other
failure: the retry is absorbed, exhausted or beside the point); `MaxTries`
stands for the 600 turns of `CheckKvStore`: one in `storage_open`, so that the one
failure uses the loop up and the look after it is taken, with the store still
closed and with the store that the other thread has opened meanwhile; two in the
service's runs, where a failure goes to close the store in the first place and the
loop is left at its first turn, so that its limit there rests on the proofs; `MaxQueue` the
undelivered events, `MaxStarts` the starts (two: one crash or stop and the recovery
from it).  An overlap needs two threads and two readings of one bundle, so two changes;
a stale reading of a
user who left needs two users and an install for each, so four.  A
wrong answer about several bundles needs two.  What larger instances could add is
ruled out by proof for all safety properties, and for the refinement.

For the reading half `MaxAsked` bounds the questions (two, so that the report of
one may meet the other), `MaxReports` the reports of one synchronisation (two:
the repetition), `MaxChanges` what the peer publishes, `MaxFaults` the calls
that fail.  The two questions of `lookup` may run at once or one after the other.

In `query`, `MaxSize` stands for the ten names of a batch; batches have none, two
and three names, so one above the limit, or an incomplete name.  Three changes let
the user leave, another one come and an ability of theirs change between two
steps of one query, one death falls between any two steps, and one call fails.
Queries meet on the peer only in `bundleMgr_`, which a single caller asking again
reaches too.  In `icon`, seven bytes are two turns of the loop and a tail of one
byte, six the last group that the loop leaves, and the two byte values have
no two neighbouring bit pairs alike, so that bits taken from the wrong place show;
`FILE_MAX_SIZE = 5` has images on both sides and `FORMAT_LENGTH = 2` images with no
header.  The proofs
cover every length.  In `kits`, `MaxSize` stands for the ten names of a batch as
above; of two workers one is in the getter while the other waits for its lock, holds
a proxy or is woken; two requests are the least that share the client, and a request
meets nothing else of another one.  One death falls between any two steps.  More
workers, requests and deaths are covered by the proofs.

`CHECK_DEADLOCK FALSE` in the service's configurations: with the changes and
starts used up, a stopped service has nothing left to do; and in `kits`, where all
requests end up settled.  The storage's own run keeps the check on.

**Mutants.**  A definition named `D_X` is a wrong variant of `D`, one for each
property: each is a slip a change of the code could make (a dropped guard, a
missing filter, a lost refresh), and the property fails with it.

## 4. Fairness

`Fairness` in `DistributedBms` is weak fairness of every thread with a call in
progress (the code never parks one for good: its waits are `usleep` and store
calls that return) and of `OnReceiveEvent` (the event service delivers what it
has queued).  Starts, stops, crashes and changes are under no fairness: others
decide on them.  `bms_live` has no failures, since with failures what is lost
stays lost until the next refresh, which nothing guarantees.

In `RemoteLookup` it is weak fairness of the steps of every thread with a
question: they are straight-line code, store calls that return, and a wait that
ends after 180 s at the latest.  Nothing is assumed of the store's reports.

In `RemoteQuery` it is weak fairness of the steps of every caller's query: they are
straight-line code and calls that return or are reported lost.  The peer's start
and everything else around a query is under no fairness, so `EveryQueryEnds` does
not rest on a peer that is there.

In `ProxyClient` it is weak fairness of every thread's steps and of the delivery of
a death; in `Kits`, of the client's steps on every worker, of the pool that gives a
queued request to a free worker (`Execute`), of the native function's way out, of the
completion the JavaScript thread has been handed, and of the delivery of a death.
Weak fairness of a thread that waits for `getProxyMutex_` does not give it
the lock (a `std::mutex` promises no more), and no property needs it:
`DeadIsDropped` needs only the holder to go on, and in `EveryRequestSettles` the
requests are finite in number, so that each of them gets the lock in the end.

## 5. The proofs

`DataStorage_proofs`:

* `TypeCorrect`: `TypeOK` and `CallsOK` are invariant, for any number of
  threads, bundles, users, devices, tries and failures.  `TypeOK` alone is not
  inductive: that `snap[t][b]` can be put, or that the task has a bundle, depends
  on where the call stands, which `CallsOK` says.
* `ForeignEntriesKept`: `ForeignUntouched`, from the invariant: the only steps
  that write are a write to an own key and the purge, whose keys are own keys.
* `NoRollback`: `NoSilentRollback`, for any number of users.  `stale` collects from the
  beginning of a call, so what is proved is that a call which nothing overlaps and to
  which no answer is lost publishes no old news.  A switch back
  publishes an older installation, rightly, so the property speaks of entries of one
  and the same user, whom the token tells.  The strengthening is `Order`: neither an
  entry nor a reading is newer than what BMS has for the user it describes, and a
  reading that is not stale is at least as new as an entry of that user.
* `CallsAdvance`: `CallAdvances`.  `StepsLeft` counts what a call has before it: the
  turns of `CheckKvStore` that are left, and for a Save those of the Delete it may
  become once.  It is a natural number (`StepsLeftNat`), which rests on `tries[t]`
  staying within `MaxTries`, so on `TypeOK`; each step lowers it, or, in a
  refresh, leaves it and puts one of the bundles left (`StepAdvances`), and no step
  of another call touches what it is computed from (`StepAlone`, `BeginAlone`).

`Publication_proofs`:

* `ImplementsPublication`: `PublishesReadings`.  The invariant is that of
  `TypeCorrect`; with it each step of a call is shown to be a look, a publication, a
  withdrawal or a stutter under the mapping of section 2.  The step that needs the
  argument is the refresh's purge: it removes several entries at once and makes
  `held` smaller at the same time, and that no removed entry is held is what
  `ToPurge` and `ToPut` have to say of one another.  `BeginRefines` says the same of
  the step that begins a call.

`DistributedBms_proofs`:

* `ServiceTypeCorrect`: the storage's invariant carries over, as every step of
  the service begins a call, is a step of one, or leaves the storage alone.
* `ServicePublishes`: `PublishesReadings`; `ServiceNeverRollsBack`: `NoSilentRollback`;
  `ServiceCallsAdvance`: `CallAdvances`: the storage's theorems, of the whole service.
  Its steps are not all steps of the storage's own specification: the end of the
  process cuts every call off where it is and forgets its readings.  So what is carried
  over is not the theorems but their steps, by `ServiceStep`; for `Exit` it is shown
  that nothing is held any more (`ExitClears`), that the entries stay, and that no call
  has anything before it.
* `SingletonsKeptOut`: `SingletonNotPublished`.  `Save` does not look whether
  a bundle is a singleton, so the argument runs over the whole path: an event
  on a singleton carries user 0 (`QuietEvent`), so does the call it begins
  (`QuietCall`), user 0 is never the active one, so the call never reads, and the
  refresh takes up no singleton.
* `OneErrorAbsorbed`: `RetryAbsorbs`.  As long as nothing fails but one call with one
  IPC error (`Calm`), a running service has its store open, so that no call is in
  the loop of `CheckKvStore`, and none gives up.
* `HandledAgree`: `Agreement`.  The property speaks of bundles for which nothing is
  pending; while something is, the entry may be anything.  So the invariant has to say
  that what is pending puts it right (`KeptFor`): the entry agrees, or it is cared
  for (`Cared`) by an event not yet received or a call under way; a call that is
  going to settle the bundle from a reading that may be old is known to be stale or
  leaves it to one who cares; an event that would unsettle the entry (a
  PACKAGE_REMOVED of a bundle installed again since, a switch to a user who has gone
  again) is followed by one that puts it right.  `Careful` is what a step of a call
  may do: go on caring, or settle the bundle and make it stale for all others that
  will.  Every step is shown to be careful, for an arbitrary bundle; every change is
  shown to come with the event that cares for it, or to be missed; a start has
  nothing under way, and the end of the process leaves in doubt what was pending.

`RemoteLookup_proofs`:

* `LookupTypeCorrect`: `LookupTypeOK`.
* `AnswersAreTrue`: the reading half implements `RemoteRead`, for any number of
  threads, peers, bundles and questions.  The heart is `Current`: a question that
  is about to read the local copy, or that waits while its synchronisation has
  already brought the entries over, finds there only what the peer has published
  since the question was asked (and finds an entry if the peer had one all
  along).  For this a question must not be woken by the report of another, so
  `OwnCallback` and `CallbackOK` say that each callback object belongs to one
  question and that a report of success follows the exchange; `SyncOK` and
  `QuestionOK` say what a question at each step has settled.
* `NotExistHonest`: `NotExistIsHonest`, from the same invariant.

`RemoteQuery_proofs`:

* `QueryTypeCorrect`: `QueryTypeOK`; that no answer exceeds the limit does not hold
  by the types, since the limit is looked at before the peer is asked.
* `WholeAnswers`: `AllOrNothing`; `OneUserAnswers`: `AnswersOfOneUser`;
  `AdmittedAnswers`: `AnswersAdmitted`, of every request that carries a record;
  for any number of callers, peers, users, names, changes, deaths and failures.  The
  invariant follows a query: what is asked is
  complete from the moment a peer is looked for (`AskOK`), the answers so far are for
  the first names in order (`DoneOK`), what is installed now, and the user who is
  active now, are in the history of the current name (`HistoryOK`), and what has been
  read for it was read from there (`WorkOK`, `AnswerOK`).  `VersionsOK` bounds the
  versions by the changes.
* `QueriesAdvance`: `QueryAdvances`.  `StepsLeft` is five steps for each name that has
  no answer yet, and what the stages around them have left; that it never turns negative
  rests on the answers being for the first names in order (`DoneOK`).  Each step lowers
  it: the next name costs what the answer before it has freed (`PushAdvances`), and the
  second code of a request stands below the first, so that it is tried once
  (`StepAdvances`); nothing else touches it (`StepAlone`).

`IconEncoding_proofs`:

* `IconTypeCorrect`: `IconTypeOK`; in particular every computed letter is one,
  also from a byte that was read outside of the source.
* `FillsBuffer`: `NoOverrun`, and `TextCorrect`: `TextOfData`, for every length.
  The strengthening is `Encoded(q)`: after `q` turns the text so far is the base64
  of the first `3q` bytes, and more bytes are left.  `GroupDigits` shows that the
  letters of a turn are the digits of the number of its bytes, `LetterAt` places
  them, `PrefixAlike` says that a later byte does not change an earlier letter.
* `TypeIsFormat`: `TypeOfData`; `RecognisedEncoded`: `RecognisedGetsText`.

`ProxyClient_proofs`:

* `ClientTypeCorrect`, `KeptWatched`, `NoticedGone`, `OnlyTheDeadDropped`: the four
  safety properties, for any number of threads and deaths; `KeptWatched` says of the
  proxies kept without a recipient that there is no way to leave one but those of
  `AddDeathRecipient`.  The strengthening: of all incarnations at most the kept one has
  our recipient, and a thread that
  looks for a proxy has found none kept.  So the recipient, which drops what is
  kept without looking, is only ever told of the death of just that.
* `NoDeathHeldUp`: `DeathGetsThrough`, from the same invariant: a thread that waits for
  d-bms to be loaded, with the mutex held that the recipient needs, has found no
  proxy kept, and with the getter to itself none is kept before it goes on.

`Kits_proofs`:

* `KitsCallTheClient`: each step of the composition is a step of `ProxyClient` or
  leaves the client alone, so what is proved of the client holds below the kits:
  `KeptWatchedByKits`, `NoticedGoneByKits`, `NoDeathHeldUpByKits`,
  `OnlyTheDeadDroppedByKits`.
* `KitTypeCorrect`, `LimitsKept`, `RecordsLive`, `ValuesWhole`: the four safety
  properties, for any number of requests, workers and inputs.  The invariant
  `RequestOK` says what is known of a request at each stage: what has been checked
  of it when it is queued (for the ArkTS kit nothing, as the application may have
  changed it), what has been checked when the client is called, how many answers it
  has when that returns, and who owns its record.

Assumptions: those the modules name (`UserAssumption`: 100 is a user, user 0 and
INVALID are none; `CorruptAssumption`, `BoundAssumption` and the like).  TLC
evaluates them in every run.

Only model-checked: `Converges`, `EveryQuestionAnswered`, `EveryQueryEnds`,
`DeadIsDropped` and `EveryRequestSettles`, since liveness under fairness is beyond
TLAPS.  Of three of them the half that is a matter of safety is proved: that a call
of the storage and a query end after a bounded number of their own steps
(`CallAdvances`, `QueryAdvances`), and that nothing a thread waits for keeps the news of
a death from the client (`DeathGetsThrough`), if it has a recipient.  What is left to
TLC is that these steps can be taken and, under the fairness of section 4, are taken.
`CallAdvances` is run for the storage on its own with one bundle; that a refresh of
several, and a call of the whole service, advances as well is proved only.

## 6. Findings

**An empty uuid starts a synchronisation** (`distributed_data_storage.cpp:330`,
run `lookup_uuid`).  After `GetUuidByNetworkId(networkId, uuid)` the code logs
"get uuid is Empty" and gives up, but what it tests is `udid.size()`.
`GetDistributedBundleName` has tested the udid before (`:230`), for
`GetStorageDistributeInfo` (`:179-184`) this is the only test of it, and the uuid is
tested by neither.  With an empty uuid the question starts a synchronisation whose
report, keyed by the peer's uuid, is ignored by `SyncCompleted`, and a binder thread
waits the full 180 s before it fails.

**A refused caller is told of success** (`distributed_bms.cpp:519`, run
`query_denied`).  `GetDistributedBundleInfo` has the result type `bool`, and returns
`ERR_BUNDLE_MANAGER_PERMISSION_DENIED` when the permission is missing.  The code is
not 0, so the handler (`distributed_bms_host.cpp:223-224`) takes it for `true`, and
the caller gets a blank description with success.

**The last byte is not encoded** (`distributed_bms.cpp:637`, `:656`, run
`icon_length`).  "Split 3 bytes to 4 parts" (`:630`), but the loop runs while
`i < srcLen - 3`, and the tail takes one byte or two: of a source whose length is a
multiple of three the last byte is lost, under a padding that says so.

Not findings: the causes for which an entry may disagree with BMS are part of
the properties (`doubt`), and so are the requests without a record, which the peer
answers without access control (`distributed_bms.cpp:746`, excepted by
`AnswersAdmitted`), the proxies kept without a recipient
(`distributed_bundle_mgr_client.cpp:165-170`, excepted by `KeptIsWatched`,
`DeathGetsThrough` and `DeadIsDropped`) and the calls of the engine that fail in a
completion.  They are consequences of what the code does, and no document of the
repository promises more.

## 7. What is left out

* Logging, event reports, anonymised names, hidumper text.
* The JSON text of an entry: an entry parses or does not.
* The key text: a key is a pair of device and bundle.  The code looks for the
  udid anywhere in the key (`find`), which for 64-digit udids comes to the same.
* `GetAbilityInfo` for the device's own abilities: no method of the client leads there.
* What a peer of an older release does: it is taken to handle the code without a
  locale as this release does.  The devices of the later names of a batch are not
  looked at by the code; all go to the first one's.
* The image library: it fails, or gives bytes in the format asked for.
* Images of 1.6 GB and more: `EncodeBase64` takes the `int64_t` length as an `int`
  and computes the size of the text in `int` (`distributed_bms.cpp:509`, `:628`).
  `LengthAssumption` excludes them.
* The report of every query, and the memory `ImageCompress` allocates.
* `GetInstance`'s double-checked locking: the singleton is made in `OnStart`, before
  any other thread can ask for it.
* A start after `OnStop` in one process, which would find `distributedSub_` still set
  and not subscribe: 402 is the only ability of the process `d-bms`
  (`sa_profile/402.json`), which ends with it.
* The kits' conversion of fields, but that it may fail (`EngineFails`): what the
  application then gets, nothing or a null or partial value, is one outcome
  (`broken`), of which `ValueIsWhole` says nothing.  The texts of their errors,
  the throws for too few arguments, and the variants for systems without the capability.
  A request is made
  once, and the application has one JavaScript thread.
* The newer JavaScript kit's case of a success without answers, which the client
  cannot produce; and its record that is left behind when the work cannot be queued,
  which the model shows (`leaked`) and no property forbids.

## 8. The plan

Done, in this order:

1. `BundleManager`, `DataStorage`, `DistributedBms`; their runs; type
   correctness, `ForeignUntouched`, `NoSilentRollback`, `SingletonNotPublished`.
2. `RemoteRead` and `RemoteLookup`, which implements it; the proof that it does.
3. `RemoteQuery`: the query path between two devices.
4. `IconEncoding`: `EncodeBase64` as the loop it is against a reference
   definition, with what surrounds it; proved for all lengths.
5. `ProxyClient`: cached proxy, death recipient, death of the service; proved.
6. `Kits` over `ProxyClient`; proved.
7. `Publication`, which `DataStorage` implements; the proof that it does.
8. `RemoteQuery_proofs`.
9. The invariant behind `Agreement`, and that behind `RetryAbsorbs`; proved.
10. Tokens, so that `NoSilentRollback` can speak of any number of users, with its
    proof; the storage's theorems and those of the client carried over to the service
    and to the kits.
11. `CallAdvances`, `QueryAdvances` and `DeathGetsThrough`, what can be proved of the
    liveness properties.

To come:

12. The composition of the query path with the reading half, as one module, where
    `GetStored` is `RemoteLookup` and not the union of its results.
13. Marshalling of `AclInfo` and of the results, where a property is about it.
