# TLA+ models of sdc-booter

sdc-booter answers the DHCP and TFTP requests of compute nodes (CNs) that boot
in a Triton data center. What a CN boots is decided by NAPI (addresses) and CNAPI
(boot params), services that may themselves run on CNs that are down. The core of
booter is therefore what it does when those services are slow, fail, or
change their answers: a timer, a directory of cached answers, and the tasks that
keep this directory fresh. That core is modelled, checked and proved here; around it, the
files that booter writes for each CN, the DHCP exchange that depends on them, and what is
computed from a server's records for packets, scripts and `networking.json`.

All line numbers are those of the files under `lib/` unless another path is given.

## Inventory

| Component | State | Operations | Hard behaviour |
|---|---|---|---|
| `bootparams.js` getBootParams, with `clients.js` | one closure per call: vArg, uuid, params, the timer; NAPI's nics; `<cache.dir>/<mac>.json` | 12 service requests in sequence, a 28 s timer, fallback to the cache, store | concurrent calls for one CN, late answers, failure after side effects, two ways to the callback |
| `json-file.js` | files | read, write | no lock, no rename: empty and torn files |
| `cache.js` CacheSentinel | two timers, `lastRefreshSuccessful`, the refresh queue, ages of the cache files | refresh (list, list, list, list, writeAll for each CN), purge (readdir, stat, unlink) | two tasks and the DHCP server on the same files; errors that count or do not count; slow services |
| `admin-pool-cache.js`, `server.js` | `admin_network_pool.json`, one timer shared by all callers | update, updateWorker, readCache; server start | overlapping updates, reads during a write, start without NAPI |
| `boot-files.js` writeAll | files of one CN | getBootParams, networking.json, boot modules, menu.lst, boot.ipxe, one after the other | a failure between two files, two writers |
| `dhcpd.js`, `dhcp.js` | socket | DISCOVER -> OFFER, REQUEST -> ACK, option 82 | OFFER and ACK from different sources |
| `net-file.js`, `menulst.js`, `boot-module-files.js`, `find.js` | files under `/tftpboot` | build and write | pairs of files that must match; precedence of arguments |
| `booter.js`, `bin/booter`, `bin/hn-netfile` | none | one-shot commands | a second process on the same files |
| `src/node-pack` | none | vendored binary packing | - |

How they interact: the DHCP server calls writeAll for a DISCOVER and getFromCache for a
REQUEST. writeAll calls getBootParams first. CacheSentinel calls writeAll for every CN
it lists, and AdminPoolCache.update during its refresh. getBootParams calls
AdminPoolCache.readCache. All of them share the event loop of one process and the files;
between two requests or file operations anything may run. The process is run with
`--abort-on-uncaught-exception`, and smf starts it again.

What makes each part correct:

* getBootParams: answered exactly once; never without an answer because a service hangs;
  fresh params are those of this CN; cached params were once assembled for this CN; a known
  CN is not refused because a service fails.
* CacheSentinel: both tasks go on for ever, once each; a purge trusts only a refresh that
  went well; files of current CNs stay, those of decommissioned ones go.
* AdminPoolCache: the periodic update goes on for ever; the file converges to NAPI's pool;
  the server starts without NAPI; a boot whose tag is in the pool finds the pool.
* Boot files: the files of a CN match each other and the OFFER.
* DHCP: an ACK confirms the OFFER it follows.

`PROJECT.json` lists every hazard found in the code with its line, and the properties that
cover it.

## Plan

1. *(done)* `JsonFile`, `BootAnswers`, `BootParams` with its proofs.
2. *(done)* `CacheSentinel` with its proofs.
3. *(done)* `AdminPoolCache` with its proofs.
4. *(done)* `WriteAll`, what DHCP sees of writeAll, and `BootFiles`, which implements it file by
   file, with its proofs.
5. *(done)* `Dhcpd` over `WriteAll`, and `DhcpLease`, which it implements, with its proofs.
6. *(done)* What is computed and keeps no state: `NicTags`, `DhcpReply`, `BootScripts`, checked
   together by `BootConfig`, with proofs.
7. *(done)* Proofs of the quiet-service properties of `BootParams` and of the failures of
   `AdminPoolCache`.
8. *(done)* Proofs about bytes: `CircuitIdFound` and `ReplySurvivesTheWire`.

All the safety properties that the passing runs check are proved; liveness stays with TLC.

Who composes with whom:

```
DhcpLease  <- implemented by -  Dhcpd      - INSTANCE -> WriteAll  <- implemented by -  BootFiles
BootAnswers <- implemented by - BootParams - INSTANCE -> JsonFile  (of WriteAll, BootFiles, too)
CacheSentinel (writeAll as one task)       - INSTANCE -> nothing   AdminPoolCache -> JsonFile
BootConfig - EXTENDS -> NicTags, DhcpReply, BootScripts
BootConfigProofs - EXTENDS -> NicTagsProofs - EXTENDS -> BootConfig, SequenceLemmas
```

## Modules

### JsonFile

One file as `json-file.js` treats it. `fs.writeFile` is an open that empties the file and a
write at offset 0; two writers may interleave. Of the bytes the model keeps the payload at
offset 0 and the length: a payload over a longer one leaves a tail, which JSON.parse refuses
(`Readable`). Payloads and sizes are constants.

### BootAnswers

The promise of getBootParams to its callers, with neither pipeline nor timer nor file: at
most one answer per call; a fresh answer carries what this call assembled, a cached one what
some call assembled for the same MAC; a crash loses unanswered calls.

### BootParams

| TLA+ | Code |
|---|---|
| `pc[c]` | the request whose callback comes next |
| `timer`, `lookup`, `answers` | pipelineTimeout and pipelineTimedOut; getFromCache under way; calls of the callback |
| `pool`, `bootNic`, `cn`, `params`, `tag` | fArg.adminPool, fArg.bootNic, cn_uuid/uuid (the admin user's or a server's), params, nic_tag |
| `nic`, `server`, `cnapi` | external: NAPI's nic of the MAC, what CNAPI knows of the CN, its boot params |
| `file` | `<cache.dir>/<mac>.json` |
| `assembled` | history: the params calls have assembled |

Each action is the answer to one request with everything the code does until the next one;
synchronous steps (`_checkAdminPoolCache`) belong to the action of the request that follows
or precedes them. An answer of a service may be an error at each step. Requests that change NAPI (`ProvisionIP`, `CreateNic`)
may take effect and lose their answer. A service that never answers is an action that is
never taken; the timer may fire at any time while armed. A call whose timer fired goes on.
Kernel arguments, MTU and routes are left out: params are opaque, and of the address only the
network is kept. The store is three steps: the open that empties the file (`OpenFile`), the write (`WriteFile`)
in the threadpool, and the callback (`CacheWritten`), which gives the answer; another call's
open may come between any two. `Crash` ends the process between two steps; calls are not reused after it.

### CacheSentinel

| TLA+ | Code |
|---|---|
| `refresh`, `refreshTimers`, `purge`, `purgeTimers` | where each task is; how many of its timeouts are set |
| `servers`, `nics` | ctx.servers, ctx.nics (a bag: a nic may be listed twice) |
| `todo`, `active`, `qErrors` | the queue's waiting and running tasks, errors seen |
| `age` | ticks since each cache file was written, or no file |
| `unchecked`, `doomed` | files the purge has not stat'ed; files waiting for unlink |
| `lastOutcome`, `covered`, `written`, `trusted` | history, for the properties only |

A task of the queue is writeAll, reduced to what it does to the cache file: fresh and
written; answered from the cache and not written; or an error. The second and third happen if
services fail, or are slower than 28 s and the timer is set. Whether it is set follows the
options through the code (`TaskOpts`, `ExtractBootOpts`, `HasTimer`). A task touches its file
in one step; `BootParams` has the two.

*Time.* One tick is at least a refresh interval and at least the duration of one queue run; `maxCacheFileAgeSeconds`
(604800 by default, against an interval of 300 and tasks of at most 28 s) is two ticks or more. So at
most one tick passes while the refresh timer is set and one while the queue runs, any number
while a list request is open, and none during a scan. `PurgeSparesCurrent` depends on this;
the two timer properties do not.

### AdminPoolCache

| TLA+ | Code |
|---|---|
| `timer` | timeoutId set |
| `pc`, `result`, `listed` | each caller's call of update or readCache, what it called back with, NAPI's answer on its way; the write and its callback (`FileWritten`) are two steps |
| `file` | `<poolCache.dir>/admin_network_pool.json` |
| `server` | server.js before its first update, after it, or down |
| `napi`, `known` | external: NAPI's pool; history of pools |

NAPI's answer is made in one step and received in another, so answers may be reordered. The
start of the server throws if its update fails; `Die` is the end of the process. An operator may
remove the file, which is what the ENOENT branch of readCache is for. "More than one pool"
is treated as a failed list, as the code does.

### WriteAll and BootFiles

`WriteAll` is writeAll for its callers: params from the services or the cache, the cache file
opened and written, "the rest" of the files, success or failure. `BootFiles` has all of them.

| BootFiles | Code |
|---|---|
| `pc[c]`, `todo`, `opened`, `written`, `failed` | the stage of the pipeline of `boot-files.js` and `net-file.js`; of its files (several only for boot modules, which `boot-module-files.js` writes in parallel) those to be opened, those open, of these the ones whose write ended but not yet its callback (`FileWritten`), and those that could not be written |
| `job[c]` | what getBootParams called back with: a version of the CN's configuration, whether fresh, and the operating system `menulst.js` derives |
| `found[c]` | arg.bootFiles: the names `find.js` found, and whether the walk was whole. An error of the walk is only logged, and some files are left out |
| `file` | the cache file, `networking.json`, its hash, the boot modules, menu.lst and boot.ipxe, each what `JsonFile` says |
| `current` | external: the version NAPI and CNAPI have now |
| `assembled`, `alone` | history |

A file is an image: the version it was made from, and for scripts the operating system and the list of
files. `AfterStage` is the order of the pipeline and what each error leads to: those of
`networking.json` are swallowed, all others end the call. The refinement mapping is `CacheSeen`,
`ScriptsSeen`, `StepsSeen`, `VersionsSeen`. The walk of the directory is one step, which may leave files out,
and is not done with `DisableBootTimeFiles`. Of the platform a version has only the operating system: the stat of its hashes
(`menulst.js:492`) is in `BootScripts`.

### DhcpLease and Dhcpd

`DhcpLease` has only a CN and its lease: offers and addresses come from assembled params, and
when an offer is taken the scripts are there.

| Dhcpd | Code |
|---|---|
| `HandleDiscover`, `Finish` | handleMessage on DHCPDISCOVER calls writeAll; its callback sends the OFFER |
| `AnswerRequest`, `IgnoreRequest` | handleMessage on DHCPREQUEST: getFromCache, then the ACK, or nothing |
| `BeginRefresh` | CacheSentinel's writeAll |
| `FetchParams`, `ReadParams`, `WriteFiles`, `WriteError`, `Crash` | the steps of `WriteAll`, with the handlers they end |
| `awaited`, `alone` | the handlers whose OFFER the CN would take; history |
| `net`, `cn` | external: messages on their way, in no order, each may be lost; the CN retransmits, takes one of the offers, may break off and begin again |

### NicTags, DhcpReply, BootScripts, BootConfig

| Module | Computes | Code |
|---|---|---|
| `NicTags` | the interface of each nic tag, as kernel argument and, for every order of NAPI's answers, in the array of `networking.json`; the admin nic of a CN | `bootparams.js`, `net-file.js`, `clients.js` napiGetNicTags |
| `DhcpReply` | whether a packet is answered; the circuit-id of option 82; router, boot file, options of the reply and whereto it is sent, or that the handler throws; the encoding of options and its inverse | `dhcpd.js`, `dhcp.js` |
| `BootScripts` | the order of boot files; which files each title of menu.lst, and boot.ipxe, loads, in what order and under which types and names | `find.js`, `menulst.js` |

`BootConfig` is a state machine that is given one input after the other; its invariants compare
the computed with a reference, or two computations of the same thing with each other.

A loop over nics and aggregations is a fold over *offers*, the tags and the interface of one nic or
aggregation: `Provide` keeps what is there (kernel arguments), `Bind` replaces it
(`networking.json`). What inputs there are is said by three assumptions: `ServersAssumption` (NAPI
knows the boot nic, MACs differ, aggregations consist of the CN's nics, and only tags of fabric
networks have a '/' in their names), `ExchangesAssumption` (addresses, gateways of routes among them, have four bytes; no route to a single host leads to a subnet of booter; option 82 has at
most 255 bytes, which are those of some sequence of sub-options, `MadeOf`, cut anywhere) and `MenusAssumption` (the walk meets each file once; extractBootOpts sets both directories). TLC evaluates them on the inputs of `boot_config`.

## Runs

| Run | Bounds | Shows |
|---|---|---|
| `bootparams_safety` | 2 calls, 1 MAC, one call timed, 2 params of different size; services, disk and process fail, CNAPI changes | types, one answer, the cache is left alone after the answer, a fresh answer stays stored, `BootAnswers` is implemented, a timed call is answered |
| `bootparams_quiet` | 2 timed calls, nic tag and pool, params of one size; only services fail | fresh params are the CN's; the file is readable between writes; a known CN is not refused |
| `sentinel_safety` | 2 MACs, one listed twice; concurrency 2; MaxAge 2; services in time, list errors, restarts, inventory changes | types; success means written; purge spares current files |
| `sentinel_liveness` | 1 MAC listed twice, concurrency 1; services fail and are slow | timers single; purge guarded; obsolete files go |
| `sentinel_slow_services` | as safety, services slow, fixed inventory | *violation* of `CurrentFilesKept` |
| `sentinel_rewritten` | as safety, inventory changes | *violation* of `OnlyOldPurged` |
| `pool_safety` | one caller of each kind, 2 pools and none, 3 sizes; NAPI, disk and process fail, the pool changes, the file is removed | types; the periodic update lives; only genuine pools |
| `pool_liveness` | as before, pool fixed, disk and process sound | start needs NAPI or the file; a missing file is fetched; the pool is learned |
| `pool_torn_read` | nothing fails or changes | *violation* of `BootsFindPool` |
| `boot_files` | a DISCOVER and a refresh, 2 versions (Linux without boot modules, SmartOS with two), one fault; 1,832,952 states, about 2 min | scripts name what is there; a call that runs alone leaves files that match; `WriteAll` is implemented |
| `dhcpd_exchange` | 2 calls, 2 versions of different size, one fault, one refresh; 111,462 states, about 65 s | the ACK confirms the OFFER; `DhcpLease` is implemented; the CN gets an address |
| `boot_config` | servers with 1 or 2 nics and up to 2 aggregations, packets with and without relay, every option 82 of up to 3 short sub-options cut anywhere, directories with up to 9 files: 29,454 inputs, about a minute | tags, replies and scripts (10 invariants) |

Why the bounds are enough: calls for different MACs share nothing in getBootParams but the
services, so one MAC and two calls give every race of a file and a timer; a third call adds
only a third writer. The cache files of different CNs meet in the refresh's queue, hence two MACs
there, with one listed twice so that the queue is as long as it can be per MAC. MaxAge 2 is
the least value the assumption on time allows. In the pool every pair of
callers of different kinds overlaps; two of one kind behave like a `Refresh` and a `Worker`.
CNs share no file of `BootFiles`; its two calls differ in what they know of platforms, and two versions
give each file an older and a newer image, only the second with boot modules so that a shrinking and a
growing list both occur (a fallback after a refresh returns to the first). One fault at any
of some twenty places leaves every partial result; the theorems do not have that bound. In `Dhcpd` two calls let
a handler overlap with another or with a refresh, and one fault lets a crash come between OFFER and
REQUEST. Two nics and two aggregations give every precedence; up to three
sub-options give a circuit-id before, between and behind others; 63 resolvers are the most that the
length byte of an option holds.
`CHECK_DEADLOCK FALSE` is set for `BootParams` and `BootFiles`, whose finite sets of calls end, and
for the CacheSentinel runs, where the environment, not the code, keeps things going.

Each property of a passing run has a mutant, defined beside the operator it replaces, of a bug
of the kind that operator could have (`..._Mutant`).

### Fairness

* `BootParams`: weak fairness of the timer and of file operations of each call. None of the services:
  this is what `TimedCallsAnswered` is about.
* `CacheSentinel`: weak fairness of the refresh timer, of the steps of refresh and purge
  (requests end, by an answer or an error). Strong fairness of a purge timer that fires
  after a good refresh (the periods, 3600 s and 300 s plus the time a refresh takes, drift against each
  other, so the purge does not for ever coincide with a refresh), of a directory that can be read now and then,
  and of time passing. `ObsoleteFilesRemoved` is stated only for behaviours in which refreshes succeed infinitely often.
* `AdminPoolCache`: weak fairness of smf's restart, of the timer, of each call's steps and of
  NAPI's answering; strong fairness of NAPI's answering well, for callers that go on asking.
* `Dhcpd`: weak fairness of the CN's retransmissions, of its giving up a REQUEST that the state of the cache file
  leaves without an answer, and of the file system; strong fairness of the arrival of messages
  that are sent again and again, and of the services answering at all. Refreshes and faults are bounded, and the
  fairness of the rest asks nothing of booter but that its event loop runs.

## Findings

1. **The refresh does not disable the pipeline's timer** (`cache.js:266`,
   `sentinel_slow_services`). It passes `pipelineTimeout`; getBootParams reads
   `pipelineTimeoutSeconds`; writeAll hands on neither. Under slow services refreshes are answered from
   the cache, count as successful and do not rewrite the file; when this lasts for
   maxCacheFileAgeSeconds, the purge removes the cache files of current CNs,
   the very files needed then. (An answer from the cache counting as success does
   the same when the services fail instead.)
2. **The purge may remove a file just written** (`cache.js:317`, `sentinel_rewritten`), between
   stat and unlink.
3. **A boot may miss the admin pool** (`bootparams.js:185`, `pool_torn_read`), when it reads
   the pool file while an update rewrites it: a parse error is not ENOENT, and the error is
   ignored, so a new CN is provisioned on the network 'admin'.

Seen while modelling, each as the model has it unless said otherwise:

* A nic outside all aggregations comes before them in the kernel arguments (`bootparams.js:518`), although the comment at line 493
  ranks aggregations above nics; `networking.json` has it as the comment says (`net-file.js:153`), so the two disagree.
  `ArgumentsAsDocumented` and `InterfacesAgree` say when the comment holds, and when they agree; they except this case.
* hn-netfile is to look at the nics only if no aggregation provides "admin" (`bin/hn-netfile:170`), but asks for `ctx.adminNic`
  (line 230) where `opts.adminNic` was set, so a nic that provides it replaces the first MAC of the aggregation. This choice is
  not modelled.
* A cached answer carries no platforms, so a DISCOVER answered from the cache gives a Linux
  CN the menu of SmartOS (`menulst.js:468`; `FilesMatchAnswer` says so of fresh answers only).
* Boot modules of earlier versions, and `networking.json`, are never removed, and are listed (`find.js`).
* Boot modules are decoded to a `binary` string and written as UTF-8 (`boot-module-files.js:38`).
* A failing stat of tftpRoot ends the process (`menulst.js:513`).
* Behind a relay, a network without gateway ends the process if it has no routes (`dhcpd.js:347`), or if a route to a single host, which
  createCIDR refuses, comes before the one to booter (`dhcpd.js:321`); with
  routes none of which leads to booter the router is 0.0.0.0.
* If two interfaces provide an admin tag, the admin nic of a CN is the last such nic, which need not be
  on the interface `networking.json` gives the tag (`AdminNicCarriesTag` is about one).
* The array of nic tags in `networking.json`, and so its hash, is in the order in which NAPI answered
  (`clients.js:205`); on a server with one vnic and two tags that may be the admin tag, the first answered gets the interface.
* An error of the walk over the boot modules is only logged (`find.js:49`, `boot-files.js:134`): the scripts then lack modules, and the CN
  is answered all the same.
* A boot module `ramdisk.hash`, or on Linux `etc/node.config`, comes under the type and name of a module of the platform
  (`NamesApart` excepts it).
* On Linux the hash of the squashfs is named when that of the initrd is there (`menulst.js:354`); nobody looks for it.
* Option 82 without giaddr gets a unicast reply without that option, giaddr without option 82 a broadcast.
* Of several sub-options 1 the last counts, even if it is empty (`dhcpd.js:158`).
* 64 resolvers make an option of length 0 (`dhcp.js:196`).

## Proofs

`BootParamsProofs`, `CacheSentinelProofs`, `AdminPoolCacheProofs`, `BootFilesProofs`, `DhcpdProofs`,
`NicTagsProofs` and `BootConfigProofs` (with `SequenceLemmas`) hold for every value of
the constants that the named assumptions allow: any number of calls, MACs, params,
pools, boot modules, versions and faults, any concurrency, any MaxAge of two ticks or more, any nics,
aggregations, routes and files.

* **BootParams.** `AtMostOneAnswer` is not inductive: a state with one answer and a lookup
  pending satisfies it. `CallInv` says which of pipeline, timer and lookup can still act for
  a call, and that a call with an answer has none left. `FileInv` says that whatever content the file has was
  assembled for its MAC. With both, each step of the pipeline maps to a step of `BootAnswers` or
  to none (`Implementation`). `StoredInv` gives `FreshIsStored`: what a call left in the file stays, from its write
  through its callback on, unless the file has what another call left there, is writing, or was stopped at. `FreshIsResolved` assumes that NAPI and CNAPI do not change by themselves
  (`Volatile` is FALSE); `ResolveInv` says what the pipeline has learned of the CN at each stage,
  which stays true because NAPI's addresses are never taken back. `QuietFileReadable` and `KnownCnNotRefused` assume a sound
  disk, no crash and payloads of one size: `QuietInv` bounds the length of the file by that size, so that
  the last of overlapping writes leaves a whole payload, and `KnownInv` says that a CN once
  given fresh params has a file. These are the hypotheses of `bootparams_quiet`, here for any number of
  calls and MACs, and for CNs and params of which the run has one or two.
* **CacheSentinel.** `IInv` (types, bounds of the bags, one timer each, `lastRefreshSuccessful`
  is true only while idle after a good refresh) gives `OneTimerEach` and
  `PurgeAfterGoodRefresh` with no assumption on the services. `FreshInv` is a chain over the
  phases: a task that ended left a young file, so the queue ends with young files, which
  are still young when the timer fires and when the purge looks; it needs the assumption
  `Well` that no writeAll fails and the services answer in time, and gives `SuccessMeansWritten` and
  `PurgeSparesCurrent`. Finding 1 shows that `Well` cannot be dropped.
* **AdminPoolCache.** `OriginInv` follows a pool from NAPI through an answer on its way into the
  file; `DownInv` says nothing survives the process. Together with the types they give
  `WorkerArmed` and `PoolFromNapi`. `StartFailsOnlyWithoutPool` and `MissingFileIsFetched` are false of a disk that
  fails (an error of the write is the caller's error); with a sound one they follow from `ReadBackInv`: a call reads the file
  back only after NAPI's list has failed.
* **BootFiles.** `Shape` says that the files a call has left to write are those of its stage, and that it has a job
  exactly between getBootParams and its callback. `Facts` is what a call may rely on at each stage: what it opened,
  found, or wrote is there, since no step removes a file (`FilesStay`). `FileInv` says that a
  hash comes with its file, and what a script names is there and, if the walk was whole, complete; `NextStage` carries `Facts` from stage to stage.
  They give `ScriptsListFiles`. With them each step maps to a step of `WriteAll` or to none
  (`IsWriteAll`): a success because both scripts are among the facts, the opening of a script because files
  stay. `FilesMatchAnswer` is
  not inductive: `MatchInv` says of a call that is alone that all others share its job, and that each file whose
  stage it has been through (`Settled`) fits its answer or is empty (`FilesMatch`).
* **Dhcpd.** `FilesInv` follows versions from the services through calls into the cache file, `AnswerInv`
  into messages: together they map each step to one of `DhcpLease` (`LeaseImplemented`).
  `AckConfirmsOffer` needs more: while the offer of a call that was alone is on its way or taken, the
  file holds its version or a later one, and so do all calls that may still write it
  (`AloneInv`, `FirmInv`, with `AtLeast`).

* **NicTags.** The state is only which input is given (`GivenInv`), so the work is in the loops. `FoldRuns` of
  `SequenceLemmas` gives the sequence of a fold's intermediate results; from it, by induction on the
  step (with a least counterexample, `NatInd` and `UpTo`), `ProvideSteps` says that a
  tag has the interface of the *first* offer that has it, and `BindSteps` that of the *last*. `KernelArgsOf`
  and `ConfOf` turn this into what the two configurations say of a tag, in every order of NAPI's answers
  (`TagsOrdered`, `ConfLists`), and each theorem compares two such statements.
* **DhcpReply, BootScripts.** `LoopEnds` says where the loop over the routes ends: at the first that leads to booter
  or to a single host; `ToBooterIs` that the theorem's choice is the same. `PushedFiles`
  says what a loop of pushes leaves: every file of its kind once, no more, so that the networking files,
  of which there are at most two, come first. `IpxeLists` and `MenuLists` say that each script is a head of platform files
  and one line for each boot file, by the rule of its own block; under each rule two lines
  with one type and name load one file, and no boot file has the name of one of the head but for the exception (`LinesApart`), which is `NamesApart`.
* **DhcpReply, bytes.** `CircuitId`, `ToBuffer` and `Parse` are recursive functions, each a CHOOSE of a function
  that satisfies its equation: `Recursion` and `RecursionDown` of `SequenceLemmas` give such a
  function, and hence the equation (`CircuitLoop`, `Written`, `ParseLoop`). `SubOptionAt` says what the loop over
  option 82 finds where a sub-option starts, whole or cut; by induction from the last sub-option
  on, `CircuitFound` says what it knows there. `ReplyFits` says that the values of a reply are bytes, at most 255 each;
  `Layout` where `ToBuffer` puts each option and the end, so that `WireCarries` can follow `Parse` from the end
  back to the first byte: above each code it has read the options of the reply and nothing else.

Each inductive invariant was also checked by TLC on the instances above before it was proved.

Only model-checked: the liveness properties (`TimedCallsAnswered`, `ObsoleteFilesRemoved`,
`PoolIsLearned`, `CnGetsAddress`), which need ENABLED and fairness, out of this prover's reach.

## Not modelled

* Text: the layout of menu.lst, boot.ipxe and networking.json, log messages. Of the scripts also console, flags and kernel arguments.
* A platform, or its hashes under tftpRoot, that changes between the making of the scripts and the boot of the CN.
* The fields of a packet that are copied or constant; the 1,200 bytes to which `dhcp.js` allocates the options.
* In networking.json the resolvers, routes, MTU and the underlay rule, which are copied from NAPI; in the
  boot params whatever no other module depends on.
* Deployment: smf manifests, setup scripts, nginx, tftpd. They give the intervals quoted above.
* The command line `bin/booter`: a second process that calls getBootParams or writeAll. To the files it is one more
  call of `BootParams` or `BootFiles`. (`booter menu-lst` does not set the operating system either.)
* How hn-netfile finds the headnode and its admin nic; the `networking.json` made of them is that of a CN.
* `src/node-pack`, vendored.
* A writer and an unlink of the same cache file that overlap in one write: the write is one step in
  `CacheSentinel`.
* A writer that fails half way through one write: it is modelled as having written nothing, or all.
