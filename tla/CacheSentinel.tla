---------------------------- MODULE CacheSentinel -----------------------------
(***************************************************************************)
(* CacheSentinel of lib/cache.js: the two periodic tasks that keep the     *)
(* cache directory in the state the fallback of getBootParams needs.       *)
(*                                                                         *)
(* Refresh lists the CNs and runs writeAll for each of them, a few at a    *)
(* time; purge unlinks the files nobody has written for long.  Both run in *)
(* one process with the DHCP server, whose DISCOVERs write the same files, *)
(* and both interleave at every request and file operation.                *)
(*                                                                         *)
(* Of a cache file only its age matters here, counted in ticks; Tick says  *)
(* how long one is.                                                        *)
(***************************************************************************)
EXTENDS Naturals, FiniteSets, Functions

CONSTANTS
    Mac,
    AdminNics,      \* MACs NAPI lists for nic_tag 'admin'
    PoolNics,       \* MACs NAPI lists on the networks of the admin pool
    Concurrency,    \* config.cache.refreshConcurrency
    MaxAge,         \* config.cache.maxCacheFileAgeSeconds, in ticks
    ServicesFail,   \* NAPI and CNAPI may fail a writeAll, the disk its files
    ServicesSlow,   \* NAPI and CNAPI may take longer than 28 seconds for one
    InventoryChanges, \* CNs are added and decommissioned
    CanCrash

ASSUME CacheSentinelAssumption ==
    /\ IsFiniteSet(Mac)
    /\ AdminNics \subseteq Mac /\ PoolNics \subseteq Mac
    /\ Concurrency \in Nat \ {0}
    /\ MaxAge \in Nat /\ MaxAge >= 2
    /\ {ServicesFail, ServicesSlow, InventoryChanges, CanCrash} \subseteq BOOLEAN

VARIABLES
    live,       \* external: the CNs that have a server in CNAPI
    age,        \* per MAC: NoFile, or ticks since its cache file was written
    refresh,    \* "idle" or the request the refresh pipeline waits for
    refreshTimers,  \* refresh timeouts that are set
    servers, nics,  \* ctx.servers; ctx.nics, as how often each MAC is in it
    todo, active,   \* the queue: tasks per MAC not started, running
    qErrors,    \* some task failed
    lastRefreshSuccessful,
    purge,      \* "idle", "readdir" or "scan"
    purgeTimers,
    unchecked,  \* files of the purge that fs.stat has not reported on
    doomed,     \* files found too old, waiting for fs.unlink
    waited,     \* ticks since the refresh timer was set, or the queue started
    \* history
    lastOutcome,    \* how the last refresh of this process ended
    covered,        \* the MACs a successful last refresh was about
    written,        \* the MACs whose file was written since the refresh began
    trusted         \* covered, when the purge in progress was let go ahead

refreshVars == <<refresh, refreshTimers, servers, nics, todo, active, qErrors,
                 lastRefreshSuccessful, waited, lastOutcome, covered>>
purgeVars   == <<purge, purgeTimers, unchecked, doomed>>
vars        == <<live, age, written, trusted, refreshVars, purgeVars>>

NoFile == MaxAge + 2            \* not an age: ages stop at MaxAge + 1
Old    == MaxAge + 1
HasFile(m) == age[m] # NoFile

NoTasks == [m \in Mac |-> 0]
Pending(tasks) == {m \in Mac : tasks[m] > 0}

\* The cache file of m is written, or opened for it.
Touch(m) ==
    /\ age' = [age EXCEPT ![m] = 0]
    /\ written' = written \cup {m}

-------------------------------------------------------------------------------
Init ==
    /\ live \in SUBSET Mac
    /\ age \in [Mac -> 0 .. NoFile]
    /\ refresh = "idle" /\ refreshTimers = 1
    /\ servers = {} /\ nics = NoTasks
    /\ todo = NoTasks /\ active = NoTasks /\ qErrors = FALSE
    /\ lastRefreshSuccessful = "undefined"
    /\ purge = "idle" /\ purgeTimers = 1
    /\ unchecked = {} /\ doomed = {}
    /\ waited = 0
    /\ lastOutcome = "none" /\ covered = {}
    /\ written = {} /\ trusted = {}

-------------------------------------------------------------------------------
(* Refresh.                                                                *)

setNextRefreshTimeout ==
    /\ refreshTimers' = refreshTimers + 1
    /\ waited' = 0

\* Mutant: the last outcome stands while the refresh runs.
RefreshCache_Mutant ==
    /\ refreshTimers > 0 /\ refresh = "idle"
    /\ refreshTimers' = refreshTimers - 1
    /\ refresh' = "listServers"
    /\ servers' = {} /\ nics' = NoTasks
    /\ written' = {}
    /\ UNCHANGED <<live, age, trusted, todo, active, qErrors, lastRefreshSuccessful, waited,
                   lastOutcome, covered, purgeVars>>

\* refreshCache, up to its first request.
RefreshCache ==
    /\ refreshTimers > 0 /\ refresh = "idle"
    /\ refreshTimers' = refreshTimers - 1
    /\ refresh' = "listServers"
    /\ lastRefreshSuccessful' = "undefined"
    /\ servers' = {} /\ nics' = NoTasks
    /\ written' = {}
    /\ UNCHANGED <<live, age, trusted, todo, active, qErrors, waited, lastOutcome, covered,
                   purgeVars>>

\* pipelineDone with an error: of a list request.
PipelineFails ==
    /\ refresh' = "idle"
    /\ lastRefreshSuccessful' = "false"
    /\ setNextRefreshTimeout
    /\ lastOutcome' = "failed" /\ covered' = {}
    /\ UNCHANGED <<servers, nics, todo, active, qErrors>>

NextStep(step) ==
    /\ refresh' = step
    /\ UNCHANGED <<refreshTimers, todo, active, qErrors, lastRefreshSuccessful,
                   waited, lastOutcome, covered>>

StepListServers ==
    /\ refresh = "listServers"
    /\ \/ servers' = live /\ NextStep("listPlatforms") /\ UNCHANGED nics
       \/ PipelineFails
    /\ UNCHANGED <<live, age, written, trusted, purgeVars>>

StepListPlatforms ==
    /\ refresh = "listPlatforms"
    /\ \/ NextStep("listNics") /\ UNCHANGED <<servers, nics>>
       \/ PipelineFails
    /\ UNCHANGED <<live, age, written, trusted, purgeVars>>

Add(bag, set) == [m \in Mac |-> bag[m] + IF m \in set THEN 1 ELSE 0]

StepListNics ==
    /\ refresh = "listNics"
    /\ \/ nics' = Add(NoTasks, AdminNics) /\ NextStep("updatePool") /\ UNCHANGED servers
       \/ PipelineFails
    /\ UNCHANGED <<live, age, written, trusted, purgeVars>>

\* stepFilterToMacs and the start of the queue, one tick of the event loop.
FillCache(listed) ==
    /\ nics' = listed
    /\ todo' = [m \in Mac |-> IF m \in servers THEN listed[m] ELSE 0]
    /\ active' = NoTasks /\ qErrors' = FALSE
    /\ refresh' = "fill"
    /\ waited' = 0
    /\ UNCHANGED <<servers, refreshTimers, lastRefreshSuccessful, lastOutcome, covered>>

\* Mutant: the nics of the pool are asked for by tag, and again by network.
StepAppendAdminPoolNics_Mutant ==
    /\ \/ /\ refresh = "updatePool"
          /\ \/ FillCache(nics)
             \/ PoolNics # {} /\ NextStep("listPoolNics") /\ UNCHANGED <<servers, nics>>
       \/ /\ refresh = "listPoolNics"
          /\ FillCache(Add(Add(nics, PoolNics), PoolNics)) \/ PipelineFails
    /\ UNCHANGED <<live, age, written, trusted, purgeVars>>

\* adminPoolCache.update: without a pool, or with an error, the refresh goes on.
StepAppendAdminPoolNics ==
    /\ \/ /\ refresh = "updatePool"
          /\ \/ FillCache(nics)
             \/ PoolNics # {} /\ NextStep("listPoolNics") /\ UNCHANGED <<servers, nics>>
       \/ /\ refresh = "listPoolNics"
          /\ FillCache(Add(nics, PoolNics)) \/ PipelineFails
    /\ UNCHANGED <<live, age, written, trusted, purgeVars>>

\* The queue starts a writeAll while fewer than refreshConcurrency are running.
StartTask(m) ==
    /\ refresh = "fill"
    /\ todo[m] > 0
    /\ SumFunction(active) < Concurrency
    /\ todo' = [todo EXCEPT ![m] = @ - 1]
    /\ active' = [active EXCEPT ![m] = @ + 1]
    /\ UNCHANGED <<live, age, written, trusted, refresh, refreshTimers, servers, nics, qErrors,
                   lastRefreshSuccessful, waited, lastOutcome, covered, purgeVars>>

\* The options the worker gives writeAll, those extractBootOpts hands on, and
\* whether getBootParams sets its timer: without pipelineTimeoutSeconds it does.
TaskOpts == {"config", "adminUuid", "cacheDir", "mac", "nic_tag", "napi", "cnapi",
             "log", "adminPoolCache", "platforms", "pipelineTimeout"}
ExtractBootOpts(opts) ==
    {"adminUuid", "cacheDir", "cnapi", "log", "napi", "mac", "nic_tag",
     "adminPoolCache"} \cup (opts \cap {"platforms"})
HasTimer(opts) == "pipelineTimeoutSeconds" \notin opts

\* What writeAll does to the cache file of m and how it calls back.  The answer
\* of getBootParams is fresh; or, if a service fails or the timer fires, cached
\* or an error.  Steps after getBootParams may fail as well, and a store that
\* fails has touched the file.
WriteAll(m, ok) ==
    \/ Touch(m) /\ ok \in {TRUE, ~ServicesFail}
    \/ /\ ServicesFail \/ (ServicesSlow /\ HasTimer(ExtractBootOpts(TaskOpts)))
       /\ ok => HasFile(m)
       /\ UNCHANGED <<age, written>>

TaskDone(m) ==
    /\ refresh = "fill"
    /\ active[m] > 0
    /\ active' = [active EXCEPT ![m] = @ - 1]
    /\ \E ok \in BOOLEAN :
          WriteAll(m, ok) /\ qErrors' = (qErrors \/ ~ok)
    /\ UNCHANGED <<live, trusted, refresh, refreshTimers, servers, nics, todo,
                   lastRefreshSuccessful, waited, lastOutcome, covered, purgeVars>>

\* Mutant: the queue's 'drain', when the last task has started.
FillEnds_Mutant ==
    /\ refresh = "fill"
    /\ Pending(todo) = {}
    /\ refresh' = "idle"
    /\ lastRefreshSuccessful' = IF qErrors THEN lastRefreshSuccessful ELSE "true"
    /\ setNextRefreshTimeout
    /\ lastOutcome' = IF qErrors THEN "errors" ELSE "ok"
    /\ covered' = IF qErrors THEN {} ELSE {m \in servers : nics[m] > 0}
    /\ UNCHANGED <<live, age, written, trusted, servers, nics, todo, active, qErrors, purgeVars>>

\* The queue's 'end'.
FillEnds ==
    /\ refresh = "fill"
    /\ Pending(todo) \cup Pending(active) = {}
    /\ refresh' = "idle"
    /\ lastRefreshSuccessful' = IF qErrors THEN lastRefreshSuccessful ELSE "true"
    /\ setNextRefreshTimeout
    /\ lastOutcome' = IF qErrors THEN "errors" ELSE "ok"
    /\ covered' = IF qErrors THEN {} ELSE {m \in servers : nics[m] > 0}
    /\ UNCHANGED <<live, age, written, trusted, servers, nics, todo, active, qErrors, purgeVars>>

-------------------------------------------------------------------------------
(* Purge.                                                                  *)

setNextPurgeTimeout == purgeTimers' = purgeTimers + 1

\* Mutant: a purge that is delayed does not set its timer again.
PurgeCache_Mutant ==
    /\ purgeTimers > 0 /\ purge = "idle"
    /\ purgeTimers' = purgeTimers - 1
    /\ purge' = IF lastRefreshSuccessful = "true" THEN "readdir" ELSE "idle"
    /\ trusted' = covered
    /\ UNCHANGED <<live, age, written, refreshVars, unchecked, doomed>>

PurgeCache ==
    /\ purgeTimers > 0 /\ purge = "idle"
    /\ IF lastRefreshSuccessful = "true"
       THEN purge' = "readdir" /\ purgeTimers' = purgeTimers - 1
       ELSE UNCHANGED <<purge, purgeTimers>>        \* delayed: set again
    /\ trusted' = covered
    /\ UNCHANGED <<live, age, written, refreshVars, unchecked, doomed>>

\* Mutant: a directory that cannot be read ends the purges.
ReadDir_Mutant ==
    /\ purge = "readdir"
    /\ \/ purge' = "scan" /\ unchecked' = {m \in Mac : HasFile(m)}
       \/ purge' = "idle" /\ UNCHANGED unchecked
    /\ UNCHANGED <<live, age, written, trusted, refreshVars, purgeTimers, doomed>>

ReadDir ==
    /\ purge = "readdir"
    /\ \/ /\ purge' = "scan"
          /\ unchecked' = {m \in Mac : HasFile(m)}
          /\ UNCHANGED purgeTimers
       \/ /\ purge' = "idle"
          /\ setNextPurgeTimeout
          /\ UNCHANGED unchecked
    /\ UNCHANGED <<live, age, written, trusted, refreshVars, doomed>>

\* Mutant: a file is too old a tick early.
CheckFile_Mutant(m) ==
    /\ m \in unchecked
    /\ unchecked' = unchecked \ {m}
    /\ doomed' = IF HasFile(m) /\ age[m] >= MaxAge THEN doomed \cup {m} ELSE doomed
    /\ UNCHANGED <<live, age, written, trusted, refreshVars, purge, purgeTimers>>

\* A file whose stat fails is left alone.
CheckFile(m) ==
    /\ m \in unchecked
    /\ unchecked' = unchecked \ {m}
    /\ doomed' = IF HasFile(m) /\ age[m] > MaxAge THEN doomed \cup {m} ELSE doomed
    /\ UNCHANGED <<live, age, written, trusted, refreshVars, purge, purgeTimers>>

Unlink(m) ==
    /\ m \in doomed
    /\ doomed' = doomed \ {m}
    /\ age' = [age EXCEPT ![m] = NoFile]
    /\ UNCHANGED <<live, written, trusted, refreshVars, purge, purgeTimers, unchecked>>

PurgeEnds ==
    /\ purge = "scan"
    /\ unchecked \cup doomed = {}
    /\ purge' = "idle"
    /\ setNextPurgeTimeout
    /\ UNCHANGED <<live, age, written, trusted, refreshVars, unchecked, doomed>>

-------------------------------------------------------------------------------
(* The rest of the process, and what is outside.                           *)

\* A DHCPDISCOVER of a CN is answered fresh.  (One that a decommissioned CN still
\* sends is left out: the file it writes is not an obsolete one.)
Discover(m) ==
    /\ m \in live
    /\ Touch(m)
    /\ UNCHANGED <<live, trusted, refreshVars, purgeVars>>

\* CNs are added and decommissioned.
Inventory(m) ==
    /\ InventoryChanges
    /\ live' = IF m \in live THEN live \ {m} ELSE live \cup {m}
    /\ UNCHANGED <<age, written, trusted, refreshVars, purgeVars>>

\* Files grow older.  A tick is a time neither refreshIntervalSeconds nor the
\* writeAlls of one refresh exceed, and maxCacheFileAgeSeconds (seven days) is
\* two or more of them: one passes at most while the refresh timer is set, and
\* one while the queue runs.  The list requests, which have no timeout here,
\* take any number; scanning the directory takes none.
Tick ==
    /\ refresh \in {"idle", "fill"} => waited = 0
    /\ purge = "idle"
    /\ waited' = IF refresh \in {"idle", "fill"} THEN 1 ELSE waited
    /\ age' = [m \in Mac |-> IF age[m] < Old THEN age[m] + 1 ELSE age[m]]
    /\ UNCHANGED <<live, written, trusted, refresh, refreshTimers, servers, nics,
                   todo, active, qErrors, lastRefreshSuccessful, lastOutcome, covered, purgeVars>>

\* The process dies and is started again: a new CacheSentinel.
Restart ==
    /\ CanCrash
    /\ refresh' = "idle" /\ refreshTimers' = 1
    /\ servers' = {} /\ nics' = NoTasks
    /\ todo' = NoTasks /\ active' = NoTasks /\ qErrors' = FALSE
    /\ lastRefreshSuccessful' = "undefined"
    /\ purge' = "idle" /\ purgeTimers' = 1
    /\ unchecked' = {} /\ doomed' = {}
    /\ waited' = 0
    /\ lastOutcome' = "none" /\ covered' = {}
    /\ written' = {} /\ trusted' = {}
    /\ UNCHANGED <<live, age>>

RefreshStep ==
    \/ StepListServers \/ StepListPlatforms \/ StepListNics \/ StepAppendAdminPoolNics
    \/ \E m \in Mac : StartTask(m) \/ TaskDone(m)
    \/ FillEnds

PurgeStep ==
    \/ ReadDir
    \/ \E m \in Mac : CheckFile(m) \/ Unlink(m)
    \/ PurgeEnds

Next ==
    \/ RefreshCache \/ RefreshStep
    \/ PurgeCache \/ PurgeStep
    \/ \E m \in Mac : Discover(m) \/ Inventory(m)
    \/ Tick \/ Restart

Spec == Init /\ [][Next]_vars

\* Timers fire, time passes, requests and file operations end, and the directory
\* can be read now and then.  The purge timer is not always due while a refresh is
\* running: their periods differ, and the refresh's drifts by the time one takes.
Fairness ==
    /\ WF_vars(RefreshCache) /\ WF_vars(RefreshStep) /\ WF_vars(PurgeStep)
    /\ SF_vars(PurgeCache /\ lastRefreshSuccessful = "true")
    /\ SF_vars(ReadDir /\ purge' = "scan") /\ SF_vars(Tick)

FairSpec == Spec /\ Fairness

-------------------------------------------------------------------------------
(* Every variable stays in its set; no MAC is queued more than twice.      *)
TypeOK ==
    /\ live \in SUBSET Mac /\ age \in [Mac -> 0 .. NoFile]
    /\ refresh \in {"idle", "listServers", "listPlatforms", "listNics", "updatePool",
                    "listPoolNics", "fill"}
    /\ refreshTimers \in Nat
    /\ servers \in SUBSET Mac /\ nics \in [Mac -> 0 .. 2]
    /\ todo \in [Mac -> 0 .. 2] /\ active \in [Mac -> 0 .. 2] /\ qErrors \in BOOLEAN
    /\ lastRefreshSuccessful \in {"undefined", "true", "false"}
    /\ purge \in {"idle", "readdir", "scan"} /\ purgeTimers \in Nat
    /\ unchecked \in SUBSET Mac /\ doomed \in SUBSET Mac
    /\ waited \in {0, 1}
    /\ lastOutcome \in {"none", "ok", "errors", "failed"}
    /\ covered \in SUBSET Mac /\ written \in SUBSET Mac /\ trusted \in SUBSET Mac

(* Each task either runs or has one timer set to run it: no path through   *)
(* refreshCache or purgeCache forgets to set the next timeout, and none    *)
(* sets two, after which refreshes would overlap and multiply              *)
(* (cache.js:286, 297, 310, 336, 351).                                     *)
OneTimerEach ==
    /\ refreshTimers + (IF refresh = "idle" THEN 0 ELSE 1) = 1
    /\ purgeTimers + (IF purge = "idle" THEN 0 ELSE 1) = 1

(* "Purging is only done if the last refresh completed without error"      *)
(* (cache.js:61): not before the first refresh of this process, not during *)
(* a refresh, and not after one that failed to list or had task errors.    *)
PurgeAfterGoodRefresh ==
    [][purge = "idle" /\ purge' # "idle" =>
          refresh = "idle" /\ lastOutcome = "ok"]_vars

(* A refresh that calls itself successful has written the file of every CN *)
(* it listed (cache.js:51-53), listed once or twice.                       *)
SuccessMeansWritten ==
    [][lastRefreshSuccessful' = "true" /\ lastRefreshSuccessful # "true" =>
          {m \in servers : nics[m] > 0} \subseteq written']_vars

(* A purge spares the CNs of the refresh it relies on (cache.js:58-61),    *)
(* whatever failed before that refresh and whatever has run since.         *)
PurgeSparesCurrent ==
    [][\A m \in Mac : HasFile(m) /\ age'[m] = NoFile => m \notin trusted]_vars

(* "remove cache files for decommissioned CNs" (cache.js:59-60): the file  *)
(* of a CN that stays decommissioned does go away as long as refreshes go  *)
(* on to succeed, now and then.                                            *)
ObsoleteFilesRemoved ==
    \A m \in Mac :
        []<>(lastRefreshSuccessful = "true") /\ <>[](m \notin live)
            => <>(age[m] = NoFile)

(* The purge is for decommissioned CNs: while the set of CNs stays as it   *)
(* is, the file of a current one is not removed (cache.js:58-61).          *)
CurrentFilesKept ==
    [][\A m \in Mac : HasFile(m) /\ age'[m] = NoFile => m \notin live]_vars

(* "delete cache files that have not been updated in a long time"          *)
(* (cache.js:58-59): the file is old when it is deleted.                   *)
OnlyOldPurged ==
    [][\A m \in Mac : HasFile(m) /\ age'[m] = NoFile => age[m] > MaxAge]_vars
===============================================================================
