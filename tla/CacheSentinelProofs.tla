------------------------- MODULE CacheSentinelProofs --------------------------
(***************************************************************************)
(* Proofs about CacheSentinel for every set of MACs, however many are      *)
(* refreshed at a time and whatever the age a file may reach.              *)
(*                                                                         *)
(* What a purge may trust rests on a chain: a task of the queue that is    *)
(* done leaves a young file, so the queue ends with young files; they stay *)
(* young while the refresh timer is set; so they are when the purge looks. *)
(* Each link is a conjunct of FreshInv, over one phase of the tasks.       *)
(***************************************************************************)
EXTENDS CacheSentinel, TLAPS

\* What bounds the bags of MACs: two requests list them, each MAC once.
BagInv ==
    /\ refresh \in {"updatePool", "listPoolNics"} => \A m \in Mac : nics[m] <= 1
    /\ \A m \in Mac : todo[m] + active[m] <= 2

OutcomeInv ==
    /\ lastRefreshSuccessful = "true" => refresh = "idle" /\ lastOutcome = "ok"
    /\ purge \in {"idle", "readdir"} => unchecked \cup doomed = {}

IInv == TypeOK /\ BagInv /\ OutcomeInv /\ OneTimerEach

\* A file that is there is at most n ticks old.
Young(m, n) == age[m] <= n \/ age[m] = NoFile

Listed == {m \in servers : nics[m] > 0}

FreshInv ==
    /\ refresh = "fill" => \A m \in Listed :
          /\ todo[m] + active[m] = nics[m] \/ Young(m, waited)
          /\ todo[m] + active[m] > 0 \/ m \in written
    /\ refresh = "idle" => \A m \in covered : Young(m, 1 + waited)
    /\ purge # "idle" => \A m \in trusted : Young(m, 2) /\ m \notin doomed

-------------------------------------------------------------------------------
(* The bags.                                                               *)

(* A request lists each MAC at most once.                                  *)
LEMMA AddBounds ==
    ASSUME NEW n \in {0, 1}, NEW bag \in [Mac -> 0 .. n], NEW set \in SUBSET Mac
    PROVE  Add(bag, set) \in [Mac -> 0 .. n + 1]
  BY DEF Add

(* The empty bag.                                                          *)
LEMMA NoTasksFacts ==
    /\ NoTasks \in [Mac -> 0 .. 0] /\ NoTasks \in [Mac -> 0 .. 2]
    /\ \A m \in Mac : NoTasks[m] = 0
  BY DEF NoTasks

(* The queue is filled with what was listed.                               *)
LEMMA FillCacheKeeps ==
    ASSUME IInv, NEW bag \in [Mac -> 0 .. 2], FillCache(bag), refresh # "idle",
           UNCHANGED <<live, age, written, trusted, purgeVars>>
    PROVE  IInv'
  <1>1. NoTasks \in [Mac -> 0 .. 2] /\ \A m \in Mac : NoTasks[m] = 0
    BY NoTasksFacts
  <1>2. todo' \in [Mac -> 0 .. 2] /\ active' = NoTasks
    BY DEF FillCache
  <1>3. TypeOK'
    BY <1>1, <1>2 DEF IInv, TypeOK, FillCache, purgeVars
  <1>4. BagInv'
    BY <1>1, <1>2 DEF FillCache, BagInv
  <1>5. OutcomeInv' /\ OneTimerEach'
    BY DEF IInv, TypeOK, OutcomeInv, OneTimerEach, FillCache, purgeVars
  <1> QED BY <1>3, <1>4, <1>5 DEF IInv

(* A list request that fails ends the refresh.                             *)
LEMMA PipelineFailsKeeps ==
    ASSUME IInv, PipelineFails, refresh # "idle",
           UNCHANGED <<live, age, written, trusted, purgeVars>>
    PROVE  IInv'
  BY DEF IInv, TypeOK, BagInv, OutcomeInv, OneTimerEach, PipelineFails,
         setNextRefreshTimeout, purgeVars

(* A list request that is answered leads to the next step.                 *)
LEMMA NextStepKeeps ==
    ASSUME IInv, refresh # "idle", NEW s \in {"listPlatforms", "listNics", "updatePool",
                                              "listPoolNics"},
           NextStep(s), servers' \in SUBSET Mac, nics' \in [Mac -> 0 .. 2],
           s \in {"updatePool", "listPoolNics"} => \A m \in Mac : nics'[m] <= 1,
           UNCHANGED <<live, age, written, trusted, purgeVars>>
    PROVE  IInv'
  BY DEF IInv, TypeOK, BagInv, OutcomeInv, OneTimerEach, NextStep, purgeVars

-------------------------------------------------------------------------------
(* The invariant holds in every state.                                     *)

(* A process that just started satisfies it, whatever it finds cached.     *)
LEMMA InitIInv == Init => IInv
  <1> SUFFICES ASSUME Init PROVE IInv
    OBVIOUS
  <1>1. TypeOK
    BY NoTasksFacts DEF Init, TypeOK
  <1>2. BagInv
    <2>1. \A m \in Mac : todo[m] = 0 /\ active[m] = 0
      BY NoTasksFacts DEF Init
    <2> QED BY <2>1 DEF Init, BagInv
  <1>3. OutcomeInv /\ OneTimerEach
    BY DEF Init, OutcomeInv, OneTimerEach
  <1> QED BY <1>1, <1>2, <1>3 DEF IInv

(* The file operations of a task keep the types.                           *)
LEMMA WriteAllTypes ==
    ASSUME TypeOK, NEW m \in Mac, NEW ok \in BOOLEAN, WriteAll(m, ok)
    PROVE  age' \in [Mac -> 0 .. NoFile] /\ written' \in SUBSET Mac
  <1>1. CASE Touch(m)
    BY <1>1, CacheSentinelAssumption DEF TypeOK, Touch, NoFile
  <1>2. CASE UNCHANGED <<age, written>>
    BY <1>2 DEF TypeOK
  <1> QED BY <1>1, <1>2 DEF WriteAll

(* A refresh that begins, and each of its list requests, keep it.          *)
LEMMA RefreshKeeps ==
    ASSUME IInv, RefreshCache \/ StepListServers \/ StepListPlatforms \/ StepListNics
                 \/ StepAppendAdminPoolNics
    PROVE  IInv'
  <1>1. CASE RefreshCache
    BY <1>1 DEF IInv, TypeOK, BagInv, OutcomeInv, OneTimerEach, RefreshCache, NoTasks, purgeVars
  <1>2. CASE StepListServers
    <2>1. CASE PipelineFails
      BY <1>2, <2>1, PipelineFailsKeeps DEF StepListServers
    <2>2. CASE servers' = live /\ NextStep("listPlatforms") /\ UNCHANGED nics
      BY <1>2, <2>2, NextStepKeeps DEF StepListServers, IInv, TypeOK
    <2> QED BY <1>2, <2>1, <2>2 DEF StepListServers
  <1>3. CASE StepListPlatforms
    <2>1. CASE PipelineFails
      BY <1>3, <2>1, PipelineFailsKeeps DEF StepListPlatforms
    <2>2. CASE NextStep("listNics") /\ UNCHANGED <<servers, nics>>
      BY <1>3, <2>2, NextStepKeeps DEF StepListPlatforms, IInv, TypeOK
    <2> QED BY <1>3, <2>1, <2>2 DEF StepListPlatforms
  <1>4. CASE StepListNics
    <2>1. CASE PipelineFails
      BY <1>4, <2>1, PipelineFailsKeeps DEF StepListNics
    <2>2. CASE nics' = Add(NoTasks, AdminNics) /\ NextStep("updatePool") /\ UNCHANGED servers
      <3>1. Add(NoTasks, AdminNics) \in [Mac -> 0 .. 0 + 1]
        BY AddBounds, NoTasksFacts, CacheSentinelAssumption
      <3>2. nics' \in [Mac -> 0 .. 2] /\ \A m \in Mac : nics'[m] <= 1
        BY <2>2, <3>1
      <3> QED BY <1>4, <2>2, <3>2, NextStepKeeps DEF StepListNics, IInv, TypeOK
    <2> QED BY <1>4, <2>1, <2>2 DEF StepListNics
  <1>5. CASE StepAppendAdminPoolNics
    <2>1. CASE PipelineFails /\ refresh # "idle"
      BY <1>5, <2>1, PipelineFailsKeeps DEF StepAppendAdminPoolNics
    <2>2. CASE refresh = "updatePool" /\ NextStep("listPoolNics") /\ UNCHANGED <<servers, nics>>
      BY <1>5, <2>2, NextStepKeeps DEF StepAppendAdminPoolNics, IInv, TypeOK, BagInv
    <2>3. CASE refresh = "updatePool" /\ FillCache(nics)
      BY <1>5, <2>3, FillCacheKeeps DEF StepAppendAdminPoolNics, IInv, TypeOK
    <2>4. CASE refresh = "listPoolNics" /\ FillCache(Add(nics, PoolNics))
      <3>1. nics \in [Mac -> 0 .. 1]
        BY <2>4 DEF IInv, TypeOK, BagInv
      <3>2. Add(nics, PoolNics) \in [Mac -> 0 .. 1 + 1]
        BY <3>1, AddBounds, CacheSentinelAssumption
      <3> QED BY <1>5, <2>4, <3>2, FillCacheKeeps DEF StepAppendAdminPoolNics
    <2> QED BY <1>5, <2>1, <2>2, <2>3, <2>4 DEF StepAppendAdminPoolNics
  <1> QED BY <1>1, <1>2, <1>3, <1>4, <1>5

(* A task that starts or ends, and the end of the queue, keep it.          *)
LEMMA QueueKeeps ==
    ASSUME IInv, FillEnds \/ \E m \in Mac : StartTask(m) \/ TaskDone(m)
    PROVE  IInv'
  <1>1. CASE FillEnds
    BY <1>1 DEF IInv, TypeOK, BagInv, OutcomeInv, OneTimerEach, FillEnds,
                setNextRefreshTimeout, purgeVars
  <1>2. ASSUME NEW m \in Mac, StartTask(m)
        PROVE  IInv'
    <2>1. /\ todo[m] - 1 \in 0 .. 2 /\ active[m] + 1 \in 0 .. 2
          /\ todo[m] - 1 + active[m] + 1 <= 2
      BY <1>2 DEF IInv, TypeOK, BagInv, StartTask
    <2> QED BY <1>2, <2>1
        DEF IInv, TypeOK, BagInv, OutcomeInv, OneTimerEach, StartTask, purgeVars
  <1>3. ASSUME NEW m \in Mac, TaskDone(m)
        PROVE  IInv'
    <2>1. active[m] - 1 \in 0 .. 2 /\ todo[m] + active[m] - 1 <= 2
      BY <1>3 DEF IInv, TypeOK, BagInv, TaskDone
    <2>2. /\ age' \in [Mac -> 0 .. NoFile] /\ written' \in SUBSET Mac
          /\ qErrors' \in BOOLEAN
      BY <1>3, WriteAllTypes DEF IInv, TypeOK, TaskDone
    <2> QED BY <1>3, <2>1, <2>2
        DEF IInv, TypeOK, BagInv, OutcomeInv, OneTimerEach, TaskDone, purgeVars
  <1> QED BY <1>1, <1>2, <1>3

(* So does a purge, from its timer to its last file.                       *)
LEMMA PurgeKeeps ==
    ASSUME IInv, PurgeCache \/ PurgeStep
    PROVE  IInv'
  <1> USE DEF IInv, TypeOK, BagInv, OutcomeInv, OneTimerEach, refreshVars,
              setNextPurgeTimeout
  <1>1. CASE PurgeCache
    BY <1>1 DEF PurgeCache
  <1>2. CASE ReadDir
    BY <1>2 DEF ReadDir, HasFile
  <1>3. ASSUME NEW m \in Mac, CheckFile(m)
        PROVE  IInv'
    BY <1>3 DEF CheckFile
  <1>4. ASSUME NEW m \in Mac, Unlink(m)
        PROVE  IInv'
    BY <1>4, CacheSentinelAssumption DEF Unlink, NoFile
  <1>5. CASE PurgeEnds
    BY <1>5 DEF PurgeEnds
  <1> QED BY <1>1, <1>2, <1>3, <1>4, <1>5 DEF PurgeStep

(* So do time, a restart, the DHCP server and the inventory.               *)
LEMMA OutsideKeeps ==
    ASSUME IInv, Tick \/ Restart \/ \E m \in Mac : Discover(m) \/ Inventory(m)
    PROVE  IInv'
  <1> USE CacheSentinelAssumption
      DEF IInv, TypeOK, BagInv, OutcomeInv, OneTimerEach, purgeVars, refreshVars
  <1>1. CASE Tick
    <2>1. age' \in [Mac -> 0 .. NoFile]
      BY <1>1 DEF Tick, Old, NoFile
    <2> QED BY <1>1, <2>1 DEF Tick
  <1>2. CASE Restart
    <2>1. \A m \in Mac : todo'[m] = 0 /\ active'[m] = 0
      BY <1>2, NoTasksFacts DEF Restart
    <2>2. nics' \in [Mac -> 0 .. 2] /\ todo' \in [Mac -> 0 .. 2] /\ active' \in [Mac -> 0 .. 2]
      BY <1>2, NoTasksFacts DEF Restart
    <2>3. TypeOK'
      BY <1>2, <2>2 DEF Restart
    <2>4. BagInv'
      BY <1>2, <2>1 DEF Restart
    <2>5. OutcomeInv' /\ OneTimerEach'
      BY <1>2 DEF Restart
    <2> QED BY <2>3, <2>4, <2>5
  <1>3. ASSUME NEW m \in Mac, Discover(m)
        PROVE  IInv'
    BY <1>3 DEF Discover, Touch, NoFile
  <1>4. ASSUME NEW m \in Mac, Inventory(m)
        PROVE  IInv'
    BY <1>4 DEF Inventory
  <1> QED BY <1>1, <1>2, <1>3, <1>4

(* So every step keeps the invariant.                                      *)
LEMMA StepKeeps == IInv /\ [Next]_vars => IInv'
  <1> SUFFICES ASSUME IInv, [Next]_vars PROVE IInv'
    OBVIOUS
  <1>1. CASE UNCHANGED vars
    BY <1>1 DEF vars, refreshVars, purgeVars, IInv, TypeOK, BagInv, OutcomeInv, OneTimerEach
  <1>2. CASE Next
    BY <1>2, RefreshKeeps, QueueKeeps, PurgeKeeps, OutsideKeeps DEF Next, RefreshStep
  <1> QED BY <1>1, <1>2

(* The inductive invariant.                                                *)
THEOREM Invariance == Spec => []IInv
  BY InitIInv, StepKeeps, PTL DEF Spec

(* The types: in particular no MAC is queued more than twice.              *)
THEOREM TypeCorrect == Spec => []TypeOK
  BY Invariance, PTL DEF IInv

(* Refresh and purge each have exactly one of a timer and a run.           *)
THEOREM TimersSingle == Spec => []OneTimerEach
  BY Invariance, PTL DEF IInv

(* A purge begins only after a refresh of this process that ended well.    *)
THEOREM PurgeGuarded == Spec => PurgeAfterGoodRefresh
  <1>1. IInv /\ [Next]_vars =>
            [purge = "idle" /\ purge' # "idle" => refresh = "idle" /\ lastOutcome = "ok"]_vars
    BY DEF IInv, OutcomeInv, Next, RefreshCache, RefreshStep, PurgeStep, PurgeCache, ReadDir,
           CheckFile, Unlink, PurgeEnds, StepListServers, StepListPlatforms, StepListNics,
           StepAppendAdminPoolNics, StartTask, TaskDone, FillEnds, Discover, Inventory,
           Tick, Restart, purgeVars
  <1> QED BY <1>1, Invariance, PTL DEF Spec, PurgeAfterGoodRefresh

-------------------------------------------------------------------------------
(* What is true while NAPI, CNAPI and the disk answer, and in time.        *)

Well == ~ServicesFail /\ ~ServicesSlow

(* A process that just started has listed, and trusts, nothing.            *)
LEMMA InitFresh == Init => FreshInv
  BY DEF Init, FreshInv

(* A task that ends has written its file, and touched no other.            *)
LEMMA WellTaskWrites ==
    ASSUME Well, TypeOK, NEW m \in Mac, NEW ok \in BOOLEAN, WriteAll(m, ok)
    PROVE  /\ age'[m] = 0 /\ m \in written'
           /\ \A n \in Mac \ {m} : age'[n] = age[n] /\ (n \in written => n \in written')
  <1>1. Touch(m)
    BY DEF WriteAll, Well
  <1> QED BY <1>1 DEF Touch, TypeOK

(* The steps of the refresh before its queue.                              *)
LEMMA RefreshFresh ==
    ASSUME IInv, FreshInv, RefreshCache \/ StepListServers \/ StepListPlatforms
                           \/ StepListNics \/ StepAppendAdminPoolNics
    PROVE  FreshInv'
  <1>1. UNCHANGED <<age, trusted, purgeVars>>
    BY DEF RefreshCache, StepListServers, StepListPlatforms, StepListNics,
           StepAppendAdminPoolNics
  <1>2. (purge # "idle" => \A m \in trusted : Young(m, 2) /\ m \notin doomed)'
    BY <1>1 DEF FreshInv, Young, purgeVars
  <1>3. refresh' = "idle" => covered' = {}
    BY DEF RefreshCache, StepListServers, StepListPlatforms, StepListNics,
           StepAppendAdminPoolNics, FillCache, PipelineFails, NextStep
  <1>4. ASSUME refresh' = "fill", NEW m \in Listed'
        PROVE  todo'[m] + active'[m] = nics'[m] /\ nics'[m] > 0 /\ nics'[m] \in Nat
    <2>1. PICK bag : FillCache(bag)
      BY <1>4 DEF RefreshCache, StepListServers, StepListPlatforms, StepListNics,
                  StepAppendAdminPoolNics, PipelineFails, NextStep
    <2>2. m \in Mac /\ m \in servers' /\ nics'[m] > 0 /\ nics'[m] \in 0 .. 2
      BY <1>4, RefreshKeeps DEF Listed, IInv, TypeOK
    <2>3. todo'[m] = nics'[m] /\ active'[m] = 0
      BY <2>1, <2>2, NoTasksFacts DEF FillCache
    <2> QED BY <2>2, <2>3
  <1> QED BY <1>2, <1>3, <1>4 DEF FreshInv

(* The queue.                                                              *)
LEMMA QueueFresh ==
    ASSUME Well, IInv, FreshInv, FillEnds \/ \E m \in Mac : StartTask(m) \/ TaskDone(m)
    PROVE  FreshInv'
  <1> USE DEF FreshInv, Young, Listed
  <1>1. CASE FillEnds
    <2>1. ASSUME NEW m \in covered'
          PROVE  age'[m] <= 1 \/ age'[m] = NoFile
      <3>1. m \in Listed /\ todo[m] = 0 /\ active[m] = 0
        BY <1>1, <2>1 DEF FillEnds, Pending, IInv, TypeOK
      <3> QED BY <1>1, <3>1 DEF FillEnds, IInv, TypeOK, NoFile
    <2>2. waited' = 0 /\ refresh' = "idle"
          /\ UNCHANGED <<age, purge, trusted, doomed>>
      BY <1>1 DEF FillEnds, setNextRefreshTimeout, purgeVars
    <2> QED BY <2>1, <2>2
  <1>2. ASSUME NEW m \in Mac, StartTask(m)
        PROVE  FreshInv'
    <2>1. \A n \in Mac : todo'[n] + active'[n] = todo[n] + active[n]
      BY <1>2 DEF StartTask, IInv, TypeOK
    <2> QED BY <1>2, <2>1 DEF StartTask, IInv, TypeOK, purgeVars
  <1>3. ASSUME NEW m \in Mac, TaskDone(m)
        PROVE  FreshInv'
    <2>1. /\ age'[m] = 0 /\ m \in written'
          /\ \A n \in Mac \ {m} : age'[n] = age[n] /\ (n \in written => n \in written')
      BY <1>3, WellTaskWrites DEF TaskDone, IInv
    <2>2. \A n \in Mac \ {m} : todo'[n] = todo[n] /\ active'[n] = active[n]
      BY <1>3 DEF TaskDone, IInv, TypeOK
    <2>3. refresh = "fill" /\ refresh' = "fill" /\ 0 <= waited
          /\ UNCHANGED <<servers, nics, waited, purge, trusted, doomed>>
      BY <1>3 DEF TaskDone, purgeVars, IInv, TypeOK
    <2>4. ASSUME NEW n \in Listed'
          PROVE  /\ todo'[n] + active'[n] = nics'[n] \/ Young(n, waited)'
                 /\ todo'[n] + active'[n] > 0 \/ n \in written'
      BY <2>1, <2>2, <2>3 DEF IInv, TypeOK
    <2>5. ASSUME purge' # "idle", NEW n \in trusted'
          PROVE  Young(n, 2)' /\ n \notin doomed'
      BY <2>1, <2>3, <2>5 DEF IInv, TypeOK
    <2> QED BY <2>3, <2>4, <2>5
  <1> QED BY <1>1, <1>2, <1>3

(* The purge.                                                              *)
LEMMA PurgeFresh ==
    ASSUME IInv, FreshInv, PurgeCache \/ PurgeStep
    PROVE  FreshInv'
  <1> USE DEF FreshInv, Young, Listed, refreshVars
  <1>1. CASE PurgeCache
    <2>1. CASE lastRefreshSuccessful = "true"
      <3>1. refresh = "idle" /\ purge = "idle" /\ doomed = {} /\ trusted' = covered
            /\ waited \in {0, 1}
        BY <1>1, <2>1 DEF PurgeCache, IInv, OutcomeInv, TypeOK
      <3>2. \A m \in covered : age[m] <= 2 \/ age[m] = NoFile
        BY <3>1, CacheSentinelAssumption DEF IInv, TypeOK, NoFile
      <3> QED BY <1>1, <3>1, <3>2 DEF PurgeCache
    <2>2. CASE lastRefreshSuccessful # "true"
      BY <1>1, <2>2 DEF PurgeCache
    <2> QED BY <2>1, <2>2
  <1>2. CASE ReadDir \/ PurgeEnds
    BY <1>2 DEF ReadDir, PurgeEnds
  <1>3. ASSUME NEW m \in Mac, CheckFile(m)
        PROVE  FreshInv'
    <2>1. purge # "idle"
      BY <1>3 DEF CheckFile, IInv, OutcomeInv
    <2>2. m \in trusted => doomed' = doomed
      BY <1>3, <2>1, CacheSentinelAssumption DEF CheckFile, HasFile, IInv, TypeOK
    <2> QED BY <1>3, <2>2 DEF CheckFile
  <1>4. ASSUME NEW m \in Mac, Unlink(m)
        PROVE  FreshInv'
    <2>1. \A n \in Mac : age'[n] = age[n] \/ age'[n] = NoFile
      BY <1>4 DEF Unlink, IInv, TypeOK
    <2> QED BY <1>4, <2>1 DEF Unlink, IInv, TypeOK
  <1> QED BY <1>1, <1>2, <1>3, <1>4 DEF PurgeStep

(* Time, the DHCP server, the inventory, a restart.                        *)
LEMMA OutsideFresh ==
    ASSUME IInv, FreshInv, Tick \/ Restart \/ \E m \in Mac : Discover(m) \/ Inventory(m)
    PROVE  FreshInv'
  <1> USE DEF FreshInv, Young, Listed, refreshVars, purgeVars
  <1>1. CASE Tick
    <2>1. \A m \in Mac : age'[m] <= age[m] + 1 /\ (age[m] = NoFile => age'[m] = NoFile)
      BY <1>1, CacheSentinelAssumption DEF Tick, IInv, TypeOK, Old, NoFile
    <2>2. \A m \in Mac : age[m] \in Nat /\ age'[m] \in Nat
      BY <1>1, CacheSentinelAssumption DEF Tick, IInv, TypeOK, Old, NoFile
    <2>3. ASSUME refresh' = "fill", NEW m \in Listed'
          PROVE  /\ todo'[m] + active'[m] = nics'[m] \/ Young(m, waited)'
                 /\ todo'[m] + active'[m] > 0 \/ m \in written'
      BY <1>1, <2>1, <2>2, <2>3 DEF Tick, IInv, TypeOK
    <2>4. ASSUME refresh' = "idle", NEW m \in covered'
          PROVE  Young(m, 1 + waited)'
      BY <1>1, <2>1, <2>2, <2>4 DEF Tick, IInv, TypeOK
    <2>5. purge' = "idle"
      BY <1>1 DEF Tick
    <2> QED BY <2>3, <2>4, <2>5
  <1>2. CASE Restart
    BY <1>2 DEF Restart
  <1>3. ASSUME NEW m \in Mac, Discover(m)
        PROVE  FreshInv'
    <2>1. \A n \in Mac : age'[n] = age[n] \/ age'[n] = 0
      BY <1>3 DEF Discover, Touch, IInv, TypeOK
    <2>2. waited \in {0, 1} /\ written \subseteq written'
      BY <1>3 DEF Discover, Touch, IInv, TypeOK
    <2> QED BY <1>3, <2>1, <2>2 DEF Discover, IInv, TypeOK
  <1>4. ASSUME NEW m \in Mac, Inventory(m)
        PROVE  FreshInv'
    BY <1>4 DEF Inventory
  <1> QED BY <1>1, <1>2, <1>3, <1>4

(* So every step keeps the listed files young, if the services do well.    *)
LEMMA FreshKeeps ==
    ASSUME Well
    PROVE  IInv /\ FreshInv /\ [Next]_vars => FreshInv'
  <1> SUFFICES ASSUME IInv, FreshInv, [Next]_vars PROVE FreshInv'
    OBVIOUS
  <1>1. CASE UNCHANGED vars
    BY <1>1 DEF vars, refreshVars, purgeVars, FreshInv, Young, Listed
  <1>2. CASE Next
    BY <1>2, RefreshFresh, QueueFresh, PurgeFresh, OutsideFresh DEF Next, RefreshStep
  <1> QED BY <1>1, <1>2

(* The files the tasks rely on stay young, in every phase.                 *)
THEOREM Freshness ==
    ASSUME Well
    PROVE  Spec => []FreshInv
  BY InitFresh, FreshKeeps, Invariance, PTL DEF Spec

(* A refresh that calls itself successful wrote the file of every CN it    *)
(* listed.  Without Well it need not: a cached answer counts as well.      *)
THEOREM SuccessWrites ==
    ASSUME Well
    PROVE  Spec => SuccessMeansWritten
  <1>1. ASSUME IInv, FreshInv, Next,
               lastRefreshSuccessful' = "true", lastRefreshSuccessful # "true"
        PROVE  {m \in servers : nics[m] > 0} \subseteq written'
    <2>1. FillEnds
      BY <1>1 DEF Next, RefreshCache, RefreshStep, PurgeStep, PurgeCache, ReadDir,
           CheckFile, Unlink, PurgeEnds, StepListServers, StepListPlatforms, StepListNics,
           StepAppendAdminPoolNics, PipelineFails, NextStep, FillCache, StartTask, TaskDone,
           Discover, Inventory, Tick, Restart, refreshVars
    <2>2. \A m \in Listed : todo[m] = 0 /\ active[m] = 0
      BY <1>1, <2>1 DEF FillEnds, Pending, Listed, IInv, TypeOK
    <2> QED BY <1>1, <2>1, <2>2 DEF FillEnds, FreshInv, Listed
  <1>2. IInv /\ FreshInv /\ [Next]_vars =>
            [lastRefreshSuccessful' = "true" /\ lastRefreshSuccessful # "true" =>
                {m \in servers : nics[m] > 0} \subseteq written']_vars
    BY <1>1
  <1> QED BY <1>2, Invariance, Freshness, PTL DEF Spec, SuccessMeansWritten

(* No purge removes the file of a CN that the refresh it relies on wrote.  *)
THEOREM PurgeSpares ==
    ASSUME Well
    PROVE  Spec => PurgeSparesCurrent
  <1>1. ASSUME IInv, FreshInv, Next, NEW m \in Mac, HasFile(m), age'[m] = NoFile
        PROVE  m \notin trusted
    <2>1. CASE Unlink(m)
      BY <1>1, <2>1 DEF Unlink, IInv, OutcomeInv, FreshInv
    <2>2. CASE \E n \in Mac \ {m} : Unlink(n)
      BY <1>1, <2>2 DEF Unlink, IInv, TypeOK, HasFile
    <2>3. CASE Tick
      BY <1>1, <2>3, CacheSentinelAssumption DEF Tick, IInv, TypeOK, HasFile, Old, NoFile
    <2>4. CASE \E n \in Mac : TaskDone(n)
      BY <1>1, <2>4, WellTaskWrites, CacheSentinelAssumption
      DEF TaskDone, IInv, TypeOK, HasFile, NoFile
    <2>5. CASE \E n \in Mac : Discover(n)
      BY <1>1, <2>5, CacheSentinelAssumption DEF Discover, Touch, IInv, TypeOK, HasFile, NoFile
    <2>6. ASSUME UNCHANGED age PROVE FALSE
      BY <1>1, <2>6 DEF HasFile
    <2> QED
      BY <1>1, <2>1, <2>2, <2>3, <2>4, <2>5, <2>6
      DEF Next, RefreshCache, RefreshStep, PurgeStep, PurgeCache, ReadDir, CheckFile, PurgeEnds,
          StepListServers, StepListPlatforms, StepListNics, StepAppendAdminPoolNics,
          StartTask, FillEnds, Inventory, Restart
  <1>2. IInv /\ FreshInv /\ [Next]_vars =>
            [\A m \in Mac : HasFile(m) /\ age'[m] = NoFile => m \notin trusted]_vars
    BY <1>1
  <1> QED BY <1>2, Invariance, Freshness, PTL DEF Spec, PurgeSparesCurrent
===============================================================================
