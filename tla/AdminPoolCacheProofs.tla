------------------------- MODULE AdminPoolCacheProofs -------------------------
(***************************************************************************)
(* Proofs about AdminPoolCache for any number of concurrent callers of     *)
(* each kind and any pools.                                                *)
(*                                                                         *)
(* Where a pool that is read comes from is followed through the two places *)
(* it passes: an answer of NAPI on its way, and the file, torn or not.     *)
(***************************************************************************)
EXTENDS AdminPoolCache, TLAPS

OriginInv ==
    /\ napi \in known
    /\ file.content # NoPayload => file.content \in known
    /\ \A c \in Call : listed[c] \in Payload => listed[c] \in known

\* Nothing survives the process.
DownInv == server = "down" => ~timer /\ \A c \in Call : pc[c] = "idle"

IInv == TypeOK /\ WorkerArmed /\ PoolFromNapi /\ OriginInv /\ DownInv

-------------------------------------------------------------------------------
(* What the pieces of an action do.                                        *)

(* The constants that stand for no pool are none.                          *)
LEMMA Marks ==
    /\ NoPayload \notin Payload /\ NoAnswer \notin Payload /\ Failed \notin Payload
    /\ NoAnswer # Failed
  BY AdminPoolCacheAssumption

(* The operations on the file keep its type.                               *)
LEMMA FileTypes ==
    /\ Store!Absent \in Store!File /\ Store!Absent.content = NoPayload
    /\ Store!Opened \in Store!File /\ Store!Opened.content = NoPayload
    /\ \A p \in Payload : Store!Holding(p) \in Store!File /\ Store!Holding(p).content = p
    /\ \A f \in Store!File, p \in Payload :
          Store!Wrote(f, p) \in Store!File /\ Store!Wrote(f, p).content = p
  BY AdminPoolCacheAssumption
  DEF Store!File, Store!Absent, Store!Opened, Store!Holding, Store!Wrote

(* What is read is a pool that is known, or an error.                      *)
LEMMA ContentKnown ==
    ASSUME IInv
    PROVE  Content \in Payload \cup {Failed} /\ Content \in known \cup {Failed}
  BY Marks DEF Content, Store!Readable, IInv, OriginInv

(* A call that calls back leaves the others and the timer alone, unless    *)
(* the process ends with it.                                               *)
LEMMA CallBackKeeps ==
    ASSUME IInv, NEW c \in Call, pc[c] \notin {"idle", "list"},
           NEW r \in Payload \cup {Failed}, r \in known \cup {Failed},
           CallBack(c, r), UNCHANGED <<napi, known>>,
           file' \in Store!File, file'.content # NoPayload => file'.content \in known
    PROVE  IInv'
  <1> USE Marks DEF IInv
  <1>1. TypeOK'
    BY DEF TypeOK, CallBack, Die
  <1>2. WorkerArmed'
    BY DEF TypeOK, WorkerArmed, Asking, CallBack, Die, DownInv
  <1>3. PoolFromNapi'
    BY DEF TypeOK, PoolFromNapi, CallBack
  <1>4. OriginInv'
    BY DEF TypeOK, OriginInv, CallBack, Die
  <1>5. DownInv'
    BY DEF TypeOK, DownInv, CallBack, Die
  <1> QED BY <1>1, <1>2, <1>3, <1>4, <1>5

(* A call that begins leaves the others alone.                             *)
LEMMA EnterKeeps ==
    ASSUME IInv, NEW c \in Call, NEW s \in {"list", "firstRead"}, Enter(c, s),
           server' \in {"starting", "up"}, timer' \in BOOLEAN,
           \/ timer' = TRUE
           \/ c \in Worker /\ s = "list"
           \/ UNCHANGED <<server, timer>>
    PROVE  IInv'
  <1> USE Marks DEF IInv
  <1>1. TypeOK'
    BY DEF TypeOK, Enter
  <1>2. WorkerArmed'
    BY DEF TypeOK, WorkerArmed, Asking, Enter
  <1>3. PoolFromNapi' /\ OriginInv' /\ DownInv'
    BY DEF TypeOK, PoolFromNapi, OriginInv, DownInv, Enter
  <1> QED BY <1>1, <1>2, <1>3

-------------------------------------------------------------------------------
(* The invariant holds in every state.                                     *)

(* It holds initially.                                                     *)
LEMMA InitIInv == Init => IInv
  <1> SUFFICES ASSUME Init PROVE IInv
    OBVIOUS
  <1>1. file \in Store!File /\ (file.content # NoPayload => file.content \in Payload)
    BY FileTypes DEF Init
  <1>2. TypeOK
    BY <1>1 DEF Init, TypeOK
  <1>3. WorkerArmed /\ PoolFromNapi /\ OriginInv /\ DownInv
    BY <1>1, Marks DEF Init, WorkerArmed, PoolFromNapi, OriginInv, DownInv
  <1> QED BY <1>2, <1>3 DEF IInv

(* A call's own steps keep it.                                             *)
LEMMA HandleKeeps ==
    ASSUME IInv, NEW c \in Call, Handle(c)
    PROVE  IInv'
  <1> USE Marks
  <1>1. CASE FirstRead(c)
    <2>1. CASE file.exists
      BY <1>1, <2>1, ContentKnown, CallBackKeeps DEF FirstRead, IInv, TypeOK, OriginInv
    <2>2. CASE ~file.exists
      BY <1>1, <2>2
      DEF FirstRead, IInv, TypeOK, OriginInv, PoolFromNapi, WorkerArmed, Asking, DownInv
    <2> QED BY <2>1, <2>2
  <1>2. CASE OnList(c)
    BY <1>2 DEF OnList, IInv, TypeOK, OriginInv, PoolFromNapi, WorkerArmed, Asking, DownInv
  <1>3. CASE ReadBack(c)
    BY <1>3, ContentKnown, CallBackKeeps DEF ReadBack, IInv, TypeOK, OriginInv
  <1>4. CASE OpenFile(c)
    <2>1. CASE CallBack(c, Failed) /\ UNCHANGED file
      BY <1>4, <2>1, CallBackKeeps DEF OpenFile, IInv, TypeOK, OriginInv
    <2>2. CASE /\ file' = Store!Opened /\ pc' = [pc EXCEPT ![c] = "write"]
               /\ UNCHANGED <<server, timer, listed, result>>
      BY <1>4, <2>2, FileTypes
      DEF OpenFile, IInv, TypeOK, OriginInv, PoolFromNapi, WorkerArmed, Asking, DownInv
    <2> QED BY <1>4, <2>1, <2>2 DEF OpenFile
  <1>5. CASE WriteFile(c)
    <2>1. CASE CallBack(c, Failed) /\ UNCHANGED file
      BY <1>5, <2>1, CallBackKeeps DEF WriteFile, IInv, TypeOK, OriginInv
    <2>2. CASE /\ file' = Store!Wrote(file, listed[c]) /\ pc' = [pc EXCEPT ![c] = "written"]
               /\ UNCHANGED <<server, timer, listed, result>>
      <3>1. listed[c] \in Payload /\ listed[c] \in known
        BY <1>5 DEF WriteFile, IInv, TypeOK, OriginInv
      <3>2. file' \in Store!File /\ file'.content = listed[c]
        BY <2>2, <3>1, FileTypes DEF IInv, TypeOK
      <3> QED BY <1>5, <2>2, <3>1, <3>2
          DEF WriteFile, IInv, TypeOK, OriginInv, PoolFromNapi, WorkerArmed, Asking, DownInv
    <2> QED BY <1>5, <2>1, <2>2 DEF WriteFile
  <1>6. CASE FileWritten(c)
    <2>1. listed[c] \in Payload /\ listed[c] \in known
      BY <1>6 DEF FileWritten, IInv, TypeOK, OriginInv
    <2> QED BY <1>6, <2>1, CallBackKeeps DEF FileWritten, IInv, TypeOK, OriginInv
  <1> QED BY <1>1, <1>2, <1>3, <1>4, <1>5, <1>6 DEF Handle

(* So does the rest.                                                       *)
LEMMA StepKeeps == IInv /\ [Next]_vars => IInv'
  <1> SUFFICES ASSUME IInv, [Next]_vars PROVE IInv'
    OBVIOUS
  <1>1. CASE StartServer
    BY <1>1, EnterKeeps DEF StartServer, Call
  <1>2. ASSUME NEW c \in Worker, UpdateWorker(c) PROVE IInv'
    BY <1>2, EnterKeeps DEF UpdateWorker, Call, IInv, TypeOK, DownInv
  <1>3. ASSUME NEW c \in Refresh, RefreshUpdate(c) PROVE IInv'
    BY <1>3, EnterKeeps DEF RefreshUpdate, Call, IInv, TypeOK, DownInv
  <1>4. ASSUME NEW c \in Boot, ReadCache(c) PROVE IInv'
    BY <1>4, EnterKeeps DEF ReadCache, Call, IInv, TypeOK, DownInv
  <1>5. ASSUME NEW c \in Call, NapiServes(c) PROVE IInv'
    <2>1. PICK a \in Payload \cup {Failed} :
              listed' = [listed EXCEPT ![c] = a] /\ (a \in Payload => a = napi)
      BY <1>5, Marks DEF NapiServes, IInv, TypeOK
    <2> QED BY <1>5, <2>1, Marks
        DEF NapiServes, IInv, TypeOK, OriginInv, PoolFromNapi, WorkerArmed, Asking, DownInv
  <1>6. CASE PoolChanges
    BY <1>6 DEF PoolChanges, IInv, TypeOK, OriginInv, PoolFromNapi, WorkerArmed, Asking, DownInv
  <1>7. CASE RemoveFile
    BY <1>7, FileTypes
    DEF RemoveFile, IInv, TypeOK, OriginInv, PoolFromNapi, WorkerArmed, Asking, DownInv
  <1>8. CASE Crash
    BY <1>8, Marks DEF Crash, Die, IInv, TypeOK, OriginInv, PoolFromNapi, WorkerArmed, DownInv
  <1>9. CASE UNCHANGED vars
    BY <1>9 DEF vars, IInv, TypeOK, OriginInv, PoolFromNapi, WorkerArmed, Asking, DownInv
  <1> QED BY <1>1, <1>2, <1>3, <1>4, <1>5, <1>6, <1>7, <1>8, <1>9, HandleKeeps DEF Next

(* The inductive invariant.                                                *)
THEOREM Invariance == Spec => []IInv
  BY InitIInv, StepKeeps, PTL DEF Spec

(* The types; in particular only a pool is ever written to the file.       *)
THEOREM TypeCorrect == Spec => []TypeOK
  BY Invariance, PTL DEF IInv

(* The chain of periodic updates never ends while the process lives.       *)
THEOREM WorkerLives == Spec => []WorkerArmed
  BY Invariance, PTL DEF IInv

(* No reader is given a pool that was never NAPI's nor in the first file.  *)
THEOREM PoolIsGenuine == Spec => []PoolFromNapi
  BY Invariance, PTL DEF IInv

-------------------------------------------------------------------------------
(* How an update may fail, when the disk does not.                         *)

(* A result changes when its own call begins or calls back.                *)
LEMMA ResultChanges ==
    ASSUME IInv, [Next]_vars, NEW c \in Call, result'[c] # result[c],
           result'[c] # NoAnswer
    PROVE  Handle(c)
  <1>1. ASSUME NEW d \in Call, NEW s, Enter(d, s)
        PROVE  result'[c] \in {result[c], NoAnswer}
    BY <1>1 DEF Enter, IInv, TypeOK
  <1>2. ASSUME NEW d \in Call, Handle(d), c # d
        PROVE  result'[c] = result[c]
    BY <1>2 DEF Handle, FirstRead, OnList, ReadBack, OpenFile, WriteFile, FileWritten, CallBack,
                IInv, TypeOK
  <1>3. ~ StartServer /\ (\A d \in Worker : ~ UpdateWorker(d))
        /\ (\A d \in Refresh : ~ RefreshUpdate(d)) /\ (\A d \in Boot : ~ ReadCache(d))
    BY <1>1 DEF StartServer, UpdateWorker, RefreshUpdate, ReadCache, Call
  <1>4. (\A d \in Call : ~ NapiServes(d)) /\ ~ PoolChanges /\ ~ RemoveFile /\ ~ Crash
        /\ ~ UNCHANGED vars
    BY DEF NapiServes, PoolChanges, RemoveFile, Crash, vars
  <1> QED BY <1>2, <1>3, <1>4 DEF Next

(* The process ends only by itself, or by an update of the start that      *)
(* fails.                                                                  *)
LEMMA ServerEnds ==
    ASSUME IInv, [Next]_vars, CanCrash = FALSE, server # "down", server' = "down"
    PROVE  \E c \in Start : Handle(c) /\ CallBack(c, Failed)
  <1>1. PICK c \in Call : Handle(c)
    BY DEF Next, vars, StartServer, UpdateWorker, RefreshUpdate, ReadCache, NapiServes,
           PoolChanges, RemoveFile, Crash
  <1>2. PICK r : CallBack(c, r)
    BY <1>1 DEF Handle, FirstRead, OnList, ReadBack, OpenFile, WriteFile, FileWritten
  <1>3. c \in Start /\ r = Failed
    BY <1>2 DEF CallBack
  <1> QED BY <1>1, <1>2, <1>3

(* A call that has no pool to write has none because NAPI failed it.       *)
ReadBackInv == \A c \in Call : pc[c] = "readBack" => listed[c] = Failed

(* It holds in every state.                                                *)
LEMMA ReadsBackAfterFailure == Spec => []ReadBackInv
  <1>1. Init => ReadBackInv
    BY DEF Init, ReadBackInv
  <1>2. IInv /\ ReadBackInv /\ [Next]_vars => ReadBackInv'
    <2> SUFFICES ASSUME IInv, ReadBackInv, [Next]_vars PROVE ReadBackInv'
      OBVIOUS
    <2>1. ASSUME NEW c \in Call, Handle(c) PROVE ReadBackInv'
      BY <2>1 DEF Handle, FirstRead, OnList, ReadBack, OpenFile, WriteFile, FileWritten, CallBack, Die,
                  ReadBackInv, IInv, TypeOK
    <2>2. ASSUME NEW c \in Call, NEW s \in {"list", "firstRead"}, Enter(c, s)
          PROVE ReadBackInv'
      BY <2>2 DEF Enter, ReadBackInv, IInv, TypeOK
    <2>3. ASSUME NEW c \in Call, NapiServes(c) PROVE ReadBackInv'
      BY <2>3 DEF NapiServes, ReadBackInv, IInv, TypeOK
    <2>4. CASE PoolChanges \/ RemoveFile \/ Crash \/ UNCHANGED vars
      BY <2>4 DEF PoolChanges, RemoveFile, Crash, Die, vars, ReadBackInv
    <2> QED BY <2>1, <2>2, <2>3, <2>4
        DEF Next, StartServer, UpdateWorker, RefreshUpdate, ReadCache, Call
  <1> QED BY <1>1, <1>2, Invariance, PTL DEF Spec

(* If the disk is sound, an update of the start fails only because the     *)
(* file could not stand in for NAPI.                                       *)
THEOREM StartNeedsPool ==
    ASSUME CanCrash = FALSE, DiskFails = FALSE
    PROVE  Spec => StartFailsOnlyWithoutPool
  <1> DEFINE A == server = "starting" /\ server' = "down" => Content = Failed
  <1>1. IInv /\ [Next]_vars => [A]_vars
    <2> SUFFICES ASSUME IInv, [Next]_vars, server = "starting", server' = "down"
                 PROVE  Content = Failed
      OBVIOUS
    <2>1. PICK c \in Start : Handle(c) /\ CallBack(c, Failed)
      BY ServerEnds
    <2>2. result'[c] = Failed /\ c \in Call /\ pc'[c] = "idle"
      BY <2>1 DEF CallBack, Die, IInv, TypeOK, Call
    <2>3. FirstRead(c) \/ ReadBack(c) \/ FileWritten(c)
      BY <2>1, <2>2 DEF Handle, OnList, OpenFile, WriteFile, IInv, TypeOK
    <2>4. CASE FirstRead(c) \/ ReadBack(c)
      BY <2>2, <2>4 DEF FirstRead, ReadBack, CallBack, IInv, TypeOK
    <2>5. CASE FileWritten(c)
      <3>1. listed[c] \in Payload /\ result'[c] = listed[c]
        BY <2>2, <2>5 DEF FileWritten, CallBack, IInv, TypeOK
      <3> QED BY <2>2, <3>1, Marks
    <2> QED BY <2>3, <2>4, <2>5
  <1> QED BY <1>1, Invariance, PTL DEF Spec, StartFailsOnlyWithoutPool

(* If the disk is sound, a boot that finds no file fails only because NAPI *)
(* failed it.                                                              *)
THEOREM MissingFetched ==
    ASSUME DiskFails = FALSE
    PROVE  Spec => MissingFileIsFetched
  <1> DEFINE A == \A c \in Boot : result[c] = NoAnswer /\ result'[c] = Failed
                                    => file.exists \/ listed[c] = Failed
  <1>1. IInv /\ ReadBackInv /\ [Next]_vars => [A]_vars
    <2> SUFFICES ASSUME IInv, ReadBackInv, [Next]_vars, NEW c \in Boot,
                        result[c] = NoAnswer, result'[c] = Failed, ~ file.exists
                 PROVE  listed[c] = Failed
      OBVIOUS
    <2>1. c \in Call /\ Handle(c)
      BY ResultChanges, Marks DEF Call
    <2>2. ~ FirstRead(c) /\ ~ OnList(c) /\ ~ OpenFile(c) /\ ~ WriteFile(c)
      BY <2>1, Marks DEF FirstRead, OnList, OpenFile, WriteFile
    <2>3. ~ FileWritten(c)
      <3>1. ASSUME FileWritten(c) PROVE listed[c] \in Payload /\ result'[c] = listed[c]
        BY <2>1, <3>1 DEF FileWritten, CallBack, IInv, TypeOK
      <3> QED BY <3>1, Marks
    <2>4. ReadBack(c)
      BY <2>1, <2>2, <2>3 DEF Handle
    <2> QED BY <2>1, <2>4 DEF ReadBack, ReadBackInv
  <1> QED BY <1>1, Invariance, ReadsBackAfterFailure, PTL DEF Spec, MissingFileIsFetched
===============================================================================
