---------------------------- MODULE AdminPoolCache ----------------------------
(***************************************************************************)
(* AdminPoolCache of lib/admin-pool-cache.js: the file that holds NAPI's   *)
(* network pool 'admin', so that booting a rack does not ask NAPI for it   *)
(* once per CN.  Four kinds of callers share the file and the update timer:*)
(*   Start    server.js, which serves DHCP only after a first update;      *)
(*   Worker   the timer;                                                   *)
(*   Refresh  the CacheSentinel, once per refresh;                         *)
(*   Boot     getBootParams, which updates only if the file is missing.    *)
(* NAPI makes up its answer and booter receives it in two steps, so the    *)
(* answers, and the writes they lead to, may overtake each other.          *)
(***************************************************************************)
EXTENDS Naturals, FiniteSets

CONSTANTS
    Start, Worker, Refresh, Boot,   \* disjoint sets of calls, Start has one
    Pool,           \* what NAPI may hold as the pool
    NoPool,         \* {}: no pool has the name
    Size, NoPayload,    \* see JsonFile
    NoAnswer,       \* not called back yet
    Failed,         \* an error; of NAPI also: more than one pool
    NapiFails, DiskFails, CanCrash,
    Volatile,       \* the pool changes while booter runs
    Cleanup         \* an operator removes the file meanwhile

Payload == Pool \cup {NoPool}
Call    == Start \cup Worker \cup Refresh \cup Boot

ASSUME AdminPoolCacheAssumption ==
    /\ \A S, T \in {Start, Worker, Refresh, Boot} : S # T => S \cap T = {}
    /\ Cardinality(Start) = 1
    /\ NoPool \notin Pool
    /\ {NoPayload, NoAnswer, Failed} \cap Payload = {}
    /\ NoAnswer # Failed
    /\ Size \in [Payload -> Nat \ {0}]
    /\ {NapiFails, DiskFails, CanCrash, Volatile, Cleanup} \subseteq BOOLEAN

VARIABLES
    napi,       \* external: NAPI's pool
    server,     \* "down", "starting" (before its first update) or "up"
    file,       \* <poolCache.dir>/admin_network_pool.json
    timer,      \* timeoutId is set
    pc,         \* what each call waits for
    listed,     \* NAPI's answer to each call, on its way
    result,     \* what each call called back with last
    known       \* history: the pools NAPI or the file has held

vars == <<napi, server, file, timer, pc, listed, result, known>>

Store == INSTANCE JsonFile

\* The calls that have asked NAPI and not heard from it.
Asking == {c \in Call : pc[c] = "list"}

Init ==
    /\ napi \in Payload
    /\ server = "down"
    /\ file \in {Store!Absent, Store!Opened} \cup {Store!Holding(p) : p \in Payload}
    /\ timer = FALSE
    /\ pc = [c \in Call |-> "idle"]
    /\ listed = [c \in Call |-> NoAnswer]
    /\ result = [c \in Call |-> NoAnswer]
    /\ known = {napi} \cup ({file.content} \cap Payload)

-------------------------------------------------------------------------------
(* Calls.                                                                  *)

Enter(c, step) ==
    /\ pc[c] = "idle"
    /\ pc' = [pc EXCEPT ![c] = step]
    /\ result' = [result EXCEPT ![c] = NoAnswer]
    /\ UNCHANGED <<napi, file, listed, known>>

\* server.js: the constructor sets the timer, then the first update.
StartServer ==
    /\ server = "down"
    /\ server' = "starting"
    /\ timer' = TRUE
    /\ \E c \in Start : Enter(c, "list")

UpdateWorker(c) ==
    /\ timer
    /\ timer' = FALSE
    /\ Enter(c, "list")
    /\ UNCHANGED server

\* stepAppendAdminPoolNics of lib/cache.js.
RefreshUpdate(c) ==
    /\ server = "up"
    /\ Enter(c, "list")
    /\ UNCHANGED <<server, timer>>

ReadCache(c) ==
    /\ server = "up"
    /\ Enter(c, "firstRead")
    /\ UNCHANGED <<server, timer>>

\* The end of the process, by its own error or any other: nothing but the file
\* is left.
Die ==
    /\ server' = "down"
    /\ timer' = FALSE
    /\ pc' = [d \in Call |-> "idle"]
    /\ listed' = [d \in Call |-> NoAnswer]

\* The callback.  That of server.js throws an error it is given.
CallBack(c, r) ==
    /\ result' = [result EXCEPT ![c] = r]
    /\ IF c \in Start /\ r = Failed
       THEN Die
       ELSE /\ pc' = [pc EXCEPT ![c] = "idle"]
            /\ listed' = [listed EXCEPT ![c] = NoAnswer]
            /\ server' = IF c \in Start THEN "up" ELSE server
            /\ UNCHANGED timer

\* Mutant: what is read is handed on whether it parses or not.
Content_Mutant == IF file.exists THEN file.content ELSE Failed

\* What _readCache calls back with.
Content == IF Store!Readable(file) THEN file.content ELSE Failed

\* Mutant: a file that is missing is an error like any other.
FirstRead_Mutant(c) ==
    /\ pc[c] = "firstRead"
    /\ CallBack(c, Content)
    /\ UNCHANGED <<napi, file, known>>

FirstRead(c) ==
    /\ pc[c] = "firstRead"
    /\ IF file.exists
       THEN CallBack(c, Content)
       ELSE /\ pc' = [pc EXCEPT ![c] = "list"]
            /\ UNCHANGED <<server, timer, listed, result>>
    /\ UNCHANGED <<napi, file, known>>

\* Mutant: the timer is set again only when NAPI has a pool to store.
OnList_Mutant(c) ==
    /\ pc[c] = "list" /\ listed[c] # NoAnswer
    /\ timer' = (timer \/ listed[c] # Failed)
    /\ pc' = [pc EXCEPT ![c] = IF listed[c] = Failed THEN "readBack" ELSE "open"]
    /\ UNCHANGED <<napi, server, file, listed, result, known>>

\* Mutant: the branch of the error goes on to writeCache.
OnList_NoReturnMutant(c) ==
    /\ pc[c] = "list" /\ listed[c] # NoAnswer
    /\ timer' = TRUE
    /\ pc' = [pc EXCEPT ![c] = "open"]
    /\ UNCHANGED <<napi, server, file, listed, result, known>>

\* update, when NAPI has answered: resetTimeout, then the file.
OnList(c) ==
    /\ pc[c] = "list" /\ listed[c] # NoAnswer
    /\ timer' = TRUE
    /\ pc' = [pc EXCEPT ![c] = IF listed[c] = Failed THEN "readBack" ELSE "open"]
    /\ UNCHANGED <<napi, server, file, listed, result, known>>

\* Mutant: a failed list fails the update.
ReadBack_Mutant(c) ==
    /\ pc[c] = "readBack"
    /\ CallBack(c, Failed)
    /\ UNCHANGED <<napi, file, known>>

ReadBack(c) ==
    /\ pc[c] = "readBack"
    /\ CallBack(c, Content)
    /\ UNCHANGED <<napi, file, known>>

OpenFile(c) ==
    /\ pc[c] = "open"
    /\ \/ /\ file' = Store!Opened
          /\ pc' = [pc EXCEPT ![c] = "write"]
          /\ UNCHANGED <<server, timer, listed, result>>
       \/ DiskFails /\ CallBack(c, Failed) /\ UNCHANGED file
    /\ UNCHANGED <<napi, known>>

WriteFile(c) ==
    /\ pc[c] = "write"
    /\ \/ /\ file' = Store!Wrote(file, listed[c])
          /\ pc' = [pc EXCEPT ![c] = "written"]
          /\ UNCHANGED <<server, timer, listed, result>>
       \/ DiskFails /\ CallBack(c, Failed) /\ UNCHANGED file
    /\ UNCHANGED <<napi, known>>

\* The write calls back; by now another call may have opened the file again.
FileWritten(c) ==
    /\ pc[c] = "written"
    /\ CallBack(c, listed[c])
    /\ UNCHANGED <<napi, file, known>>

-------------------------------------------------------------------------------
(* NAPI, the operator, and the end of the process.                         *)

NapiServes(c) ==
    /\ pc[c] = "list" /\ listed[c] = NoAnswer
    /\ \E a \in {napi} \cup (IF NapiFails THEN {Failed} ELSE {}) :
          listed' = [listed EXCEPT ![c] = a]
    /\ UNCHANGED <<napi, server, file, timer, pc, result, known>>

PoolChanges ==
    /\ Volatile
    /\ napi' \in Payload
    /\ known' = known \cup {napi'}
    /\ UNCHANGED <<server, file, timer, pc, listed, result>>

\* Not between an open and its write, which would then go to no file.
RemoveFile ==
    /\ Cleanup
    /\ \A c \in Call : pc[c] # "write"
    /\ file' = Store!Absent
    /\ UNCHANGED <<napi, server, timer, pc, listed, result, known>>

Crash ==
    /\ CanCrash /\ server # "down"
    /\ Die
    /\ UNCHANGED <<napi, file, result, known>>

-------------------------------------------------------------------------------
Handle(c) ==
    \/ FirstRead(c) \/ OnList(c) \/ ReadBack(c)
    \/ OpenFile(c) \/ WriteFile(c) \/ FileWritten(c)

Next ==
    \/ StartServer
    \/ \E c \in Worker : UpdateWorker(c)
    \/ \E c \in Refresh : RefreshUpdate(c)
    \/ \E c \in Boot : ReadCache(c)
    \/ \E c \in Call : Handle(c) \/ NapiServes(c)
    \/ PoolChanges \/ RemoveFile \/ Crash

Spec == Init /\ [][Next]_vars

\* smf starts the server, timers fire, the disk answers, and NAPI does too: of
\* the requests a caller goes on to make it grants one in the end.
Fairness ==
    /\ WF_vars(StartServer)
    /\ WF_vars(\E c \in Worker : UpdateWorker(c))
    /\ \A c \in Call : /\ WF_vars(Handle(c)) /\ WF_vars(NapiServes(c))
                       /\ SF_vars(NapiServes(c) /\ listed'[c] = napi)

FairSpec == Spec /\ Fairness

-------------------------------------------------------------------------------
(* Every variable stays in its set, and a call that is about to write has  *)
(* a pool to write (admin-pool-cache.js:90-105).                           *)
TypeOK ==
    /\ napi \in Payload
    /\ server \in {"down", "starting", "up"}
    /\ file \in Store!File
    /\ timer \in BOOLEAN
    /\ pc \in [Call -> {"idle", "firstRead", "list", "readBack", "open", "write", "written"}]
    /\ listed \in [Call -> Payload \cup {NoAnswer, Failed}]
    /\ result \in [Call -> Payload \cup {NoAnswer, Failed}]
    /\ known \in SUBSET Payload
    /\ \A c \in Call : pc[c] \in {"open", "write", "written"} => listed[c] \in Payload

(* The periodic update does not die out: its timer is set, or the answer   *)
(* that will set it is on its way, whichever caller came between           *)
(* (admin-pool-cache.js:93, 102, 112, 117).                                *)
WorkerArmed == server # "down" => timer \/ Asking \cap Worker # {}

(* A pool that a caller is given is one that NAPI, or the file the process *)
(* started with, has held: never one put together from two writes.         *)
PoolFromNapi ==
    \A c \in Call : result[c] \in known \cup {NoAnswer, Failed}

(* The server starts without NAPI if the file is there: it aborts only     *)
(* when the file cannot be read either (server.js:51-62,                   *)
(* admin-pool-cache.js:90-96).                                             *)
StartFailsOnlyWithoutPool ==
    [][server = "starting" /\ server' = "down" => Content = Failed]_vars

(* A file that is missing does not by itself fail a boot's read: NAPI is   *)
(* asked first (admin-pool-cache.js:145-148).                              *)
MissingFileIsFetched ==
    [][\A c \in Boot :
          result[c] = NoAnswer /\ result'[c] = Failed
              => file.exists \/ listed[c] = Failed]_vars

(* While its pool does not change and it answers now and then, NAPI's pool *)
(* is again and again what a boot would read (admin-pool-cache.js:12-18).  *)
PoolIsLearned == []<>(server = "up" /\ Content = napi)

(* "If the tag exists in the 'admin' network pool, subsequent steps in     *)
(* this chain will provision the nic and IP on a network from the 'admin'  *)
(* network pool" (bootparams.js:222-228): so while the pool NAPI has is    *)
(* the one the server started with, a boot finds it.                       *)
BootsFindPool ==
    \A c \in Boot : known = {napi} => result[c] \in {NoAnswer, napi}
===============================================================================
