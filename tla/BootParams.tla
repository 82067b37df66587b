------------------------------ MODULE BootParams ------------------------------
(***************************************************************************)
(* getBootParams and getFromCache of lib/bootparams.js: the pipeline of    *)
(* NAPI and CNAPI requests behind every DHCPDISCOVER, `booter bootparams`  *)
(* and cache refresh, raced by the timer that answers from the cache       *)
(* directory when the services are slow.                                   *)
(*                                                                         *)
(* Calls run concurrently, for the same MAC too (a CN retransmits, the     *)
(* refresh covers all MACs).  Each step of the pipeline is one action: the *)
(* service's answer and everything the code does up to its next request.   *)
(* A service that never answers is a pipeline that takes no further step.  *)
(* A call whose timer fired goes on as a zombie: its remaining requests    *)
(* are still sent, and their effects on NAPI happen.                       *)
(***************************************************************************)
EXTENDS Naturals, Sequences, FiniteSets

CONSTANTS
    Call,           \* the calls of getBootParams
    Timed,          \* those with a timer: opts.pipelineTimeoutSeconds > 0
    Mac,
    NoMac,
    Tag,            \* values of opts.nic_tag, from the DHCP circuit id
    NoTag,
    PoolTags,       \* nic_tags_present of the admin network pool
    Params,         \* what CNAPI may hold for a server: platform, kernel args
    DefaultParams,  \* CNAPI's boot params for 'default'
    Missing,        \* CNAPI answers 404, or {}: no boot params of its own
    NoParams,       \* params is still null
    NoPayload,
    Size,           \* bytes of the cache file that holds a payload
    CanCrash,       \* the process may die between two steps
    DiskFails,      \* mkdirp, open and write may fail
    Volatile        \* operators change NAPI and CNAPI while calls run

\* The bootParams object: CNAPI's params with the boot nic's address added.
\* Of the address we keep the network it was taken from.
Network == {"admin", "pool"}
Payload == [params : Params, net : Network]

ASSUME BootParamsAssumption ==
    /\ Timed \subseteq Call
    /\ NoMac \notin Mac
    /\ NoTag \notin Tag
    /\ PoolTags \subseteq Tag
    /\ DefaultParams \in Params
    /\ Missing \notin Params
    /\ NoParams \notin Params
    /\ NoPayload \notin Payload
    /\ Size \in [Payload -> Nat \ {0}]
    /\ {CanCrash, DiskFails, Volatile} \subseteq BOOLEAN

VARIABLES
    \* external: NAPI, CNAPI and the cache directory
    nic,        \* NAPI's nic for each MAC: "absent", "noIp", "noMask" (it has
                \* an address but no netmask) or "ip", and the address's network
    server,     \* the MAC's server: "unknown" to CNAPI, "unsetup" (known to
                \* CNAPI by hostname only) or "setup" (the nic belongs to it)
    cnapi,      \* CNAPI's boot params of that server
    file,       \* <cacheDir>/<mac>.json
    \* the calls
    pc,         \* the request each call waits for
    mac, tag,   \* opts.mac, opts.nic_tag
    timer,      \* the pipeline's timer
    lookup,     \* getFromCache of the call
    pool,       \* vArg.adminPool is set
    bootNic,    \* vArg.bootNic
    cn,         \* vArg.cn_uuid is the admin UUID or that of a server
    params,     \* the local variable params
    answers,    \* what the callback was called with
    assembled   \* history: the params each MAC's calls assembled

external == <<nic, server, cnapi>>
callVars == <<mac, tag, pool, bootNic, cn, params>>
vars == <<external, file, pc, callVars, timer, lookup, answers, assembled>>

Store == INSTANCE JsonFile

\* The bootParams object at the end of the pipeline.
BootParamsOf(c) == [params |-> params[c], net |-> bootNic[c].net]

\* The steps of mod_json.write: the file is to be opened, is open, is written; or
\* one of these has failed.  In the last two the call's callback is still to run.
Storing == {"open", "write", "stored", "unstored"}

\* How a state of the pipeline is seen by the callers of getBootParams.
MadeBy(c) == IF pc[c] \in Storing THEN BootParamsOf(c) ELSE NoPayload
Lost      == {c \in Call : pc[c] = "dead" /\ answers[c] = <<>>}

Answers == INSTANCE BootAnswers WITH
    asked   <- mac,
    made    <- [c \in Call |-> MadeBy(c)],
    replies <- answers,
    lost    <- Lost

NoNet == "none"
NicState == {"absent", "noIp", "noMask", "ip"}
Nic == [state : NicState, net : Network \cup {NoNet}]

Running == {"readPool", "getNic", "provisionIP", "createNic", "getServer",
            "bootParams", "defaultParams", "getNics", "getAggrs",
            "getNicTags", "getPlatforms"} \cup Storing

-------------------------------------------------------------------------------
HasAddress(n) == n.state \in {"noMask", "ip"}

ConsistentNic(n) == HasAddress(n) <=> n.net # NoNet

Init ==
    /\ nic \in [Mac -> {n \in Nic : ConsistentNic(n)}]
    /\ server \in [Mac -> {"unknown", "unsetup", "setup"}]
    /\ \A m \in Mac : server[m] = "setup" => nic[m].state # "absent"
    /\ cnapi \in [Mac -> Params \cup {Missing}]
    /\ file \in [Mac -> {Store!Absent} \cup {Store!Holding(p) : p \in Payload}]
    /\ assembled = [m \in Mac |-> IF file[m].exists THEN {file[m].content} ELSE {}]
    /\ pc = [c \in Call |-> "idle"]
    /\ mac = [c \in Call |-> NoMac]
    /\ tag = [c \in Call |-> NoTag]
    /\ timer = [c \in Call |-> "off"]
    /\ lookup = [c \in Call |-> "none"]
    /\ pool = [c \in Call |-> FALSE]
    /\ bootNic = [c \in Call |-> [state |-> "absent", net |-> NoNet]]
    /\ cn = [c \in Call |-> "admin"]
    /\ params = [c \in Call |-> NoParams]
    /\ answers = [c \in Call |-> <<>>]

-------------------------------------------------------------------------------
(* The end of a step: go to the next request, or end the pipeline.         *)

Answer(c, a) == answers' = [answers EXCEPT ![c] = Append(@, a)]

GoTo(c, step) ==
    /\ pc' = [pc EXCEPT ![c] = step]
    /\ UNCHANGED <<timer, lookup, answers, assembled>>

\* Mutant: the pipeline's callback does not look at pipelineTimedOut.
Fail_Mutant(c) ==
    /\ pc' = [pc EXCEPT ![c] = "done"]
    /\ timer' = [timer EXCEPT ![c] = "off"]
    /\ lookup' = [lookup EXCEPT ![c] = "pending"]
    /\ UNCHANGED <<answers, assembled>>

\* Mutant: an error of the pipeline is handed on without a look at the cache.
Fail_NoFallbackMutant(c) ==
    /\ pc' = [pc EXCEPT ![c] = "done"]
    /\ IF timer[c] = "fired"
       THEN UNCHANGED <<timer, answers>>
       ELSE timer' = [timer EXCEPT ![c] = "off"] /\ Answer(c, Answers!Error)
    /\ UNCHANGED <<lookup, assembled>>

\* A step called back with an error: the pipeline's callback falls back to the
\* cache, unless the timer has already done so.
Fail(c) ==
    /\ pc' = [pc EXCEPT ![c] = "done"]
    /\ IF timer[c] = "fired"
       THEN UNCHANGED <<timer, lookup>>
       ELSE /\ timer' = [timer EXCEPT ![c] = "off"]
            /\ lookup' = [lookup EXCEPT ![c] = "pending"]
    /\ UNCHANGED <<answers, assembled>>

\* All steps succeeded.
\* Mutant: a pipeline that finishes after its timer fired still stores its result.
Succeed_Mutant(c) ==
    /\ timer' = [timer EXCEPT ![c] = "off"]
    /\ pc' = [pc EXCEPT ![c] = "open"]
    /\ assembled' = [assembled EXCEPT ![mac[c]] = @ \cup {BootParamsOf(c)}]
    /\ UNCHANGED <<answers, lookup>>

Succeed(c) ==
    IF timer[c] = "fired"
    THEN GoTo(c, "done")
    ELSE /\ timer' = [timer EXCEPT ![c] = "off"]
         /\ IF bootNic[c].state # "ip"
            THEN /\ pc' = [pc EXCEPT ![c] = "done"]
                 /\ Answer(c, Answers!Error)
                 /\ UNCHANGED assembled
            ELSE /\ pc' = [pc EXCEPT ![c] = "open"]
                 /\ assembled' = [assembled EXCEPT ![mac[c]] = @ \cup {BootParamsOf(c)}]
                 /\ UNCHANGED answers
         /\ UNCHANGED lookup

-------------------------------------------------------------------------------
(* The pipeline, one action per service request.                           *)

\* Mutant: without the default of 28 seconds no timer is set.
GetBootParams_Mutant(c, m, t) ==
    /\ pc[c] = "idle"
    /\ mac' = [mac EXCEPT ![c] = m]
    /\ tag' = [tag EXCEPT ![c] = t]
    /\ pc' = [pc EXCEPT ![c] = "readPool"]
    /\ UNCHANGED <<external, file, pool, bootNic, cn, params, lookup, answers,
                   timer, assembled>>

GetBootParams(c, m, t) ==
    /\ pc[c] = "idle"
    /\ mac' = [mac EXCEPT ![c] = m]
    /\ tag' = [tag EXCEPT ![c] = t]
    /\ timer' = [timer EXCEPT ![c] = IF c \in Timed THEN "armed" ELSE "off"]
    /\ pc' = [pc EXCEPT ![c] = "readPool"]
    /\ UNCHANGED <<external, file, pool, bootNic, cn, params, lookup, answers,
                   assembled>>

\* An error of readCache is logged and ignored: as if there were no pool.
ReadAdminPoolCache(c) ==
    /\ pc[c] = "readPool"
    /\ \E known \in BOOLEAN : pool' = [pool EXCEPT ![c] = known /\ PoolTags # {}]
    /\ GoTo(c, "getNic")
    /\ UNCHANGED <<external, file, mac, tag, bootNic, cn, params>>

\* _getUnsetupServerUUID starts from belongs_to_uuid of the boot nic: a nic of
\* the admin user sends it to CNAPI, any other goes straight to its params.
WithBootNic(c, n) ==
    /\ bootNic' = [bootNic EXCEPT ![c] = n]
    /\ cn' = [cn EXCEPT ![c] = IF server[mac[c]] = "setup" THEN "server" ELSE "admin"]
    /\ GoTo(c, IF server[mac[c]] = "setup" THEN "bootParams" ELSE "getServer")

GetNic(c) ==
    /\ pc[c] = "getNic"
    /\ LET n == nic[mac[c]]
       IN \/ n.state = "absent" /\ GoTo(c, "createNic") /\ UNCHANGED <<bootNic, cn>>
          \/ n.state = "noIp" /\ GoTo(c, "provisionIP") /\ UNCHANGED <<bootNic, cn>>
          \/ HasAddress(n) /\ WithBootNic(c, n)
          \/ Fail(c) /\ UNCHANGED <<bootNic, cn>>
    /\ UNCHANGED <<external, file, mac, tag, pool, params>>

\* Mutant: the nic tag itself is sent as the network.
NetworkFor_Mutant(c) == tag[c]

\* _checkAdminPoolCache: the network the address is asked for.
NetworkFor(c) ==
    IF tag[c] # NoTag /\ pool[c] /\ tag[c] \in PoolTags THEN "pool" ELSE "admin"

\* The request reaches NAPI or not; if it does, its answer may still be lost.
Provision(c) ==
    LET n == [state |-> "ip", net |-> NetworkFor(c)]
    IN \/ /\ nic' = [nic EXCEPT ![mac[c]] = n]
          /\ \/ WithBootNic(c, n)
             \/ Fail(c) /\ UNCHANGED <<bootNic, cn>>
       \/ Fail(c) /\ UNCHANGED <<nic, bootNic, cn>>

ProvisionIP(c) ==
    /\ pc[c] = "provisionIP"
    /\ Provision(c)
    /\ UNCHANGED <<server, cnapi, file, mac, tag, pool, params>>

\* NAPI refuses to create a nic it has: another call was first.
CreateNic(c) ==
    /\ pc[c] = "createNic"
    /\ IF nic[mac[c]].state = "absent"
       THEN Provision(c)
       ELSE Fail(c) /\ UNCHANGED <<nic, bootNic, cn>>
    /\ UNCHANGED <<server, cnapi, file, mac, tag, pool, params>>

\* Mutant: a CN that is not set up yet is not looked up by its hostname.
GetUnsetupServerUUID_Mutant(c) ==
    /\ pc[c] = "getServer"
    /\ GoTo(c, "defaultParams")
    /\ UNCHANGED <<external, file, callVars>>

GetUnsetupServerUUID(c) ==
    /\ pc[c] = "getServer"
    /\ \/ /\ server[mac[c]] # "unknown"
          /\ cn' = [cn EXCEPT ![c] = "server"]
          /\ GoTo(c, "bootParams")
       \/ /\ server[mac[c]] = "unknown"
          /\ GoTo(c, "defaultParams")
          /\ UNCHANGED cn
       \/ Fail(c) /\ UNCHANGED cn
    /\ UNCHANGED <<external, file, mac, tag, pool, bootNic, params>>

\* Where the pipeline goes once params is set: the CN's nics and aggregations
\* are asked for only if the CN is known.
AfterParams(c) == IF cn[c] = "server" THEN "getNics" ELSE "getNicTags"

ServerBootParams(c) ==
    /\ pc[c] = "bootParams"
    /\ LET p == cnapi[mac[c]]
       IN \/ p = Missing /\ GoTo(c, "defaultParams") /\ UNCHANGED params
          \/ /\ p # Missing
             /\ params' = [params EXCEPT ![c] = p]
             /\ GoTo(c, AfterParams(c))
          \/ Fail(c) /\ UNCHANGED params
    /\ UNCHANGED <<external, file, mac, tag, pool, bootNic, cn>>

DefaultBootParams(c) ==
    /\ pc[c] = "defaultParams"
    /\ \/ /\ params' = [params EXCEPT ![c] = DefaultParams]
          /\ GoTo(c, AfterParams(c))
       \/ Fail(c) /\ UNCHANGED params
    /\ UNCHANGED <<external, file, mac, tag, pool, bootNic, cn>>

\* A step whose answer is kept for the caller only.
Gather(c, step, next) ==
    /\ pc[c] = step
    /\ GoTo(c, next) \/ Fail(c)
    /\ UNCHANGED <<external, file, callVars>>

NapiGetNics(c)    == Gather(c, "getNics", "getAggrs")
NapiGetAggrs(c)   == Gather(c, "getAggrs", "getNicTags")
NapiGetNicTags(c) == Gather(c, "getNicTags", "getPlatforms")

\* The last step: its success ends the pipeline.
GetPlatforms(c) ==
    /\ pc[c] = "getPlatforms"
    /\ Succeed(c) \/ Fail(c)
    /\ UNCHANGED <<external, file, callVars>>

-------------------------------------------------------------------------------
(* The timer, the cache directory and the crash of the process.            *)

TimerFires(c) ==
    /\ timer[c] = "armed"
    /\ timer' = [timer EXCEPT ![c] = "fired"]
    /\ lookup' = [lookup EXCEPT ![c] = "pending"]
    /\ UNCHANGED <<external, file, pc, callVars, answers, assembled>>

\* Mutant: what is read is handed on whether it parses or not.
GetFromCache_Mutant(c) ==
    /\ lookup[c] = "pending"
    /\ lookup' = [lookup EXCEPT ![c] = "done"]
    /\ Answer(c, Answers!Cached(file[mac[c]].content))
    /\ UNCHANGED <<external, file, pc, callVars, timer, assembled>>

GetFromCache(c) ==
    /\ lookup[c] = "pending"
    /\ lookup' = [lookup EXCEPT ![c] = "done"]
    /\ LET f == file[mac[c]]
       IN Answer(c, IF Store!Readable(f) THEN Answers!Cached(f.content)
                                         ELSE Answers!Error)
    /\ UNCHANGED <<external, file, pc, callVars, timer, assembled>>

\* mod_json.write, up to the open of the file, which empties it.
OpenFile(c) ==
    /\ pc[c] = "open"
    /\ \/ /\ file' = [file EXCEPT ![mac[c]] = Store!Opened]
          /\ pc' = [pc EXCEPT ![c] = "write"]
       \/ /\ DiskFails
          /\ pc' = [pc EXCEPT ![c] = "unstored"]
          /\ UNCHANGED file
    /\ UNCHANGED <<external, callVars, timer, lookup, answers, assembled>>

\* Mutant: the file is opened for appending.
WriteFile_Mutant(c) ==
    /\ pc[c] = "write"
    /\ pc' = [pc EXCEPT ![c] = "stored"]
    /\ file' = [file EXCEPT ![mac[c]] =
                   [Store!Holding(BootParamsOf(c)) EXCEPT
                       !.length = @ + file[mac[c]].length]]
    /\ UNCHANGED <<external, callVars, timer, lookup, answers, assembled>>

\* The write, which ends in the thread pool; what it calls back comes later.
WriteFile(c) ==
    /\ pc[c] = "write"
    /\ \/ /\ file' = [file EXCEPT ![mac[c]] = Store!Wrote(@, BootParamsOf(c))]
          /\ pc' = [pc EXCEPT ![c] = "stored"]
       \/ /\ DiskFails
          /\ pc' = [pc EXCEPT ![c] = "unstored"]
          /\ UNCHANGED file
    /\ UNCHANGED <<external, callVars, timer, lookup, answers, assembled>>

\* The callback of mod_json.write, which answers the call.  Other calls may have
\* opened and written the file since.
CacheWritten(c) ==
    /\ pc[c] \in {"stored", "unstored"}
    /\ pc' = [pc EXCEPT ![c] = "done"]
    /\ Answer(c, IF pc[c] = "stored" THEN Answers!Fresh(BootParamsOf(c))
                                     ELSE Answers!Error)
    /\ UNCHANGED <<external, file, callVars, timer, lookup, assembled>>

\* Every call dies with the process; NAPI and the directory stay as they are.
Crash ==
    /\ CanCrash
    /\ pc' = [c \in Call |-> IF pc[c] \in Running \/ lookup[c] = "pending"
                             THEN "dead" ELSE pc[c]]
    /\ timer' = [c \in Call |-> "off"]
    /\ lookup' = [c \in Call |-> IF lookup[c] = "pending" THEN "none" ELSE lookup[c]]
    /\ UNCHANGED <<external, file, callVars, answers, assembled>>

-------------------------------------------------------------------------------
(* What others do to NAPI and CNAPI meanwhile.                             *)

SetBootParams(m, p) ==
    /\ Volatile
    /\ cnapi' = [cnapi EXCEPT ![m] = p]
    /\ UNCHANGED <<nic, server, file, pc, callVars, timer, lookup, answers, assembled>>

\* The CN sends its sysinfo, and later is set up: its nics belong to it.
ServerReports(m) ==
    /\ Volatile
    /\ \/ server[m] = "unknown" /\ server' = [server EXCEPT ![m] = "unsetup"]
       \/ /\ server[m] = "unsetup"
          /\ nic[m].state # "absent"
          /\ server' = [server EXCEPT ![m] = "setup"]
    /\ UNCHANGED <<nic, cnapi, file, pc, callVars, timer, lookup, answers, assembled>>

-------------------------------------------------------------------------------
Step(c) ==
    \/ ReadAdminPoolCache(c) \/ GetNic(c) \/ ProvisionIP(c) \/ CreateNic(c)
    \/ GetUnsetupServerUUID(c) \/ ServerBootParams(c) \/ DefaultBootParams(c)
    \/ NapiGetNics(c) \/ NapiGetAggrs(c) \/ NapiGetNicTags(c) \/ GetPlatforms(c)

Local(c) ==
    \/ TimerFires(c) \/ GetFromCache(c)
    \/ OpenFile(c) \/ WriteFile(c) \/ CacheWritten(c)

Next ==
    \/ \E c \in Call :
          \/ \E m \in Mac, t \in Tag \cup {NoTag} : GetBootParams(c, m, t)
          \/ Step(c)
          \/ Local(c)
    \/ Crash
    \/ \E m \in Mac :
          \/ \E p \in Params \cup {Missing} : SetBootParams(m, p)
          \/ ServerReports(m)

\* Timers fire and the file system answers; NAPI and CNAPI need not.
Fairness == \A c \in Call :
    /\ WF_vars(TimerFires(c))
    /\ WF_vars(GetFromCache(c))
    /\ WF_vars(OpenFile(c))
    /\ WF_vars(WriteFile(c))
    /\ WF_vars(CacheWritten(c))

Spec == Init /\ [][Next]_vars

FairSpec == Spec /\ Fairness

-------------------------------------------------------------------------------
AnswerSet == [kind : {"fresh", "cached", "error"}, params : Payload \cup {NoPayload}]

(* Every variable stays in its set.                                        *)
TypeOK ==
    /\ nic \in [Mac -> Nic]
    /\ server \in [Mac -> {"unknown", "unsetup", "setup"}]
    /\ cnapi \in [Mac -> Params \cup {Missing}]
    /\ file \in [Mac -> Store!File]
    /\ pc \in [Call -> Running \cup {"idle", "done", "dead"}]
    /\ mac \in [Call -> Mac \cup {NoMac}]
    /\ tag \in [Call -> Tag \cup {NoTag}]
    /\ timer \in [Call -> {"off", "armed", "fired"}]
    /\ lookup \in [Call -> {"none", "pending", "done"}]
    /\ pool \in [Call -> BOOLEAN]
    /\ bootNic \in [Call -> Nic]
    /\ cn \in [Call -> {"admin", "server"}]
    /\ params \in [Call -> Params \cup {NoParams}]
    /\ answers \in [Call -> Seq(AnswerSet)]
    /\ assembled \in [Mac -> SUBSET Payload]

(* The callback is called at most once, whatever the order of the timer,   *)
(* the last answer of the pipeline and the two reads of the cache: `once`  *)
(* is what vasync and the DHCP handler rely on (bootparams.js:136-153 and  *)
(* 437-454 share one callback and one flag).                               *)
AtMostOneAnswer == \A c \in Call : Len(answers[c]) <= 1

(* A call that opens or writes a cache file is itself not answered yet, and *)
(* has not been sent to the cache: a pipeline that lost the race against   *)
(* its timer changes nothing the next REQUEST will read, whatever other    *)
(* calls for its MAC are doing (bootparams.js:438-441); and the file is    *)
(* that of its own MAC.                                                    *)
AnsweredCallsLeaveCache ==
    [][\A c \in Call :
          file' # file /\ pc'[c] # pc[c] =>
             /\ answers[c] = <<>> /\ lookup[c] = "none"
             /\ \A m \in Mac \ {mac[c]} : file'[m] = file[m]]_vars

(* Once a call was given fresh params p, its cache file holds p, or what a *)
(* later writer put there: a call that was given it as its fresh answer,   *)
(* that is still at it, or that the disk or a crash stopped.  A REQUEST    *)
(* never reads what was there before the OFFER, nor what a call that was   *)
(* answered otherwise left (bootparams.js:583-604, and json-file.js:85,    *)
(* where another call may open the file between a write and its callback). *)
FreshIsStored ==
    \A c \in Call : \A p \in Payload :
        answers[c] = <<Answers!Fresh(p)>> =>
            LET f == file[mac[c]] IN
            \/ f.content = p
            \/ \E d \in Call \ {c} :
                  /\ mac[d] = mac[c]
                  /\ \/ answers[d] = <<Answers!Fresh(f.content)>>
                     \/ pc[d] \in {"write", "stored", "unstored", "dead"}
                     \/ answers[d] = <<Answers!Error>> /\ lookup[d] = "none"

(* getBootParams implements what its callers are promised.                 *)
ImplementsBootAnswers == Answers!Spec

(* While NAPI and CNAPI do not change, a fresh answer carries the params   *)
(* of the CN itself exactly if CNAPI knows the CN and has params for it,   *)
(* and the default ones otherwise; the CN's address is then in NAPI        *)
(* (bootparams.js:324-414, through the shared variables uuid and cn_uuid). *)
ParamsFor(m) ==
    IF server[m] = "unknown" \/ cnapi[m] = Missing THEN DefaultParams ELSE cnapi[m]

FreshIsResolved ==
    \A c \in Call : \A p \in Payload :
        answers[c] = <<Answers!Fresh(p)>> =>
            p.params = ParamsFor(mac[c]) /\ nic[mac[c]].state = "ip"

(* If all payloads have the same size and nothing crashes, concurrent      *)
(* writers leave a readable file: it is unreadable only while one of them  *)
(* is between its open and its write.                                      *)
QuietFileReadable ==
    \A m \in Mac :
        Store!Readable(file[m]) \/ ~file[m].exists
        \/ \E c \in Call : mac[c] = m /\ pc[c] = "write"

(* A CN that was once given fresh params is not refused when the services  *)
(* fail later or are slow: an error is answered only for a nic without     *)
(* netmask, or if the cache file is being rewritten at that very moment    *)
(* (bootparams.js:115-132, 446-462).                                       *)
KnownCnNotRefused ==
    [][\A c, d \in Call :
          /\ mac[c] = mac[d]
          /\ answers[d] # <<>> /\ Head(answers[d]).kind = "fresh"
          /\ answers[c] = <<>> /\ answers'[c] = <<Answers!Error>>
          => \/ bootNic[c].state = "noMask"
             \/ \E e \in Call : mac[e] = mac[c] /\ pc[e] = "write"]_vars

(* A call with a timer is answered even if NAPI or CNAPI never answers it, *)
(* unless the process dies first (bootparams.js:115-132).                  *)
TimedCallsAnswered ==
    \A c \in Timed : pc[c] # "idle" ~> (answers[c] # <<>> \/ pc[c] = "dead")
===============================================================================
