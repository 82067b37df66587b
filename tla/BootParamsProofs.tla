--------------------------- MODULE BootParamsProofs ---------------------------
(***************************************************************************)
(* Proofs about BootParams for every set of calls, MACs and params.        *)
(*                                                                         *)
(* That a call is answered once does not follow from the number of its     *)
(* answers alone: what rules out a second answer is which of the pipeline, *)
(* the timer and the cache lookup can still act for the call.  CallInv     *)
(* says so; FileInv says where what is on disk comes from.                 *)
(***************************************************************************)
EXTENDS BootParams, TLAPS

Asking == Running \ Storing

\* The pipeline has set params.
Resolved == {"getNics", "getAggrs", "getNicTags", "getPlatforms"} \cup Storing

CallInv(c) ==
    /\ pc[c] = "idle" => /\ mac[c] = NoMac /\ answers[c] = <<>>
                         /\ timer[c] = "off" /\ lookup[c] = "none"
    /\ pc[c] # "idle" => mac[c] \in Mac
    /\ timer[c] = "armed" => pc[c] \in Asking
    /\ timer[c] = "fired" => pc[c] \in Asking \cup {"done"} /\ lookup[c] # "none"
    /\ pc[c] \in Running /\ timer[c] # "fired" => lookup[c] = "none" /\ answers[c] = <<>>
    /\ lookup[c] = "pending" => answers[c] = <<>>
    /\ lookup[c] = "done" => answers[c] # <<>>
    /\ pc[c] = "done" => lookup[c] = "pending" \/ answers[c] # <<>>
    /\ pc[c] = "dead" => lookup[c] # "pending"
    /\ answers[c] # <<>> => Len(answers[c]) = 1
    /\ pc[c] \in Resolved => params[c] \in Params
    /\ pc[c] \in Storing => BootParamsOf(c) \in assembled[mac[c]] \cap Payload

FileInv == \A m \in Mac :
    file[m].content # NoPayload => file[m].content \in assembled[m]

NicInv ==
    /\ \A m \in Mac : ConsistentNic(nic[m])
    /\ \A c \in Call : ConsistentNic(bootNic[c])

IInv == TypeOK /\ NicInv /\ FileInv /\ \A c \in Call : CallInv(c)

-------------------------------------------------------------------------------
(* The ends of a step.                                                     *)

\* What every action of a call leaves alone: the other calls.
OnlyCall(c) == \A d \in Call \ {c} :
    /\ pc'[d] = pc[d] /\ mac'[d] = mac[d]
    /\ timer'[d] = timer[d] /\ lookup'[d] = lookup[d]
    /\ answers'[d] = answers[d] /\ params'[d] = params[d]
    /\ bootNic'[d] = bootNic[d]

AssembledGrows == \A m \in Mac : assembled[m] \subseteq assembled'[m]

(* An action of one call keeps the invariant of the others.                *)
LEMMA OthersKeep ==
    ASSUME NEW c \in Call, NEW d \in Call \ {c}, CallInv(d),
           OnlyCall(c), AssembledGrows
    PROVE  CallInv(d)'
  BY DEF CallInv, OnlyCall, AssembledGrows, BootParamsOf, Running, Asking,
         Storing, Resolved

(* An answer to a call that has none is its only one.                      *)
LEMMA FirstAnswer ==
    ASSUME TypeOK, NEW c \in Call, answers[c] = <<>>, NEW a \in AnswerSet,
           Answer(c, a)
    PROVE  /\ answers' \in [Call -> Seq(AnswerSet)]
           /\ answers'[c] = <<a>> /\ answers'[c] # <<>> /\ Len(answers'[c]) = 1
           /\ \A d \in Call \ {c} : answers'[d] = answers[d]
  <1>1. Append(<<>>, a) = <<a>> /\ <<a>> \in Seq(AnswerSet)
    OBVIOUS
  <1>2. answers' = [answers EXCEPT ![c] = <<a>>]
    BY <1>1 DEF Answer, TypeOK
  <1> QED BY <1>1, <1>2 DEF TypeOK

(* The three answers that getBootParams gives are answers.                 *)
LEMMA AnswerTypes ==
    /\ Answers!Error \in AnswerSet
    /\ \A p \in Payload : Answers!Fresh(p) \in AnswerSet /\ Answers!Cached(p) \in AnswerSet
  BY DEF AnswerSet, Answers!Error, Answers!Fresh, Answers!Cached

(* How a step may end: the variables GoTo, Fail and Succeed set, for the   *)
(* call itself and for the others.                                         *)
ControlOK ==
    /\ pc \in [Call -> Running \cup {"idle", "done", "dead"}]
    /\ timer \in [Call -> {"off", "armed", "fired"}]
    /\ lookup \in [Call -> {"none", "pending", "done"}]
    /\ answers \in [Call -> Seq(AnswerSet)]
    /\ assembled \in [Mac -> SUBSET Payload]

OthersControl(c) ==
    /\ \A d \in Call \ {c} :
          /\ pc'[d] = pc[d] /\ timer'[d] = timer[d]
          /\ lookup'[d] = lookup[d] /\ answers'[d] = answers[d]
    /\ AssembledGrows

(* A call that goes to its next request keeps its invariant.               *)
LEMMA GoToKeeps ==
    ASSUME TypeOK, NEW c \in Call, CallInv(c), pc[c] \in Asking,
           NEW s \in Asking \cup {"done"}, GoTo(c, s), mac'[c] = mac[c],
           s = "done" => timer[c] = "fired",
           s \in Resolved => params'[c] \in Params
    PROVE  ControlOK' /\ OthersControl(c) /\ CallInv(c)'
  <1>1. ControlOK' /\ OthersControl(c)
    BY DEF TypeOK, ControlOK, OthersControl, AssembledGrows, GoTo, Asking, Running, Storing
  <1>2. CallInv(c)'
    BY DEF TypeOK, CallInv, GoTo, Running, Asking, Storing, Resolved
  <1> QED BY <1>1, <1>2

(* So does one whose request fails; it looks in the cache, if in time.     *)
LEMMA FailKeeps ==
    ASSUME TypeOK, NEW c \in Call, CallInv(c), pc[c] \in Asking, Fail(c),
           mac'[c] = mac[c]
    PROVE  ControlOK' /\ OthersControl(c) /\ CallInv(c)'
  <1>1. ControlOK' /\ OthersControl(c)
    BY DEF TypeOK, ControlOK, OthersControl, AssembledGrows, Fail
  <1>2. CallInv(c)'
    BY DEF TypeOK, CallInv, Fail, Running, Asking, Storing, Resolved
  <1> QED BY <1>1, <1>2

(* So does one whose last request succeeds, in time or not.                *)
LEMMA SucceedKeeps ==
    ASSUME TypeOK, NicInv, NEW c \in Call, CallInv(c), pc[c] = "getPlatforms",
           Succeed(c), UNCHANGED <<mac, params, bootNic>>
    PROVE  ControlOK' /\ OthersControl(c) /\ CallInv(c)'
  <1>1. CASE timer[c] = "fired"
    BY <1>1, GoToKeeps DEF Succeed, Asking, Running, Resolved, Storing
  <1>2. CASE timer[c] # "fired" /\ bootNic[c].state # "ip"
    <2>1. answers[c] = <<>> /\ Answer(c, Answers!Error)
      BY <1>2 DEF CallInv, Succeed, Running, Storing
    <2>2. /\ answers' \in [Call -> Seq(AnswerSet)]
          /\ answers'[c] # <<>> /\ Len(answers'[c]) = 1
          /\ \A d \in Call \ {c} : answers'[d] = answers[d]
      BY <2>1, FirstAnswer, AnswerTypes
    <2>3. ControlOK' /\ OthersControl(c)
      BY <1>2, <2>2
      DEF TypeOK, ControlOK, OthersControl, AssembledGrows, Succeed
    <2>4. CallInv(c)'
      BY <1>2, <2>2
      DEF TypeOK, CallInv, Succeed, Running, Asking, Storing, Resolved
    <2> QED BY <2>3, <2>4
  <1>3. CASE timer[c] # "fired" /\ bootNic[c].state = "ip"
    <2>1. BootParamsOf(c) \in Payload
      BY <1>3 DEF TypeOK, NicInv, ConsistentNic, HasAddress, CallInv, Resolved,
                  BootParamsOf, Payload, Nic, NoNet, Network
    <2>2. mac[c] \in Mac
      BY DEF CallInv
    <2>3. assembled' = [assembled EXCEPT ![mac[c]] = @ \cup {BootParamsOf(c)}]
      BY <1>3 DEF Succeed
    <2>4. assembled' \in [Mac -> SUBSET Payload] /\ AssembledGrows
      BY <2>3, <2>1, <2>2 DEF TypeOK, AssembledGrows
    <2>5. ControlOK' /\ OthersControl(c)
      BY <1>3, <2>4 DEF TypeOK, ControlOK, OthersControl, Succeed, Running, Storing
    <2>6. CallInv(c)'
      BY <1>3, <2>1, <2>2 DEF TypeOK, CallInv, Succeed, Running, Asking, Storing,
                              Resolved, BootParamsOf
    <2> QED BY <2>5, <2>6
  <1> QED BY <1>1, <1>2, <1>3

(* So does one that learns its boot nic; the nic stays consistent.         *)
LEMMA WithBootNicKeeps ==
    ASSUME TypeOK, NicInv, NEW c \in Call, CallInv(c), pc[c] \in Asking,
           NEW n \in Nic, ConsistentNic(n), WithBootNic(c, n), mac'[c] = mac[c]
    PROVE  /\ ControlOK' /\ OthersControl(c) /\ CallInv(c)'
           /\ bootNic' \in [Call -> Nic] /\ cn' \in [Call -> {"admin", "server"}]
           /\ \A d \in Call : ConsistentNic(bootNic'[d])
           /\ \A d \in Call \ {c} : bootNic'[d] = bootNic[d]
  <1>1. ControlOK' /\ OthersControl(c) /\ CallInv(c)'
    <2>1. GoTo(c, "bootParams") \/ GoTo(c, "getServer")
      BY DEF WithBootNic
    <2> QED
      BY <2>1, GoToKeeps DEF Asking, Running, Resolved, Storing
  <1> QED BY <1>1 DEF WithBootNic, TypeOK, NicInv

-------------------------------------------------------------------------------
(* Each action keeps IInv.                                                 *)

(* A call that begins.                                                     *)
LEMMA GetBootParamsKeeps ==
    ASSUME IInv, NEW c \in Call, NEW m \in Mac, NEW t \in Tag \cup {NoTag},
           GetBootParams(c, m, t)
    PROVE  IInv'
  <1> USE DEF IInv
  <1>1. TypeOK'
    BY DEF TypeOK, GetBootParams, external, Running, Storing
  <1>2. NicInv' /\ FileInv'
    BY DEF NicInv, FileInv, GetBootParams, external, ConsistentNic, HasAddress
  <1>3. CallInv(c)'
    BY BootParamsAssumption
    DEF TypeOK, CallInv, GetBootParams, Running, Asking, Storing, Resolved
  <1>4. OnlyCall(c) /\ AssembledGrows
    BY DEF TypeOK, GetBootParams, OnlyCall, AssembledGrows
  <1> QED BY <1>1, <1>2, <1>3, <1>4, OthersKeep

(* Its boot nic, found in NAPI, missing there, or not answered.            *)
LEMMA GetNicKeeps ==
    ASSUME IInv, NEW c \in Call, GetNic(c)
    PROVE  IInv'
  <1> USE DEF IInv
  <1> DEFINE n == nic[mac[c]]
  <1>1. mac[c] \in Mac /\ pc[c] \in Asking /\ mac' = mac /\ n \in Nic /\ ConsistentNic(n)
    BY DEF GetNic, CallInv, TypeOK, NicInv, Asking, Running, Storing
  <1>2. /\ ControlOK' /\ OthersControl(c) /\ CallInv(c)'
        /\ bootNic' \in [Call -> Nic] /\ cn' \in [Call -> {"admin", "server"}]
        /\ \A d \in Call : ConsistentNic(bootNic'[d])
        /\ \A d \in Call \ {c} : bootNic'[d] = bootNic[d]
    <2>1. CASE /\ GoTo(c, "createNic") \/ GoTo(c, "provisionIP") \/ Fail(c)
               /\ UNCHANGED <<bootNic, cn>>
      BY <1>1, <2>1, GoToKeeps, FailKeeps
      DEF TypeOK, NicInv, Asking, Running, Resolved, Storing
    <2>2. CASE WithBootNic(c, n)
      BY <1>1, <2>2, WithBootNicKeeps
    <2> QED BY <2>1, <2>2 DEF GetNic
  <1>3. TypeOK' /\ NicInv' /\ FileInv'
    BY <1>2 DEF TypeOK, ControlOK, OthersControl, AssembledGrows, NicInv, FileInv,
                GetNic, external, ConsistentNic, HasAddress
  <1>4. OnlyCall(c) /\ AssembledGrows
    BY <1>2 DEF OnlyCall, OthersControl, GetNic
  <1> QED BY <1>2, <1>3, <1>4, OthersKeep

(* Steps that leave the boot nic and NAPI alone, and the file.             *)
LEMMA QuietStep ==
    ASSUME IInv, NEW c \in Call, ControlOK', OthersControl(c), CallInv(c)',
           UNCHANGED <<external, file, mac, tag, bootNic>>,
           pool' \in [Call -> BOOLEAN], cn' \in [Call -> {"admin", "server"}],
           params' \in [Call -> Params \cup {NoParams}],
           \A d \in Call \ {c} : params'[d] = params[d]
    PROVE  IInv'
  <1>1. TypeOK' /\ NicInv' /\ FileInv'
    BY DEF IInv, TypeOK, ControlOK, OthersControl, AssembledGrows, NicInv, FileInv,
           external, ConsistentNic, HasAddress
  <1>2. OnlyCall(c) /\ AssembledGrows
    BY DEF OnlyCall, OthersControl
  <1> QED BY <1>1, <1>2, OthersKeep DEF IInv

(* The admin pool, which its cache file may or may not tell.               *)
LEMMA ReadAdminPoolCacheKeeps ==
    ASSUME IInv, NEW c \in Call, ReadAdminPoolCache(c)
    PROVE  IInv'
  <1>1. ControlOK' /\ OthersControl(c) /\ CallInv(c)'
    BY GoToKeeps
    DEF IInv, ReadAdminPoolCache, Asking, Running, Resolved, Storing
  <1>2. pool' \in [Call -> BOOLEAN]
    BY DEF IInv, TypeOK, ReadAdminPoolCache
  <1> QED BY <1>1, <1>2, QuietStep DEF IInv, TypeOK, ReadAdminPoolCache

(* The server CNAPI has with this MAC, if it has one.                      *)
LEMMA GetUnsetupServerUUIDKeeps ==
    ASSUME IInv, NEW c \in Call, GetUnsetupServerUUID(c)
    PROVE  IInv'
  <1>1. ControlOK' /\ OthersControl(c) /\ CallInv(c)'
    BY GoToKeeps, FailKeeps
    DEF IInv, GetUnsetupServerUUID, Asking, Running, Resolved, Storing
  <1>2. cn' \in [Call -> {"admin", "server"}]
    BY DEF IInv, TypeOK, GetUnsetupServerUUID
  <1> QED BY <1>1, <1>2, QuietStep DEF IInv, TypeOK, GetUnsetupServerUUID

(* The boot parameters CNAPI has for the CN.                               *)
LEMMA ServerBootParamsKeeps ==
    ASSUME IInv, NEW c \in Call, ServerBootParams(c)
    PROVE  IInv'
  <1> DEFINE p == cnapi[mac[c]]
  <1>1. mac[c] \in Mac /\ pc[c] \in Asking /\ p \in Params \cup {Missing}
    BY DEF IInv, ServerBootParams, CallInv, TypeOK, Asking, Running, Storing
  <1>2. CASE (GoTo(c, "defaultParams") \/ Fail(c)) /\ UNCHANGED params
    <2>1. ControlOK' /\ OthersControl(c) /\ CallInv(c)'
      BY <1>1, <1>2, GoToKeeps, FailKeeps
      DEF IInv, ServerBootParams, Asking, Running, Resolved, Storing
    <2> QED BY <1>2, <2>1, QuietStep DEF IInv, TypeOK, ServerBootParams
  <1>3. CASE /\ p # Missing /\ params' = [params EXCEPT ![c] = p]
             /\ GoTo(c, AfterParams(c))
    <2>1. GoTo(c, "getNics") \/ GoTo(c, "getNicTags")
      BY <1>3 DEF AfterParams
    <2>2. params' \in [Call -> Params \cup {NoParams}] /\ params'[c] \in Params
          /\ \A d \in Call \ {c} : params'[d] = params[d]
      BY <1>1, <1>3 DEF IInv, TypeOK
    <2>3. ControlOK' /\ OthersControl(c) /\ CallInv(c)'
      BY <1>1, <2>1, <2>2, GoToKeeps DEF IInv, ServerBootParams, Asking, Running, Storing
    <2> QED BY <2>2, <2>3, QuietStep DEF IInv, TypeOK, ServerBootParams
  <1> QED BY <1>2, <1>3 DEF ServerBootParams

(* The default boot parameters, where CNAPI has no server or none for it.  *)
LEMMA DefaultBootParamsKeeps ==
    ASSUME IInv, NEW c \in Call, DefaultBootParams(c)
    PROVE  IInv'
  <1>1. pc[c] \in Asking
    BY DEF DefaultBootParams, Asking, Running, Storing
  <1>2. CASE params' = [params EXCEPT ![c] = DefaultParams] /\ GoTo(c, AfterParams(c))
    <2>1. GoTo(c, "getNics") \/ GoTo(c, "getNicTags")
      BY <1>2 DEF AfterParams
    <2>2. params' \in [Call -> Params \cup {NoParams}] /\ params'[c] \in Params
          /\ \A d \in Call \ {c} : params'[d] = params[d]
      BY <1>2, BootParamsAssumption DEF IInv, TypeOK
    <2>3. ControlOK' /\ OthersControl(c) /\ CallInv(c)'
      BY <1>1, <2>1, <2>2, GoToKeeps DEF IInv, DefaultBootParams, Asking, Running, Storing
    <2> QED BY <2>2, <2>3, QuietStep DEF IInv, TypeOK, DefaultBootParams
  <1>3. CASE Fail(c) /\ UNCHANGED params
    BY <1>1, <1>3, FailKeeps, QuietStep DEF IInv, TypeOK, DefaultBootParams
  <1> QED BY <1>2, <1>3 DEF DefaultBootParams

(* The requests that only gather, the last of which decides.               *)
LEMMA GatherKeeps ==
    ASSUME IInv, NEW c \in Call,
           NapiGetNics(c) \/ NapiGetAggrs(c) \/ NapiGetNicTags(c) \/ GetPlatforms(c)
    PROVE  IInv'
  <1>1. /\ pc[c] \in {"getNics", "getAggrs", "getNicTags", "getPlatforms"}
        /\ UNCHANGED <<external, file, callVars>>
    BY DEF NapiGetNics, NapiGetAggrs, NapiGetNicTags, GetPlatforms, Gather
  <1>2. \/ GoTo(c, "getAggrs") \/ GoTo(c, "getNicTags") \/ GoTo(c, "getPlatforms")
        \/ pc[c] = "getPlatforms" /\ Succeed(c)
        \/ Fail(c)
    BY DEF NapiGetNics, NapiGetAggrs, NapiGetNicTags, GetPlatforms, Gather
  <1>3. params[c] \in Params /\ pc[c] \in Asking
    BY <1>1 DEF IInv, CallInv, Resolved, Asking, Running, Storing
  <1>4. ControlOK' /\ OthersControl(c) /\ CallInv(c)'
    BY <1>1, <1>2, <1>3, GoToKeeps, FailKeeps, SucceedKeeps
    DEF IInv, callVars, Asking, Running, Storing
  <1> QED BY <1>1, <1>4, QuietStep DEF IInv, TypeOK, callVars

(* The two requests that change NAPI.                                      *)
LEMMA ProvisionKeeps ==
    ASSUME IInv, NEW c \in Call, ProvisionIP(c) \/ CreateNic(c)
    PROVE  IInv'
  <1> DEFINE n == [state |-> "ip", net |-> NetworkFor(c)]
  <1>1. /\ mac[c] \in Mac /\ pc[c] \in Asking
        /\ UNCHANGED <<server, cnapi, file, mac, tag, pool, params>>
    BY DEF IInv, CallInv, ProvisionIP, CreateNic, Asking, Running, Storing
  <1>2. n \in Nic /\ ConsistentNic(n) /\ HasAddress(n)
    BY DEF Nic, NicState, ConsistentNic, HasAddress, NetworkFor, Network, NoNet
  <1>3. /\ nic' = nic \/ nic' = [nic EXCEPT ![mac[c]] = n]
        /\ WithBootNic(c, n) \/ (Fail(c) /\ UNCHANGED <<bootNic, cn>>)
    <2>1. CASE Provision(c)
      BY <2>1 DEF Provision
    <2>2. CASE Fail(c) /\ UNCHANGED <<nic, bootNic, cn>>
      BY <2>2
    <2> QED BY <2>1, <2>2 DEF ProvisionIP, CreateNic
  <1>4. nic' \in [Mac -> Nic] /\ \A m \in Mac : ConsistentNic(nic'[m])
    <2>1. CASE nic' = nic
      BY <2>1 DEF IInv, TypeOK, NicInv
    <2>2. CASE nic' = [nic EXCEPT ![mac[c]] = n]
      <3>1. \A m \in Mac : nic'[m] = nic[m] \/ nic'[m] = n
        BY <1>1, <2>2 DEF IInv, TypeOK
      <3>2. nic' \in [Mac -> Nic]
        BY <1>1, <1>2, <2>2 DEF IInv, TypeOK
      <3> HIDE DEF n
      <3> QED BY <1>2, <3>1, <3>2 DEF IInv, NicInv, ConsistentNic, HasAddress
    <2> QED BY <1>3, <2>1, <2>2
  <1>5. /\ ControlOK' /\ OthersControl(c) /\ CallInv(c)'
        /\ bootNic' \in [Call -> Nic] /\ cn' \in [Call -> {"admin", "server"}]
        /\ \A d \in Call : ConsistentNic(bootNic'[d])
        /\ \A d \in Call \ {c} : bootNic'[d] = bootNic[d]
    <2>1. CASE WithBootNic(c, n)
      BY <1>1, <1>2, <2>1, WithBootNicKeeps DEF IInv
    <2>2. CASE Fail(c) /\ UNCHANGED <<bootNic, cn>>
      BY <1>1, <2>2, FailKeeps DEF IInv, TypeOK, NicInv
    <2> QED BY <1>3, <2>1, <2>2
  <1>6. TypeOK' /\ NicInv' /\ FileInv'
    BY <1>1, <1>4, <1>5
    DEF IInv, TypeOK, ControlOK, OthersControl, AssembledGrows, NicInv, FileInv
  <1>7. OnlyCall(c) /\ AssembledGrows
    BY <1>1, <1>5 DEF OnlyCall, OthersControl
  <1> QED BY <1>5, <1>6, <1>7, OthersKeep DEF IInv

(* The pipeline timeout, which sends the call to the cache.                *)
LEMMA TimerFiresKeeps ==
    ASSUME IInv, NEW c \in Call, TimerFires(c)
    PROVE  IInv'
  <1>1. ControlOK' /\ OthersControl(c)
    BY DEF IInv, TypeOK, TimerFires, ControlOK, OthersControl, AssembledGrows
  <1>2. CallInv(c)'
    BY DEF IInv, TypeOK, TimerFires, CallInv, callVars, BootParamsOf, Running,
           Asking, Storing, Resolved
  <1> QED BY <1>1, <1>2, QuietStep DEF IInv, TypeOK, TimerFires, callVars

(* A lookup answers with what the file holds, if it parses.                *)
LEMMA CachedParams ==
    ASSUME IInv, NEW m \in Mac, Store!Readable(file[m])
    PROVE  file[m].content \in Payload \cap assembled[m]
  BY BootParamsAssumption DEF IInv, FileInv, Store!Readable

(* The lookup in the cache file, which answers the call.                   *)
LEMMA GetFromCacheKeeps ==
    ASSUME IInv, NEW c \in Call, GetFromCache(c)
    PROVE  IInv'
  <1>1. mac[c] \in Mac /\ answers[c] = <<>>
    BY DEF IInv, CallInv, GetFromCache
  <1>2. PICK a \in AnswerSet : Answer(c, a)
    BY <1>1, CachedParams, AnswerTypes DEF GetFromCache
  <1>3. /\ answers' \in [Call -> Seq(AnswerSet)]
        /\ answers'[c] # <<>> /\ Len(answers'[c]) = 1
        /\ \A d \in Call \ {c} : answers'[d] = answers[d]
    BY <1>1, <1>2, FirstAnswer DEF IInv
  <1>4. ControlOK' /\ OthersControl(c)
    BY <1>3 DEF IInv, TypeOK, GetFromCache, ControlOK, OthersControl, AssembledGrows
  <1>5. CallInv(c)'
    BY <1>3 DEF IInv, TypeOK, GetFromCache, CallInv, callVars, BootParamsOf,
                Running, Asking, Storing, Resolved
  <1> QED BY <1>4, <1>5, QuietStep DEF IInv, TypeOK, GetFromCache, callVars

(* The two actions on the file: one changes it, or the call is answered.   *)
LEMMA FileStep ==
    ASSUME IInv, NEW c \in Call, ControlOK', OthersControl(c), CallInv(c)',
           UNCHANGED <<external, callVars>>,
           file' \in [Mac -> Store!File], FileInv'
    PROVE  IInv'
  <1>1. TypeOK' /\ NicInv'
    BY DEF IInv, TypeOK, ControlOK, NicInv, external, callVars, ConsistentNic, HasAddress
  <1>2. OnlyCall(c) /\ AssembledGrows
    BY DEF OnlyCall, OthersControl, callVars
  <1> QED BY <1>1, <1>2, OthersKeep DEF IInv

(* The file that is truncated by opening it, or cannot be opened; and the  *)
(* file that is filled, or cannot be.                                      *)
LEMMA StoringKeeps ==
    ASSUME IInv, NEW c \in Call, OpenFile(c) \/ WriteFile(c)
    PROVE  IInv'
  <1> DEFINE p == BootParamsOf(c)
  <1>1. /\ mac[c] \in Mac /\ answers[c] = <<>> /\ lookup[c] = "none"
        /\ timer[c] = "off" /\ params[c] \in Params /\ pc[c] \in Storing
        /\ p \in assembled[mac[c]] /\ p \in Payload
    BY DEF IInv, TypeOK, OpenFile, WriteFile, CallInv, Running, Asking, Resolved, Storing
  <1>2. PICK s \in {"write", "stored", "unstored"} : pc' = [pc EXCEPT ![c] = s]
    BY DEF OpenFile, WriteFile
  <1>3. UNCHANGED <<external, callVars, timer, lookup, answers, assembled>>
    BY DEF OpenFile, WriteFile
  <1>4. ControlOK' /\ OthersControl(c)
    BY <1>2, <1>3 DEF IInv, TypeOK, ControlOK, OthersControl, AssembledGrows, Running, Storing
  <1>5. CallInv(c)'
    BY <1>1, <1>2, <1>3 DEF IInv, TypeOK, CallInv, callVars, BootParamsOf,
                            Running, Asking, Storing, Resolved
  <1>6. file' \in [Mac -> Store!File] /\ FileInv'
    <2>1. CASE UNCHANGED file
      BY <1>3, <2>1 DEF IInv, TypeOK, FileInv
    <2>2. CASE file' = [file EXCEPT ![mac[c]] = Store!Opened]
      BY <1>1, <1>3, <2>2 DEF IInv, TypeOK, FileInv, Store!Opened, Store!File
    <2>3. CASE file' = [file EXCEPT ![mac[c]] = Store!Wrote(@, p)]
      <3>1. Size[p] \in Nat /\ file[mac[c]].length \in Nat
        BY <1>1, BootParamsAssumption DEF IInv, TypeOK, Store!File
      <3>2. Store!Wrote(file[mac[c]], p) \in Store!File
            /\ Store!Wrote(file[mac[c]], p).content = p
        BY <1>1, <3>1 DEF Store!Wrote, Store!File
      <3> QED BY <1>1, <1>3, <2>3, <3>2 DEF IInv, TypeOK, FileInv
    <2> QED BY <2>1, <2>2, <2>3 DEF OpenFile, WriteFile
  <1> QED BY <1>3, <1>4, <1>5, <1>6, FileStep

(* The callback of the write, which answers the call.                      *)
LEMMA CacheWrittenKeeps ==
    ASSUME IInv, NEW c \in Call, CacheWritten(c)
    PROVE  IInv'
  <1>1. /\ mac[c] \in Mac /\ answers[c] = <<>> /\ lookup[c] = "none"
        /\ timer[c] = "off" /\ BootParamsOf(c) \in Payload
    BY DEF IInv, TypeOK, CacheWritten, CallInv, Running, Asking, Resolved, Storing
  <1>2. PICK a \in AnswerSet : Answer(c, a)
    BY <1>1, AnswerTypes DEF CacheWritten
  <1>3. /\ answers' \in [Call -> Seq(AnswerSet)]
        /\ answers'[c] # <<>> /\ Len(answers'[c]) = 1
        /\ \A d \in Call \ {c} : answers'[d] = answers[d]
    BY <1>1, <1>2, FirstAnswer DEF IInv
  <1>4. ControlOK' /\ OthersControl(c)
    BY <1>3 DEF IInv, TypeOK, CacheWritten, ControlOK, OthersControl, AssembledGrows
  <1>5. CallInv(c)'
    BY <1>1, <1>3 DEF IInv, TypeOK, CacheWritten, CallInv, callVars,
                      Running, Asking, Storing, Resolved
  <1> QED BY <1>4, <1>5, QuietStep DEF IInv, TypeOK, CacheWritten, callVars

(* A crash, which ends the calls and leaves the files.                     *)
LEMMA CrashKeeps ==
    ASSUME IInv, Crash
    PROVE  IInv'
  <1>1. TypeOK'
    BY DEF IInv, TypeOK, Crash, external, callVars
  <1>2. NicInv' /\ FileInv'
    BY DEF IInv, NicInv, FileInv, Crash, external, callVars, ConsistentNic, HasAddress
  <1>3. ASSUME NEW c \in Call PROVE CallInv(c)'
    BY DEF IInv, TypeOK, Crash, callVars, CallInv, BootParamsOf,
           Running, Asking, Storing, Resolved
  <1> QED BY <1>1, <1>2, <1>3 DEF IInv

(* Operators and CNs change NAPI and CNAPI behind the calls.               *)
LEMMA OutsideKeeps ==
    ASSUME IInv, NEW m \in Mac,
           ServerReports(m) \/ \E p \in Params \cup {Missing} : SetBootParams(m, p)
    PROVE  IInv'
  <1>1. UNCHANGED <<nic, file, pc, callVars, timer, lookup, answers, assembled>>
    BY DEF ServerReports, SetBootParams
  <1>2. TypeOK'
    BY <1>1 DEF IInv, TypeOK, ServerReports, SetBootParams, callVars
  <1>3. NicInv' /\ FileInv'
    BY <1>1 DEF IInv, NicInv, FileInv, callVars, ConsistentNic, HasAddress
  <1>4. ASSUME NEW c \in Call PROVE CallInv(c)'
    BY <1>1 DEF IInv, CallInv, callVars, BootParamsOf
  <1> QED BY <1>2, <1>3, <1>4 DEF IInv

-------------------------------------------------------------------------------
(* The files found at the start hold what was assembled before.            *)
LEMMA InitIInv == Init => IInv
  <1> SUFFICES ASSUME Init PROVE IInv
    OBVIOUS
  <1>1. \A m \in Mac : \/ file[m] = Store!Absent
                       \/ \E p \in Payload : file[m] = Store!Holding(p)
    BY DEF Init
  <1>2. \A p \in Payload : Store!Holding(p) \in Store!File
    BY BootParamsAssumption DEF Store!Holding, Store!File
  <1>3. Store!Absent \in Store!File
    BY DEF Store!Absent, Store!File
  <1>4. file \in [Mac -> Store!File]
    BY <1>1, <1>2, <1>3 DEF Init
  <1>5. assembled \in [Mac -> SUBSET Payload] /\ FileInv
    <2>1. ASSUME NEW m \in Mac
          PROVE  /\ assembled[m] \subseteq Payload
                 /\ file[m].content # NoPayload => file[m].content \in assembled[m]
      BY <1>1 DEF Init, Store!Absent, Store!Holding
    <2> QED BY <2>1 DEF Init, FileInv
  <1>6. TypeOK
    BY <1>4, <1>5 DEF Init, TypeOK, Nic, NicState
  <1>7. NicInv
    BY DEF Init, NicInv, ConsistentNic, HasAddress
  <1>8. \A c \in Call : CallInv(c)
    BY DEF Init, CallInv, Running, Asking, Storing, Resolved
  <1> QED BY <1>5, <1>6, <1>7, <1>8 DEF IInv

(* So every step keeps the invariant.                                      *)
LEMMA NextIInv == IInv /\ [Next]_vars => IInv'
  <1> SUFFICES ASSUME IInv, [Next]_vars PROVE IInv'
    OBVIOUS
  <1>1. ASSUME NEW c \in Call, NEW m \in Mac, NEW t \in Tag \cup {NoTag},
               GetBootParams(c, m, t)
        PROVE  IInv'
    BY <1>1, GetBootParamsKeeps
  <1>2. ASSUME NEW c \in Call, Step(c)
        PROVE  IInv'
    BY <1>2, ReadAdminPoolCacheKeeps, GetNicKeeps, ProvisionKeeps,
       GetUnsetupServerUUIDKeeps, ServerBootParamsKeeps, DefaultBootParamsKeeps,
       GatherKeeps
    DEF Step
  <1>3. ASSUME NEW c \in Call, Local(c)
        PROVE  IInv'
    BY <1>3, TimerFiresKeeps, GetFromCacheKeeps, StoringKeeps, CacheWrittenKeeps
    DEF Local
  <1>4. CASE Crash
    BY <1>4, CrashKeeps
  <1>5. ASSUME NEW m \in Mac,
               ServerReports(m) \/ \E p \in Params \cup {Missing} : SetBootParams(m, p)
        PROVE  IInv'
    BY <1>5, OutsideKeeps
  <1>6. CASE UNCHANGED vars
    <2>1. TypeOK' /\ NicInv' /\ FileInv'
      BY <1>6 DEF vars, external, callVars, IInv, TypeOK, NicInv, FileInv,
                  ConsistentNic, HasAddress
    <2>2. ASSUME NEW c \in Call PROVE CallInv(c)'
      BY <1>6 DEF vars, external, callVars, IInv, CallInv, BootParamsOf
    <2> QED BY <2>1, <2>2 DEF IInv
  <1> QED BY <1>1, <1>2, <1>3, <1>4, <1>5, <1>6 DEF Next

(* The inductive invariant holds of every reachable state.                 *)
THEOREM Invariance == Spec => []IInv
  BY InitIInv, NextIInv, PTL DEF Spec

(* Every variable of getBootParams and of what it works on keeps its type. *)
THEOREM TypeCorrect == Spec => []TypeOK
  BY Invariance, PTL DEF IInv

(* A call is never answered twice, however its pipeline, its timer and its *)
(* two ways to the cache interleave, and with any number of other calls.   *)
THEOREM AnsweredOnce == Spec => []AtMostOneAnswer
  <1>1. Len(<<>>) = 0
    OBVIOUS
  <1>2. ASSUME IInv, NEW c \in Call PROVE Len(answers[c]) <= 1
    <2>1. answers[c] = <<>> \/ Len(answers[c]) = 1
      BY <1>2 DEF IInv, CallInv
    <2>2. CASE answers[c] = <<>>
      <3>1. Len(answers[c]) = 0
        BY <2>2, <1>1, Zenon
      <3> QED BY <3>1
    <2>3. CASE Len(answers[c]) = 1
      BY <2>3
    <2> QED BY <2>1, <2>2, <2>3
  <1>3. IInv => AtMostOneAnswer
    BY <1>2 DEF AtMostOneAnswer
  <1> QED BY <1>3, Invariance, PTL

-------------------------------------------------------------------------------
(* What a step does to the file and to the answers.                        *)

(* Only OpenFile and WriteFile change a file.                              *)
LEMMA FileChanges ==
    ASSUME IInv, [Next]_vars, file' # file
    PROVE  \E c \in Call : OpenFile(c) \/ WriteFile(c)
  BY DEF Next, vars, Step, Local, GetBootParams, ReadAdminPoolCache, GetNic,
         ProvisionIP, CreateNic, GetUnsetupServerUUID, ServerBootParams,
         DefaultBootParams, NapiGetNics, NapiGetAggrs, NapiGetNicTags,
         GetPlatforms, Gather, TimerFires, GetFromCache, CacheWritten, Crash,
         SetBootParams, ServerReports

(* A call that touches a cache file is itself still waiting for its answer *)
(* and its timer has not fired; the file is that of its MAC.               *)
THEOREM CacheUntouched == Spec => AnsweredCallsLeaveCache
  <1> DEFINE A == \A c \in Call : file' # file /\ pc'[c] # pc[c] =>
                    /\ answers[c] = <<>> /\ lookup[c] = "none"
                    /\ \A m \in Mac \ {mac[c]} : file'[m] = file[m]
  <1>1. IInv /\ [Next]_vars => [A]_vars
    <2> SUFFICES ASSUME IInv, [Next]_vars, NEW c \in Call, file' # file, pc'[c] # pc[c]
                 PROVE  /\ answers[c] = <<>> /\ lookup[c] = "none"
                        /\ \A m \in Mac \ {mac[c]} : file'[m] = file[m]
      OBVIOUS
    <2>1. PICK d \in Call : OpenFile(d) \/ WriteFile(d)
      BY FileChanges
    <2>2. d = c
      BY <2>1 DEF OpenFile, WriteFile, IInv, TypeOK
    <2>3. pc[c] \in Storing
      BY <2>1, <2>2 DEF OpenFile, WriteFile, Storing
    <2>4. answers[c] = <<>> /\ lookup[c] = "none"
      BY <2>3 DEF IInv, CallInv, Storing, Asking, Running, TypeOK
    <2>5. \A m \in Mac \ {mac[c]} : file'[m] = file[m]
      BY <2>1, <2>2 DEF OpenFile, WriteFile, IInv, TypeOK
    <2> QED BY <2>4, <2>5
  <1> QED BY <1>1, Invariance, PTL DEF Spec, AnsweredCallsLeaveCache

(* Who may answer a call.                                                  *)
LEMMA AnswerChanges ==
    ASSUME IInv, [Next]_vars, NEW c \in Call, answers'[c] # answers[c]
    PROVE  GetPlatforms(c) \/ GetFromCache(c) \/ CacheWritten(c)
  <1>1. ASSUME NEW d \in Call, Answer(d, Answers!Error) \/ Local(d) \/ Step(d)
        PROVE  c = d \/ answers'[c] = answers[c]
    BY <1>1 DEF Answer, Local, Step, IInv, TypeOK, GetFromCache, OpenFile, WriteFile,
                CacheWritten,
                TimerFires, ReadAdminPoolCache, GetNic, WithBootNic, ProvisionIP,
                CreateNic, Provision, GetUnsetupServerUUID, ServerBootParams,
                DefaultBootParams, NapiGetNics, NapiGetAggrs, NapiGetNicTags,
                GetPlatforms, Gather, GoTo, Fail, Succeed
  <1>2. Local(c) \/ Step(c)
    BY <1>1 DEF Next, vars, GetBootParams, Crash, SetBootParams, ServerReports
  <1> QED
    BY <1>2 DEF Local, Step, TimerFires, OpenFile, WriteFile, ReadAdminPoolCache, GetNic, WithBootNic,
                ProvisionIP, CreateNic, Provision, GetUnsetupServerUUID,
                ServerBootParams, DefaultBootParams, NapiGetNics, NapiGetAggrs,
                NapiGetNicTags, Gather, GoTo, Fail

-------------------------------------------------------------------------------
(* BootParams implements BootAnswers: each step maps to a step or to none. *)

\* Nothing the callers can see changes.
Unseen ==
    /\ UNCHANGED <<mac, answers, assembled>>
    /\ \A c \in Call : MadeBy(c)' = MadeBy(c) /\ (pc'[c] = "dead" <=> pc[c] = "dead")

(* A step that BootAnswers does not see leaves its variables alone.        *)
LEMMA UnseenStutters ==
    ASSUME Unseen
    PROVE  UNCHANGED Answers!vars
  <1>1. [c \in Call |-> MadeBy(c)]' = [c \in Call |-> MadeBy(c)]
    BY DEF Unseen
  <1>2. Lost' = Lost
    BY DEF Unseen, Lost
  <1> QED BY <1>1, <1>2 DEF Unseen, Answers!vars

(* A call that has no answer yet and still runs is waiting, says BootAnswers. *)
LEMMA WaitingCalls ==
    ASSUME IInv, NEW c \in Call, pc[c] \in Running \/ lookup[c] = "pending",
           answers[c] = <<>>
    PROVE  Answers!Waiting(c) /\ mac[c] \in Mac
  BY BootParamsAssumption
  DEF IInv, CallInv, Answers!Waiting, Lost, Running, Asking, Storing

(* A call that storing does not concern goes to another such place.        *)
LEMMA GoToUnseen ==
    ASSUME IInv, NEW c \in Call, pc[c] \in Asking, mac' = mac,
           \A d \in Call \ {c} : params'[d] = params[d] /\ bootNic'[d] = bootNic[d],
           Fail(c) \/ \E s \in Asking \cup {"done"} : GoTo(c, s)
    PROVE  Unseen
  <1>1. UNCHANGED <<mac, answers, assembled>>
    BY DEF Fail, GoTo
  <1>2. PICK s \in Asking \cup {"done"} : pc' = [pc EXCEPT ![c] = s]
    BY DEF Fail, GoTo
  <1>3. ASSUME NEW d \in Call
        PROVE  MadeBy(d)' = MadeBy(d) /\ (pc'[d] = "dead" <=> pc[d] = "dead")
    BY <1>2 DEF IInv, TypeOK, MadeBy, BootParamsOf, Asking, Running, Storing
  <1> QED BY <1>1, <1>3 DEF Unseen

\* The other calls look to their callers as before; c is not dead.
OthersUnseen(c) ==
    /\ pc[c] # "dead" /\ pc'[c] # "dead"
    /\ \A d \in Call \ {c} :
          MadeBy(d)' = MadeBy(d) /\ (pc'[d] = "dead" <=> pc[d] = "dead")

(* An answer to a waiting call is a reply of BootAnswers.                  *)
LEMMA ReplyMaps ==
    ASSUME IInv, NEW c \in Call, pc[c] \in Running \/ lookup[c] = "pending",
           answers[c] = <<>>, UNCHANGED <<mac, assembled>>, OthersUnseen(c),
           MadeBy(c)' = NoPayload, NEW a \in AnswerSet, Answer(c, a),
           \/ MadeBy(c) # NoPayload /\ a = Answers!Fresh(MadeBy(c))
           \/ \E p \in assembled[mac[c]] : a = Answers!Cached(p)
           \/ a = Answers!Error
    PROVE  Answers!Reply(c, a)
  <1>1. Answers!Waiting(c)
    BY WaitingCalls
  <1>2. /\ answers' \in [Call -> Seq(AnswerSet)] /\ answers'[c] = <<a>>
        /\ answers'[c] # <<>>
        /\ \A d \in Call \ {c} : answers'[d] = answers[d]
    BY FirstAnswer DEF IInv
  <1>3. answers' = [answers EXCEPT ![c] = <<a>>]
    BY <1>2 DEF IInv, TypeOK
  <1>4. [d \in Call |-> MadeBy(d)]' = [[d \in Call |-> MadeBy(d)] EXCEPT ![c] = NoPayload]
    BY DEF OthersUnseen
  <1>5. Lost' = Lost
    BY <1>2 DEF OthersUnseen, Lost
  <1>6. [d \in Call |-> MadeBy(d)][c] = MadeBy(c)
    OBVIOUS
  <1> QED BY <1>1, <1>3, <1>4, <1>5, <1>6 DEF Answers!Reply

(* An answer of the kinds that BootAnswers knows is a step of it.          *)
LEMMA ReplyIsNext ==
    ASSUME NEW c \in Call, NEW p \in Payload \cup {NoPayload},
           NEW a \in {Answers!Fresh(p), Answers!Cached(p), Answers!Error},
           Answers!Reply(c, a)
    PROVE  Answers!Next
  BY DEF Answers!Next

(* The end of a pipeline: its payload is made, or it is too late.          *)
LEMMA SucceedMaps ==
    ASSUME IInv, NEW c \in Call, pc[c] = "getPlatforms", Succeed(c),
           UNCHANGED <<mac, params, bootNic>>
    PROVE  Answers!Next \/ Unseen
  <1>1. pc[c] \in Asking /\ pc[c] \in Running /\ MadeBy(c) = NoPayload
    BY DEF Asking, Running, Storing, MadeBy
  <1>2. CASE timer[c] = "fired"
    BY <1>1, <1>2, GoToUnseen DEF Succeed
  <1>3. CASE timer[c] # "fired" /\ bootNic[c].state # "ip"
    <2>1. /\ pc' = [pc EXCEPT ![c] = "done"] /\ Answer(c, Answers!Error)
          /\ assembled' = assembled /\ answers[c] = <<>>
      BY <1>1, <1>3 DEF Succeed, IInv, CallInv
    <2>2. OthersUnseen(c) /\ MadeBy(c)' = NoPayload
      BY <1>1, <2>1 DEF OthersUnseen, MadeBy, Storing, BootParamsOf, IInv, TypeOK
    <2> QED
      BY <1>1, <2>1, <2>2, ReplyMaps, ReplyIsNext, AnswerTypes
  <1>4. CASE timer[c] # "fired" /\ bootNic[c].state = "ip"
    <2> DEFINE p == BootParamsOf(c)
    <2>1. /\ pc' = [pc EXCEPT ![c] = "open"] /\ answers' = answers
          /\ assembled' = [assembled EXCEPT ![mac[c]] = @ \cup {p}]
          /\ answers[c] = <<>>
      BY <1>1, <1>4 DEF Succeed, IInv, CallInv
    <2>2. p \in Payload
      BY <1>4 DEF IInv, TypeOK, NicInv, ConsistentNic, HasAddress, CallInv,
                  Resolved, BootParamsOf, Payload, Nic, NoNet, Network
    <2>3. MadeBy(c)' = p /\ OthersUnseen(c)
      BY <1>1, <2>1 DEF OthersUnseen, MadeBy, Storing, BootParamsOf, IInv, TypeOK
    <2>4. [d \in Call |-> MadeBy(d)]' = [[d \in Call |-> MadeBy(d)] EXCEPT ![c] = p]
      BY <2>3 DEF OthersUnseen
    <2>5. Lost' = Lost
      BY <2>1, <2>3 DEF OthersUnseen, Lost
    <2>6. Answers!Waiting(c)
      BY <1>1, <2>1, WaitingCalls
    <2>7. Answers!Assemble(c, p)
      BY <1>1, <2>1, <2>4, <2>5, <2>6 DEF Answers!Assemble
    <2> QED BY <2>2, <2>7 DEF Answers!Next
  <1> QED BY <1>2, <1>3, <1>4

(* Each request of the pipeline maps to a step, or is not seen.            *)
LEMMA StepMaps ==
    ASSUME IInv, NEW c \in Call, Step(c)
    PROVE  Answers!Next \/ Unseen
  <1>1. CASE GetPlatforms(c)
    <2>1. CASE Succeed(c)
      BY <1>1, <2>1, SucceedMaps DEF GetPlatforms, callVars
    <2>2. CASE Fail(c)
      BY <1>1, <2>2, GoToUnseen DEF GetPlatforms, callVars, Asking, Running, Storing
    <2> QED BY <1>1, <2>1, <2>2 DEF GetPlatforms
  <1>2. CASE ~GetPlatforms(c)
    <2>1. /\ pc[c] \in Asking /\ mac' = mac
          /\ \A d \in Call \ {c} : params'[d] = params[d] /\ bootNic'[d] = bootNic[d]
      BY <1>2
      DEF Step, IInv, TypeOK, ReadAdminPoolCache, GetNic, WithBootNic, ProvisionIP,
          CreateNic, Provision, GetUnsetupServerUUID, ServerBootParams,
          DefaultBootParams, NapiGetNics, NapiGetAggrs, NapiGetNicTags, Gather,
          callVars, Asking, Running, Storing
    <2>2. Fail(c) \/ \E s \in Asking : GoTo(c, s)
      BY <1>2
      DEF Step, ReadAdminPoolCache, GetNic, WithBootNic, ProvisionIP, CreateNic,
          Provision, GetUnsetupServerUUID, ServerBootParams, DefaultBootParams,
          AfterParams, NapiGetNics, NapiGetAggrs, NapiGetNicTags, Gather,
          Asking, Running, Storing
    <2> QED BY <2>1, <2>2, GoToUnseen
  <1> QED BY <1>1, <1>2

(* So do the timer, the lookup and the two steps on the file.              *)
LEMMA LocalMaps ==
    ASSUME IInv, NEW c \in Call, Local(c)
    PROVE  Answers!Next \/ Unseen
  <1>1. CASE TimerFires(c)
    BY <1>1 DEF TimerFires, callVars, Unseen, MadeBy, Storing, BootParamsOf
  <1>2. CASE GetFromCache(c)
    <2>1. /\ answers[c] = <<>> /\ mac[c] \in Mac
          /\ MadeBy(c)' = NoPayload /\ OthersUnseen(c)
          /\ UNCHANGED <<mac, assembled>> /\ lookup[c] = "pending"
      BY <1>2 DEF GetFromCache, IInv, CallInv, OthersUnseen, MadeBy, BootParamsOf,
                  callVars, Running, Asking, Storing
    <2>2. CASE Store!Readable(file[mac[c]])
      <3> DEFINE p == file[mac[c]].content
      <3>1. p \in Payload /\ p \in assembled[mac[c]] /\ Answer(c, Answers!Cached(p))
        BY <1>2, <2>1, <2>2, CachedParams DEF GetFromCache
      <3> HIDE DEF p
      <3> QED BY <2>1, <3>1, ReplyMaps, ReplyIsNext, AnswerTypes
    <2>3. CASE ~Store!Readable(file[mac[c]])
      <3>1. Answer(c, Answers!Error)
        BY <1>2, <2>3 DEF GetFromCache
      <3> QED BY <2>1, <3>1, ReplyMaps, ReplyIsNext, AnswerTypes
    <2> QED BY <2>2, <2>3
  <1>3. CASE OpenFile(c) \/ WriteFile(c)
    <2>1. UNCHANGED <<mac, params, bootNic, answers, assembled>>
      BY <1>3 DEF OpenFile, WriteFile, callVars
    <2>2. PICK s \in Storing : pc' = [pc EXCEPT ![c] = s] /\ pc[c] \in Storing
      BY <1>3 DEF OpenFile, WriteFile, Storing
    <2>3. \A d \in Call : /\ pc'[d] \in Storing <=> pc[d] \in Storing
                          /\ pc'[d] = "dead" <=> pc[d] = "dead"
      BY <2>2 DEF IInv, TypeOK, Storing
    <2> QED BY <2>1, <2>3 DEF Unseen, MadeBy, BootParamsOf
  <1>4. CASE CacheWritten(c)
    <2> DEFINE p == BootParamsOf(c)
    <2>1. /\ answers[c] = <<>> /\ pc[c] \in Running /\ p \in Payload
          /\ UNCHANGED <<mac, params, bootNic, assembled>> /\ MadeBy(c) = p
          /\ p # NoPayload
      BY <1>4, BootParamsAssumption
      DEF CacheWritten, IInv, CallInv, callVars, Running, Asking, Storing, MadeBy
    <2>2. MadeBy(c)' = NoPayload /\ OthersUnseen(c)
      BY <1>4, <2>1 DEF CacheWritten, OthersUnseen, MadeBy, BootParamsOf, IInv, TypeOK,
                        Storing
    <2>3. Answer(c, Answers!Fresh(p)) \/ Answer(c, Answers!Error)
      BY <1>4 DEF CacheWritten
    <2> HIDE DEF p
    <2> QED BY <2>1, <2>2, <2>3, ReplyMaps, ReplyIsNext, AnswerTypes
  <1> QED BY <1>1, <1>2, <1>3, <1>4 DEF Local

(* A crash is a crash of BootAnswers.                                      *)
LEMMA CrashMaps ==
    ASSUME IInv, Crash
    PROVE  Answers!Crash
  <1>1. UNCHANGED <<mac, answers, assembled>>
    BY DEF Crash, callVars
  <1>2. [c \in Call |-> MadeBy(c)]' = [c \in Call |-> NoPayload]
    BY DEF Crash, MadeBy, Running, Storing
  <1>3. Lost' = Lost \cup {c \in Call : Answers!Waiting(c)}
    <2>1. ASSUME NEW c \in Call
          PROVE  c \in Lost' <=> c \in Lost \/ Answers!Waiting(c)
      BY BootParamsAssumption
      DEF Crash, Lost, Answers!Waiting, IInv, TypeOK, CallInv, callVars,
          Running, Asking, Storing
    <2>2. Lost \subseteq Call /\ Lost' \subseteq Call
      BY DEF Lost
    <2> QED BY <2>1, <2>2
  <1> QED BY <1>1, <1>2, <1>3 DEF Answers!Crash

(* A call that begins is a question asked of BootAnswers.                  *)
LEMMA AskMaps ==
    ASSUME IInv, NEW c \in Call, NEW m \in Mac, NEW t \in Tag \cup {NoTag},
           GetBootParams(c, m, t)
    PROVE  Answers!Ask(c, m)
  <1>1. mac[c] = NoMac /\ mac' = [mac EXCEPT ![c] = m] /\ UNCHANGED <<answers, assembled>>
    BY DEF GetBootParams, IInv, CallInv
  <1>2. ASSUME NEW d \in Call
        PROVE  MadeBy(d)' = MadeBy(d) /\ (pc'[d] = "dead" <=> pc[d] = "dead")
    BY DEF GetBootParams, IInv, TypeOK, MadeBy, Storing, BootParamsOf
  <1>3. [d \in Call |-> MadeBy(d)]' = [d \in Call |-> MadeBy(d)] /\ Lost' = Lost
    BY <1>1, <1>2 DEF Lost
  <1> QED BY <1>1, <1>3 DEF Answers!Ask

(* getBootParams keeps the promise of BootAnswers.                         *)
THEOREM Implementation == Spec => ImplementsBootAnswers
  <1>1. Init => Answers!Init
    BY InitIInv DEF Init, Answers!Init, MadeBy, Storing, Lost, IInv, TypeOK
  <1>2. IInv /\ [Next]_vars => [Answers!Next]_(Answers!vars)
    <2> SUFFICES ASSUME IInv, [Next]_vars PROVE Answers!Next \/ Unseen
      BY UnseenStutters
    <2>1. ASSUME NEW c \in Call, NEW m \in Mac, NEW t \in Tag \cup {NoTag},
                 GetBootParams(c, m, t)
          PROVE  Answers!Next
      BY <2>1, AskMaps DEF Answers!Next
    <2>2. ASSUME NEW c \in Call, Step(c) \/ Local(c)
          PROVE  Answers!Next \/ Unseen
      BY <2>2, StepMaps, LocalMaps
    <2>3. CASE Crash
      BY <2>3, CrashMaps DEF Answers!Next
    <2>4. ASSUME NEW m \in Mac,
                 ServerReports(m) \/ \E p \in Params \cup {Missing} : SetBootParams(m, p)
          PROVE  Unseen
      BY <2>4 DEF ServerReports, SetBootParams, callVars, Unseen, MadeBy, Storing, BootParamsOf
    <2>5. CASE UNCHANGED vars
      BY <2>5 DEF vars, callVars, Unseen, MadeBy, Storing, BootParamsOf
    <2> QED BY <2>1, <2>2, <2>3, <2>4, <2>5 DEF Next
  <1> QED BY <1>1, <1>2, Invariance, PTL DEF Spec, ImplementsBootAnswers, Answers!Spec

-------------------------------------------------------------------------------
(* What a fresh answer holds, while NAPI and CNAPI are left alone.         *)

\* What the pipeline knows of the CN at each of its steps is what NAPI and CNAPI
\* say of it.
ResolveInv(c) ==
    /\ pc[c] = "idle" => bootNic[c].state = "absent"
    /\ bootNic[c].state = "ip" => nic[mac[c]].state = "ip"
    /\ pc[c] = "bootParams" => server[mac[c]] # "unknown"
    /\ pc[c] = "defaultParams" => server[mac[c]] = "unknown" \/ cnapi[mac[c]] = Missing
    /\ pc[c] \in Resolved => params[c] = ParamsFor(mac[c])
    /\ pc[c] \in Storing => bootNic[c].state = "ip"
    /\ \A p \in Payload : answers[c] = <<Answers!Fresh(p)>> =>
          p.params = ParamsFor(mac[c]) /\ nic[mac[c]].state = "ip"

QuietInv ==
    /\ \A m \in Mac : \A p \in Payload : file[m].length \in {0, Size[p]}
    /\ QuietFileReadable

\* A CN that was given fresh params has a cache file, and a pipeline that has
\* found the boot nic knows its address.
KnownInv ==
    /\ \A c \in Call : answers[c] # <<>> /\ Head(answers[c]).kind = "fresh"
                          => file[mac[c]].exists
    /\ \A c \in Call : pc[c] = "stored" => file[mac[c]].exists
    /\ \A c \in Call : pc[c] = "unstored" => DiskFails
    /\ \A c \in Call :
          pc[c] \in {"getServer", "bootParams", "defaultParams"} \cup Resolved
             => HasAddress(bootNic[c])

(* A call that has an answer or a boot nic has a MAC.                      *)
LEMMA MacKnown ==
    ASSUME NEW c \in Call, CallInv(c), ResolveInv(c),
           answers[c] # <<>> \/ bootNic[c].state = "ip"
    PROVE  mac[c] \in Mac
  BY DEF CallInv, ResolveInv

(* What a step of one call leaves alone keeps the invariant of the others. *)
LEMMA OthersResolve ==
    ASSUME NEW c \in Call, NEW d \in Call \ {c}, CallInv(d), ResolveInv(d), OnlyCall(c),
           UNCHANGED <<server, cnapi>>,
           \A m \in Mac : nic[m].state = "ip" => nic'[m].state = "ip"
    PROVE  ResolveInv(d)'
  <1>1. /\ pc'[d] = pc[d] /\ mac'[d] = mac[d] /\ answers'[d] = answers[d]
        /\ params'[d] = params[d] /\ bootNic'[d] = bootNic[d]
    BY DEF OnlyCall
  <1>2. ParamsFor(mac[d])' = ParamsFor(mac[d])
    BY <1>1 DEF ParamsFor
  <1>3. \A p \in Payload : answers[d] = <<Answers!Fresh(p)>> => mac[d] \in Mac
    BY MacKnown
  <1>4. bootNic[d].state = "ip" => mac[d] \in Mac
    BY MacKnown
  <1>5. /\ \A p \in Payload : answers[d] = <<Answers!Fresh(p)>> => nic'[mac[d]].state = "ip"
        /\ bootNic[d].state = "ip" => nic'[mac[d]].state = "ip"
    BY <1>3, <1>4 DEF ResolveInv
  <1> QED BY <1>1, <1>2, <1>5 DEF ResolveInv

(* A step of a call touches no other call, leaves CNAPI alone, and takes   *)
(* no address back.                                                        *)
LEMMA StepIsLocal ==
    ASSUME IInv, NEW c \in Call, Step(c) \/ Local(c)
    PROVE  /\ OnlyCall(c) /\ UNCHANGED <<server, cnapi, mac>>
           /\ \A m \in Mac : nic[m].state = "ip" => nic'[m].state = "ip"
  <1>1. UNCHANGED <<server, cnapi, mac>>
    BY DEF Step, Local, TimerFires, GetFromCache, OpenFile, WriteFile, CacheWritten,
           ReadAdminPoolCache, GetNic, ProvisionIP, CreateNic, GetUnsetupServerUUID,
           ServerBootParams, DefaultBootParams, NapiGetNics, NapiGetAggrs,
           NapiGetNicTags, GetPlatforms, Gather, external, callVars
  <1>2. CASE ProvisionIP(c) \/ CreateNic(c)
    <2>1. PICK n : nic' \in {nic, [nic EXCEPT ![mac[c]] = n]} /\ n.state = "ip"
      <3> DEFINE n == [state |-> "ip", net |-> NetworkFor(c)]
      <3>1. nic' = nic \/ nic' = [nic EXCEPT ![mac[c]] = n]
        BY <1>2 DEF ProvisionIP, CreateNic, Provision
      <3> QED BY <3>1
    <2>2. \A m \in Mac : nic[m].state = "ip" => nic'[m].state = "ip"
      BY <2>1 DEF IInv, TypeOK
    <2>3. OnlyCall(c)
      BY <1>2 DEF ProvisionIP, CreateNic, Provision, WithBootNic, GoTo, Fail, OnlyCall,
                  IInv, TypeOK
    <2> QED BY <1>1, <2>2, <2>3
  <1>3. CASE Local(c)
    BY <1>3 DEF Local, TimerFires, GetFromCache, OpenFile, WriteFile, CacheWritten,
                Answer, OnlyCall, IInv, TypeOK, external, callVars
  <1>4. CASE Step(c) /\ ~ ProvisionIP(c) /\ ~ CreateNic(c)
    BY <1>4
    DEF Step, ReadAdminPoolCache, GetNic, WithBootNic, GetUnsetupServerUUID,
        ServerBootParams, DefaultBootParams, NapiGetNics, NapiGetAggrs, NapiGetNicTags,
        GetPlatforms, Gather, GoTo, Fail, Succeed, Answer, OnlyCall, IInv, TypeOK,
        external, callVars
  <1> QED BY <1>2, <1>3, <1>4

(* No answer that is not fresh holds params.                               *)
LEMMA NotFresh ==
    ASSUME NEW p
    PROVE  /\ <<>> # <<Answers!Fresh(p)>>
           /\ <<Answers!Error>> # <<Answers!Fresh(p)>>
           /\ \A q : <<Answers!Cached(q)>> # <<Answers!Fresh(p)>>
           /\ \A q : <<Answers!Fresh(q)>> = <<Answers!Fresh(p)>> => q = p
  BY DEF Answers!Error, Answers!Fresh, Answers!Cached

(* The nic that the pipeline has found: where it leads, and to which nic.  *)
LEMMA WithBootNicResolves ==
    ASSUME IInv, NEW c \in Call, ResolveInv(c), pc[c] \in Asking, NEW n \in Nic,
           WithBootNic(c, n), UNCHANGED <<server, cnapi, mac, params>>,
           n.state = "ip" => nic'[mac[c]].state = "ip",
           \A m \in Mac : nic[m].state = "ip" => nic'[m].state = "ip"
    PROVE  ResolveInv(c)'
  <1>1. /\ bootNic'[c] = n /\ answers' = answers
        /\ pc'[c] = IF server[mac[c]] = "setup" THEN "bootParams" ELSE "getServer"
    BY DEF WithBootNic, GoTo, IInv, TypeOK
  <1>2. mac[c] \in Mac /\ ParamsFor(mac[c])' = ParamsFor(mac[c])
    BY DEF IInv, CallInv, Asking, Running, Storing, ParamsFor
  <1> QED BY <1>1, <1>2 DEF ResolveInv, Resolved, Storing

(* A request that fails ends what the pipeline knows.                      *)
LEMMA FailResolves ==
    ASSUME IInv, NEW c \in Call, ResolveInv(c), pc[c] \in Asking, Fail(c),
           UNCHANGED <<server, cnapi, mac, bootNic>>,
           \A m \in Mac : nic[m].state = "ip" => nic'[m].state = "ip"
    PROVE  ResolveInv(c)'
  <1>1. pc'[c] = "done" /\ answers' = answers
    BY DEF Fail, IInv, TypeOK
  <1>2. mac[c] \in Mac /\ ParamsFor(mac[c])' = ParamsFor(mac[c])
    BY DEF IInv, CallInv, Asking, Running, Storing, ParamsFor
  <1> QED BY <1>1, <1>2 DEF ResolveInv, Resolved, Storing

(* A pipeline that goes on knows what it knew; if it has just been given   *)
(* params, they are those of its CN.                                       *)
LEMMA GoToResolves ==
    ASSUME IInv, NEW c \in Call, ResolveInv(c), pc[c] \in Asking,
           NEW s \in Asking \cup {"done"}, GoTo(c, s), UNCHANGED <<external, mac, bootNic>>,
           s = "bootParams" => server[mac[c]] # "unknown",
           s = "defaultParams" => server[mac[c]] = "unknown" \/ cnapi[mac[c]] = Missing,
           s \in Resolved => params'[c] = ParamsFor(mac[c])
    PROVE  ResolveInv(c)'
  <1>1. pc'[c] = s /\ answers' = answers /\ s # "idle" /\ s \notin Storing
    BY DEF GoTo, IInv, TypeOK, Asking, Running, Storing
  <1>2. mac[c] \in Mac /\ ParamsFor(mac[c])' = ParamsFor(mac[c])
    BY DEF IInv, CallInv, Asking, Running, Storing, ParamsFor, external
  <1> QED BY <1>1, <1>2 DEF ResolveInv, external

(* Every request of the pipeline keeps the invariant of its call.          *)
LEMMA StepResolves ==
    ASSUME IInv, NEW c \in Call, Step(c), ResolveInv(c)
    PROVE  ResolveInv(c)'
  <1>1. /\ UNCHANGED <<server, cnapi, mac>> /\ mac[c] \in Mac /\ pc[c] \in Asking
        /\ \A m \in Mac : nic[m].state = "ip" => nic'[m].state = "ip"
    BY StepIsLocal
    DEF Step, ReadAdminPoolCache, GetNic, ProvisionIP, CreateNic, GetUnsetupServerUUID,
        ServerBootParams, DefaultBootParams, NapiGetNics, NapiGetAggrs, NapiGetNicTags,
        GetPlatforms, Gather, IInv, CallInv, Asking, Running, Storing
  <1> DEFINE OK(s) == /\ s \in Asking \cup {"done"} /\ GoTo(c, s)
                      /\ UNCHANGED <<external, mac, bootNic>>
                      /\ s = "bootParams" => server[mac[c]] # "unknown"
                      /\ s = "defaultParams" => server[mac[c]] = "unknown" \/ cnapi[mac[c]] = Missing
                      /\ s \in Resolved => params'[c] = ParamsFor(mac[c])
  <1>2. ASSUME NEW s, OK(s) PROVE ResolveInv(c)'
    BY <1>1, <1>2, GoToResolves
  <1>3. CASE Fail(c) /\ UNCHANGED bootNic
    BY <1>1, <1>3, FailResolves
  <1>4. CASE ReadAdminPoolCache(c)
    <2>1. OK("getNic")
      BY <1>4 DEF ReadAdminPoolCache, Asking, Running, Resolved, Storing
    <2> QED BY <1>2, <2>1
  <1>5. CASE GetNic(c) /\ ~ (Fail(c) /\ UNCHANGED bootNic)
    <2>1. CASE WithBootNic(c, nic[mac[c]])
      BY <1>1, <1>5, <2>1, WithBootNicResolves DEF GetNic, external, IInv, TypeOK
    <2>2. CASE ~ WithBootNic(c, nic[mac[c]])
      <3>1. OK("createNic") \/ OK("provisionIP")
        BY <1>5, <2>2 DEF GetNic, Asking, Running, Resolved, Storing
      <3> QED BY <1>2, <3>1
    <2> QED BY <2>1, <2>2
  <1>6. CASE (ProvisionIP(c) \/ CreateNic(c)) /\ ~ (Fail(c) /\ UNCHANGED bootNic)
    <2> DEFINE n == [state |-> "ip", net |-> NetworkFor(c)]
    <2>1. n \in Nic
      BY DEF Nic, NicState, NetworkFor, Network, NoNet
    <2>2. WithBootNic(c, n) /\ nic' = [nic EXCEPT ![mac[c]] = n] /\ UNCHANGED params
      BY <1>6 DEF ProvisionIP, CreateNic, Provision
    <2>3. nic'[mac[c]].state = "ip"
      BY <1>1, <2>2 DEF IInv, TypeOK
    <2> HIDE DEF n
    <2> QED BY <1>1, <2>1, <2>2, <2>3, WithBootNicResolves
  <1>7. CASE GetUnsetupServerUUID(c) /\ ~ (Fail(c) /\ UNCHANGED bootNic)
    <2>1. OK("bootParams") \/ OK("defaultParams")
      BY <1>7 DEF GetUnsetupServerUUID, Asking, Running, Resolved, Storing
    <2> QED BY <1>2, <2>1
  <1>8. CASE ServerBootParams(c) /\ ~ (Fail(c) /\ UNCHANGED bootNic)
    <2>1. server[mac[c]] # "unknown"
      BY <1>8 DEF ServerBootParams, ResolveInv
    <2>2. OK("defaultParams") \/ OK(AfterParams(c))
      BY <1>8, <2>1 DEF ServerBootParams, AfterParams, Asking, Running, Resolved, Storing,
                        ParamsFor, IInv, TypeOK
    <2> QED BY <1>2, <2>2
  <1>9. CASE DefaultBootParams(c) /\ ~ (Fail(c) /\ UNCHANGED bootNic)
    <2>1. params'[c] = ParamsFor(mac[c])
      BY <1>9 DEF DefaultBootParams, ResolveInv, ParamsFor, IInv, TypeOK
    <2>2. OK(AfterParams(c))
      BY <1>9, <2>1 DEF DefaultBootParams, AfterParams, Asking, Running, Resolved, Storing
    <2> QED BY <1>2, <2>2
  <1>10. CASE /\ NapiGetNics(c) \/ NapiGetAggrs(c) \/ NapiGetNicTags(c)
              /\ ~ (Fail(c) /\ UNCHANGED bootNic)
    <2>1. params'[c] = ParamsFor(mac[c])
      BY <1>10 DEF NapiGetNics, NapiGetAggrs, NapiGetNicTags, Gather, callVars,
                   ResolveInv, Resolved
    <2>2. OK("getAggrs") \/ OK("getNicTags") \/ OK("getPlatforms")
      BY <1>10, <2>1 DEF NapiGetNics, NapiGetAggrs, NapiGetNicTags, Gather, callVars,
                         Asking, Running, Resolved, Storing
    <2> QED BY <1>2, <2>2
  <1>11. CASE GetPlatforms(c) /\ Succeed(c)
    <2>1. /\ params'[c] = params[c] /\ bootNic'[c] = bootNic[c]
          /\ params[c] = ParamsFor(mac[c]) /\ nic' = nic
          /\ pc'[c] = "done" \/ (pc'[c] = "open" /\ bootNic[c].state = "ip")
      BY <1>11 DEF GetPlatforms, Succeed, GoTo, callVars, external, ResolveInv, Resolved,
                   IInv, TypeOK
    <2>2. answers'[c] = answers[c] \/ answers'[c] = <<Answers!Error>>
      BY <1>11, FirstAnswer, AnswerTypes
      DEF GetPlatforms, Succeed, GoTo, IInv, CallInv, Running, Storing
    <2>3. ParamsFor(mac[c])' = ParamsFor(mac[c])
      BY <1>1 DEF ParamsFor
    <2> QED BY <1>1, <2>1, <2>2, <2>3, NotFresh DEF ResolveInv, Resolved, Storing
  <1>12. Fail(c) /\ GetPlatforms(c) => UNCHANGED bootNic
    BY DEF GetPlatforms, callVars
  <1> QED
    BY <1>3, <1>4, <1>5, <1>6, <1>7, <1>8, <1>9, <1>10, <1>11, <1>12
    DEF Step, GetPlatforms

(* A step is one of the call, or a crash, or leaves the call alone.        *)
LEMMA WhoMoves ==
    ASSUME IInv, [Next]_vars, NEW c \in Call
    PROVE  \/ /\ pc'[c] = pc[c] /\ mac'[c] = mac[c] /\ lookup'[c] = lookup[c]
              /\ answers'[c] = answers[c] /\ params'[c] = params[c]
              /\ bootNic'[c] = bootNic[c]
           \/ Step(c) \/ Local(c) \/ Crash
           \/ \E m \in Mac, t \in Tag \cup {NoTag} : GetBootParams(c, m, t)
  <1>1. CASE \E d \in Call \ {c} : Step(d) \/ Local(d)
    BY <1>1, StepIsLocal DEF OnlyCall
  <1>2. CASE \E d \in Call \ {c} : \E m \in Mac, t \in Tag \cup {NoTag} :
                GetBootParams(d, m, t)
    BY <1>2 DEF GetBootParams, IInv, TypeOK
  <1>3. CASE \/ UNCHANGED vars
             \/ \E m \in Mac :
                   ServerReports(m) \/ \E p \in Params \cup {Missing} : SetBootParams(m, p)
    BY <1>3 DEF vars, callVars, ServerReports, SetBootParams
  <1> QED BY <1>1, <1>2, <1>3 DEF Next

(* A call that has begun keeps its MAC.                                    *)
LEMMA MacStays ==
    ASSUME IInv, [Next]_vars, NEW c \in Call, pc[c] # "idle"
    PROVE  mac'[c] = mac[c]
  <1>1. CASE Step(c) \/ Local(c)
    BY <1>1, StepIsLocal
  <1>2. CASE Crash
    BY <1>2 DEF Crash, callVars
  <1>3. ~ \E m \in Mac, t \in Tag \cup {NoTag} : GetBootParams(c, m, t)
    BY DEF GetBootParams
  <1> QED BY <1>1, <1>2, <1>3, WhoMoves

(* An answer is not the lack of one.                                       *)
LEMMA NotEmpty == \A a : <<>> # <<a>>
  OBVIOUS

(* So do the timer, the lookup and the steps of storing; a fresh answer    *)
(* holds what the pipeline knows.                                          *)
LEMMA LocalResolves ==
    ASSUME IInv, NEW c \in Call, Local(c), ResolveInv(c)
    PROVE  ResolveInv(c)'
  <1>1. /\ UNCHANGED <<nic, server, cnapi>> /\ mac[c] \in Mac /\ UNCHANGED callVars
    BY DEF Local, TimerFires, GetFromCache, OpenFile, WriteFile, CacheWritten, IInv,
           CallInv, Asking, Running, Storing, external
  <1>2. ParamsFor(mac[c])' = ParamsFor(mac[c])
    BY <1>1 DEF ParamsFor, callVars
  <1>3. /\ pc'[c] \in {pc[c], "done"} \cup Storing
        /\ pc'[c] \in Storing => pc[c] \in Storing
    BY DEF Local, TimerFires, GetFromCache, OpenFile, WriteFile, CacheWritten, IInv,
           TypeOK, Storing
  <1>4. ASSUME NEW p \in Payload, answers'[c] = <<Answers!Fresh(p)>>
        PROVE  p.params = ParamsFor(mac[c]) /\ nic[mac[c]].state = "ip"
    <2>1. CASE answers'[c] = answers[c]
      BY <1>4, <2>1 DEF ResolveInv
    <2>2. CASE answers[c] = <<>>
      <3>1. ASSUME NEW a \in AnswerSet, Answer(c, a) PROVE a = Answers!Fresh(p)
        BY <1>4, <2>2, <3>1, FirstAnswer DEF IInv
      <3>2. ~ Answer(c, Answers!Error) /\ \A q \in Payload : ~ Answer(c, Answers!Cached(q))
        BY <3>1, AnswerTypes DEF Answers!Error, Answers!Fresh, Answers!Cached
      <3>3. ~ GetFromCache(c)
        BY <1>1, <3>2, CachedParams DEF GetFromCache
      <3>4. CacheWritten(c) \/ answers'[c] = answers[c]
        BY <3>2, <3>3 DEF Local, TimerFires, OpenFile, WriteFile
      <3>5. CASE CacheWritten(c)
        <4> DEFINE q == BootParamsOf(c)
        <4>1. Answer(c, Answers!Fresh(q)) /\ q \in Payload /\ pc[c] \in Storing
          BY <3>2, <3>5 DEF CacheWritten, IInv, CallInv, Running, Asking, Storing
        <4>2. q = p
          BY <3>1, <4>1, AnswerTypes DEF Answers!Fresh
        <4>3. q.params = params[c]
          BY DEF BootParamsOf
        <4> QED BY <4>1, <4>2, <4>3 DEF ResolveInv, Resolved
      <3> QED BY <2>1, <3>4, <3>5
    <2>3. answers'[c] = answers[c] \/ answers[c] = <<>>
      BY DEF Local, TimerFires, GetFromCache, OpenFile, WriteFile, CacheWritten, IInv,
             CallInv, Running, Asking, Storing
    <2> QED BY <2>1, <2>2, <2>3
  <1> QED BY <1>1, <1>2, <1>3, <1>4 DEF ResolveInv, Resolved, Storing, callVars

(* What the pipeline knows stays true as long as nobody else changes NAPI  *)
(* and CNAPI; a crash only ends pipelines.                                 *)
LEMMA ResolveKept ==
    ASSUME Volatile = FALSE, IInv, [Next]_vars, \A c \in Call : ResolveInv(c)
    PROVE  \A c \in Call : ResolveInv(c)'
  <1> USE DEF IInv
  <1>1. ASSUME NEW c \in Call, Step(c) \/ Local(c), NEW d \in Call PROVE ResolveInv(d)'
    BY <1>1, StepIsLocal, StepResolves, LocalResolves, OthersResolve
  <1>2. ASSUME NEW c \in Call, NEW m \in Mac, NEW t \in Tag \cup {NoTag},
               GetBootParams(c, m, t), NEW d \in Call
        PROVE  ResolveInv(d)'
    <2>1. /\ OnlyCall(c) /\ UNCHANGED <<nic, server, cnapi, bootNic, params, answers>>
          /\ pc'[c] = "readPool" /\ pc[c] = "idle"
      BY <1>2 DEF GetBootParams, OnlyCall, TypeOK, external
    <2>2. CASE c = d
      <3>1. bootNic'[c].state = "absent" /\ answers'[c] = <<>>
        BY <2>1 DEF ResolveInv, CallInv
      <3> QED BY <2>1, <2>2, <3>1, NotFresh DEF ResolveInv, Resolved, Storing
    <2>3. CASE c # d
      BY <2>1, <2>3, OthersResolve
    <2> QED BY <2>2, <2>3
  <1>3. CASE Crash
    <2>1. UNCHANGED <<nic, server, cnapi, mac, bootNic, params, answers>>
      BY <1>3 DEF Crash, external, callVars
    <2>2. ASSUME NEW c \in Call PROVE ResolveInv(c)'
      <3>1. pc'[c] \in {pc[c], "dead"} /\ ParamsFor(mac[c])' = ParamsFor(mac[c])
        BY <1>3, <2>1 DEF Crash, ParamsFor
      <3> QED BY <2>1, <3>1 DEF ResolveInv, Resolved, Storing
    <2> QED BY <2>2
  <1>4. CASE UNCHANGED vars
    BY <1>4 DEF vars, external, callVars, ResolveInv, ParamsFor
  <1> QED BY <1>1, <1>2, <1>3, <1>4 DEF Next, SetBootParams, ServerReports

(* While NAPI and CNAPI do not change, fresh params are those of the CN,   *)
(* whichever calls run beside, time out or die.                            *)
THEOREM FreshResolved ==
    ASSUME Volatile = FALSE
    PROVE  Spec => []FreshIsResolved
  <1> DEFINE R == \A c \in Call : ResolveInv(c)
  <1>1. Init => R
    BY NotFresh DEF Init, ResolveInv, Resolved, Storing
  <1>2. IInv /\ R /\ [Next]_vars => R'
    BY ResolveKept
  <1>3. R => FreshIsResolved
    BY DEF ResolveInv, FreshIsResolved
  <1> QED BY <1>1, <1>2, <1>3, Invariance, PTL DEF Spec

-------------------------------------------------------------------------------
(* The cache file, while nothing crashes and all payloads have one size.   *)

(* No step removes the file of a MAC.                                      *)
LEMMA FileStays ==
    ASSUME IInv, [Next]_vars, NEW m \in Mac, file[m].exists
    PROVE  file'[m].exists
  <1>1. ASSUME NEW c \in Call, OpenFile(c) \/ WriteFile(c)
        PROVE  file'[m].exists
    <2>1. \/ file' = [file EXCEPT ![mac[c]] = Store!Opened]
          \/ file' = [file EXCEPT ![mac[c]] = Store!Wrote(@, BootParamsOf(c))]
          \/ file' = file
      BY <1>1 DEF OpenFile, WriteFile
    <2>2. file'[m] \in {file[m], Store!Opened, Store!Wrote(file[m], BootParamsOf(c))}
      BY <2>1 DEF IInv, TypeOK
    <2> QED BY <2>2 DEF Store!Opened, Store!Wrote
  <1>2. CASE file' = file
    BY <1>2
  <1> QED
    BY <1>1, <1>2
    DEF Next, vars, external, callVars, GetBootParams, Step, Local, TimerFires,
        GetFromCache, CacheWritten, ReadAdminPoolCache, GetNic, ProvisionIP, CreateNic,
        GetUnsetupServerUUID, ServerBootParams, DefaultBootParams, NapiGetNics,
        NapiGetAggrs, NapiGetNicTags, Gather, GetPlatforms, Crash, SetBootParams,
        ServerReports

(* What a write leaves where it fits exactly, or finds the file empty, can *)
(* be read.                                                                *)
LEMMA WroteReadable ==
    ASSUME NEW f \in Store!File, NEW p \in Payload, f.length \in {0, Size[p]}
    PROVE  /\ Store!Readable(Store!Wrote(f, p))
           /\ Store!Wrote(f, p).length = Size[p]
  <1>1. Size[p] \in Nat \ {0}
    BY BootParamsAssumption
  <1> QED BY <1>1 DEF Store!Wrote, Store!Readable, Store!File

(* A file that cannot be read has a writer between its open and its write. *)
LEMMA QuietKept ==
    ASSUME CanCrash = FALSE, DiskFails = FALSE,
           \A p, q \in Payload : Size[p] = Size[q],
           IInv, QuietInv, [Next]_vars
    PROVE  QuietInv'
  <1>1. CASE \E c \in Call : OpenFile(c)
    <2>1. PICK c \in Call : OpenFile(c)
      BY <1>1
    <2>2. /\ file' = [file EXCEPT ![mac[c]] = Store!Opened]
          /\ pc' = [pc EXCEPT ![c] = "write"] /\ mac' = mac /\ mac[c] \in Mac
          /\ pc[c] = "open"
      BY <2>1 DEF OpenFile, callVars, IInv, CallInv
    <2>3. \A m \in Mac : \A p \in Payload : file'[m].length \in {0, Size[p]}
      BY <2>2 DEF QuietInv, Store!Opened, IInv, TypeOK
    <2>4. ASSUME NEW m \in Mac
          PROVE  \/ Store!Readable(file'[m]) \/ ~file'[m].exists
                 \/ \E e \in Call : mac'[e] = m /\ pc'[e] = "write"
      <3>1. CASE m = mac[c]
        BY <2>2, <3>1 DEF IInv, TypeOK
      <3>2. CASE m # mac[c]
        <4>1. file'[m] = file[m]
          BY <2>2, <3>2 DEF IInv, TypeOK
        <4> QED BY <2>2, <4>1 DEF QuietInv, QuietFileReadable, IInv, TypeOK
      <3> QED BY <3>1, <3>2
    <2> QED BY <2>3, <2>4 DEF QuietInv, QuietFileReadable
  <1>2. CASE \E c \in Call : WriteFile(c)
    <2>1. PICK c \in Call : WriteFile(c)
      BY <1>2
    <2> DEFINE q == BootParamsOf(c)
    <2>2. /\ file' = [file EXCEPT ![mac[c]] = Store!Wrote(@, q)]
          /\ pc' = [pc EXCEPT ![c] = "stored"] /\ mac' = mac /\ mac[c] \in Mac
          /\ q \in Payload /\ pc[c] = "write"
      BY <2>1 DEF WriteFile, callVars, IInv, CallInv, Storing
    <2> HIDE DEF q
    <2>3. /\ Store!Readable(file'[mac[c]])
          /\ file'[mac[c]].length = Size[q]
      BY <2>2, WroteReadable DEF QuietInv, IInv, TypeOK
    <2>4. \A m \in Mac \ {mac[c]} : file'[m] = file[m]
      BY <2>2 DEF IInv, TypeOK
    <2>5. \A m \in Mac : \A p \in Payload : file'[m].length \in {0, Size[p]}
      BY <2>2, <2>3, <2>4 DEF QuietInv
    <2>6. ASSUME NEW m \in Mac
          PROVE  \/ Store!Readable(file'[m]) \/ ~file'[m].exists
                 \/ \E e \in Call : mac'[e] = m /\ pc'[e] = "write"
      <3>1. CASE m = mac[c]
        BY <2>3, <3>1
      <3>2. CASE m # mac[c]
        <4>1. \A e \in Call : mac[e] = m /\ pc[e] = "write" => pc'[e] = "write"
          BY <2>2, <3>2 DEF IInv, TypeOK
        <4> QED BY <2>2, <2>4, <3>2, <4>1 DEF QuietInv, QuietFileReadable
      <3> QED BY <3>1, <3>2
    <2> QED BY <2>5, <2>6 DEF QuietInv, QuietFileReadable
  <1>3. CASE /\ file' = file
             /\ \A e \in Call : pc[e] = "write" => pc'[e] = "write" /\ mac'[e] = mac[e]
    BY <1>3 DEF QuietInv, QuietFileReadable
  <1>4. ASSUME NEW c \in Call, Step(c)
        PROVE  /\ file' = file
               /\ \A e \in Call : pc[e] = "write" => pc'[e] = "write" /\ mac'[e] = mac[e]
    <2>1. file' = file /\ pc[c] # "write"
      BY <1>4
      DEF Step, ReadAdminPoolCache, GetNic, ProvisionIP, CreateNic, GetUnsetupServerUUID,
          ServerBootParams, DefaultBootParams, NapiGetNics, NapiGetAggrs, NapiGetNicTags,
          GetPlatforms, Gather
    <2> QED BY <1>4, <2>1, StepIsLocal DEF OnlyCall
  <1>5. ASSUME NEW c \in Call, NEW m \in Mac, NEW t \in Tag \cup {NoTag},
               GetBootParams(c, m, t)
        PROVE  /\ file' = file
               /\ \A e \in Call : pc[e] = "write" => pc'[e] = "write" /\ mac'[e] = mac[e]
    BY <1>5 DEF GetBootParams, IInv, TypeOK
  <1>6. ASSUME NEW c \in Call, TimerFires(c) \/ GetFromCache(c) \/ CacheWritten(c)
        PROVE  /\ file' = file
               /\ \A e \in Call : pc[e] = "write" => pc'[e] = "write" /\ mac'[e] = mac[e]
    BY <1>6 DEF TimerFires, GetFromCache, CacheWritten, callVars, IInv, TypeOK
  <1>7. ASSUME NEW m \in Mac,
               ServerReports(m) \/ \E p \in Params \cup {Missing} : SetBootParams(m, p)
        PROVE  file' = file /\ pc' = pc /\ mac' = mac
    BY <1>7 DEF ServerReports, SetBootParams, callVars
  <1>8. CASE UNCHANGED vars
    BY <1>3, <1>8 DEF vars, callVars
  <1> QED
    BY <1>1, <1>2, <1>3, <1>4, <1>5, <1>6, <1>7, <1>8 DEF Next, Local, Crash

(* While the process lives and the disk does not fail, payloads of one     *)
(* size never leave a file that stays unreadable, whatever the order in    *)
(* which calls for one MAC open and write it.                              *)
THEOREM QuietReadable ==
    ASSUME CanCrash = FALSE, DiskFails = FALSE,
           \A p, q \in Payload : Size[p] = Size[q]
    PROVE  Spec => []QuietFileReadable
  <1>1. Init => QuietInv
    <2> SUFFICES ASSUME Init, NEW m \in Mac
                 PROVE  /\ \A p \in Payload : file[m].length \in {0, Size[p]}
                        /\ Store!Readable(file[m]) \/ ~file[m].exists
      BY DEF QuietInv, QuietFileReadable
    <2>1. CASE file[m] = Store!Absent
      BY <2>1 DEF Store!Absent
    <2>2. CASE \E p \in Payload : file[m] = Store!Holding(p)
      BY <2>2 DEF Store!Holding, Store!Readable
    <2> QED BY <2>1, <2>2 DEF Init
  <1>2. IInv /\ QuietInv /\ [Next]_vars => QuietInv'
    BY QuietKept
  <1>3. QuietInv => QuietFileReadable
    BY DEF QuietInv
  <1> QED BY <1>1, <1>2, <1>3, Invariance, PTL DEF Spec

-------------------------------------------------------------------------------
(* A CN that was given fresh params is not refused later.                  *)

(* A call is answered once, and only in these ways.                        *)
LEMMA NewAnswer ==
    ASSUME IInv, [Next]_vars, NEW c \in Call, answers'[c] # answers[c]
    PROVE  /\ answers[c] = <<>> /\ mac[c] \in Mac
           /\ \/ /\ pc[c] = "getPlatforms" /\ bootNic[c].state # "ip"
                 /\ answers'[c] = <<Answers!Error>>
              \/ /\ ~Store!Readable(file[mac[c]])
                 /\ answers'[c] = <<Answers!Error>>
              \/ answers'[c] = <<Answers!Cached(file[mac[c]].content)>>
              \/ pc[c] = "unstored" /\ answers'[c] = <<Answers!Error>>
              \/ pc[c] = "stored" /\ answers'[c] = <<Answers!Fresh(BootParamsOf(c))>>
  <1>1. CASE GetPlatforms(c)
    <2>1. Succeed(c) /\ timer[c] # "fired" /\ bootNic[c].state # "ip"
          /\ Answer(c, Answers!Error) /\ pc[c] = "getPlatforms"
      BY <1>1 DEF GetPlatforms, Succeed, Fail, GoTo
    <2>2. answers[c] = <<>> /\ mac[c] \in Mac
      BY <2>1 DEF IInv, CallInv, Running, Storing
    <2> QED BY <2>1, <2>2, FirstAnswer, AnswerTypes DEF IInv
  <1>2. CASE GetFromCache(c)
    <2>1. answers[c] = <<>> /\ mac[c] \in Mac
      BY <1>2 DEF GetFromCache, IInv, CallInv
    <2>2. CASE Store!Readable(file[mac[c]])
      <3>1. /\ Answer(c, Answers!Cached(file[mac[c]].content))
            /\ Answers!Cached(file[mac[c]].content) \in AnswerSet
        BY <1>2, <2>2, AnswerTypes DEF GetFromCache, Store!Readable
      <3> QED BY <2>1, <3>1, FirstAnswer DEF IInv
    <2>3. CASE ~Store!Readable(file[mac[c]])
      BY <1>2, <2>1, <2>3, FirstAnswer, AnswerTypes DEF GetFromCache, IInv
    <2> QED BY <2>2, <2>3
  <1>3. CASE CacheWritten(c)
    <2>1. /\ answers[c] = <<>> /\ mac[c] \in Mac
          /\ BootParamsOf(c) \in Payload
      BY <1>3 DEF CacheWritten, IInv, CallInv, Running, Asking, Storing
    <2>2. \/ pc[c] = "stored" /\ Answer(c, Answers!Fresh(BootParamsOf(c)))
          \/ pc[c] = "unstored" /\ Answer(c, Answers!Error)
      BY <1>3 DEF CacheWritten
    <2> QED BY <2>1, <2>2, FirstAnswer, AnswerTypes DEF IInv
  <1> QED BY <1>1, <1>2, <1>3, AnswerChanges

(* The pipeline has an address for the CN once it is past the provisioning *)
(* of its nic.                                                             *)
LEMMA AddressKept ==
    ASSUME IInv, KnownInv, [Next]_vars, NEW c \in Call,
           pc'[c] \in {"getServer", "bootParams", "defaultParams"} \cup Resolved
    PROVE  HasAddress(bootNic'[c])
  <1> DEFINE Past == {"getServer", "bootParams", "defaultParams"} \cup Resolved
  <1>1. CASE UNCHANGED <<pc, bootNic>>
    BY <1>1 DEF KnownInv
  <1>2. CASE GetNic(c) \/ ProvisionIP(c) \/ CreateNic(c)
    <2>1. PICK n : WithBootNic(c, n) /\ HasAddress(n)
      <3> DEFINE new == [state |-> "ip", net |-> NetworkFor(c)]
      <3>1. HasAddress(new)
        BY DEF HasAddress
      <3>2. \/ WithBootNic(c, new)
            \/ WithBootNic(c, nic[mac[c]]) /\ HasAddress(nic[mac[c]])
        BY <1>2 DEF GetNic, ProvisionIP, CreateNic, Provision, Fail, GoTo, Resolved,
                    Storing, IInv, TypeOK
      <3> QED BY <3>1, <3>2
    <2> QED BY <2>1 DEF WithBootNic, IInv, TypeOK
  <1>3. CASE /\ Step(c) \/ Local(c)
             /\ ~(GetNic(c) \/ ProvisionIP(c) \/ CreateNic(c))
    <2>1. bootNic'[c] = bootNic[c] /\ pc[c] \in Past
      BY <1>3
      DEF Step, Local, ReadAdminPoolCache, GetUnsetupServerUUID, ServerBootParams,
          DefaultBootParams, AfterParams, NapiGetNics, NapiGetAggrs, NapiGetNicTags,
          GetPlatforms, Gather, GoTo, Fail, Succeed, TimerFires, GetFromCache, OpenFile,
          WriteFile, CacheWritten, callVars, IInv, TypeOK, CallInv, Resolved, Storing
    <2> QED BY <2>1 DEF KnownInv
  <1>4. CASE \E d \in Call \ {c} : Step(d) \/ Local(d)
    <2>1. pc'[c] = pc[c] /\ bootNic'[c] = bootNic[c]
      BY <1>4, StepIsLocal DEF OnlyCall
    <2> QED BY <2>1 DEF KnownInv
  <1>5. CASE \E d \in Call : \E m \in Mac, t \in Tag \cup {NoTag} : GetBootParams(d, m, t)
    BY <1>5 DEF GetBootParams, KnownInv, Resolved, Storing, IInv, TypeOK
  <1>6. CASE Crash
    BY <1>6 DEF Crash, callVars, KnownInv, Resolved, Storing, IInv, TypeOK
  <1>7. CASE \/ UNCHANGED vars
             \/ \E m \in Mac :
                   ServerReports(m) \/ \E p \in Params \cup {Missing} : SetBootParams(m, p)
    BY <1>1, <1>7 DEF vars, callVars, ServerReports, SetBootParams
  <1> QED BY <1>2, <1>3, <1>4, <1>5, <1>6, <1>7 DEF Next

(* The file of a call that has stored its params, or failed to.            *)
LEMMA StoredKept ==
    ASSUME IInv, KnownInv, [Next]_vars, NEW c \in Call
    PROVE  /\ pc'[c] = "stored" => file'[mac'[c]].exists
           /\ pc'[c] = "unstored" => DiskFails
  <1>1. CASE pc'[c] = pc[c] /\ mac'[c] = mac[c]
    <2>1. pc[c] = "stored" => mac[c] \in Mac
      BY DEF IInv, CallInv
    <2> QED BY <1>1, <2>1, FileStays DEF KnownInv
  <1>2. CASE OpenFile(c) \/ WriteFile(c)
    <2>1. mac'[c] = mac[c] /\ mac[c] \in Mac
      BY <1>2 DEF OpenFile, WriteFile, callVars, IInv, CallInv
    <2> QED BY <1>2, <2>1 DEF OpenFile, WriteFile, Store!Wrote, IInv, TypeOK
  <1>3. CASE Step(c) \/ TimerFires(c) \/ GetFromCache(c) \/ CacheWritten(c)
    <2>1. \/ pc'[c] \notin {"stored", "unstored"}
          \/ pc'[c] = pc[c] /\ mac'[c] = mac[c]
      BY <1>3
      DEF Step, ReadAdminPoolCache, GetNic, WithBootNic, ProvisionIP, CreateNic, Provision,
          GetUnsetupServerUUID, ServerBootParams, DefaultBootParams, AfterParams,
          NapiGetNics, NapiGetAggrs, NapiGetNicTags, GetPlatforms, Gather, GoTo, Fail,
          Succeed, TimerFires, GetFromCache, CacheWritten, callVars, IInv, TypeOK
    <2> QED BY <1>1, <2>1
  <1>4. CASE \E m \in Mac, t \in Tag \cup {NoTag} : GetBootParams(c, m, t)
    BY <1>4 DEF GetBootParams, IInv, TypeOK
  <1>5. CASE Crash
    <2>1. pc'[c] \in {pc[c], "dead"} /\ mac'[c] = mac[c]
      BY <1>5 DEF Crash, callVars
    <2> QED BY <1>1, <2>1
  <1> QED BY <1>1, <1>2, <1>3, <1>4, <1>5, WhoMoves DEF Local

(* A fresh answer leaves a cache file behind, and so does every later step.*)
LEMMA KnownKept ==
    ASSUME IInv, KnownInv, [Next]_vars
    PROVE  KnownInv'
  <1>1. ASSUME NEW c \in Call, answers'[c] # <<>>, Head(answers'[c]).kind = "fresh"
        PROVE  file'[mac'[c]].exists
    <2>1. mac[c] \in Mac /\ file[mac[c]].exists /\ pc[c] # "idle"
      <3>1. CASE answers'[c] = answers[c]
        BY <1>1, <3>1 DEF KnownInv, IInv, CallInv
      <3>2. CASE answers'[c] # answers[c]
        <4> DEFINE e == Answers!Error
                   k == Answers!Cached(file[mac[c]].content)
        <4>1. \A a, b : Head(<<a>>) = a /\ (<<a>> = <<b>> => a = b)
          OBVIOUS
        <4>2. e.kind # "fresh" /\ k.kind # "fresh"
          BY DEF Answers!Error, Answers!Cached
        <4> HIDE DEF e, k
        <4>3. answers'[c] # <<e>> /\ answers'[c] # <<k>>
          BY <1>1, <4>1, <4>2
        <4>4. pc[c] = "stored" /\ mac[c] \in Mac
          BY <3>2, <4>3, NewAnswer DEF e, k
        <4> QED BY <4>4 DEF KnownInv
      <3> QED BY <3>1, <3>2
    <2>2. mac'[c] = mac[c]
      BY <2>1, MacStays
    <2> QED BY <2>1, <2>2, FileStays
  <1> QED BY <1>1, StoredKept, AddressKept DEF KnownInv, HasAddress

(* While the process lives, the disk does not fail and payloads have one   *)
(* size, a call for a CN that was given fresh params before is answered    *)
(* with an error only for want of a netmask, or while the cache file of    *)
(* the CN is being rewritten.                                              *)
THEOREM KnownNotRefused ==
    ASSUME CanCrash = FALSE, DiskFails = FALSE,
           \A p, q \in Payload : Size[p] = Size[q]
    PROVE  Spec => KnownCnNotRefused
  <1> DEFINE A == \A c, d \in Call :
                    /\ mac[c] = mac[d]
                    /\ answers[d] # <<>> /\ Head(answers[d]).kind = "fresh"
                    /\ answers[c] = <<>> /\ answers'[c] = <<Answers!Error>>
                    => \/ bootNic[c].state = "noMask"
                       \/ \E e \in Call : mac[e] = mac[c] /\ pc[e] = "write"
  <1>1. Init => KnownInv
    BY DEF Init, KnownInv, Resolved, Storing
  <1>2. IInv /\ KnownInv /\ [Next]_vars => KnownInv'
    BY KnownKept
  <1>3. IInv /\ KnownInv /\ QuietFileReadable /\ [Next]_vars => [A]_vars
    <2> SUFFICES ASSUME IInv, KnownInv, QuietFileReadable, [Next]_vars,
                        NEW c \in Call, NEW d \in Call, mac[c] = mac[d],
                        answers[d] # <<>>, Head(answers[d]).kind = "fresh",
                        answers[c] = <<>>, answers'[c] = <<Answers!Error>>,
                        bootNic[c].state # "noMask"
                 PROVE  \E e \in Call : mac[e] = mac[c] /\ pc[e] = "write"
      OBVIOUS
    <2>1. answers'[c] # answers[c]
      OBVIOUS
    <2>2. file[mac[c]].exists /\ mac[c] \in Mac
      BY <2>1, NewAnswer DEF KnownInv
    <2>3. pc[c] = "getPlatforms" => bootNic[c].state = "ip"
      BY DEF KnownInv, HasAddress, Resolved
    <2>4. \A p : <<Answers!Error>> # <<Answers!Cached(p)>> /\ <<Answers!Error>> # <<Answers!Fresh(p)>>
      BY DEF Answers!Error, Answers!Cached, Answers!Fresh
    <2>5. ~Store!Readable(file[mac[c]])
      BY <2>1, <2>3, <2>4, NewAnswer DEF KnownInv
    <2> QED BY <2>2, <2>5 DEF QuietFileReadable
  <1> QED
    BY <1>1, <1>2, <1>3, Invariance, QuietReadable, PTL DEF Spec, KnownCnNotRefused
-------------------------------------------------------------------------------
(* What is in the cache file after a fresh answer.                         *)

\* Call c has put x in its cache file: it was given x fresh, or is about to be.
Owns(c, x) ==
    \/ pc[c] = "stored" /\ BootParamsOf(c) = x
    \/ answers[c] = <<Answers!Fresh(x)>>

\* Call c is at its write, or was stopped there by the disk or a crash.
Stopped(c) ==
    \/ pc[c] \in {"write", "unstored", "dead"}
    \/ answers[c] = <<Answers!Error>> /\ lookup[c] = "none"

StoredInv == \A c \in Call : \A p \in Payload :
    Owns(c, p) =>
        LET x == file[mac[c]].content IN
        \/ x = p
        \/ \E d \in Call \ {c} : mac[d] = mac[c] /\ (Owns(d, x) \/ Stopped(d))

(* A step that is not the write of the call itself gives it nothing in the *)
(* file that it did not have; and takes nothing but by a crash.            *)
LEMMA OwnsKept ==
    ASSUME IInv, [Next]_vars, NEW c \in Call, NEW x, ~ WriteFile(c)
    PROVE  /\ Owns(c, x)' => Owns(c, x)
           /\ Owns(c, x) => Owns(c, x)' \/ Stopped(c)'
           /\ Stopped(c) => Stopped(c)'
  <1>1. CASE UNCHANGED <<pc[c], lookup[c], answers[c], params[c], bootNic[c]>>
    BY <1>1 DEF Owns, Stopped, BootParamsOf
  <1>2. CASE (Step(c) \/ TimerFires(c) \/ GetFromCache(c))
    <2> DEFINE Quiet == {"write", "stored", "unstored", "dead"}
    <2>1. ASSUME Step(c)
          PROVE  pc[c] \notin Quiet /\ pc'[c] \notin Quiet
      <3>1. pc[c] \in Asking
        BY <2>1 DEF Step, ReadAdminPoolCache, GetNic, ProvisionIP, CreateNic,
                    GetUnsetupServerUUID, ServerBootParams, DefaultBootParams, NapiGetNics,
                    NapiGetAggrs, NapiGetNicTags, GetPlatforms, Gather, Asking, Running,
                    Storing
      <3>2. \/ \E s \in Asking \cup {"done"} : GoTo(c, s)
            \/ Fail(c) \/ Succeed(c)
        BY <2>1
        DEF Step, ReadAdminPoolCache, GetNic, WithBootNic, ProvisionIP, CreateNic,
            Provision, GetUnsetupServerUUID, ServerBootParams, DefaultBootParams,
            AfterParams, NapiGetNics, NapiGetAggrs, NapiGetNicTags, GetPlatforms, Gather,
            Asking, Running, Storing
      <3>3. \E s \in Asking \cup {"done", "open"} : pc' = [pc EXCEPT ![c] = s]
        BY <3>2 DEF GoTo, Fail, Succeed
      <3>4. pc'[c] \in Asking \cup {"done", "open"}
        BY <3>3 DEF IInv, TypeOK
      <3> QED BY <3>1, <3>4 DEF Asking, Running, Storing
    <2>2. ASSUME TimerFires(c) \/ GetFromCache(c)
          PROVE  pc[c] \notin Quiet /\ pc'[c] \notin Quiet
      <3>1. pc' = pc
        BY <2>2 DEF TimerFires, GetFromCache
      <3>2. pc[c] \notin Storing /\ pc[c] # "dead"
        BY <2>2 DEF TimerFires, GetFromCache, IInv, CallInv, Asking, Running, Storing
      <3> QED BY <3>1, <3>2 DEF Storing
    <2>3. pc[c] \notin Quiet /\ pc'[c] \notin Quiet
      BY <1>2, <2>1, <2>2
    <2>4. ~ Stopped(c)
      <3>1. CASE answers[c] = <<>>
        BY <2>3, <3>1, NotEmpty DEF Stopped
      <3>2. CASE answers[c] # <<>>
        <4>1. pc[c] \in Asking /\ timer[c] = "fired"
          BY <1>2, <3>2
          DEF Step, ReadAdminPoolCache, GetNic, ProvisionIP, CreateNic,
              GetUnsetupServerUUID, ServerBootParams, DefaultBootParams, NapiGetNics,
              NapiGetAggrs, NapiGetNicTags, GetPlatforms, Gather, TimerFires,
              GetFromCache, IInv, CallInv, TypeOK, Asking, Running, Storing
        <4> QED BY <2>3, <4>1 DEF IInv, CallInv, Stopped
      <3> QED BY <3>1, <3>2
    <2>5. answers'[c] = <<Answers!Fresh(x)>> <=> answers[c] = <<Answers!Fresh(x)>>
      <3>1. CASE answers'[c] = answers[c]
        BY <3>1
      <3>2. CASE answers'[c] # answers[c]
        <4>1. answers[c] = <<>> /\ answers'[c] \in
                {<<Answers!Error>>, <<Answers!Cached(file[mac[c]].content)>>}
          BY <2>3, <3>2, NewAnswer
        <4> QED BY <4>1, NotFresh
      <3> QED BY <3>1, <3>2
    <2> QED BY <2>3, <2>4, <2>5 DEF Owns
  <1>3. CASE OpenFile(c)
    <2>1. pc[c] = "open" /\ pc'[c] \in {"write", "unstored"} /\ answers' = answers
      BY <1>3 DEF OpenFile, IInv, TypeOK
    <2>2. answers[c] = <<>>
      BY <2>1 DEF IInv, CallInv, TypeOK, Asking, Running, Storing
    <2> QED BY <2>1, <2>2, NotEmpty DEF Owns, Stopped
  <1>4. CASE CacheWritten(c)
    <2>1. /\ pc[c] \in {"stored", "unstored"} /\ pc'[c] = "done" /\ lookup' = lookup
          /\ answers'[c] # answers[c] /\ lookup[c] = "none" /\ answers[c] = <<>>
      <3>1. /\ pc[c] \in {"stored", "unstored"} /\ pc'[c] = "done" /\ lookup' = lookup
            /\ lookup[c] = "none" /\ answers[c] = <<>> /\ BootParamsOf(c) \in Payload
        BY <1>4 DEF CacheWritten, IInv, TypeOK, CallInv, Asking, Running, Storing
      <3>2. PICK a \in AnswerSet : Answer(c, a)
        BY <1>4, <3>1, AnswerTypes DEF CacheWritten
      <3> QED BY <3>1, <3>2, FirstAnswer DEF IInv
    <2>2. CASE pc[c] = "stored"
      <3>1. answers'[c] = <<Answers!Fresh(BootParamsOf(c))>>
        BY <1>4, <2>1, <2>2, FirstAnswer, AnswerTypes
        DEF CacheWritten, IInv, CallInv, Storing
      <3> QED BY <2>1, <2>2, <3>1, NotFresh, NotEmpty DEF Owns, Stopped
    <2>3. CASE pc[c] = "unstored"
      <3>1. answers'[c] = <<Answers!Error>>
        BY <1>4, <2>1, <2>3, FirstAnswer, AnswerTypes DEF CacheWritten, IInv
      <3> QED BY <2>1, <2>3, <3>1, NotFresh DEF Owns, Stopped
    <2> QED BY <2>1, <2>2, <2>3
  <1>5. CASE \E m \in Mac, t \in Tag \cup {NoTag} : GetBootParams(c, m, t)
    <2>1. pc[c] = "idle" /\ pc'[c] = "readPool" /\ answers' = answers
      BY <1>5 DEF GetBootParams, IInv, TypeOK
    <2>2. answers[c] = <<>>
      BY <2>1 DEF IInv, CallInv
    <2> QED BY <2>1, <2>2, NotEmpty DEF Owns, Stopped
  <1>6. CASE Crash
    <2>1. /\ pc'[c] = IF pc[c] \in Running \/ lookup[c] = "pending" THEN "dead" ELSE pc[c]
          /\ lookup[c] = "none" => lookup'[c] = "none"
          /\ UNCHANGED <<answers, params, bootNic>>
      BY <1>6 DEF Crash, callVars, IInv, TypeOK
    <2> QED BY <2>1 DEF Owns, Stopped, BootParamsOf, Running, Storing
  <1> QED BY <1>1, <1>2, <1>3, <1>4, <1>5, <1>6, WhoMoves DEF Local

(* What a call leaves in the file stays there, or a later writer has put   *)
(* its own there, is putting it there, or was stopped.                     *)
LEMMA StoredInvKept ==
    ASSUME IInv, StoredInv, [Next]_vars
    PROVE  StoredInv'
  <1> SUFFICES ASSUME NEW c \in Call, NEW p \in Payload, Owns(c, p)'
               PROVE  \/ file'[mac'[c]].content = p
                      \/ \E d \in Call \ {c} :
                            /\ mac'[d] = mac'[c]
                            /\ Owns(d, file[mac[c]].content)' \/ Stopped(d)'
    BY DEF StoredInv
  <1> DEFINE x == file[mac[c]].content
  <1>1. CASE WriteFile(c)
    <2>1. /\ mac[c] \in Mac /\ UNCHANGED <<answers, mac, params, bootNic>>
          /\ answers[c] = <<>>
      BY <1>1 DEF WriteFile, callVars, IInv, TypeOK, CallInv, Asking, Running, Storing
    <2>2. pc'[c] = "stored" /\ BootParamsOf(c) = p
      BY <2>1, NotEmpty DEF Owns, BootParamsOf
    <2>3. file' = [file EXCEPT ![mac[c]] = Store!Wrote(@, BootParamsOf(c))]
      BY <1>1, <2>2 DEF WriteFile, IInv, TypeOK
    <2> QED BY <2>1, <2>2, <2>3 DEF Store!Wrote, IInv, TypeOK
  <1>2. CASE ~ WriteFile(c)
    <2>1. Owns(c, p) /\ mac[c] \in Mac /\ mac'[c] = mac[c]
      <3>1. Owns(c, p)
        BY <1>2, OwnsKept
      <3>2. pc[c] # "idle"
        BY <3>1, NotEmpty DEF Owns, IInv, CallInv
      <3> QED BY <3>1, <3>2, MacStays DEF IInv, CallInv
    <2>2. CASE \E d \in Call \ {c} : mac[d] = mac[c] /\ (OpenFile(d) \/ WriteFile(d))
      <3>1. PICK d \in Call \ {c} : mac[d] = mac[c] /\ (OpenFile(d) \/ WriteFile(d))
        BY <2>2
      <3>2. mac' = mac /\ params' = params /\ bootNic' = bootNic
        BY <3>1 DEF OpenFile, WriteFile, callVars
      <3>3. CASE pc'[d] \in {"write", "unstored"}
        BY <3>1, <3>2, <3>3 DEF Stopped
      <3>4. CASE pc'[d] \notin {"write", "unstored"}
        <4>1. /\ pc'[d] = "stored"
              /\ file' = [file EXCEPT ![mac[d]] = Store!Wrote(@, BootParamsOf(d))]
          BY <3>1, <3>4 DEF OpenFile, WriteFile, IInv, TypeOK
        <4>2. file'[mac[c]].content = BootParamsOf(d)
          BY <2>1, <3>1, <4>1 DEF Store!Wrote, IInv, TypeOK
        <4>3. Owns(d, file[mac[c]].content)'
          BY <2>1, <3>2, <4>1, <4>2 DEF Owns, BootParamsOf
        <4> QED BY <2>1, <3>1, <3>2, <4>3
      <3> QED BY <3>3, <3>4
    <2>3. CASE ~ \E d \in Call \ {c} : mac[d] = mac[c] /\ (OpenFile(d) \/ WriteFile(d))
      <3>1. file'[mac[c]].content = x \/ OpenFile(c)
        <4>1. CASE file' = file
          BY <4>1
        <4>2. CASE file' # file /\ ~ OpenFile(c)
          <5>1. PICK e \in Call : OpenFile(e) \/ WriteFile(e)
            BY <4>2, FileChanges
          <5>2. CASE e = c
            BY <1>2, <4>2, <5>1, <5>2
          <5>3. CASE e # c
            <6>1. mac[e] # mac[c]
              BY <2>3, <5>1, <5>3, Zenon
            <6> QED BY <2>1, <5>1, <6>1 DEF OpenFile, WriteFile, IInv, TypeOK
          <5> QED BY <5>2, <5>3
        <4> QED BY <4>1, <4>2
      <3>2. ~ OpenFile(c)
        <4> SUFFICES ASSUME OpenFile(c) PROVE FALSE
          OBVIOUS
        <4>1. answers[c] = <<>> /\ pc[c] = "open"
          BY DEF OpenFile, IInv, CallInv, TypeOK, Asking, Running, Storing
        <4> QED BY <2>1, <4>1, NotEmpty DEF Owns
      <3>3. CASE x = p
        BY <2>1, <3>1, <3>2, <3>3
      <3>4. CASE x # p
        <4>1. PICK d \in Call \ {c} : mac[d] = mac[c] /\ (Owns(d, x) \/ Stopped(d))
          BY <2>1, <3>4 DEF StoredInv
        <4>2. ~ WriteFile(d)
          BY <2>3, <4>1
        <4>3. mac'[d] = mac[d]
          BY <2>1, <4>1, MacStays, BootParamsAssumption DEF IInv, CallInv
        <4>4. Stopped(d) => Stopped(d)'
          BY <4>2, OwnsKept
        <4>5. Owns(d, x) => Owns(d, x)' \/ Stopped(d)'
          <5>1. \A v : Owns(d, v) => Owns(d, v)' \/ Stopped(d)'
            BY <4>2, OwnsKept
          <5>2. x' = x
            BY <2>1, <3>1, <3>2
          <5>3. Owns(d, x)' <=> \E v : v = x /\ Owns(d, v)'
            BY <5>2 DEF Owns, BootParamsOf
          <5> HIDE DEF x
          <5> QED BY <5>1, <5>3
        <4> QED BY <2>1, <3>1, <3>2, <4>1, <4>3, <4>4, <4>5
      <3> QED BY <3>3, <3>4
    <2> QED BY <2>2, <2>3
  <1> QED BY <1>1, <1>2

(* After a fresh answer the file holds its params or those of a later      *)
(* writer, with any calls, timeouts, failures of the disk and crashes.     *)
THEOREM FreshStored == Spec => []FreshIsStored
  <1>1. Init => StoredInv
    BY NotEmpty DEF Init, StoredInv, Owns
  <1>2. IInv /\ StoredInv /\ [Next]_vars => StoredInv'
    BY StoredInvKept
  <1>3. StoredInv => FreshIsStored
    BY DEF StoredInv, FreshIsStored, Owns, Stopped
  <1> QED BY <1>1, <1>2, <1>3, Invariance, PTL DEF Spec
===============================================================================
