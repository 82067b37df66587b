--------------------------- MODULE BootFilesProofs ----------------------------
(***************************************************************************)
(* Proofs about BootFiles for any number of calls, boot modules and        *)
(* versions.                                                               *)
(***************************************************************************)
EXTENDS BootFiles, FiniteSetTheorems, TLAPS

-------------------------------------------------------------------------------
(* Images and files.                                                       *)

LEMMA BootFsFinite == IsFiniteSet(BootFs)
  <1>1. IsFiniteSet({"net"})
    BY FS_Singleton
  <1>2. IsFiniteSet({"net"} \cup {"hash"})
    BY <1>1, FS_AddElement
  <1>3. IsFiniteSet(({"net"} \cup {"hash"}) \cup Module)
    BY <1>2, BootFilesAssumption, FS_Union
  <1>4. BootFs = ({"net"} \cup {"hash"}) \cup Module
    BY DEF BootFs
  <1> QED BY <1>3, <1>4

(* The length of an image is a natural number.                             *)
LEMMA Lengths ==
    /\ \A i \in Image : SizeOf[i.ver] + Cardinality(i.lists.names) \in Nat \ {0}
    /\ \A v \in Version : Plain(v) \in Image
    /\ \A v \in Version : SizeOf[v] + Cardinality(Plain(v).lists.names) = SizeOf[v]
    /\ \A j \in Job, list \in Listing : Script(j, list) \in Image
  <1>2. ASSUME NEW i \in Image PROVE SizeOf[i.ver] + Cardinality(i.lists.names) \in Nat \ {0}
    <2>1. SizeOf[i.ver] \in Nat \ {0}
      BY BootFilesAssumption DEF Image, Version
    <2>2. IsFiniteSet(i.lists.names)
      BY BootFsFinite, FS_Subset DEF Image, Listing
    <2>3. Cardinality(i.lists.names) \in Nat
      BY <2>2, FS_CardinalityType
    <2> QED BY <2>1, <2>3
  <1>3. ASSUME NEW v \in Version PROVE Plain(v) \in Image
    BY DEF Plain, Image, Listing, NoListing
  <1>4. ASSUME NEW v \in Version PROVE SizeOf[v] + Cardinality(Plain(v).lists.names) = SizeOf[v]
    <2>1. SizeOf[v] \in Nat
      BY BootFilesAssumption DEF Version
    <2>2. Cardinality(Plain(v).lists.names) = 0
      BY FS_EmptySet DEF Plain, NoListing
    <2> QED BY <2>1, <2>2
  <1>5. ASSUME NEW j \in Job, NEW list \in Listing PROVE Script(j, list) \in Image
    BY DEF Script, Image, Job, Listing, NoListing
  <1> QED BY <1>2, <1>3, <1>4, <1>5

LEMMA NoListingIs == NoListing \in Listing /\ NoListing.names = {} /\ NoListing.whole
  BY DEF NoListing, Listing

(* The operations on a file keep its type.                                 *)
LEMMA FileTypes ==
    /\ Store!Absent \in Store!File /\ Store!Absent.content = NoImage /\ ~ Store!Absent.exists
    /\ Store!Opened \in Store!File /\ Store!Opened.content = NoImage /\ Store!Opened.exists
    /\ \A i \in Image : /\ Store!Holding(i) \in Store!File
                        /\ Store!Holding(i).content = i /\ Store!Holding(i).exists
    /\ \A f \in Store!File, i \in Image :
          /\ Store!Wrote(f, i) \in Store!File
          /\ Store!Wrote(f, i).content = i /\ Store!Wrote(f, i).exists
  BY Lengths
  DEF Store!File, Store!Absent, Store!Opened, Store!Holding, Store!Wrote

-------------------------------------------------------------------------------
(* Type correctness.                                                       *)

Pc == Stage \cup {"idle", "params", "find", "ok", "done"}

LEMMA NamesApart ==
    /\ BootFs \subseteq Path /\ Scripts \subseteq Path /\ Module \subseteq BootFs
    /\ \A m \in Module : m \notin {"cache", "net", "hash", "menu", "ipxe"}
    /\ "cache" \notin BootFs /\ "menu" \notin BootFs /\ "ipxe" \notin BootFs
    /\ {"cache", "net", "hash", "menu", "ipxe"} \subseteq Path
  BY BootFilesAssumption DEF BootFs, Path, Scripts

LEMMA StageTypes ==
    ASSUME NEW j \in Job \cup {NoJob}
    PROVE  /\ NoJob.ver = 0 /\ NoJob \notin Job
           /\ \A st \in Pc : (st = "modules" /\ j = NoJob) \/ FilesOf(st, j) \in SUBSET Path
           /\ j \in Job => /\ ModulesOf[j.ver] \in SUBSET Module
                           /\ ModulesStage(j) \in {"find", "modules"}
                           /\ AfterCache(j) \in {"net", "find", "modules"}
                           /\ \A st \in Stage : \A bad : AfterStage(st, j, bad) \in Pc
  <1>1. NoJob.ver = 0 /\ NoJob \notin Job
    BY DEF NoJob, Job, Os
  <1>2. j \in Job => ModulesOf[j.ver] \in SUBSET Module
    BY BootFilesAssumption DEF Job
  <1>3. ASSUME NEW st \in Pc PROVE (st = "modules" /\ j = NoJob) \/ FilesOf(st, j) \in SUBSET Path
    BY <1>2, NamesApart DEF Pc, Stage, FilesOf
  <1>4. ModulesStage(j) \in {"find", "modules"} /\ AfterCache(j) \in {"net", "find", "modules"}
    BY DEF ModulesStage, AfterCache
  <1>5. ASSUME NEW st \in Stage, NEW bad PROVE AfterStage(st, j, bad) \in Pc
    BY <1>4 DEF AfterStage, Stage, Pc
  <1> QED BY <1>1, <1>2, <1>3, <1>4, <1>5

-------------------------------------------------------------------------------
(* What holds of one call: st, j, td, op, bad and list stand for its pc,   *)
(* job, todo, opened, failed and found, and f for the files.               *)

Shape(st, j, td, op) ==
    /\ st \in {"idle", "params", "done"} <=> j = NoJob
    /\ td \cup op \subseteq FilesOf(st, j)
    /\ td \cap op = {}
    /\ st \in Stage => td \cup op # {}

\* Files this call has opened or written are there; nobody removes any.
Facts(st, j, td, op, bad, list, f) ==
    /\ \A p \in op \cup list.names : f[p].exists
    /\ list.whole => ("hash" \in list.names => "net" \in list.names)
    /\ st = "cache" => bad = {}
    /\ st = "hash" => f["net"].exists
    /\ st = "modules" => \A p \in ModulesOf[j.ver] : p \in td \cup op \cup bad \/ f[p].exists
    /\ st = "find" => \A p \in ModulesOf[j.ver] : f[p].exists
    /\ st \in {"menu", "ipxe", "ok"} /\ list.whole => ModulesOf[j.ver] \subseteq list.names
    /\ st \in {"ipxe", "ok"} => f["menu"].exists
    /\ st = "ok" => f["ipxe"].exists

CallInv ==
    \A c \in Call : /\ Shape(pc[c], job[c], todo[c], opened[c])
                    /\ Facts(pc[c], job[c], todo[c], opened[c], failed[c], found[c], file)
                    /\ written[c] \subseteq opened[c]

ScriptOK(s, f) ==
    /\ \A q \in s.lists.names : f[q].exists
    /\ s.lists.whole /\ ~ DisableBootTimeFiles =>
          /\ ModulesOf[s.ver] \subseteq s.lists.names
          /\ "hash" \in s.lists.names => "net" \in s.lists.names

FileInv ==
    /\ file["hash"].exists => file["net"].exists
    /\ file["cache"].content # NoImage =>
          /\ file["cache"].content.ver \in Version
          /\ file["cache"].content = Plain(file["cache"].content.ver)
    /\ \A p \in Scripts : file[p].content # NoImage => ScriptOK(file[p].content, file)

Inv == TypeOK /\ CallInv /\ FileInv

LEMMA FilesOfIs ==
    ASSUME NEW j
    PROVE  /\ \A st \in {"cache", "net", "hash", "menu", "ipxe"} : FilesOf(st, j) = {st}
           /\ FilesOf("modules", j) = ModulesOf[j.ver]
           /\ \A st \in {"idle", "params", "find", "ok", "done"} : FilesOf(st, j) = {}
  BY DEF FilesOf

LEMMA AfterStageIs ==
    ASSUME NEW j, NEW bad
    PROVE  /\ AfterStage("cache", j, bad) = IF "cache" \in bad THEN "done" ELSE AfterCache(j)
           /\ AfterStage("net", j, bad) = IF "net" \in bad THEN ModulesStage(j) ELSE "hash"
           /\ AfterStage("hash", j, bad) = ModulesStage(j)
           /\ AfterStage("modules", j, bad) = IF bad \cap Module # {} THEN "done" ELSE "find"
           /\ AfterStage("menu", j, bad) = IF "menu" \in bad THEN "done" ELSE "ipxe"
           /\ AfterStage("ipxe", j, bad) = IF "ipxe" \in bad THEN "done" ELSE "ok"
  BY DEF AfterStage

(* A call that enters the boot modules finds none of them written, and one *)
(* that skips them needs none.                                             *)
LEMMA EnterModules ==
    ASSUME NEW j \in Job, NEW bad, NEW list, NEW f,
           \A p \in list.names : f[p].exists,
           list.whole => ("hash" \in list.names => "net" \in list.names)
    PROVE  LET st == ModulesStage(j) IN
           /\ st \in Pc /\ st # "done"
           /\ Shape(st, j, FilesOf(st, j), {})
           /\ Facts(st, j, FilesOf(st, j), {}, bad, list, f)
  <1>1. CASE ModulesOf[j.ver] = {}
    <2>1. ModulesStage(j) = "find"
      BY <1>1 DEF ModulesStage
    <2> QED BY <1>1, <2>1, FilesOfIs, StageTypes DEF Shape, Facts, Pc, Stage
  <1>2. CASE ModulesOf[j.ver] # {}
    <2>1. ModulesStage(j) = "modules"
      BY <1>2 DEF ModulesStage
    <2> QED BY <1>2, <2>1, FilesOfIs, StageTypes DEF Shape, Facts, Pc, Stage
  <1> QED BY <1>1, <1>2

(* When the last file of a stage is written or has failed, the next stage  *)
(* finds what it needs.                                                    *)
LEMMA NextStage ==
    ASSUME NEW st \in Stage, NEW j \in Job, NEW td, NEW op, NEW old, NEW bad, NEW list, NEW f,
           NEW p, Shape(st, j, td, op), Facts(st, j, td, op, old, list, f),
           td \cup op = {p}, old \subseteq bad, p \in bad \/ f[p].exists
    PROVE  LET n == AfterStage(st, j, bad) IN
           /\ n \in Pc
           /\ n # "done" => /\ Shape(n, j, FilesOf(n, j), {})
                            /\ Facts(n, j, FilesOf(n, j), {}, bad, list, f)
  <1> DEFINE n == AfterStage(st, j, bad)
             OK == /\ n \in Pc
                   /\ n # "done" => /\ Shape(n, j, FilesOf(n, j), {})
                                    /\ Facts(n, j, FilesOf(n, j), {}, bad, list, f)
  <1>1. /\ \A q \in list.names : f[q].exists
        /\ list.whole => ("hash" \in list.names => "net" \in list.names)
        /\ j # NoJob
    BY StageTypes DEF Facts
  <1>2. p \in FilesOf(st, j)
    BY DEF Shape
  <1>3. /\ ModulesStage(j) \in Pc /\ ModulesStage(j) # "done"
        /\ Shape(ModulesStage(j), j, FilesOf(ModulesStage(j), j), {})
        /\ Facts(ModulesStage(j), j, FilesOf(ModulesStage(j), j), {}, bad, list, f)
    BY <1>1, EnterModules
  <1>4. CASE n = ModulesStage(j)
    BY <1>3, <1>4
  <1>5. CASE n = "done"
    BY <1>5 DEF Pc
  <1>6. CASE n = "net"
    BY <1>1, <1>6, FilesOfIs DEF Pc, Stage, Shape, Facts
  <1>7. CASE st = "cache"
    BY <1>4, <1>5, <1>6, <1>7, AfterStageIs DEF AfterCache
  <1>8. CASE st = "net"
    <2>1. CASE n = "hash" /\ "net" \notin bad
      <3>1. f["net"].exists
        BY <1>2, <1>8, <2>1, FilesOfIs
      <3> QED BY <1>1, <2>1, <3>1, FilesOfIs DEF Pc, Stage, Shape, Facts
    <2> QED BY <1>4, <1>8, <2>1, AfterStageIs
  <1>9. CASE st = "hash"
    BY <1>4, <1>9, AfterStageIs
  <1>10. CASE st = "modules"
    <2>1. CASE n = "find" /\ bad \cap Module = {}
      <3>1. ModulesOf[j.ver] \subseteq Module
        BY StageTypes
      <3>2. \A q \in ModulesOf[j.ver] : f[q].exists
        BY <1>10, <2>1, <3>1 DEF Facts
      <3> QED BY <1>1, <2>1, <3>2, FilesOfIs DEF Pc, Stage, Shape, Facts
    <2> QED BY <1>5, <1>10, <2>1, AfterStageIs
  <1>11. CASE st = "menu"
    <2>1. CASE n = "ipxe" /\ "menu" \notin bad
      <3>1. f["menu"].exists
        BY <1>2, <1>11, <2>1, FilesOfIs
      <3>2. list.whole => ModulesOf[j.ver] \subseteq list.names
        BY <1>11 DEF Facts
      <3> QED BY <1>1, <2>1, <3>1, <3>2, FilesOfIs DEF Pc, Stage, Shape, Facts
    <2> QED BY <1>5, <1>11, <2>1, AfterStageIs
  <1>12. CASE st = "ipxe"
    <2>1. CASE n = "ok" /\ "ipxe" \notin bad
      <3>1. f["ipxe"].exists
        BY <1>2, <1>12, <2>1, FilesOfIs
      <3>2. (list.whole => ModulesOf[j.ver] \subseteq list.names) /\ f["menu"].exists
        BY <1>12 DEF Facts
      <3> QED BY <1>1, <2>1, <3>1, <3>2, FilesOfIs DEF Pc, Stage, Shape, Facts
    <2> QED BY <1>5, <1>12, <2>1, AfterStageIs
  <1> QED BY <1>7, <1>8, <1>9, <1>10, <1>11, <1>12 DEF Stage

-------------------------------------------------------------------------------
(* The steps.                                                              *)

\* No file is removed, and every file is one.
FilesStay ==
    /\ file' \in [Path -> Store!File]
    /\ \A p \in Path : file[p].exists => file'[p].exists

LEMMA CallTypes ==
    ASSUME Inv, NEW c \in Call
    PROVE  /\ pc[c] \in Pc /\ job[c] \in Job \cup {NoJob}
           /\ pc[c] \in Pc \ {"idle", "params", "done"} => job[c] \in Job
           /\ pc[c] \in Stage => pc[c] \in Pc \ {"idle", "params", "done"}
           /\ todo[c] \cup opened[c] # {} => pc[c] \in Stage
           /\ todo[c] \in SUBSET Path /\ opened[c] \in SUBSET Path
           /\ failed[c] \in SUBSET Path /\ found[c] \in Listing
           /\ Shape(pc[c], job[c], todo[c], opened[c])
           /\ Facts(pc[c], job[c], todo[c], opened[c], failed[c], found[c], file)
           /\ written[c] \subseteq opened[c]
  <1>1. /\ pc[c] \in Pc /\ job[c] \in Job \cup {NoJob}
        /\ todo[c] \in SUBSET Path /\ opened[c] \in SUBSET Path
        /\ failed[c] \in SUBSET Path /\ found[c] \in Listing
    BY DEF Inv, TypeOK, Pc
  <1>2. /\ Shape(pc[c], job[c], todo[c], opened[c])
        /\ Facts(pc[c], job[c], todo[c], opened[c], failed[c], found[c], file)
        /\ written[c] \subseteq opened[c]
    BY DEF Inv, CallInv
  <1>3. pc[c] \in Pc \ {"idle", "params", "done"} => job[c] \in Job
    BY <1>1, <1>2 DEF Shape
  <1>4. pc[c] \in Stage => pc[c] \in Pc \ {"idle", "params", "done"}
    BY <1>1 DEF Stage
  <1>5. todo[c] \cup opened[c] # {} => pc[c] \in Stage
    <2>1. pc[c] \in {"idle", "params", "find", "ok", "done"} => todo[c] \cup opened[c] = {}
      BY <1>2, FilesOfIs DEF Shape
    <2> QED BY <1>1, <2>1 DEF Pc
  <1> QED BY <1>1, <1>2, <1>3, <1>4, <1>5

\* What a call relies on stays.
LEMMA FactsStay ==
    ASSUME Inv, FilesStay, NEW c \in Call
    PROVE  Facts(pc[c], job[c], todo[c], opened[c], failed[c], found[c], file')
  <1>1. opened[c] \cup found[c].names \subseteq Path
    BY CallTypes, NamesApart DEF Listing
  <1>2. pc[c] \in {"modules", "find"} => ModulesOf[job[c].ver] \subseteq Path
    BY CallTypes, StageTypes, NamesApart DEF Pc, Stage
  <1>3. "net" \in Path /\ "menu" \in Path /\ "ipxe" \in Path
    BY NamesApart
  <1>4. Facts(pc[c], job[c], todo[c], opened[c], failed[c], found[c], file)
    BY CallTypes
  <1> QED BY <1>1, <1>2, <1>3, <1>4 DEF Facts, FilesStay

\* The variables that a call does not share.
CallTypeOK ==
    /\ pc \in [Call -> Pc]
    /\ job \in [Call -> Job \cup {NoJob}]
    /\ todo \in [Call -> SUBSET Path]
    /\ opened \in [Call -> SUBSET Path]
    /\ written \in [Call -> SUBSET Path]
    /\ failed \in [Call -> SUBSET Path]
    /\ found \in [Call -> Listing]

SharedTypeOK ==
    /\ current \in Version
    /\ file \in [Path -> Store!File]
    /\ assembled \subseteq Version
    /\ faults \in 0..MaxFaults

LEMMA TypeParts == TypeOK <=> CallTypeOK /\ SharedTypeOK /\ alone \in [Call -> BOOLEAN]
  BY DEF TypeOK, CallTypeOK, SharedTypeOK, Pc

LEMMA TrackTyped ==
    ASSUME alone \in [Call -> BOOLEAN], Track
    PROVE  alone' \in [Call -> BOOLEAN]
  BY DEF Track

LEMMA GoToStep ==
    ASSUME Inv, FilesStay, NEW c \in Call, NEW st \in Pc, NEW j \in Job \cup {NoJob},
           NEW bad \in SUBSET Path, NEW list \in Listing,
           GoTo(c, st, j, bad, list), j = NoJob => st = "done",
           st # "done" => /\ Shape(st, j, FilesOf(st, j), {})
                          /\ Facts(st, j, FilesOf(st, j), {}, bad, list, file')
    PROVE  CallTypeOK' /\ CallInv'
  <1>1. st # "modules" \/ j \in Job
    OBVIOUS
  <1>2. TypeOK
    BY DEF Inv
  <1>3. CallTypeOK'
    <2>1. FilesOf(st, j) \in SUBSET Path
      BY <1>1, StageTypes
    <2> QED BY <1>2, <2>1, NoListingIs DEF CallTypeOK, TypeOK, GoTo, Pc
  <1>4. ASSUME NEW d \in Call, d # c
        PROVE  /\ Shape(pc'[d], job'[d], todo'[d], opened'[d])
               /\ Facts(pc'[d], job'[d], todo'[d], opened'[d], failed'[d], found'[d], file')
               /\ written'[d] \subseteq opened'[d]
    <2>1. /\ pc'[d] = pc[d] /\ job'[d] = job[d] /\ todo'[d] = todo[d]
          /\ opened'[d] = opened[d] /\ failed'[d] = failed[d] /\ found'[d] = found[d]
          /\ written'[d] = written[d]
      BY <1>2, <1>4 DEF GoTo, TypeOK
    <2> QED BY <2>1, CallTypes, FactsStay
  <1>5. CASE st = "done"
    <2>0. /\ pc'[c] = "done" /\ job'[c] = NoJob /\ todo'[c] = FilesOf(st, j)
          /\ opened'[c] = {} /\ failed'[c] = {} /\ found'[c] = NoListing
          /\ written'[c] = {}
      BY <1>2, <1>5 DEF GoTo, TypeOK
    <2>1. todo'[c] = {}
      BY <1>5, <2>0, FilesOfIs
    <2>2. /\ Shape(pc'[c], job'[c], todo'[c], opened'[c])
          /\ Facts(pc'[c], job'[c], todo'[c], opened'[c], failed'[c], found'[c], file')
      BY <2>0, <2>1 DEF Shape, Facts, Stage, NoListing
    <2> QED BY <1>3, <1>4, <2>0, <2>2 DEF CallInv
  <1>6. CASE st # "done"
    <2>1. /\ pc'[c] = st /\ job'[c] = j /\ todo'[c] = FilesOf(st, j) /\ opened'[c] = {}
          /\ failed'[c] = bad /\ found'[c] = list /\ written'[c] = {}
      BY <1>2, <1>6 DEF GoTo, TypeOK
    <2> QED BY <1>3, <1>4, <1>6, <2>1 DEF CallInv
  <1> QED BY <1>5, <1>6

\* A step that changes files, and one call's record of them.
LEMMA SameStage ==
    ASSUME Inv, FilesStay, NEW c \in Call, CallTypeOK', UNCHANGED <<pc, job, found>>,
           \A d \in Call : d # c =>
              /\ todo'[d] = todo[d] /\ opened'[d] = opened[d] /\ failed'[d] = failed[d]
              /\ written'[d] = written[d],
           Shape(pc[c], job[c], todo'[c], opened'[c]), written'[c] \subseteq opened'[c],
           \A p \in opened'[c] : p \in opened[c] \/ file'[p].exists,
           pc[c] = "cache" => failed'[c] = {},
           pc[c] = "modules" =>
              \A p \in todo[c] \cup opened[c] \cup failed[c] :
                 p \in todo'[c] \cup opened'[c] \cup failed'[c] \/ file'[p].exists
    PROVE  CallInv'
  <1>1. ASSUME NEW d \in Call, d # c
        PROVE  /\ Shape(pc'[d], job'[d], todo'[d], opened'[d])
               /\ Facts(pc'[d], job'[d], todo'[d], opened'[d], failed'[d], found'[d], file')
               /\ written'[d] \subseteq opened'[d]
    BY <1>1, CallTypes, FactsStay
  <1>2. Facts(pc'[c], job'[c], todo'[c], opened'[c], failed'[c], found'[c], file')
    <2>1. Facts(pc[c], job[c], todo[c], opened[c], failed[c], found[c], file')
      BY FactsStay
    <2> QED BY <2>1 DEF Facts
  <1> QED BY <1>1, <1>2 DEF CallInv

(* Files that stay as they are.                                            *)
LEMMA SameFiles ==
    ASSUME Inv, UNCHANGED file
    PROVE  FilesStay /\ FileInv'
  BY DEF Inv, TypeOK, FilesStay, FileInv, ScriptOK

(* A file that one call finishes, well or not.                             *)
LEMMA FileDoneStep ==
    ASSUME Inv, FilesStay, NEW c \in Call, NEW p \in todo[c] \cup opened[c],
           NEW bad \in SUBSET Path, failed[c] \subseteq bad, p \in bad \/ file'[p].exists,
           FileDone(c, p, bad)
    PROVE  CallTypeOK' /\ CallInv' /\ alone' \in [Call -> BOOLEAN]
  <1>0. /\ pc[c] \in Stage /\ job[c] \in Job /\ p \in Path
        /\ found[c] \in Listing
        /\ alone' \in [Call -> BOOLEAN]
    BY CallTypes, TrackTyped DEF FileDone, Inv, TypeOK
  <1>1. CASE todo[c] \cup opened[c] = {p}
    <2>1. /\ AfterStage(pc[c], job[c], bad) \in Pc
          /\ AfterStage(pc[c], job[c], bad) # "done" =>
                LET n == AfterStage(pc[c], job[c], bad) IN
                /\ Shape(n, job[c], FilesOf(n, job[c]), {})
                /\ Facts(n, job[c], FilesOf(n, job[c]), {}, bad, found[c], file')
      BY <1>0, <1>1, CallTypes, FactsStay, NextStage
    <2>2. GoTo(c, AfterStage(pc[c], job[c], bad), job[c], bad, found[c])
      BY <1>1 DEF FileDone
    <2>3. job[c] # NoJob
      BY <1>0, StageTypes
    <2> QED BY <1>0, <2>1, <2>2, <2>3, GoToStep
  <1>2. CASE todo[c] \cup opened[c] # {p}
    <2>1. /\ todo' = [todo EXCEPT ![c] = @ \ {p}]
          /\ opened' = [opened EXCEPT ![c] = @ \ {p}]
          /\ written' = [written EXCEPT ![c] = @ \ {p}]
          /\ failed' = [failed EXCEPT ![c] = bad]
          /\ UNCHANGED <<pc, job, found>>
      BY <1>2 DEF FileDone
    <2>2. CallTypeOK'
      BY <2>1 DEF CallTypeOK, Inv, TypeOK, Pc
    <2>3. /\ todo'[c] = todo[c] \ {p} /\ opened'[c] = opened[c] \ {p} /\ failed'[c] = bad
          /\ written'[c] = written[c] \ {p}
          /\ \A d \in Call : d # c =>
                /\ todo'[d] = todo[d] /\ opened'[d] = opened[d] /\ failed'[d] = failed[d]
                /\ written'[d] = written[d]
      BY <2>1 DEF Inv, TypeOK
    <2>4. todo'[c] \cup opened'[c] # {}
      BY <1>2, <2>3
    <2>5. Shape(pc[c], job[c], todo'[c], opened'[c])
      BY <2>3, <2>4, CallTypes DEF Shape
    <2>6. /\ \A q \in opened'[c] : q \in opened[c] \/ file'[q].exists
          /\ \A q \in todo[c] \cup opened[c] \cup failed[c] :
                q \in todo'[c] \cup opened'[c] \cup failed'[c] \/ file'[q].exists
      BY <2>3
    <2>7. pc[c] # "cache"
      <3>1. pc[c] = "cache" => todo[c] \cup opened[c] \subseteq {"cache"}
        BY CallTypes, FilesOfIs DEF Shape
      <3> QED BY <1>2, <3>1
    <2>8. written'[c] \subseteq opened'[c]
      BY <2>3, CallTypes
    <2>9. CallInv'
      BY <2>1, <2>2, <2>3, <2>5, <2>6, <2>7, <2>8, SameStage
    <2> QED BY <1>0, <2>2, <2>9
  <1> QED BY <1>1, <1>2

(* What a call writes into a script is true of the files.                  *)
LEMMA WriteStep ==
    ASSUME Inv, NEW c \in Call, NEW p \in opened[c],
           file' = [file EXCEPT ![p] = Store!Wrote(@, ImageFor(c, p))]
    PROVE  /\ FilesStay /\ FileInv' /\ file'[p].exists /\ file'[p].content = ImageFor(c, p)
           /\ \A q \in Path : file'[q].exists <=> file[q].exists
           /\ \A q \in Path : q # p => file'[q] = file[q]
  <1>0. /\ pc[c] \in Stage /\ job[c] \in Job /\ p \in Path /\ file \in [Path -> Store!File]
        /\ found[c] \in Listing /\ file[p].exists /\ job[c].ver \in Version
        /\ p \in FilesOf(pc[c], job[c])
        /\ Facts(pc[c], job[c], todo[c], opened[c], failed[c], found[c], file)
    <2>1. /\ pc[c] \in Stage /\ job[c] \in Job /\ p \in Path /\ found[c] \in Listing
          /\ Shape(pc[c], job[c], todo[c], opened[c])
          /\ Facts(pc[c], job[c], todo[c], opened[c], failed[c], found[c], file)
      BY CallTypes
    <2> QED BY <2>1 DEF Inv, TypeOK, Shape, Facts, Job
  <1>1. ImageFor(c, p) \in Image
    BY <1>0, Lengths DEF ImageFor
  <1>2. /\ file'[p] = Store!Wrote(file[p], ImageFor(c, p))
        /\ \A q \in Path : q # p => file'[q] = file[q]
        /\ DOMAIN file' = Path
    BY <1>0
  <1>3. /\ file'[p] \in Store!File /\ file'[p].exists
        /\ file'[p].content = ImageFor(c, p)
    BY <1>0, <1>1, <1>2, FileTypes
  <1>4. file' \in [Path -> Store!File]
    BY <1>0, <1>2, <1>3
  <1>5. \A q \in Path : file'[q].exists <=> file[q].exists
    BY <1>0, <1>2, <1>3
  <1>6. file'["hash"].exists => file'["net"].exists
    BY <1>5, NamesApart DEF Inv, FileInv
  <1>7. file'["cache"].content # NoImage =>
          /\ file'["cache"].content.ver \in Version
          /\ file'["cache"].content = Plain(file'["cache"].content.ver)
    <2>1. CASE p = "cache"
      <3>1. file'["cache"].content = Plain(job[c].ver)
        BY <1>3, <2>1 DEF ImageFor, Scripts
      <3>2. Plain(job[c].ver).ver = job[c].ver
        BY DEF Plain
      <3> QED BY <1>0, <3>1, <3>2
    <2>2. CASE p # "cache"
      BY <1>2, <2>2, NamesApart DEF Inv, FileInv
    <2> QED BY <2>1, <2>2
  <1>8. ASSUME NEW q \in Scripts, file'[q].content # NoImage
        PROVE  ScriptOK(file'[q].content, file')
    <2>1. CASE q # p
      <3>1. file'[q] = file[q] /\ ScriptOK(file[q].content, file)
        BY <1>2, <1>8, <2>1, NamesApart DEF Inv, FileInv
      <3>2. file[q].content \in Image
        BY <1>0, <1>8, <3>1, NamesApart DEF Store!File
      <3> QED BY <1>5, <3>1, <3>2, NamesApart DEF ScriptOK, Image, Listing
    <2>2. CASE q = p
      <3>1. file'[q].content = Script(job[c], found[c])
        BY <1>3, <2>2 DEF ImageFor
      <3>2. pc[c] \in {"menu", "ipxe"}
        <4>1. p \in {"menu", "ipxe"}
          BY <2>2 DEF Scripts
        <4>2. pc[c] # "modules"
          <5>1. ModulesOf[job[c].ver] \subseteq Module
            BY <1>0, StageTypes
          <5> QED BY <1>0, <4>1, <5>1, NamesApart, FilesOfIs
        <4> QED BY <1>0, <4>1, <4>2, FilesOfIs DEF Stage
      <3>3. /\ found[c].whole => ModulesOf[job[c].ver] \subseteq found[c].names
            /\ found[c].whole => ("hash" \in found[c].names => "net" \in found[c].names)
            /\ \A r \in found[c].names : file'[r].exists
        BY <1>0, <1>5, <3>2, NamesApart DEF Facts, Listing
      <3>4. /\ Script(job[c], found[c]).ver = job[c].ver
            /\ ~ DisableBootTimeFiles => Script(job[c], found[c]).lists = found[c]
            /\ DisableBootTimeFiles => Script(job[c], found[c]).lists.names = {}
        BY DEF Script, NoListing
      <3> QED BY <3>1, <3>3, <3>4 DEF ScriptOK
    <2> QED BY <2>1, <2>2
  <1> QED BY <1>2, <1>3, <1>4, <1>5, <1>6, <1>7, <1>8 DEF FilesStay, FileInv

(* A file that is opened is empty, and there.                              *)
LEMMA OpenStep ==
    ASSUME Inv, NEW c \in Call, NEW p \in todo[c],
           file' = [file EXCEPT ![p] = Store!Opened]
    PROVE  /\ FilesStay /\ FileInv' /\ file'[p] = Store!Opened
           /\ \A q \in Path : q # p => file'[q] = file[q]
  <1>0. /\ pc[c] \in Stage /\ job[c] \in Job /\ p \in Path /\ file \in [Path -> Store!File]
        /\ p \in FilesOf(pc[c], job[c])
        /\ Facts(pc[c], job[c], todo[c], opened[c], failed[c], found[c], file)
    <2>1. /\ pc[c] \in Stage /\ job[c] \in Job /\ p \in Path
          /\ Shape(pc[c], job[c], todo[c], opened[c])
          /\ Facts(pc[c], job[c], todo[c], opened[c], failed[c], found[c], file)
      BY CallTypes
    <2> QED BY <2>1 DEF Inv, TypeOK, Shape
  <1>1. /\ file'[p] = Store!Opened
        /\ \A q \in Path : q # p => file'[q] = file[q]
    BY <1>0
  <1>2. FilesStay
    BY <1>0, <1>1, FileTypes DEF FilesStay
  <1>3. file'["hash"].exists => file'["net"].exists
    <2>1. CASE p = "hash"
      <3>1. pc[c] # "modules"
        <4>1. ModulesOf[job[c].ver] \subseteq Module
          BY <1>0, StageTypes
        <4> QED BY <1>0, <2>1, <4>1, NamesApart, FilesOfIs
      <3>2. pc[c] = "hash"
        BY <1>0, <2>1, <3>1, FilesOfIs DEF Stage
      <3> QED BY <1>0, <1>2, <3>2, NamesApart DEF Facts, FilesStay
    <2>2. CASE p # "hash"
      BY <1>1, <1>2, <2>2, NamesApart DEF Inv, FileInv, FilesStay
    <2> QED BY <2>1, <2>2
  <1>4. file'["cache"].content # NoImage =>
          /\ file'["cache"].content.ver \in Version
          /\ file'["cache"].content = Plain(file'["cache"].content.ver)
    BY <1>1, FileTypes, NamesApart DEF Inv, FileInv
  <1>5. ASSUME NEW q \in Scripts, file'[q].content # NoImage
        PROVE  ScriptOK(file'[q].content, file')
    <2>1. q # p
      BY <1>1, <1>5, FileTypes
    <2>2. file'[q] = file[q] /\ ScriptOK(file[q].content, file)
      BY <1>1, <1>5, <2>1, NamesApart DEF Inv, FileInv
    <2>3. file[q].content \in Image
      BY <1>0, <1>5, <2>2, NamesApart DEF Store!File
    <2> QED BY <1>2, <2>2, <2>3, NamesApart DEF ScriptOK, Image, Listing, FilesStay
  <1> QED BY <1>1, <1>2, <1>3, <1>4, <1>5 DEF FileInv

-------------------------------------------------------------------------------
(* The invariant.                                                          *)

LeftNet   == IF 1 \in Tagged THEN {"net", "hash"} ELSE {}
LeftPlain == {"cache"} \cup LeftNet \cup ModulesOf[1]
LeftList  == [names |-> LeftNet \cup ModulesOf[1], whole |-> TRUE]
LeftMenu  == Script([ver |-> 1, os |-> OsOf[1]], LeftList)

LEMMA LeftBehindIs ==
    /\ 1 \in Version /\ LeftPlain \subseteq Path \ Scripts
    /\ LeftList \in Listing
    /\ Plain(1) \in Image /\ LeftMenu \in Image
    /\ LeftBehind \in [Path -> Store!File]
    /\ \A p \in LeftPlain : LeftBehind[p] = Store!Holding(Plain(1))
    /\ \A p \in Scripts : LeftBehind[p] = Store!Holding(LeftMenu)
    /\ \A p \in Path : p \notin LeftPlain \cup Scripts => LeftBehind[p] = Store!Absent
  <1>1. 1 \in Version
    BY BootFilesAssumption DEF Version
  <1>2. ModulesOf[1] \subseteq Module /\ OsOf[1] \in Os
    BY <1>1, BootFilesAssumption
  <1>3. LeftPlain \subseteq Path \ Scripts
    BY <1>2, NamesApart DEF LeftPlain, LeftNet, Scripts
  <1>4. LeftList \in Listing
    BY <1>2 DEF LeftList, LeftNet, BootFs, Listing
  <1>5. Plain(1) \in Image /\ LeftMenu \in Image
    BY <1>1, <1>2, <1>4, Lengths DEF LeftMenu, Script, Image, Listing, NoListing
  <1>6. LeftBehind = [p \in Path |-> CASE p \in LeftPlain -> Store!Holding(Plain(1))
                                       [] p \in Scripts   -> Store!Holding(LeftMenu)
                                       [] OTHER           -> Store!Absent]
    BY DEF LeftBehind, LeftPlain, LeftNet, LeftMenu, LeftList
  <1>7. \A p \in LeftPlain : LeftBehind[p] = Store!Holding(Plain(1))
    BY <1>3, <1>6
  <1>8. \A p \in Scripts : LeftBehind[p] = Store!Holding(LeftMenu)
    BY <1>3, <1>6, NamesApart
  <1>9. \A p \in Path : p \notin LeftPlain \cup Scripts => LeftBehind[p] = Store!Absent
    BY <1>6
  <1>10. DOMAIN LeftBehind = Path
    BY <1>6
  <1>11. \A p \in Path : LeftBehind[p] \in Store!File
    BY <1>5, <1>7, <1>8, <1>9, FileTypes
  <1>12. LeftBehind \in [Path -> Store!File]
    <2>1. LeftBehind = [p \in Path |-> LeftBehind[p]]
      BY <1>6
    <2> QED BY <1>11, <2>1
  <1> QED BY <1>1, <1>3, <1>4, <1>5, <1>7, <1>8, <1>9, <1>12

LEMMA InvInit == Init => Inv
  <1> SUFFICES ASSUME Init PROVE Inv
    OBVIOUS
  <1>1. file \in [Path -> Store!File]
    BY LeftBehindIs, FileTypes DEF Init
  <1>2. TypeOK
    BY <1>1, LeftBehindIs, BootFilesAssumption DEF Init, TypeOK, Stage, Listing, NoListing
  <1>3. CallInv
    BY DEF Init, CallInv, Shape, Facts, Stage, NoListing
  <1>4. FileInv
    <2>1. CASE file = [p \in Path |-> Store!Absent]
      BY <2>1, FileTypes, NamesApart DEF FileInv
    <2>2. CASE file = LeftBehind
      <3>1. file["hash"].exists => file["net"].exists
        <4>1. CASE 1 \in Tagged
          <5>1. "net" \in LeftPlain
            BY <4>1 DEF LeftPlain, LeftNet
          <5> QED BY <2>2, <5>1, LeftBehindIs, FileTypes
        <4>2. CASE 1 \notin Tagged
          <5>1. "hash" \notin LeftPlain \cup Scripts
            BY <4>2, LeftBehindIs, BootFilesAssumption, NamesApart
            DEF LeftPlain, LeftNet, Scripts
          <5> QED BY <2>2, <5>1, LeftBehindIs, FileTypes, NamesApart
        <4> QED BY <4>1, <4>2
      <3>2. file["cache"].content = Plain(1) /\ Plain(1).ver = 1
        BY <2>2, LeftBehindIs, FileTypes DEF LeftPlain, Plain
      <3>3. ASSUME NEW p \in Scripts PROVE ScriptOK(file[p].content, file)
        <4>1. file[p].content = LeftMenu
          BY <2>2, LeftBehindIs, FileTypes
        <4>2. /\ LeftMenu.ver = 1
              /\ DisableBootTimeFiles => LeftMenu.lists.names = {}
              /\ ~ DisableBootTimeFiles => LeftMenu.lists = LeftList
          BY DEF LeftMenu, Script, NoListing
        <4>3. LeftList.names = LeftNet \cup ModulesOf[1]
          BY DEF LeftList
        <4>4. "hash" \in LeftList.names => "net" \in LeftList.names
          BY <4>3, LeftBehindIs, BootFilesAssumption, NamesApart DEF LeftNet
        <4>5. \A q \in LeftList.names : file[q].exists
          BY <2>2, <4>3, LeftBehindIs, FileTypes DEF LeftPlain
        <4> QED BY <4>1, <4>2, <4>3, <4>4, <4>5 DEF ScriptOK
      <3> QED BY <3>1, <3>2, <3>3, LeftBehindIs DEF FileInv
    <2> QED BY <2>1, <2>2 DEF Init
  <1> QED BY <1>2, <1>3, <1>4 DEF Inv

(* What the walk finds.                                                    *)
There == {p \in BootFs : file[p].exists}

LEMMA FindsIs ==
    ASSUME NEW c \in Call, FindFiles(c)
    PROVE  \E list \in Listing : /\ GoTo(c, "menu", job[c], failed[c], list)
                                 /\ list.names \subseteq There
                                 /\ list.whole => list.names = There
  <1> DEFINE Found(l) == GoTo(c, "menu", job[c], failed[c], l)
  <1>1. \/ Found([names |-> There, whole |-> TRUE])
        \/ \E names \in SUBSET There : Found([names |-> names, whole |-> FALSE])
    BY DEF FindFiles, There
  <1>2. \E l \in Listing : /\ Found(l)
                           /\ l.names \subseteq There
                           /\ l.whole => l.names = There
    <2>1. \A names \in SUBSET There, whole \in BOOLEAN :
             LET l == [names |-> names, whole |-> whole]
             IN l \in Listing /\ l.names = names /\ l.whole = whole
      BY DEF There, Listing
    <2> HIDE DEF Found
    <2> QED BY <1>1, <2>1
  <1> QED BY <1>2

(* The steps of a call keep the invariant.                                 *)
LEMMA CallStep ==
    ASSUME Inv, NEW c \in Call,
           \/ Begin(c) \/ Resolve(c) \/ FallBack(c) \/ FindFiles(c) \/ Return(c)
           \/ MkdirFails(c)
           \/ \E p \in Path : \/ OpenFile(c, p) \/ WriteFile(c, p)
                              \/ FileWritten(c, p) \/ FileFails(c, p)
    PROVE  Inv'
  <1>0. /\ current \in Version /\ file \in [Path -> Store!File] /\ assembled \subseteq Version
        /\ faults \in 0..MaxFaults /\ alone \in [Call -> BOOLEAN] /\ MaxFaults \in Nat
    BY BootFilesAssumption DEF Inv, TypeOK
  <1>1. ASSUME CallTypeOK', CallInv', FileInv', SharedTypeOK', alone' \in [Call -> BOOLEAN]
        PROVE  Inv'
    BY <1>1, TypeParts DEF Inv, TypeOK, CallTypeOK, SharedTypeOK, Pc
  <1>2. CASE Begin(c)
    <2>1. FilesStay /\ FileInv'
      BY <1>2, SameFiles DEF Begin
    <2>2. CallTypeOK' /\ SharedTypeOK' /\ alone' \in [Call -> BOOLEAN]
      BY <1>2 DEF Begin, CallTypeOK, SharedTypeOK, Inv, TypeOK, Pc
    <2>3. ASSUME NEW d \in Call
          PROVE  /\ Shape(pc'[d], job'[d], todo'[d], opened'[d])
                 /\ Facts(pc'[d], job'[d], todo'[d], opened'[d], failed'[d], found'[d], file')
                 /\ written'[d] \subseteq opened'[d]
      <3>1. CASE d # c
        BY <1>2, <2>1, <3>1, CallTypes DEF Begin, Inv, TypeOK
      <3>2. CASE d = c
        <4>1. /\ pc[c] = "idle" /\ pc'[c] = "params" /\ job'[c] = job[c] /\ todo'[c] = todo[c]
              /\ opened'[c] = opened[c] /\ found'[c] = found[c] /\ failed'[c] = failed[c]
              /\ written'[c] = written[c] /\ file' = file
          BY <1>2 DEF Begin, Inv, TypeOK
        <4>2. Shape("params", job[c], todo[c], opened[c])
          BY <4>1, CallTypes, FilesOfIs DEF Shape, Stage
        <4>3. Facts("params", job[c], todo[c], opened[c], failed[c], found[c], file)
          BY <4>1, CallTypes DEF Facts
        <4> QED BY <3>2, <4>1, <4>2, <4>3, CallTypes
      <3> QED BY <3>1, <3>2
    <2> QED BY <1>1, <2>1, <2>2, <2>3 DEF CallInv
  <1>3. CASE Resolve(c)
    <2> DEFINE j == [ver |-> current, fresh |-> TRUE, os |-> OsOf[current]]
    <2>1. j \in Job /\ "cache" \in Pc
      BY <1>0, BootFilesAssumption DEF Job, Pc, Stage
    <2>2. FilesStay /\ FileInv'
      BY <1>3, SameFiles DEF Resolve
    <2>3. Shape("cache", j, FilesOf("cache", j), {})
      BY <2>1, StageTypes, FilesOfIs DEF Shape, Stage
    <2>4. Facts("cache", j, FilesOf("cache", j), {}, {}, NoListing, file')
      BY NoListingIs DEF Facts
    <2>5. CallTypeOK' /\ CallInv'
      <3> HIDE DEF j
      <3>1. GoTo(c, "cache", j, {}, NoListing) /\ j # NoJob
        BY <1>3, <2>1, StageTypes DEF Resolve, j
      <3> QED BY <2>1, <2>2, <2>3, <2>4, <3>1, NoListingIs, GoToStep
    <2>6. SharedTypeOK' /\ alone' \in [Call -> BOOLEAN]
      BY <1>0, <1>3, TrackTyped DEF Resolve, SharedTypeOK
    <2> QED BY <1>1, <2>2, <2>5, <2>6
  <1>4. CASE FallBack(c)
    <2>1. FilesStay /\ FileInv'
      BY <1>4, SameFiles DEF FallBack
    <2>2. SharedTypeOK' /\ alone' \in [Call -> BOOLEAN]
      BY <1>0, <1>4, TrackTyped DEF FallBack, SharedTypeOK
    <2>3. CASE Store!Readable(file["cache"])
      <3> DEFINE v == file["cache"].content.ver
                 j == [ver |-> v, fresh |-> FALSE,
                       os |-> IF c \in Refresher THEN OsOf[v] ELSE "smartos"]
      <3>1. v \in Version
        BY <2>3 DEF Store!Readable, Image
      <3>2. j \in Job
        BY <3>1, BootFilesAssumption DEF Job, Os
      <3>3. GoTo(c, ModulesStage(j), j, {}, NoListing)
        BY <1>4, <2>3 DEF FallBack
      <3> HIDE DEF j
      <3>4. /\ ModulesStage(j) \in Pc
            /\ Shape(ModulesStage(j), j, FilesOf(ModulesStage(j), j), {})
            /\ Facts(ModulesStage(j), j, FilesOf(ModulesStage(j), j), {}, {}, NoListing, file')
        BY <3>2, NoListingIs, EnterModules
      <3>5. CallTypeOK' /\ CallInv'
        BY <2>1, <3>2, <3>3, <3>4, StageTypes, NoListingIs, GoToStep
      <3> QED BY <1>1, <2>1, <2>2, <3>5
    <2>4. CASE ~ Store!Readable(file["cache"])
      <3>1. GoTo(c, "done", NoJob, {}, NoListing) /\ "done" \in Pc
        BY <1>4, <2>4 DEF FallBack, Pc
      <3>2. CallTypeOK' /\ CallInv'
        BY <2>1, <3>1, NoListingIs, GoToStep
      <3> QED BY <1>1, <2>1, <2>2, <3>2
    <2> QED BY <2>3, <2>4
  <1>5. CASE FindFiles(c)
    <2>1. FilesStay /\ FileInv'
      BY <1>5, SameFiles DEF FindFiles
    <2>2. faults' \in 0..MaxFaults
      BY <1>0, <1>5 DEF FindFiles
    <2>3. SharedTypeOK' /\ alone' \in [Call -> BOOLEAN]
      BY <1>0, <1>5, <2>2, TrackTyped DEF FindFiles, SharedTypeOK
    <2>4. PICK list \in Listing : /\ GoTo(c, "menu", job[c], failed[c], list)
                                  /\ list.names \subseteq There
                                  /\ list.whole => list.names = There
      BY <1>5, FindsIs
    <2>5. /\ pc[c] = "find" /\ file' = file
          /\ job[c] \in Job /\ failed[c] \in SUBSET Path /\ "menu" \in Pc
      BY <1>5, CallTypes DEF FindFiles, Pc, Stage
    <2>6. ModulesOf[job[c].ver] \subseteq There
      BY <2>5, CallTypes, StageTypes, NamesApart DEF Facts, There
    <2>7. /\ "hash" \in There => "net" \in There
          /\ \A p \in There : file[p].exists
      BY DEF Inv, FileInv, BootFs, There
    <2>8. Shape("menu", job[c], FilesOf("menu", job[c]), {})
      BY <2>5, StageTypes, FilesOfIs DEF Shape, Stage
    <2>9. Facts("menu", job[c], FilesOf("menu", job[c]), {}, failed[c], list, file')
      BY <2>4, <2>5, <2>6, <2>7 DEF Facts
    <2>10. CallTypeOK' /\ CallInv'
      <3>1. job[c] # NoJob
        BY <2>5, StageTypes
      <3>2. GoTo(c, "menu", job[c], failed[c], list) /\ list \in Listing
        BY <2>4
      <3> QED BY <2>1, <2>5, <2>8, <2>9, <3>1, <3>2, GoToStep
    <2> QED BY <1>1, <2>1, <2>3, <2>10
  <1>6. CASE Return(c) \/ MkdirFails(c)
    <2>1. FilesStay /\ FileInv'
      BY <1>6, SameFiles DEF Return, MkdirFails
    <2>2. SharedTypeOK' /\ alone' \in [Call -> BOOLEAN]
      BY <1>0, <1>6, TrackTyped DEF Return, MkdirFails, SharedTypeOK
    <2>3. GoTo(c, "done", NoJob, {}, NoListing) /\ "done" \in Pc
      BY <1>6 DEF Return, MkdirFails, Pc
    <2>4. CallTypeOK' /\ CallInv'
      BY <2>1, <2>3, NoListingIs, GoToStep
    <2> QED BY <1>1, <2>1, <2>2, <2>4
  <1>7. CASE \E p \in Path : OpenFile(c, p)
    <2>1. PICK p \in Path : OpenFile(c, p)
      BY <1>7
    <2>2. p \in todo[c] /\ FilesStay /\ FileInv' /\ file'[p].exists
      BY <2>1, OpenStep, FileTypes DEF OpenFile
    <2>3. CallTypeOK' /\ SharedTypeOK' /\ alone' \in [Call -> BOOLEAN]
      BY <1>0, <2>1, <2>2 DEF OpenFile, CallTypeOK, SharedTypeOK, FilesStay, Inv, TypeOK, Pc
    <2>4. /\ todo'[c] = todo[c] \ {p} /\ opened'[c] = opened[c] \cup {p}
          /\ failed'[c] = failed[c] /\ UNCHANGED <<pc, job, found>>
          /\ written' = written /\ written'[c] \subseteq opened'[c]
          /\ \A d \in Call : d # c =>
                todo'[d] = todo[d] /\ opened'[d] = opened[d] /\ failed'[d] = failed[d]
      BY <2>1, CallTypes DEF OpenFile, Inv, TypeOK
    <2>5. Shape(pc[c], job[c], todo'[c], opened'[c])
      BY <2>2, <2>4, CallTypes DEF Shape
    <2>6. pc[c] = "cache" => failed[c] = {}
      BY CallTypes DEF Facts
    <2>7. CallInv'
      BY <2>2, <2>3, <2>4, <2>5, <2>6, SameStage
    <2> QED BY <1>1, <2>2, <2>3, <2>7
  <1>8. CASE \E p \in Path : WriteFile(c, p)
    <2>1. PICK p \in Path : WriteFile(c, p)
      BY <1>8
    <2>2. p \in opened[c] /\ FilesStay /\ FileInv'
      BY <2>1, WriteStep DEF WriteFile
    <2>3. CallTypeOK' /\ SharedTypeOK' /\ alone' \in [Call -> BOOLEAN]
      BY <1>0, <2>1, <2>2 DEF WriteFile, CallTypeOK, SharedTypeOK, FilesStay, Inv, TypeOK, Pc
    <2>4. /\ UNCHANGED <<pc, job, todo, opened, failed, found>>
          /\ written'[c] \subseteq opened'[c]
          /\ \A d \in Call : d # c => written'[d] = written[d]
      BY <2>1, <2>2, CallTypes DEF WriteFile, Inv, TypeOK
    <2>5. /\ Shape(pc[c], job[c], todo'[c], opened'[c])
          /\ pc[c] = "cache" => failed'[c] = {}
      BY <2>4, CallTypes DEF Facts
    <2>6. CallInv'
      BY <2>2, <2>3, <2>4, <2>5, SameStage
    <2> QED BY <1>1, <2>2, <2>3, <2>6
  <1>9. CASE \E p \in Path : FileWritten(c, p)
    <2>1. PICK p \in Path : FileWritten(c, p)
      BY <1>9
    <2>2. /\ p \in opened[c] /\ FilesStay /\ FileInv' /\ file'[p].exists
          /\ FileDone(c, p, failed[c])
      BY <2>1, CallTypes, SameFiles DEF FileWritten, Facts
    <2>3. CallTypeOK' /\ CallInv' /\ alone' \in [Call -> BOOLEAN]
      BY <2>2, CallTypes, FileDoneStep
    <2>4. SharedTypeOK'
      BY <1>0, <2>1 DEF FileWritten, SharedTypeOK
    <2> QED BY <1>1, <2>2, <2>3, <2>4
  <1>10. CASE \E p \in Path : FileFails(c, p)
    <2>1. PICK p \in Path : FileFails(c, p)
      BY <1>10
    <2>2. /\ p \in todo[c] \cup opened[c] /\ FilesStay /\ FileInv'
          /\ FileDone(c, p, failed[c] \cup {p})
      BY <2>1, SameFiles DEF FileFails
    <2>3. failed[c] \cup {p} \in SUBSET Path
      BY <2>1, CallTypes
    <2>4. CallTypeOK' /\ CallInv' /\ alone' \in [Call -> BOOLEAN]
      BY <2>2, <2>3, FileDoneStep
    <2>5. SharedTypeOK'
      BY <1>0, <2>1 DEF FileFails, SharedTypeOK
    <2> QED BY <1>1, <2>2, <2>4, <2>5
  <1> QED BY <1>2, <1>3, <1>4, <1>5, <1>6, <1>7, <1>8, <1>9, <1>10

LEMMA InvKept == Inv /\ [Next]_vars => Inv'
  <1> SUFFICES ASSUME Inv, [Next]_vars PROVE Inv'
    OBVIOUS
  <1>1. CASE \E c \in Call :
                \/ Begin(c) \/ Resolve(c) \/ FallBack(c) \/ FindFiles(c) \/ Return(c)
                \/ MkdirFails(c)
                \/ \E p \in Path : \/ OpenFile(c, p) \/ WriteFile(c, p)
                                   \/ FileWritten(c, p) \/ FileFails(c, p)
    BY <1>1, CallStep
  <1>2. CASE Crash
    <2>1. FileInv'
      BY <1>2, SameFiles DEF Crash
    <2>2. TypeOK'
      BY <1>2, BootFilesAssumption DEF Crash, Inv, TypeOK, Listing, NoListing
    <2>3. CallInv'
      BY <1>2 DEF Crash, CallInv, Shape, Facts, Stage, NoListing
    <2> QED BY <2>1, <2>2, <2>3 DEF Inv
  <1>3. CASE Configure
    <2>1. current' \in Version
      BY <1>3, BootFilesAssumption DEF Configure, Inv, TypeOK, Version
    <2> QED BY <1>3, <2>1 DEF Configure, callVars, Inv, TypeOK, CallInv, FileInv
  <1>4. CASE UNCHANGED vars
    BY <1>4 DEF vars, callVars, Inv, TypeOK, CallInv, FileInv
  <1> QED BY <1>1, <1>2, <1>3, <1>4 DEF Next

(* Every variable of the file writer stays in its set.                     *)
THEOREM TypeCorrect == Spec => []TypeOK
  <1>1. Inv => TypeOK
    BY DEF Inv
  <1> QED BY <1>1, InvInit, InvKept, PTL DEF Spec

(* Scripts name only files that are there; and all the boot modules, a hash*)
(* never without its file, unless an error cut the walk short or boot time *)
(* files are disabled.                                                     *)
THEOREM ScriptsComplete == Spec => []ScriptsListFiles
  <1>1. Inv => ScriptsListFiles
    <2> SUFFICES ASSUME Inv, NEW p \in Scripts, Store!Readable(file[p])
                 PROVE  ScriptOK(file[p].content, file)
      BY DEF ScriptsListFiles, ScriptOK
    <2>1. file[p].content # NoImage
      BY BootFilesAssumption DEF Store!Readable
    <2> QED BY <2>1 DEF Inv, FileInv
  <1> QED BY <1>1, InvInit, InvKept, PTL DEF Spec

-------------------------------------------------------------------------------
(* What DHCP sees of a step: module WriteAll.                              *)

LEMMA DoingIs ==
    ASSUME NEW td, NEW wr
    PROVE  /\ Doing("idle", td, wr) = "idle" /\ Doing("done", td, wr) = "idle"
           /\ Doing("params", td, wr) = "params" /\ Doing("ok", td, wr) = "ok"
           /\ Doing("cache", {}, {}) = "write"
           /\ wr # {} => Doing("cache", {}, wr) = "rest"
           /\ td # {} => Doing("cache", td, wr) = "open"
           /\ \A st \in {"net", "hash", "modules", "menu", "ipxe", "find"} :
                 Doing(st, td, wr) = "rest"
  <1>1. /\ Doing("idle", td, wr) = "idle" /\ Doing("done", td, wr) = "idle"
        /\ Doing("params", td, wr) = "params" /\ Doing("ok", td, wr) = "ok"
    BY Zenon DEF Doing
  <1>2. /\ Doing("cache", {}, {}) = "write"
        /\ wr # {} => Doing("cache", {}, wr) = "rest"
        /\ td # {} => Doing("cache", td, wr) = "open"
    BY Zenon DEF Doing
  <1>3. /\ Doing("net", td, wr) = "rest" /\ Doing("hash", td, wr) = "rest"
        /\ Doing("modules", td, wr) = "rest" /\ Doing("menu", td, wr) = "rest"
        /\ Doing("ipxe", td, wr) = "rest" /\ Doing("find", td, wr) = "rest"
    BY Zenon DEF Doing
  <1> QED BY <1>1, <1>2, <1>3

(* One call is seen to move.                                               *)
LEMMA SeenMove ==
    ASSUME NEW c \in Call, NEW step, NEW v,
           Doing(pc'[c], todo'[c], written'[c]) = step, job'[c].ver = v,
           \A d \in Call : d # c =>
              /\ Doing(pc'[d], todo'[d], written'[d]) = Doing(pc[d], todo[d], written[d])
              /\ job'[d].ver = job[d].ver
    PROVE  AsWriteAll!GoTo(c, step, v)
  BY DEF AsWriteAll!GoTo, StepsSeen, VersionsSeen

LEMMA SeenStill ==
    ASSUME \A d \in Call :
              /\ Doing(pc'[d], todo'[d], written'[d]) = Doing(pc[d], todo[d], written[d])
              /\ job'[d].ver = job[d].ver
    PROVE  UNCHANGED <<StepsSeen, VersionsSeen>>
  BY DEF StepsSeen, VersionsSeen

LEMMA SeenGoTo ==
    ASSUME Inv, NEW c \in Call, NEW st \in Pc, NEW j \in Job \cup {NoJob},
           st # "modules" \/ j \in Job,
           NEW bad \in SUBSET Path, NEW list \in Listing, GoTo(c, st, j, bad, list)
    PROVE  AsWriteAll!GoTo(c, Doing(st, FilesOf(st, j), {}), IF st = "done" THEN 0 ELSE j.ver)
  <1>0. TypeOK
    BY DEF Inv
  <1>1. /\ pc'[c] = st /\ job'[c] = (IF st = "done" THEN NoJob ELSE j)
        /\ todo'[c] = FilesOf(st, j) /\ written'[c] = {}
    BY <1>0 DEF GoTo, TypeOK
  <1>2. ASSUME NEW d \in Call, d # c
        PROVE  /\ pc'[d] = pc[d] /\ job'[d] = job[d]
               /\ todo'[d] = todo[d] /\ written'[d] = written[d]
    BY <1>0, <1>2 DEF GoTo, TypeOK
  <1>3. job'[c].ver = IF st = "done" THEN 0 ELSE j.ver
    BY <1>1, StageTypes
  <1> QED BY <1>1, <1>2, <1>3, SeenMove

(* The cache file as WriteAll has it.                                      *)
LEMMA SeenFile ==
    ASSUME Inv
    PROVE  /\ Store!Readable(file["cache"]) <=> AsWriteAll!Store!Readable(CacheSeen)
           /\ Store!Readable(file["cache"]) => CacheSeen.content = file["cache"].content.ver
           /\ file'["cache"] = Store!Opened => CacheSeen' = AsWriteAll!Store!Opened
           /\ \A v \in Version : file'["cache"] = Store!Wrote(file["cache"], Plain(v)) =>
                 CacheSeen' = AsWriteAll!Store!Wrote(CacheSeen, v)
           /\ file'["cache"] = file["cache"] => CacheSeen' = CacheSeen
  <1> DEFINE f == file["cache"]
  <1>0. f \in Store!File
    BY NamesApart DEF Inv, TypeOK
  <1> DEFINE Same == Store!Readable(f) <=> AsWriteAll!Store!Readable(CacheSeen)
  <1>1. ASSUME f.content = NoImage PROVE Same
    <2>1. CacheSeen.content = 0
      BY <1>1 DEF CacheSeen
    <2>2. ~ AsWriteAll!Store!Readable(CacheSeen)
      BY <2>1, BootFilesAssumption DEF AsWriteAll!Store!Readable, AsWriteAll!Version
    <2>3. ~ Store!Readable(f)
      BY <1>1, BootFilesAssumption DEF Store!Readable
    <2> QED BY <2>2, <2>3
  <1>2. ASSUME f.content # NoImage PROVE Same
    <2>1. /\ f.content.ver \in Version /\ f.content = Plain(f.content.ver)
      BY <1>2 DEF Inv, FileInv
    <2>2. /\ f.content \in Image
          /\ SizeOf[f.content.ver] + Cardinality(f.content.lists.names) = SizeOf[f.content.ver]
      BY <2>1, Lengths
    <2>3. Store!Readable(f) <=> f.exists /\ f.length = SizeOf[f.content.ver]
      BY <2>2 DEF Store!Readable
    <2>4. /\ CacheSeen.content = f.content.ver /\ CacheSeen.exists = f.exists
          /\ CacheSeen.length = f.length
      BY <1>2 DEF CacheSeen
    <2>5. AsWriteAll!Store!Readable(CacheSeen) <=> f.exists /\ f.length = SizeOf[f.content.ver]
      BY <2>1, <2>4 DEF AsWriteAll!Store!Readable, AsWriteAll!Version, Version
    <2> QED BY <2>3, <2>4, <2>5
  <1>3. Store!Readable(f) => CacheSeen.content = f.content.ver
    BY BootFilesAssumption DEF Store!Readable, CacheSeen
  <1>4. file'["cache"] = Store!Opened => CacheSeen' = AsWriteAll!Store!Opened
    BY DEF CacheSeen, Store!Opened, AsWriteAll!Store!Opened, AsWriteAll!None
  <1>5. ASSUME NEW v \in Version, file'["cache"] = Store!Wrote(f, Plain(v))
        PROVE  CacheSeen' = AsWriteAll!Store!Wrote(CacheSeen, v)
    <2>1. /\ Plain(v) \in Image /\ Plain(v) # NoImage /\ Plain(v).ver = v
          /\ SizeOf[Plain(v).ver] + Cardinality(Plain(v).lists.names) = SizeOf[v]
      BY Lengths, BootFilesAssumption DEF Plain
    <2>2. Store!Wrote(f, Plain(v)) =
            [exists |-> TRUE, content |-> Plain(v),
             length |-> IF f.length > SizeOf[v] THEN f.length ELSE SizeOf[v]]
      BY <2>1 DEF Store!Wrote
    <2> DEFINE n == IF f.length > SizeOf[v] THEN f.length ELSE SizeOf[v]
    <2>3. CacheSeen.length = f.length
      BY DEF CacheSeen
    <2>4. AsWriteAll!Store!Wrote(CacheSeen, v) = [exists |-> TRUE, content |-> v, length |-> n]
      BY <2>3 DEF AsWriteAll!Store!Wrote
    <2> HIDE DEF n
    <2>5. /\ file'["cache"].exists = TRUE /\ file'["cache"].content = Plain(v)
          /\ file'["cache"].length = n
      BY <1>5, <2>2 DEF n
    <2>6. CacheSeen' = [exists |-> TRUE, length |-> n, content |-> v]
      BY <2>1, <2>5 DEF CacheSeen
    <2> QED BY <2>4, <2>6
  <1>6. file'["cache"] = f => CacheSeen' = CacheSeen
    BY DEF CacheSeen
  <1> QED BY <1>1, <1>2, <1>3, <1>4, <1>5, <1>6

(* A file is finished in the stage it belongs to.                          *)
LEMMA OfStage ==
    ASSUME Inv, NEW c \in Call, NEW p \in todo[c] \cup opened[c]
    PROVE  /\ pc[c] \in Stage /\ job[c] \in Job /\ p \in Path
           /\ p = "cache" <=> pc[c] = "cache"
           /\ pc[c] = "cache" =>
                 /\ todo[c] \cup opened[c] = {"cache"} /\ failed[c] = {}
                 /\ todo[c] \cap opened[c] = {} /\ written[c] \subseteq opened[c]
           /\ pc[c] # "cache" => Doing(pc[c], todo[c], written[c]) = "rest"
           /\ pc[c] = "ipxe" => p = "ipxe"
  <1>1. /\ pc[c] \in Stage /\ job[c] \in Job /\ p \in Path
        /\ Shape(pc[c], job[c], todo[c], opened[c])
        /\ Facts(pc[c], job[c], todo[c], opened[c], failed[c], found[c], file)
    BY CallTypes
  <1>2. pc[c] = "modules" => p # "cache"
    <2>1. pc[c] = "modules" => p \in Module
      BY <1>1, FilesOfIs, StageTypes DEF Shape
    <2> QED BY <2>1, NamesApart
  <1>3. p \in FilesOf(pc[c], job[c])
    BY <1>1 DEF Shape
  <1>4. p = "cache" <=> pc[c] = "cache"
    BY <1>1, <1>2, <1>3, FilesOfIs DEF Stage
  <1>5. pc[c] = "cache" => /\ todo[c] \cup opened[c] = {"cache"} /\ failed[c] = {}
                           /\ todo[c] \cap opened[c] = {} /\ written[c] \subseteq opened[c]
    BY <1>1, CallTypes, FilesOfIs DEF Shape, Facts
  <1>6. pc[c] # "cache" => Doing(pc[c], todo[c], written[c]) = "rest"
    BY <1>1, DoingIs DEF Stage
  <1>7. pc[c] = "ipxe" => p = "ipxe"
    BY <1>3, FilesOfIs
  <1> QED BY <1>1, <1>4, <1>5, <1>6, <1>7

(* What a call does next when it finishes a file other than the cache's.   *)
LEMMA SeenDone ==
    ASSUME Inv, NEW c \in Call, NEW p \in todo[c] \cup opened[c], NEW bad \in SUBSET Path,
           FileDone(c, p, bad), pc[c] # "cache"
    PROVE  \/ UNCHANGED <<StepsSeen, VersionsSeen>>
           \/ AsWriteAll!GoTo(c, "idle", 0)
           \/ /\ AsWriteAll!GoTo(c, "ok", job[c].ver)
              /\ pc'[c] = "ok" /\ p \notin bad
  <1>0. /\ pc[c] \in Stage /\ job[c] \in Job /\ found[c] \in Listing /\ TypeOK
        /\ Doing(pc[c], todo[c], written[c]) = "rest" /\ (pc[c] = "ipxe" => p = "ipxe")
    BY OfStage, CallTypes DEF Inv
  <1> DEFINE n == AfterStage(pc[c], job[c], bad)
  <1>1. CASE todo[c] \cup opened[c] = {p}
    <2>1. /\ n \in {"done", "net", "hash", "find", "modules", "menu", "ipxe", "ok"}
          /\ n = "ok" => p \notin bad
      <3>1. ModulesStage(job[c]) \in {"find", "modules"}
        BY <1>0, StageTypes
      <3> QED BY <1>0, <3>1, AfterStageIs DEF Stage
    <2>2. GoTo(c, n, job[c], bad, found[c])
      BY <1>1 DEF FileDone
    <2> HIDE DEF n
    <2>3. n \in Pc
      BY <2>1 DEF Pc, Stage
    <2>4. /\ AsWriteAll!GoTo(c, Doing(n, FilesOf(n, job[c]), {}),
                             IF n = "done" THEN 0 ELSE job[c].ver)
          /\ pc'[c] = n
      BY <1>0, <2>2, <2>3, SeenGoTo DEF GoTo, TypeOK
    <2>5. CASE n = "done"
      BY <2>4, <2>5, DoingIs
    <2>6. CASE n = "ok"
      BY <2>1, <2>4, <2>6, DoingIs
    <2>7. CASE n \notin {"done", "ok"}
      <3>1. AsWriteAll!GoTo(c, "rest", job[c].ver)
        BY <2>1, <2>4, <2>7, DoingIs
      <3>2. StepsSeen[c] = "rest" /\ VersionsSeen[c] = job[c].ver
        BY <1>0 DEF StepsSeen, VersionsSeen
      <3>3. /\ StepsSeen = [d \in Call |-> StepsSeen[d]]
            /\ VersionsSeen = [d \in Call |-> VersionsSeen[d]]
        BY DEF StepsSeen, VersionsSeen
      <3> QED BY <3>1, <3>2, <3>3 DEF AsWriteAll!GoTo
    <2> QED BY <2>5, <2>6, <2>7
  <1>2. CASE todo[c] \cup opened[c] # {p}
    <2>1. /\ todo' = [todo EXCEPT ![c] = @ \ {p}]
          /\ written' = [written EXCEPT ![c] = @ \ {p}]
          /\ UNCHANGED <<pc, job>>
      BY <1>2 DEF FileDone
    <2>2. \A d \in Call : d # c => todo'[d] = todo[d] /\ written'[d] = written[d]
      BY <1>0, <2>1 DEF TypeOK
    <2>3. Doing(pc[c], todo'[c], written'[c]) = "rest"
      BY <1>0, DoingIs DEF Stage
    <2> QED BY <1>0, <2>1, <2>2, <2>3, SeenStill
  <1> QED BY <1>1, <1>2

\* A step of a call as WriteAll sees it, or no step at all.
SeenVars    == <<CacheSeen, ScriptsSeen, StepsSeen, VersionsSeen>>
Seen(c)     == AsWriteAll!Step(c) \/ UNCHANGED <<current, assembled, SeenVars>>

LEMMA SeenOpen ==
    ASSUME Inv, Inv', NEW c \in Call, NEW p \in Path, OpenFile(c, p)
    PROVE  Seen(c)
  <1>1. /\ p \in todo[c] /\ file' = [file EXCEPT ![p] = Store!Opened]
        /\ UNCHANGED <<current, pc, job, written, assembled>>
        /\ todo' = [todo EXCEPT ![c] = @ \ {p}]
    BY DEF OpenFile
  <1>2. /\ FilesStay /\ file'[p] = Store!Opened
        /\ \A q \in Path : q # p => file'[q] = file[q]
    BY <1>1, OpenStep
  <1>3. /\ todo'[c] = todo[c] \ {p} /\ \A d \in Call : d # c => todo'[d] = todo[d]
    BY <1>1 DEF Inv, TypeOK
  <1>4. ScriptsSeen => ScriptsSeen'
    BY <1>2, NamesApart DEF ScriptsSeen, FilesStay
  <1>5. CASE p = "cache"
    <2>1. pc[c] = "cache" /\ todo[c] # {} /\ todo'[c] = {} /\ written[c] = {}
      BY <1>1, <1>3, <1>5, OfStage
    <2>2. /\ Doing(pc[c], todo[c], written[c]) = "open"
          /\ Doing(pc[c], todo'[c], written[c]) = "write"
      BY <2>1, DoingIs
    <2>3. AsWriteAll!GoTo(c, "write", job[c].ver)
      BY <1>1, <1>3, <2>2, SeenMove
    <2>4. StepsSeen[c] = "open" /\ VersionsSeen[c] = job[c].ver
      BY <2>2 DEF StepsSeen, VersionsSeen
    <2>5. CacheSeen' = AsWriteAll!Store!Opened
      BY <1>2, <1>5, SeenFile
    <2>6. ScriptsSeen' = ScriptsSeen
      BY <1>2, <1>5, NamesApart DEF ScriptsSeen, Scripts
    <2>7. AsWriteAll!OpenCache(c)
      BY <1>1, <2>3, <2>4, <2>5, <2>6 DEF AsWriteAll!OpenCache
    <2> QED BY <2>7 DEF Seen, AsWriteAll!Step
  <1>6. CASE p # "cache"
    <2>1. pc[c] # "cache" /\ pc[c] \in Stage /\ Doing(pc[c], todo[c], written[c]) = "rest"
      BY <1>1, <1>6, OfStage
    <2>2. Doing(pc[c], todo'[c], written[c]) = "rest"
      BY <2>1, DoingIs DEF Stage
    <2>3. UNCHANGED <<StepsSeen, VersionsSeen>>
      BY <1>1, <1>3, <2>1, <2>2, SeenStill
    <2>4. CacheSeen' = CacheSeen
      BY <1>2, <1>6, NamesApart, SeenFile
    <2>5. CASE ScriptsSeen' = ScriptsSeen
      BY <1>1, <2>3, <2>4, <2>5 DEF Seen, SeenVars
    <2>6. CASE ScriptsSeen' = TRUE
      <3>1. StepsSeen[c] = "rest"
        BY <2>1 DEF StepsSeen
      <3>2. AsWriteAll!WriteScripts(c)
        BY <1>1, <2>3, <2>4, <2>6, <3>1 DEF AsWriteAll!WriteScripts
      <3> QED BY <3>2 DEF Seen, AsWriteAll!Step
    <2>7. ScriptsSeen \in BOOLEAN /\ ScriptsSeen' \in BOOLEAN
      BY DEF ScriptsSeen
    <2> QED BY <1>4, <2>5, <2>6, <2>7
  <1> QED BY <1>5, <1>6

LEMMA SeenWrite ==
    ASSUME Inv, NEW c \in Call, NEW p \in Path, WriteFile(c, p)
    PROVE  Seen(c)
  <1>1. /\ p \in opened[c] /\ p \notin written[c]
        /\ file' = [file EXCEPT ![p] = Store!Wrote(@, ImageFor(c, p))]
        /\ written' = [written EXCEPT ![c] = @ \cup {p}]
        /\ UNCHANGED <<current, pc, job, todo, assembled>>
    BY DEF WriteFile
  <1>2. /\ \A q \in Path : file'[q].exists <=> file[q].exists
        /\ \A q \in Path : q # p => file'[q] = file[q]
    BY <1>1, WriteStep
  <1>3. ScriptsSeen' = ScriptsSeen
    BY <1>2, NamesApart DEF ScriptsSeen
  <1>4. pc[c] \in Stage /\ job[c] \in Job /\ TypeOK
    BY <1>1, OfStage DEF Inv
  <1>5. written'[c] = written[c] \cup {p} /\ \A d \in Call : d # c => written'[d] = written[d]
    BY <1>1, <1>4 DEF TypeOK
  <1>6. CASE p = "cache"
    <2>1. pc[c] = "cache" /\ todo[c] = {} /\ written[c] = {} /\ written'[c] # {}
      BY <1>1, <1>5, <1>6, OfStage
    <2>2. /\ Doing(pc[c], todo[c], written[c]) = "write"
          /\ Doing(pc[c], todo[c], written'[c]) = "rest"
      BY <2>1, DoingIs
    <2>3. AsWriteAll!GoTo(c, "rest", job[c].ver)
      BY <1>1, <1>5, <2>2, SeenMove
    <2>4. StepsSeen[c] = "write" /\ VersionsSeen[c] = job[c].ver
      BY <2>2 DEF StepsSeen, VersionsSeen
    <2>5. CacheSeen' = AsWriteAll!Store!Wrote(CacheSeen, job[c].ver)
      <3>1. ImageFor(c, p) = Plain(job[c].ver) /\ job[c].ver \in Version
        BY <1>4, <1>6 DEF ImageFor, Scripts, Job
      <3>2. file'["cache"] = Store!Wrote(file["cache"], Plain(job[c].ver))
        BY <1>1, <1>4, <1>6, <3>1 DEF TypeOK
      <3> QED BY <3>1, <3>2, SeenFile
    <2>6. AsWriteAll!WriteCache(c)
      BY <1>1, <1>3, <2>3, <2>4, <2>5 DEF AsWriteAll!WriteCache
    <2> QED BY <2>6 DEF Seen, AsWriteAll!Step
  <1>7. CASE p # "cache"
    <2>1. pc[c] # "cache" /\ Doing(pc[c], todo[c], written[c]) = "rest"
      BY <1>1, <1>7, OfStage
    <2>2. Doing(pc[c], todo[c], written'[c]) = "rest"
      BY <1>4, <2>1, DoingIs DEF Stage
    <2>3. UNCHANGED <<StepsSeen, VersionsSeen>>
      BY <1>1, <1>5, <2>1, <2>2, SeenStill
    <2>4. CacheSeen' = CacheSeen
      BY <1>2, <1>7, NamesApart, SeenFile
    <2> QED BY <1>1, <1>3, <2>3, <2>4 DEF Seen, SeenVars
  <1> QED BY <1>6, <1>7

LEMMA SeenWritten ==
    ASSUME Inv, Inv', NEW c \in Call, NEW p \in Path, FileWritten(c, p)
    PROVE  Seen(c)
  <1>1. /\ p \in written[c] /\ p \in opened[c] /\ FileDone(c, p, failed[c])
        /\ UNCHANGED <<current, file, assembled>>
    BY CallTypes DEF FileWritten
  <1>2. UNCHANGED <<CacheSeen, ScriptsSeen>>
    BY <1>1 DEF CacheSeen, ScriptsSeen
  <1>3. /\ pc[c] \in Stage /\ job[c] \in Job /\ failed[c] \in SUBSET Path
        /\ found[c] \in Listing
    BY <1>1, OfStage, CallTypes
  <1>4. CASE pc[c] = "cache"
    <2>1. p = "cache" /\ failed[c] = {} /\ todo[c] = {} /\ todo[c] \cup opened[c] = {p}
      BY <1>1, <1>4, OfStage
    <2> DEFINE n == AfterCache(job[c])
    <2>2. n \in {"net", "find", "modules"} /\ n \in Pc
      BY <1>3, StageTypes DEF Pc, Stage
    <2>3. GoTo(c, n, job[c], {}, found[c])
      BY <1>1, <1>4, <2>1, AfterStageIs DEF FileDone
    <2> HIDE DEF n
    <2>4. AsWriteAll!GoTo(c, "rest", job[c].ver)
      <3>1. AsWriteAll!GoTo(c, Doing(n, FilesOf(n, job[c]), {}),
                            IF n = "done" THEN 0 ELSE job[c].ver)
        BY <1>3, <2>2, <2>3, SeenGoTo
      <3> QED BY <2>2, <3>1, DoingIs
    <2>5. /\ StepsSeen[c] = "rest" /\ VersionsSeen[c] = job[c].ver
          /\ StepsSeen = [d \in Call |-> StepsSeen[d]]
          /\ VersionsSeen = [d \in Call |-> VersionsSeen[d]]
      BY <1>1, <1>4, <2>1, DoingIs DEF StepsSeen, VersionsSeen
    <2>6. UNCHANGED <<StepsSeen, VersionsSeen>>
      BY <2>4, <2>5 DEF AsWriteAll!GoTo
    <2> QED BY <1>1, <1>2, <2>6 DEF Seen, SeenVars
  <1>5. CASE pc[c] # "cache"
    <2>1. StepsSeen[c] = "rest" /\ VersionsSeen[c] = job[c].ver
      BY <1>1, <1>5, OfStage DEF StepsSeen, VersionsSeen
    <2>2. CASE UNCHANGED <<StepsSeen, VersionsSeen>>
      BY <1>1, <1>2, <2>2 DEF Seen, SeenVars
    <2>3. CASE AsWriteAll!GoTo(c, "idle", 0)
      <3>1. AsWriteAll!Fail(c)
        BY <1>1, <1>2, <2>1, <2>3 DEF AsWriteAll!Fail, AsWriteAll!None
      <3> QED BY <3>1 DEF Seen, AsWriteAll!Step
    <2>4. CASE AsWriteAll!GoTo(c, "ok", job[c].ver) /\ pc'[c] = "ok"
      <3>1. file'["menu"].exists /\ file'["ipxe"].exists
        BY <2>4 DEF Inv, CallInv, Facts
      <3>2. ScriptsSeen
        BY <1>2, <3>1 DEF ScriptsSeen, Scripts
      <3>3. AsWriteAll!Succeed(c)
        BY <1>1, <1>2, <2>1, <2>4, <3>2 DEF AsWriteAll!Succeed
      <3> QED BY <3>3 DEF Seen, AsWriteAll!Step
    <2> QED BY <1>1, <1>3, <1>5, <2>2, <2>3, <2>4, SeenDone
  <1> QED BY <1>4, <1>5

LEMMA SeenFileFails ==
    ASSUME Inv, NEW c \in Call, NEW p \in Path, FileFails(c, p)
    PROVE  Seen(c)
  <1>1. /\ p \in todo[c] \cup opened[c] /\ FileDone(c, p, failed[c] \cup {p})
        /\ p \in todo[c] \/ p \notin written[c]
        /\ UNCHANGED <<current, file, assembled>>
    BY DEF FileFails
  <1>2. UNCHANGED <<CacheSeen, ScriptsSeen>>
    BY <1>1 DEF CacheSeen, ScriptsSeen
  <1>3. /\ pc[c] \in Stage /\ job[c] \in Job /\ failed[c] \in SUBSET Path
        /\ found[c] \in Listing
    BY <1>1, OfStage, CallTypes
  <1>4. ASSUME AsWriteAll!GoTo(c, "idle", 0), StepsSeen[c] \in {"open", "write", "rest"}
        PROVE  Seen(c)
    <2>1. AsWriteAll!Fail(c)
      BY <1>1, <1>2, <1>4 DEF AsWriteAll!Fail, AsWriteAll!None
    <2> QED BY <2>1 DEF Seen, AsWriteAll!Step
  <1>5. CASE pc[c] = "cache"
    <2>1. p = "cache" /\ todo[c] \cup opened[c] = {p}
      BY <1>1, <1>5, OfStage
    <2>2. GoTo(c, "done", job[c], failed[c] \cup {p}, found[c])
      BY <1>1, <1>5, <2>1, AfterStageIs DEF FileDone
    <2>3. "done" \in Pc /\ failed[c] \cup {p} \in SUBSET Path
      BY <1>3 DEF Pc
    <2>4. AsWriteAll!GoTo(c, "idle", 0)
      <3>1. AsWriteAll!GoTo(c, Doing("done", FilesOf("done", job[c]), {}), 0)
        BY <1>3, <2>2, <2>3, SeenGoTo
      <3> QED BY <3>1, DoingIs
    <2>5. StepsSeen[c] \in {"open", "write"}
      <3>1. todo[c] # {} \/ (todo[c] = {} /\ written[c] = {})
        BY <1>1, <1>5, <2>1, OfStage
      <3> QED BY <1>5, <3>1, DoingIs DEF StepsSeen
    <2> QED BY <1>4, <2>4, <2>5
  <1>6. CASE pc[c] # "cache"
    <2>1. StepsSeen[c] = "rest"
      BY <1>1, <1>6, OfStage DEF StepsSeen
    <2>2. \/ UNCHANGED <<StepsSeen, VersionsSeen>>
          \/ AsWriteAll!GoTo(c, "idle", 0)
      BY <1>1, <1>3, <1>6, SeenDone
    <2> QED BY <1>1, <1>2, <1>4, <2>1, <2>2 DEF Seen, SeenVars
  <1> QED BY <1>5, <1>6

LEMMA SeenCall ==
    ASSUME Inv, NEW c \in Call,
           Begin(c) \/ Resolve(c) \/ FallBack(c) \/ FindFiles(c) \/ Return(c) \/ MkdirFails(c)
    PROVE  Seen(c)
  <1>0. /\ UNCHANGED file /\ UNCHANGED <<CacheSeen, ScriptsSeen>>
        /\ current \in Version /\ file["cache"] \in Store!File
    BY NamesApart DEF Inv, TypeOK, Begin, Resolve, FallBack, FindFiles, Return, MkdirFails,
                      CacheSeen, ScriptsSeen
  <1>1. ASSUME GoTo(c, "done", NoJob, {}, NoListing)
        PROVE  AsWriteAll!GoTo(c, "idle", 0)
    <2>1. "done" \in Pc /\ NoJob \in Job \cup {NoJob}
      BY DEF Pc
    <2>2. AsWriteAll!GoTo(c, Doing("done", FilesOf("done", NoJob), {}), 0)
      BY <1>1, <2>1, NoListingIs, SeenGoTo
    <2> QED BY <2>2, DoingIs
  <1>2. CASE Begin(c)
    <2>1. /\ pc[c] = "idle" /\ job[c] = NoJob /\ pc'[c] = "params"
          /\ UNCHANGED <<job, todo, written, current, assembled>>
          /\ \A d \in Call : d # c => pc'[d] = pc[d]
      BY <1>2, CallTypes DEF Begin, Shape, Inv, TypeOK
    <2>2. AsWriteAll!GoTo(c, "params", 0)
      BY <2>1, StageTypes, DoingIs, SeenMove
    <2>3. StepsSeen[c] = "idle"
      BY <2>1, DoingIs DEF StepsSeen
    <2>4. AsWriteAll!Begin(c)
      BY <1>0, <2>1, <2>2, <2>3 DEF AsWriteAll!Begin, AsWriteAll!None
    <2> QED BY <2>4 DEF Seen, AsWriteAll!Step
  <1>3. CASE Resolve(c)
    <2> DEFINE j == [ver |-> current, fresh |-> TRUE, os |-> OsOf[current]]
    <2>1. j \in Job /\ "cache" \in Pc /\ j.ver = current
      BY <1>0, BootFilesAssumption DEF Job, Pc, Stage
    <2>2. GoTo(c, "cache", j, {}, NoListing)
      BY <1>3 DEF Resolve
    <2> HIDE DEF j
    <2>3. AsWriteAll!GoTo(c, Doing("cache", FilesOf("cache", j), {}), j.ver)
      BY <2>1, <2>2, NoListingIs, SeenGoTo
    <2>4. Doing("cache", FilesOf("cache", j), {}) = "open"
      BY FilesOfIs, DoingIs
    <2>5. StepsSeen[c] = "params"
      BY <1>3, DoingIs DEF Resolve, StepsSeen
    <2>6. AsWriteAll!Resolve(c)
      BY <1>0, <1>3, <2>1, <2>3, <2>4, <2>5 DEF AsWriteAll!Resolve, Resolve
    <2> QED BY <2>6 DEF Seen, AsWriteAll!Step
  <1>4. CASE FallBack(c)
    <2>1. StepsSeen[c] = "params" /\ UNCHANGED <<current, assembled>>
      BY <1>4, DoingIs DEF FallBack, StepsSeen
    <2>2. CASE Store!Readable(file["cache"])
      <3> DEFINE v == file["cache"].content.ver
                 j == [ver |-> v, fresh |-> FALSE,
                       os |-> IF c \in Refresher THEN OsOf[v] ELSE "smartos"]
      <3>1. v \in Version
        BY <2>2 DEF Store!Readable, Image
      <3>2. j \in Job /\ j.ver = v
        BY <3>1, BootFilesAssumption DEF Job, Os
      <3>3. GoTo(c, ModulesStage(j), j, {}, NoListing)
        BY <1>4, <2>2 DEF FallBack
      <3>4. v = CacheSeen.content /\ AsWriteAll!Store!Readable(CacheSeen)
        BY <2>2, SeenFile
      <3> HIDE DEF j
      <3>5. ModulesStage(j) \in {"find", "modules"} /\ ModulesStage(j) \in Pc
        BY <3>2, StageTypes DEF Pc, Stage
      <3>6. AsWriteAll!GoTo(c, Doing(ModulesStage(j), FilesOf(ModulesStage(j), j), {}), j.ver)
        BY <3>2, <3>3, <3>5, NoListingIs, SeenGoTo
      <3>7. AsWriteAll!GoTo(c, "rest", CacheSeen.content)
        BY <3>2, <3>4, <3>5, <3>6, DoingIs
      <3>8. AsWriteAll!FallBack(c)
        BY <1>0, <2>1, <3>4, <3>7 DEF AsWriteAll!FallBack
      <3> QED BY <3>8 DEF Seen, AsWriteAll!Step
    <2>3. CASE ~ Store!Readable(file["cache"])
      <3>1. AsWriteAll!GoTo(c, "idle", 0) /\ ~ AsWriteAll!Store!Readable(CacheSeen)
        BY <1>1, <1>4, <2>3, SeenFile DEF FallBack
      <3>2. AsWriteAll!FallBack(c)
        BY <1>0, <2>1, <3>1 DEF AsWriteAll!FallBack, AsWriteAll!None
      <3> QED BY <3>2 DEF Seen, AsWriteAll!Step
    <2> QED BY <2>2, <2>3
  <1>5. CASE FindFiles(c)
    <2>0. PICK list \in Listing : GoTo(c, "menu", job[c], failed[c], list)
      BY <1>5, FindsIs
    <2>1. /\ pc[c] = "find" /\ job[c] \in Job /\ failed[c] \in SUBSET Path /\ "menu" \in Pc
          /\ UNCHANGED <<current, assembled>>
      BY <1>5, CallTypes DEF FindFiles, Pc, Stage
    <2>2. /\ Doing(pc[c], todo[c], written[c]) = "rest"
          /\ Doing("menu", FilesOf("menu", job[c]), {}) = "rest"
      BY <2>1, DoingIs
    <2>3. AsWriteAll!GoTo(c, "rest", job[c].ver)
      <3>1. AsWriteAll!GoTo(c, Doing("menu", FilesOf("menu", job[c]), {}), job[c].ver)
        BY <2>0, <2>1, SeenGoTo
      <3> QED BY <2>2, <3>1
    <2>4. /\ StepsSeen[c] = "rest" /\ VersionsSeen[c] = job[c].ver
          /\ StepsSeen = [d \in Call |-> StepsSeen[d]]
          /\ VersionsSeen = [d \in Call |-> VersionsSeen[d]]
      BY <2>2 DEF StepsSeen, VersionsSeen
    <2>5. UNCHANGED <<StepsSeen, VersionsSeen>>
      BY <2>3, <2>4 DEF AsWriteAll!GoTo
    <2> QED BY <1>0, <2>1, <2>5 DEF Seen, SeenVars
  <1>6. CASE Return(c)
    <2>1. AsWriteAll!GoTo(c, "idle", 0) /\ StepsSeen[c] = "ok"
      BY <1>1, <1>6, DoingIs DEF Return, StepsSeen
    <2>2. AsWriteAll!Return(c)
      BY <1>0, <1>6, <2>1 DEF AsWriteAll!Return, AsWriteAll!None, Return
    <2> QED BY <2>2 DEF Seen, AsWriteAll!Step
  <1>7. CASE MkdirFails(c)
    <2>1. AsWriteAll!GoTo(c, "idle", 0) /\ StepsSeen[c] = "rest"
      BY <1>1, <1>7, DoingIs DEF MkdirFails, StepsSeen
    <2>2. AsWriteAll!Fail(c)
      BY <1>0, <1>7, <2>1 DEF AsWriteAll!Fail, AsWriteAll!None, MkdirFails
    <2> QED BY <2>2 DEF Seen, AsWriteAll!Step
  <1> QED BY <1>2, <1>3, <1>4, <1>5, <1>6, <1>7

LEMMA SeenInit == Init => AsWriteAll!Init
  <1> SUFFICES ASSUME Init PROVE AsWriteAll!Init
    OBVIOUS
  <1>1. /\ StepsSeen = [c \in Call |-> "idle"]
        /\ VersionsSeen = [c \in Call |-> 0]
    BY DoingIs, StageTypes DEF Init, StepsSeen, VersionsSeen
  <1>2. CASE file = [p \in Path |-> Store!Absent]
    <2>1. file["cache"] = Store!Absent /\ file["menu"] = Store!Absent
      BY <1>2, NamesApart
    <2>2. CacheSeen = AsWriteAll!Store!Absent
      BY <2>1 DEF CacheSeen, Store!Absent, AsWriteAll!Store!Absent, AsWriteAll!None
    <2>3. ScriptsSeen = FALSE
      BY <2>1 DEF ScriptsSeen, Scripts, Store!Absent
    <2>4. assembled = {}
      <3>1. LeftBehind # [p \in Path |-> Store!Absent]
        <4>1. LeftBehind["cache"].exists
          BY LeftBehindIs, FileTypes DEF LeftPlain
        <4>2. [p \in Path |-> Store!Absent]["cache"] = Store!Absent
          BY NamesApart
        <4>3. ~ Store!Absent.exists
          BY FileTypes
        <4> QED BY <4>1, <4>2, <4>3
      <3> QED BY <1>2, <3>1 DEF Init
    <2> QED BY <1>1, <2>2, <2>3, <2>4 DEF Init, AsWriteAll!Init, AsWriteAll!None
  <1>3. CASE file = LeftBehind
    <2>1. file["cache"] = Store!Holding(Plain(1)) /\ Plain(1) \in Image
      BY <1>3, LeftBehindIs DEF LeftPlain
    <2>2. CacheSeen = AsWriteAll!Store!Holding(1)
      <3>1. /\ Plain(1) # NoImage /\ Plain(1).ver = 1
            /\ SizeOf[Plain(1).ver] + Cardinality(Plain(1).lists.names) = SizeOf[1]
        BY <2>1, LeftBehindIs, Lengths, BootFilesAssumption DEF Plain
      <3>2. file["cache"] = [exists |-> TRUE, content |-> Plain(1), length |-> SizeOf[1]]
        BY <2>1, <3>1 DEF Store!Holding
      <3>3. /\ file["cache"].exists = TRUE /\ file["cache"].content = Plain(1)
            /\ file["cache"].length = SizeOf[1]
        BY <3>2
      <3> QED BY <3>1, <3>3 DEF CacheSeen, AsWriteAll!Store!Holding
    <2>3. ScriptsSeen = TRUE
      BY <1>3, LeftBehindIs, FileTypes DEF ScriptsSeen
    <2>4. assembled = {1}
      <3>1. LeftBehind # [p \in Path |-> Store!Absent]
        <4>1. LeftBehind["cache"].exists
          BY LeftBehindIs, FileTypes DEF LeftPlain
        <4>2. [p \in Path |-> Store!Absent]["cache"] = Store!Absent
          BY NamesApart
        <4>3. ~ Store!Absent.exists
          BY FileTypes
        <4> QED BY <4>1, <4>2, <4>3
      <3> QED BY <1>3, <3>1 DEF Init
    <2> QED BY <1>1, <2>2, <2>3, <2>4 DEF Init, AsWriteAll!Init, AsWriteAll!None
  <1> QED BY <1>2, <1>3 DEF Init

LEMMA SeenNext == Inv /\ Inv' /\ [Next]_vars => [AsWriteAll!Next]_AsWriteAll!vars
  <1> SUFFICES ASSUME Inv, Inv', [Next]_vars PROVE [AsWriteAll!Next]_AsWriteAll!vars
    OBVIOUS
  <1>1. ASSUME NEW c \in Call, Seen(c) PROVE [AsWriteAll!Next]_AsWriteAll!vars
    BY <1>1 DEF Seen, SeenVars, AsWriteAll!Next, AsWriteAll!vars
  <1>2. CASE \E c \in Call :
                \/ Begin(c) \/ Resolve(c) \/ FallBack(c) \/ FindFiles(c) \/ Return(c)
                \/ MkdirFails(c)
                \/ \E p \in Path : \/ OpenFile(c, p) \/ WriteFile(c, p)
                                   \/ FileWritten(c, p) \/ FileFails(c, p)
    <2>1. \E c \in Call : Seen(c)
      BY <1>2, SeenCall, SeenOpen, SeenWrite, SeenWritten, SeenFileFails
    <2> QED BY <1>1, <2>1
  <1>3. CASE Crash
    <2>1. UNCHANGED <<CacheSeen, ScriptsSeen>>
      BY <1>3 DEF Crash, CacheSeen, ScriptsSeen
    <2>2. StepsSeen' = [c \in Call |-> "idle"] /\ VersionsSeen' = [c \in Call |-> 0]
      <3>1. \A c \in Call : pc'[c] \in {"idle", "done"} /\ job'[c] = NoJob
        BY <1>3 DEF Crash
      <3> QED BY <3>1, DoingIs, StageTypes DEF StepsSeen, VersionsSeen
    <2>3. AsWriteAll!Die
      BY <1>3, <2>1, <2>2 DEF Crash, AsWriteAll!Die, AsWriteAll!None
    <2> QED BY <2>3 DEF AsWriteAll!Next
  <1>4. CASE Configure
    <2>1. UNCHANGED <<CacheSeen, ScriptsSeen, StepsSeen, VersionsSeen>>
      BY <1>4 DEF Configure, callVars, CacheSeen, ScriptsSeen, StepsSeen, VersionsSeen
    <2>2. AsWriteAll!Configure
      BY <1>4, <2>1 DEF Configure, AsWriteAll!Configure
    <2> QED BY <2>2 DEF AsWriteAll!Next
  <1>5. CASE UNCHANGED vars
    <2>1. UNCHANGED <<CacheSeen, ScriptsSeen, StepsSeen, VersionsSeen>>
      BY <1>5 DEF vars, callVars, CacheSeen, ScriptsSeen, StepsSeen, VersionsSeen
    <2> QED BY <1>5, <2>1 DEF vars, AsWriteAll!vars
  <1> QED BY <1>2, <1>3, <1>4, <1>5 DEF Next

(* The file writer is the writeAll that the DHCP server relies on: a call  *)
(* that succeeds has stored what it fetched, and both scripts are there.   *)
THEOREM IsWriteAll == Spec => ImplementsWriteAll
  BY InvInit, InvKept, SeenInit, SeenNext, PTL DEF Spec, ImplementsWriteAll, AsWriteAll!Spec

-------------------------------------------------------------------------------
(* A call that runs alone leaves files that match its answer.              *)

\* File p is made from the answer j, or empty.
Fit(p, j, f) ==
    f[p].content # NoImage =>
        /\ f[p].content.ver = j.ver
        /\ p \in Scripts => f[p].content.os = j.os

\* The call has been through the stage of file p, which it owes to its answer.
Passed(p, st, j, bad) ==
    \/ p = "cache" /\ st # "cache" /\ j.fresh
    \/ p = "net" /\ NetWritten(j) /\ bad = {} /\ st \notin {"cache", "net"}
    \/ p = "hash" /\ NetWritten(j) /\ bad = {} /\ st \notin {"cache", "net", "hash"}
    \/ p \in ModulesOf[j.ver] /\ st \in {"find", "menu", "ipxe", "ok"}
    \/ p = "menu" /\ st \in {"ipxe", "ok"}
    \/ p = "ipxe" /\ st = "ok"

\* The call has opened file p, at least.
Settled(p, st, j, td, bad) ==
    /\ p \notin bad
    /\ Passed(p, st, j, bad) \/ (p \in FilesOf(st, j) /\ p \notin td)

Sound(st, j, bad) ==
    /\ bad \subseteq {"net", "hash"} \cup (IF st = "modules" THEN Module ELSE {})
    /\ st \in {"cache", "net", "hash"} => j.fresh
    /\ st \in {"net", "hash"} => NetWritten(j)
    /\ j.fresh => j.os = OsOf[j.ver]

Agreed(c) == \A d \in Call : job[d] \in {NoJob, job[c]}

MatchInv ==
    \A c \in Call : job[c] # NoJob =>
        /\ Sound(pc[c], job[c], failed[c])
        /\ alone[c] =>
              /\ Agreed(c)
              /\ \A p \in Path : Settled(p, pc[c], job[c], todo[c], failed[c])
                                    => Fit(p, job[c], file)

(* A stage that is over adds its own files to those that are settled.      *)
LEMMA StageSettles ==
    ASSUME NEW st \in Stage, NEW j \in Job, NEW td, NEW op, NEW old, NEW bad, NEW p,
           Shape(st, j, td, op), td \cup op = {p}, old \subseteq bad, Sound(st, j, old),
           bad \subseteq old \cup {p}, AfterStage(st, j, bad) # "done"
    PROVE  LET n == AfterStage(st, j, bad) IN
           /\ Sound(n, j, bad)
           /\ \A q \in Path : Settled(q, n, j, FilesOf(n, j), bad) =>
                 IF q = p THEN p \notin bad ELSE Settled(q, st, j, td, old)
  <1> DEFINE n == AfterStage(st, j, bad)
  <1>1. /\ p \in FilesOf(st, j) /\ td \subseteq {p}
        /\ ModulesOf[j.ver] \subseteq Module
    BY StageTypes DEF Shape
  <1>2. bad = {} => old = {}
    OBVIOUS
  <1>3. ASSUME NEW q \in Path, Settled(q, n, j, FilesOf(n, j), bad),
               Passed(q, n, j, bad) => q \in FilesOf(st, j) \/ Passed(q, st, j, old)
        PROVE  IF q = p THEN p \notin bad ELSE Settled(q, st, j, td, old)
    BY <1>1, <1>3 DEF Settled
  <1>4. ASSUME n = ModulesStage(j), bad \cap Module = {}, bad \subseteq {"net", "hash"}, j.fresh,
               NetWritten(j) /\ bad = {} => st = "hash", st \in {"cache", "net", "hash"}
        PROVE  /\ Sound(n, j, bad)
               /\ \A q \in Path : Passed(q, n, j, bad)
                     => q \in FilesOf(st, j) \/ Passed(q, st, j, old)
    <2>1. n = "modules" \/ (n = "find" /\ ModulesOf[j.ver] = {})
      BY <1>4 DEF ModulesStage
    <2> HIDE DEF n
    <2>2. Sound(n, j, bad)
      BY <1>4, <2>1 DEF Sound
    <2>3. ASSUME NEW q \in Path, Passed(q, n, j, bad)
          PROVE  q \in FilesOf(st, j) \/ Passed(q, st, j, old)
      <3>1. \/ q = "cache"
            \/ q = "net" /\ st = "hash" /\ NetWritten(j) /\ old = {}
            \/ q = "hash" /\ st = "hash"
        BY <1>2, <1>4, <2>1, <2>3 DEF Passed
      <3>2. CASE q = st
        BY <1>4, <3>2, FilesOfIs
      <3>3. CASE q = "cache" /\ st # "cache"
        BY <1>4, <3>3 DEF Passed
      <3>4. CASE q = "net" /\ st = "hash" /\ NetWritten(j) /\ old = {}
        BY <3>4 DEF Passed
      <3> QED BY <3>1, <3>2, <3>3, <3>4
    <2> QED BY <2>2, <2>3
  <1>5. CASE st = "cache"
    <2>1. n = AfterCache(j) /\ "cache" \notin bad
      BY <1>5, AfterStageIs
    <2>2. bad \subseteq {"net", "hash"} /\ j.fresh
      BY <1>1, <1>5, <2>1, FilesOfIs DEF Sound
    <2>3. CASE NetWritten(j)
      <3>1. n = "net"
        BY <2>1, <2>3 DEF AfterCache
      <3> HIDE DEF n
      <3>2. Sound(n, j, bad)
        BY <1>5, <2>2, <2>3, <3>1 DEF Sound
      <3>3. \A q \in Path : Passed(q, n, j, bad) => q \in FilesOf(st, j)
        BY <1>5, <3>1, FilesOfIs DEF Passed
      <3> QED BY <1>3, <3>2, <3>3 DEF n
    <2>4. CASE ~ NetWritten(j)
      <3>1. n = ModulesStage(j) /\ bad \cap Module = {}
        BY <2>1, <2>2, <2>4, NamesApart DEF AfterCache
      <3> QED BY <1>3, <1>4, <1>5, <2>2, <2>4, <3>1
    <2> QED BY <2>3, <2>4
  <1>6. CASE st = "net"
    <2>1. bad \subseteq {"net", "hash"} /\ j.fresh /\ NetWritten(j) /\ bad \cap Module = {}
      BY <1>1, <1>6, FilesOfIs, NamesApart DEF Sound
    <2>2. CASE "net" \in bad
      <3>1. n = ModulesStage(j)
        BY <1>6, <2>2, AfterStageIs
      <3> QED BY <1>3, <1>4, <1>6, <2>1, <2>2, <3>1
    <2>3. CASE "net" \notin bad
      <3>1. n = "hash"
        BY <1>6, <2>3, AfterStageIs
      <3> HIDE DEF n
      <3>2. Sound(n, j, bad)
        BY <1>6, <2>1, <3>1 DEF Sound
      <3>3. \A q \in Path : Passed(q, n, j, bad) => q \in FilesOf(st, j) \/ Passed(q, st, j, old)
        BY <1>2, <1>6, <3>1, FilesOfIs DEF Passed
      <3> QED BY <1>3, <3>2, <3>3 DEF n
    <2> QED BY <2>2, <2>3
  <1>7. CASE st = "hash"
    <2>1. bad \subseteq {"net", "hash"} /\ j.fresh /\ NetWritten(j) /\ bad \cap Module = {}
      BY <1>1, <1>7, FilesOfIs, NamesApart DEF Sound
    <2>2. n = ModulesStage(j)
      BY <1>7, AfterStageIs
    <2> QED BY <1>3, <1>4, <1>7, <2>1, <2>2
  <1>8. CASE st = "modules"
    <2>1. n = "find" /\ bad \cap Module = {}
      BY <1>8, AfterStageIs
    <2> HIDE DEF n
    <2>2. p \in Module
      BY <1>1, <1>8, FilesOfIs
    <2>3. Sound(n, j, bad)
      BY <1>8, <2>1, <2>2, NamesApart DEF Sound
    <2>4. \A q \in Path : Passed(q, n, j, bad) => q \in FilesOf(st, j) \/ Passed(q, st, j, old)
      BY <1>2, <1>8, <2>1, FilesOfIs DEF Passed
    <2> QED BY <1>3, <2>3, <2>4 DEF n
  <1>9. CASE st = "menu"
    <2>1. n = "ipxe" /\ "menu" \notin bad
      BY <1>9, AfterStageIs
    <2> HIDE DEF n
    <2>2. p = "menu"
      BY <1>1, <1>9, FilesOfIs
    <2>3. Sound(n, j, bad)
      BY <1>9, <2>1, <2>2 DEF Sound
    <2>4. \A q \in Path : Passed(q, n, j, bad) => q \in FilesOf(st, j) \/ Passed(q, st, j, old)
      BY <1>2, <1>9, <2>1, FilesOfIs DEF Passed
    <2> QED BY <1>3, <2>3, <2>4 DEF n
  <1>10. CASE st = "ipxe"
    <2>1. n = "ok" /\ "ipxe" \notin bad
      BY <1>10, AfterStageIs
    <2> HIDE DEF n
    <2>2. p = "ipxe"
      BY <1>1, <1>10, FilesOfIs
    <2>3. Sound(n, j, bad)
      BY <1>10, <2>1, <2>2 DEF Sound
    <2>4. \A q \in Path : Passed(q, n, j, bad) => q \in FilesOf(st, j) \/ Passed(q, st, j, old)
      BY <1>2, <1>10, <2>1, FilesOfIs DEF Passed
    <2> QED BY <1>3, <2>3, <2>4 DEF n
  <1> QED BY <1>5, <1>6, <1>7, <1>8, <1>9, <1>10 DEF Stage

\* A call that is alone was so before, and all others that know their job share it.
AloneKept ==
    \A c \in Call : alone'[c] /\ job'[c] # NoJob =>
        alone[c] /\ \A d \in Call : job'[d] \in {NoJob, job'[c]}

\* No step spoils a file of a call that is alone.
FitsStay ==
    \A c \in Call : job[c] # NoJob /\ alone[c] =>
        \A q \in Path : Fit(q, job[c], file) => Fit(q, job[c], file')

LEMMA TrackKeeps ==
    ASSUME Track
    PROVE  AloneKept
  BY DEF Track, AloneKept

LEMMA SameJobs ==
    ASSUME MatchInv, UNCHANGED <<job, alone>>
    PROVE  AloneKept
  BY DEF MatchInv, Agreed, AloneKept

LEMMA SameFits ==
    ASSUME UNCHANGED file
    PROVE  FitsStay
  BY DEF FitsStay, Fit

LEMMA MatchStep ==
    ASSUME MatchInv, AloneKept, FitsStay, NEW c \in Call,
           \A d \in Call : d # c =>
              pc'[d] = pc[d] /\ job'[d] = job[d] /\ todo'[d] = todo[d] /\ failed'[d] = failed[d],
           job'[c] # NoJob =>
              /\ Sound(pc'[c], job'[c], failed'[c])
              /\ alone'[c] =>
                    \A p \in Path : Settled(p, pc'[c], job'[c], todo'[c], failed'[c])
                                       => Fit(p, job'[c], file')
    PROVE  MatchInv'
  <1>1. ASSUME NEW d \in Call, job'[d] # NoJob, alone'[d]
        PROVE  alone[d] /\ Agreed(d)'
    BY <1>1 DEF AloneKept, Agreed
  <1>2. ASSUME NEW d \in Call, d # c, job'[d] # NoJob
        PROVE  /\ Sound(pc'[d], job'[d], failed'[d])
               /\ alone'[d] =>
                     \A p \in Path : Settled(p, pc'[d], job'[d], todo'[d], failed'[d])
                                        => Fit(p, job'[d], file')
    <2>1. pc'[d] = pc[d] /\ job'[d] = job[d] /\ todo'[d] = todo[d] /\ failed'[d] = failed[d]
      BY <1>2
    <2>2. Sound(pc[d], job[d], failed[d])
      BY <1>2, <2>1 DEF MatchInv
    <2>3. ASSUME alone'[d], NEW p \in Path, Settled(p, pc[d], job[d], todo[d], failed[d])
          PROVE  Fit(p, job[d], file')
      <3>1. alone[d] /\ job[d] # NoJob
        BY <1>1, <1>2, <2>1, <2>3
      <3>2. Fit(p, job[d], file)
        BY <2>3, <3>1 DEF MatchInv
      <3> QED BY <3>1, <3>2 DEF FitsStay
    <2> QED BY <2>1, <2>2, <2>3
  <1> QED BY <1>1, <1>2 DEF MatchInv

LEMMA OpenFits ==
    ASSUME Inv, NEW c \in Call, NEW p \in todo[c],
           file' = [file EXCEPT ![p] = Store!Opened]
    PROVE  FitsStay /\ \A j : Fit(p, j, file')
  <1>1. /\ file'[p].content = NoImage
        /\ \A q \in Path : q # p => file'[q] = file[q]
    BY OpenStep, FileTypes
  <1> QED BY <1>1 DEF FitsStay, Fit

LEMMA WriteFits ==
    ASSUME Inv, MatchInv, NEW c \in Call, NEW p \in opened[c],
           file' = [file EXCEPT ![p] = Store!Wrote(@, ImageFor(c, p))]
    PROVE  FitsStay /\ Fit(p, job[c], file')
  <1>1. /\ file'[p].content = ImageFor(c, p)
        /\ \A q \in Path : q # p => file'[q] = file[q]
    BY WriteStep
  <1>2. Fit(p, job[c], file')
    <2>1. CASE p \in Scripts
      BY <1>1, <2>1 DEF ImageFor, Script, Fit
    <2>2. CASE p \notin Scripts
      BY <1>1, <2>2 DEF ImageFor, Plain, Fit
    <2> QED BY <2>1, <2>2
  <1>3. job[c] # NoJob
    BY OfStage, StageTypes
  <1>4. ASSUME NEW d \in Call, job[d] # NoJob, alone[d] PROVE job[d] = job[c]
    BY <1>3, <1>4 DEF MatchInv, Agreed
  <1>5. ASSUME NEW d \in Call, job[d] # NoJob, alone[d],
               NEW q \in Path, Fit(q, job[d], file)
        PROVE  Fit(q, job[d], file')
    <2>1. CASE q = p
      BY <1>2, <1>4, <1>5, <2>1
    <2>2. CASE q # p
      BY <1>1, <1>5, <2>2 DEF Fit
    <2> QED BY <2>1, <2>2
  <1> QED BY <1>2, <1>5 DEF FitsStay

LEMMA DoneMatches ==
    ASSUME Inv, MatchInv, FitsStay, NEW c \in Call, NEW p \in todo[c] \cup opened[c],
           NEW bad \in SUBSET Path, failed[c] \subseteq bad, bad \subseteq failed[c] \cup {p},
           FileDone(c, p, bad), p \notin bad /\ alone[c] => Fit(p, job[c], file')
    PROVE  MatchInv'
  <1>1. /\ pc[c] \in Stage /\ job[c] \in Job /\ job[c] # NoJob /\ TypeOK
        /\ Shape(pc[c], job[c], todo[c], opened[c])
    BY OfStage, CallTypes, StageTypes DEF Inv
  <1>2. AloneKept
    BY TrackKeeps DEF FileDone
  <1>3. Sound(pc[c], job[c], failed[c])
    BY <1>1 DEF MatchInv
  <1>4. ASSUME alone'[c], job'[c] = job[c],
               NEW q \in Path, Settled(q, pc[c], job[c], todo[c], failed[c])
        PROVE  Fit(q, job[c], file')
    <2>1. alone[c]
      BY <1>1, <1>2, <1>4 DEF AloneKept
    <2>2. Fit(q, job[c], file)
      BY <1>1, <1>4, <2>1 DEF MatchInv
    <2> QED BY <1>1, <2>1, <2>2 DEF FitsStay
  <1>5. ASSUME alone'[c], job'[c] = job[c], p \notin bad
        PROVE  Fit(p, job[c], file')
    BY <1>1, <1>2, <1>5 DEF AloneKept
  <1>6. CASE todo[c] \cup opened[c] = {p}
    <2> DEFINE n == AfterStage(pc[c], job[c], bad)
    <2>1. GoTo(c, n, job[c], bad, found[c])
      BY <1>6 DEF FileDone
    <2>2. n # "done" =>
             /\ Sound(n, job[c], bad)
             /\ \A q \in Path : Settled(q, n, job[c], FilesOf(n, job[c]), bad) =>
                   IF q = p THEN p \notin bad
                   ELSE Settled(q, pc[c], job[c], todo[c], failed[c])
      BY <1>1, <1>3, <1>6, StageSettles
    <2> HIDE DEF n
    <2>3. /\ pc'[c] = n /\ job'[c] = (IF n = "done" THEN NoJob ELSE job[c])
          /\ todo'[c] = FilesOf(n, job[c])
          /\ failed'[c] = (IF n = "done" THEN {} ELSE bad)
      BY <1>1, <2>1 DEF GoTo, TypeOK
    <2>4. \A d \in Call : d # c =>
             pc'[d] = pc[d] /\ job'[d] = job[d] /\ todo'[d] = todo[d] /\ failed'[d] = failed[d]
      BY <1>1, <2>1 DEF GoTo, TypeOK
    <2>5. ASSUME n # "done", alone'[c], NEW q \in Path,
                 Settled(q, n, job[c], FilesOf(n, job[c]), bad)
          PROVE  Fit(q, job[c], file')
      BY <1>4, <1>5, <2>2, <2>3, <2>5
    <2>6. job'[c] # NoJob =>
             /\ Sound(pc'[c], job'[c], failed'[c])
             /\ alone'[c] =>
                   \A q \in Path : Settled(q, pc'[c], job'[c], todo'[c], failed'[c])
                                      => Fit(q, job'[c], file')
      BY <2>2, <2>3, <2>5
    <2> QED BY <1>2, <2>4, <2>6, MatchStep
  <1>7. CASE todo[c] \cup opened[c] # {p}
    <2>1. /\ todo' = [todo EXCEPT ![c] = @ \ {p}]
          /\ failed' = [failed EXCEPT ![c] = bad]
          /\ UNCHANGED <<pc, job>>
      BY <1>7 DEF FileDone
    <2>2. /\ todo'[c] = todo[c] \ {p} /\ failed'[c] = bad
          /\ \A d \in Call : d # c => todo'[d] = todo[d] /\ failed'[d] = failed[d]
      BY <1>1, <2>1 DEF TypeOK
    <2>3. pc[c] = "modules" /\ p \in Module
      <3>1. \A st \in Stage : st # "modules" => FilesOf(st, job[c]) = {st}
        BY FilesOfIs DEF Stage
      <3>2. pc[c] = "modules"
        BY <1>1, <1>7, <3>1 DEF Shape
      <3> QED BY <1>1, <3>2, FilesOfIs, StageTypes DEF Shape
    <2>4. Sound(pc[c], job[c], bad)
      BY <1>3, <2>3 DEF Sound
    <2>5. ASSUME alone'[c], NEW q \in Path, Settled(q, pc[c], job[c], todo'[c], bad)
          PROVE  Fit(q, job[c], file')
      <3>1. CASE q = p
        BY <1>5, <2>1, <2>5, <3>1 DEF Settled
      <3>2. CASE q # p
        <4>1. bad = {} => failed[c] = {}
          OBVIOUS
        <4>2. Passed(q, pc[c], job[c], bad) => Passed(q, pc[c], job[c], failed[c])
          BY <4>1 DEF Passed
        <4>3. Settled(q, pc[c], job[c], todo[c], failed[c])
          BY <2>2, <2>5, <3>2, <4>2 DEF Settled
        <4> QED BY <1>4, <2>1, <2>5, <4>3
      <3> QED BY <3>1, <3>2
    <2> QED BY <1>2, <2>1, <2>2, <2>4, <2>5, MatchStep
  <1> QED BY <1>6, <1>7

LEMMA CallMatches ==
    ASSUME Inv, MatchInv, NEW c \in Call,
           \/ Begin(c) \/ Resolve(c) \/ FallBack(c) \/ FindFiles(c) \/ Return(c)
           \/ MkdirFails(c)
           \/ \E p \in Path : \/ OpenFile(c, p) \/ WriteFile(c, p)
                              \/ FileWritten(c, p) \/ FileFails(c, p)
    PROVE  MatchInv'
  <1>0. /\ TypeOK /\ current \in Version /\ pc[c] \in Pc /\ failed[c] \in SUBSET Path
    BY CallTypes DEF Inv, TypeOK
  \* A call that moves on with job j, to a stage none of whose files is opened.
  <1>1. ASSUME NEW st, NEW j, NEW bad, NEW list, GoTo(c, st, j, bad, list), Track,
               UNCHANGED file,
               st # "done" /\ j # NoJob =>
                  /\ Sound(st, j, bad)
                  /\ alone'[c] =>
                        \A p \in Path : Settled(p, st, j, FilesOf(st, j), bad) => Fit(p, j, file)
        PROVE  MatchInv'
    <2>1. /\ pc'[c] = st /\ job'[c] = (IF st = "done" THEN NoJob ELSE j)
          /\ todo'[c] = FilesOf(st, j) /\ failed'[c] = (IF st = "done" THEN {} ELSE bad)
      BY <1>0, <1>1 DEF GoTo, TypeOK
    <2>2. \A d \in Call : d # c =>
             pc'[d] = pc[d] /\ job'[d] = job[d] /\ todo'[d] = todo[d] /\ failed'[d] = failed[d]
      BY <1>0, <1>1 DEF GoTo, TypeOK
    <2>3. AloneKept /\ FitsStay
      BY <1>1, TrackKeeps, SameFits
    <2>4. job'[c] # NoJob =>
             /\ Sound(pc'[c], job'[c], failed'[c])
             /\ alone'[c] =>
                   \A p \in Path : Settled(p, pc'[c], job'[c], todo'[c], failed'[c])
                                      => Fit(p, job'[c], file')
      BY <1>1, <2>1
    <2> QED BY <2>2, <2>3, <2>4, MatchStep
  <1>2. CASE Begin(c)
    <2>1. job'[c] = NoJob /\ UNCHANGED <<job, alone, file>>
      BY <1>2, CallTypes DEF Begin, Shape
    <2>2. \A d \in Call : d # c =>
             pc'[d] = pc[d] /\ job'[d] = job[d] /\ todo'[d] = todo[d] /\ failed'[d] = failed[d]
      BY <1>0, <1>2 DEF Begin, TypeOK
    <2> QED BY <2>1, <2>2, SameJobs, SameFits, MatchStep
  <1>3. CASE Resolve(c)
    <2> DEFINE j == [ver |-> current, fresh |-> TRUE, os |-> OsOf[current]]
    <2>1. Sound("cache", j, {})
      BY DEF Sound
    <2>2. \A p \in Path : ~ Settled(p, "cache", j, FilesOf("cache", j), {})
      BY DEF Settled, Passed
    <2>3. GoTo(c, "cache", j, {}, NoListing) /\ Track /\ UNCHANGED file
      BY <1>3 DEF Resolve
    <2> HIDE DEF j
    <2> QED BY <1>1, <2>1, <2>2, <2>3
  <1>4. CASE FallBack(c)
    <2>1. CASE Store!Readable(file["cache"])
      <3> DEFINE v == file["cache"].content.ver
                 j == [ver |-> v, fresh |-> FALSE,
                       os |-> IF c \in Refresher THEN OsOf[v] ELSE "smartos"]
                 st == ModulesStage(j)
      <3>1. ~ j.fresh /\ ~ NetWritten(j)
        BY DEF NetWritten
      <3>2. GoTo(c, st, j, {}, NoListing) /\ Track /\ UNCHANGED file
        BY <1>4, <2>1 DEF FallBack
      <3> HIDE DEF j
      <3>3. st = "modules" \/ (st = "find" /\ ModulesOf[j.ver] = {})
        BY DEF ModulesStage
      <3> HIDE DEF st
      <3>4. Sound(st, j, {})
        BY <3>1, <3>3 DEF Sound
      <3>5. \A p \in Path : ~ Settled(p, st, j, FilesOf(st, j), {})
        BY <3>1, <3>3 DEF Settled, Passed
      <3> QED BY <1>1, <3>2, <3>4, <3>5
    <2>2. CASE ~ Store!Readable(file["cache"])
      <3>1. GoTo(c, "done", NoJob, {}, NoListing) /\ Track /\ UNCHANGED file
        BY <1>4, <2>2 DEF FallBack
      <3> QED BY <1>1, <3>1
    <2> QED BY <2>1, <2>2
  <1>5. CASE FindFiles(c)
    <2>1. /\ pc[c] = "find" /\ UNCHANGED file /\ Track
      BY <1>5 DEF FindFiles
    <2>0. PICK list \in Listing : GoTo(c, "menu", job[c], failed[c], list)
      BY <1>5, FindsIs
    <2>2. job[c] \in Job /\ job[c] # NoJob
      BY <2>1, CallTypes, StageTypes DEF Pc
    <2>3. Sound("menu", job[c], failed[c])
      BY <2>1, <2>2 DEF MatchInv, Sound
    <2>4. ASSUME alone'[c], NEW p \in Path,
                 Settled(p, "menu", job[c], FilesOf("menu", job[c]), failed[c])
          PROVE  Fit(p, job[c], file)
      <3>1. job'[c] = job[c]
        BY <1>0, <2>0 DEF GoTo, TypeOK
      <3>2. alone[c]
        BY <2>1, <2>2, <2>4, <3>1, TrackKeeps DEF AloneKept
      <3>3. Settled(p, pc[c], job[c], todo[c], failed[c])
        BY <2>1, <2>4 DEF Settled, Passed
      <3> QED BY <2>2, <3>2, <3>3 DEF MatchInv
    <2> QED BY <1>1, <2>0, <2>1, <2>3, <2>4
  <1>6. CASE Return(c) \/ MkdirFails(c)
    <2>1. GoTo(c, "done", NoJob, {}, NoListing) /\ Track /\ UNCHANGED file
      BY <1>6 DEF Return, MkdirFails
    <2> QED BY <1>1, <2>1
  <1>7. ASSUME NEW p \in Path, OpenFile(c, p)
        PROVE  MatchInv'
    <2>1. /\ p \in todo[c] /\ file' = [file EXCEPT ![p] = Store!Opened]
          /\ todo' = [todo EXCEPT ![c] = @ \ {p}] /\ UNCHANGED <<pc, job, failed, alone>>
      BY <1>7 DEF OpenFile
    <2>2. /\ todo'[c] = todo[c] \ {p} /\ \A d \in Call : d # c => todo'[d] = todo[d]
      BY <1>0, <2>1 DEF TypeOK
    <2>3. FitsStay /\ Fit(p, job[c], file')
      BY <2>1, OpenFits
    <2>4. AloneKept
      BY <2>1, SameJobs
    <2>5. ASSUME job[c] # NoJob, alone[c], NEW q \in Path,
                 Settled(q, pc[c], job[c], todo'[c], failed[c])
          PROVE  Fit(q, job[c], file')
      <3>1. CASE q = p
        BY <2>3, <3>1
      <3>2. CASE q # p
        <4>1. Settled(q, pc[c], job[c], todo[c], failed[c])
          BY <2>2, <2>5, <3>2 DEF Settled
        <4>2. Fit(q, job[c], file)
          BY <2>5, <4>1 DEF MatchInv
        <4> QED BY <2>3, <2>5, <4>2 DEF FitsStay
      <3> QED BY <3>1, <3>2
    <2>6. job[c] # NoJob => Sound(pc[c], job[c], failed[c])
      BY DEF MatchInv
    <2> QED BY <2>1, <2>2, <2>3, <2>4, <2>5, <2>6, MatchStep
  <1>8. ASSUME NEW p \in Path, WriteFile(c, p)
        PROVE  MatchInv'
    <2>1. /\ p \in opened[c] /\ file' = [file EXCEPT ![p] = Store!Wrote(@, ImageFor(c, p))]
          /\ UNCHANGED <<pc, job, todo, failed, alone>>
      BY <1>8 DEF WriteFile
    <2>2. FitsStay /\ AloneKept
      BY <2>1, WriteFits, SameJobs
    <2>3. ASSUME job[c] # NoJob, alone[c], NEW q \in Path,
                 Settled(q, pc[c], job[c], todo[c], failed[c])
          PROVE  Fit(q, job[c], file')
      BY <2>2, <2>3 DEF MatchInv, FitsStay
    <2>4. job[c] # NoJob => Sound(pc[c], job[c], failed[c])
      BY DEF MatchInv
    <2> QED BY <2>1, <2>2, <2>3, <2>4, MatchStep
  <1>9. ASSUME NEW p \in Path, FileWritten(c, p)
        PROVE  MatchInv'
    <2>1. /\ p \in opened[c] /\ UNCHANGED file /\ FileDone(c, p, failed[c])
      BY <1>9, CallTypes DEF FileWritten
    <2>2. ASSUME p \notin failed[c], alone[c] PROVE Fit(p, job[c], file')
      <3>1. Settled(p, pc[c], job[c], todo[c], failed[c]) /\ job[c] # NoJob
        BY <2>1, <2>2, CallTypes, OfStage, StageTypes DEF Settled, Shape
      <3> QED BY <2>1, <2>2, <3>1 DEF MatchInv, Fit
    <2> QED BY <1>0, <2>1, <2>2, SameFits, DoneMatches
  <1>10. ASSUME NEW p \in Path, FileFails(c, p)
         PROVE  MatchInv'
    <2>1. /\ p \in todo[c] \cup opened[c] /\ UNCHANGED file
          /\ FileDone(c, p, failed[c] \cup {p})
      BY <1>10 DEF FileFails
    <2>2. failed[c] \cup {p} \in SUBSET Path
      BY <1>0
    <2> QED BY <2>1, <2>2, SameFits, DoneMatches
  <1> QED BY <1>2, <1>3, <1>4, <1>5, <1>6, <1>7, <1>8, <1>9, <1>10

LEMMA MatchKept == Inv /\ MatchInv /\ [Next]_vars => MatchInv'
  <1> SUFFICES ASSUME Inv, MatchInv, [Next]_vars PROVE MatchInv'
    OBVIOUS
  <1>1. CASE \E c \in Call :
                \/ Begin(c) \/ Resolve(c) \/ FallBack(c) \/ FindFiles(c) \/ Return(c)
                \/ MkdirFails(c)
                \/ \E p \in Path : \/ OpenFile(c, p) \/ WriteFile(c, p)
                                   \/ FileWritten(c, p) \/ FileFails(c, p)
    BY <1>1, CallMatches
  <1>2. CASE Crash
    BY <1>2 DEF Crash, MatchInv
  <1>3. CASE UNCHANGED <<file, callVars>>
    BY <1>3 DEF callVars, MatchInv, Agreed, Fit
  <1> QED BY <1>1, <1>2, <1>3 DEF Next, Configure, vars

(* When a call that ran alone calls back, each file it is answerable for   *)
(* is made from its answer, and a fresh answer has its platform's system.  *)
THEOREM FilesMatch == Spec => []FilesMatchAnswer
  <1>1. Init => MatchInv
    BY DEF Init, MatchInv
  <1>2. Inv /\ MatchInv => FilesMatchAnswer
    <2> SUFFICES ASSUME Inv, MatchInv, NEW c \in Call, pc[c] = "ok", alone[c]
                 PROVE  /\ \A p \in Answerable(c) : Fit(p, job[c], file)
                        /\ job[c].fresh => job[c].os = OsOf[job[c].ver]
      BY DEF FilesMatchAnswer, Fit
    <2>1. job[c] \in Job /\ job[c] # NoJob /\ Sound("ok", job[c], failed[c])
      BY CallTypes, StageTypes DEF Pc, MatchInv
    <2>2. ModulesOf[job[c].ver] \subseteq Module
      BY <2>1, StageTypes
    <2>3. ASSUME NEW p \in Answerable(c)
          PROVE  p \in Path /\ Settled(p, "ok", job[c], todo[c], failed[c])
      <3>1. /\ p \in Path
            /\ Passed(p, "ok", job[c], failed[c])
        BY <2>2, <2>3, NamesApart DEF Answerable, Passed, Scripts
      <3>2. p \notin failed[c]
        <4>1. failed[c] \subseteq {"net", "hash"}
          BY <2>1 DEF Sound
        <4>2. CASE p \in {"net", "hash"}
          <5>1. failed[c] = {}
            BY <2>2, <2>3, <4>2, NamesApart DEF Answerable, Scripts
          <5> QED BY <5>1
        <4> QED BY <4>1, <4>2
      <3> QED BY <3>1, <3>2 DEF Settled
    <2>4. \A p \in Answerable(c) : Fit(p, job[c], file)
      BY <2>1, <2>3 DEF MatchInv
    <2> QED BY <2>1, <2>4 DEF Sound
  <1> QED BY <1>1, <1>2, InvInit, InvKept, MatchKept, PTL DEF Spec
===============================================================================
