------------------------------ MODULE BootFiles -------------------------------
(***************************************************************************)
(* writeAll of lib/boot-files.js: the files of one CN, written one after   *)
(* the other by every DHCPDISCOVER and every refresh.                      *)
(*                                                                         *)
(*   cache   <cacheDir>/<mac>.json, by getBootParams                       *)
(*   net     networking.json in the CN's bootfs directory, and its hash    *)
(*   Module  the CN's boot modules, in the same directory, in parallel     *)
(*   menu    menu.lst, then boot.ipxe: both name what is in the directory  *)
(*                                                                         *)
(* What the CN is to boot is a version of its configuration in NAPI and    *)
(* CNAPI.  Calls overlap and share all the files; each file is opened,     *)
(* which empties it, and then written.  As far as DHCP is concerned this   *)
(* is what module WriteAll describes.                                      *)
(***************************************************************************)
EXTENDS Naturals, FiniteSets

CONSTANTS
    Handler,    \* calls made by the DHCP server
    Refresher,  \* calls made by the cache refresh, which passes opts.platforms
    Module,     \* names of boot modules
    Latest,     \* bound: versions of the configuration
    OsOf,       \* the operating system of each version's platform
    ModulesOf,  \* bootParams.boot_modules of each version
    Tagged,     \* versions whose nic tags include an admin one (net-file.js:202)
    SizeOf,     \* bytes of a file made from each version
    DisableBootTimeFiles,   \* config.disableBootTimeFiles
    MaxFaults,  \* bound: disk errors and crashes
    NoImage     \* the content of an empty file

Call    == Handler \cup Refresher
Version == 1..Latest
Os      == {"smartos", "linux"}

BootFs  == {"net", "hash"} \cup Module      \* the files under bootFsDir
Scripts == {"menu", "ipxe"}
Path    == {"cache"} \cup BootFs \cup Scripts

\* arg.bootFiles; whole: no directory or file was left out for an error.
Listing   == [names : SUBSET BootFs, whole : BOOLEAN]
NoListing == [names |-> {}, whole |-> TRUE]

\* What a file is made from; only a script has an operating system and a list.
Image == [ver : Version, os : Os \cup {"any"}, lists : Listing]

ASSUME BootFilesAssumption ==
    /\ Handler \cap Refresher = {}
    /\ Module \cap {"cache", "net", "hash", "menu", "ipxe"} = {}
    /\ IsFiniteSet(Module)
    /\ Latest \in Nat \ {0}
    /\ OsOf \in [Version -> Os]
    /\ ModulesOf \in [Version -> SUBSET Module]
    /\ Tagged \subseteq Version
    /\ SizeOf \in [Version -> Nat \ {0}]
    /\ DisableBootTimeFiles \in BOOLEAN
    /\ MaxFaults \in Nat
    /\ NoImage \notin Image

Store == INSTANCE JsonFile WITH
    Payload   <- Image,
    Size      <- [i \in Image |-> SizeOf[i.ver] + Cardinality(i.lists.names)],
    NoPayload <- NoImage

VARIABLES
    current,    \* external: the version NAPI and CNAPI would give now
    file,       \* the files of the CN
    pc,         \* what each call is doing: "params", the file or files it is
                \* writing, "find", "ok" (its callback comes next) or "done"
    job,        \* what getBootParams called back with
    todo,       \* files of this stage that are not opened yet
    opened,     \* files of this stage that are opened and whose callback has not
                \* come
    written,    \* those of them that are written
    failed,     \* files the call could not write
    found,      \* arg.bootFiles
    assembled,  \* history: versions that were fetched, for this CN
    alone,      \* history: no call with another job ran beside this one
    faults      \* faults so far

callVars == <<pc, job, todo, opened, written, failed, found, alone>>
vars     == <<current, file, callVars, assembled, faults>>

\* fresh: from NAPI and CNAPI, not from the cache.
Job   == [ver : Version, fresh : BOOLEAN, os : Os]
NoJob == [ver |-> 0, fresh |-> FALSE, os |-> "none"]

Stage == {"cache", "net", "hash", "modules", "menu", "ipxe"}

\* The content of a file written by one call that was not disturbed.
Plain(v)        == [ver |-> v, os |-> "any", lists |-> NoListing]
Script(j, list) == [ver |-> j.ver, os |-> j.os,
                    lists |-> IF DisableBootTimeFiles THEN NoListing ELSE list]

\* The files an earlier call for version 1 left behind.
LeftBehind ==
    LET net   == IF 1 \in Tagged THEN {"net", "hash"} ELSE {}
        plain == {"cache"} \cup net \cup ModulesOf[1]
        menu  == Script([ver |-> 1, os |-> OsOf[1]],
                        [names |-> net \cup ModulesOf[1], whole |-> TRUE])
    IN [p \in Path |-> CASE p \in plain   -> Store!Holding(Plain(1))
                         [] p \in Scripts -> Store!Holding(menu)
                         [] OTHER         -> Store!Absent]

Init ==
    /\ current = 1
    /\ \/ file = [p \in Path |-> Store!Absent] /\ assembled = {}
       \/ file = LeftBehind /\ assembled = {1}
    /\ pc = [c \in Call |-> "idle"]
    /\ job = [c \in Call |-> NoJob]
    /\ todo = [c \in Call |-> {}]
    /\ opened = [c \in Call |-> {}]
    /\ written = [c \in Call |-> {}]
    /\ failed = [c \in Call |-> {}]
    /\ found = [c \in Call |-> NoListing]
    /\ alone = [c \in Call |-> TRUE]
    /\ faults = 0

-------------------------------------------------------------------------------
(* From one stage to the next.                                             *)

\* net-file.js: a cached answer has no adminNic; without an admin tag nothing
\* is written either.
NetWritten(j) == j.fresh /\ j.ver \in Tagged

FilesOf(stage, j) ==
    CASE stage \in {"cache", "net", "hash", "menu", "ipxe"} -> {stage}
      [] stage = "modules" -> ModulesOf[j.ver]
      [] OTHER -> {}

ModulesStage(j) == IF ModulesOf[j.ver] = {} THEN "find" ELSE "modules"

AfterCache(j) == IF NetWritten(j) THEN "net" ELSE ModulesStage(j)

\* Mutant: an error of the last write does not reach the callback.
AfterStage_Mutant(stage, j, bad) ==
    CASE stage = "cache"   -> IF "cache" \in bad THEN "done" ELSE AfterCache(j)
      [] stage = "net"     -> IF "net" \in bad THEN ModulesStage(j) ELSE "hash"
      [] stage = "hash"    -> ModulesStage(j)
      [] stage = "modules" -> IF bad \cap Module # {} THEN "done" ELSE "find"
      [] stage = "menu"    -> "ipxe"
      [] stage = "ipxe"    -> "ok"

\* Mutant: a module that cannot be written does not hold up booting.
AfterStage_ModulesMutant(stage, j, bad) ==
    CASE stage = "cache"   -> IF "cache" \in bad THEN "done" ELSE AfterCache(j)
      [] stage = "net"     -> IF "net" \in bad THEN ModulesStage(j) ELSE "hash"
      [] stage = "hash"    -> ModulesStage(j)
      [] stage = "modules" -> "find"
      [] stage = "menu"    -> IF "menu" \in bad THEN "done" ELSE "ipxe"
      [] stage = "ipxe"    -> IF "ipxe" \in bad THEN "done" ELSE "ok"

\* Mutant: an error of the cache file is logged, and the OFFER sent all the same.
AfterStage_StoreMutant(stage, j, bad) ==
    CASE stage = "cache"   -> AfterCache(j)
      [] stage = "net"     -> IF "net" \in bad THEN ModulesStage(j) ELSE "hash"
      [] stage = "hash"    -> ModulesStage(j)
      [] stage = "modules" -> IF bad \cap Module # {} THEN "done" ELSE "find"
      [] stage = "menu"    -> IF "menu" \in bad THEN "done" ELSE "ipxe"
      [] stage = "ipxe"    -> IF "ipxe" \in bad THEN "done" ELSE "ok"

\* Where a call goes when all the files of a stage are written or failed, `bad`
\* being those that failed: an error of networking.json or of its hash is
\* swallowed, any other ends the call ("done": its callback gets the error).
AfterStage(stage, j, bad) ==
    CASE stage = "cache"   -> IF "cache" \in bad THEN "done" ELSE AfterCache(j)
      [] stage = "net"     -> IF "net" \in bad THEN ModulesStage(j) ELSE "hash"
      [] stage = "hash"    -> ModulesStage(j)
      [] stage = "modules" -> IF bad \cap Module # {} THEN "done" ELSE "find"
      [] stage = "menu"    -> IF "menu" \in bad THEN "done" ELSE "ipxe"
      [] stage = "ipxe"    -> IF "ipxe" \in bad THEN "done" ELSE "ok"

\* Call c goes on to `stage` with job j; what it knew is gone when it ends.
GoTo(c, stage, j, bad, list) ==
    LET over == stage = "done"
    IN /\ pc'     = [pc EXCEPT ![c] = stage]
       /\ job'    = [job EXCEPT ![c] = IF over THEN NoJob ELSE j]
       /\ todo'   = [todo EXCEPT ![c] = FilesOf(stage, j)]
       /\ opened' = [opened EXCEPT ![c] = {}]
       /\ written' = [written EXCEPT ![c] = {}]
       /\ failed' = [failed EXCEPT ![c] = IF over THEN {} ELSE bad]
       /\ found'  = [found EXCEPT ![c] = IF over THEN NoListing ELSE list]

\* History: a call is alone as long as all others that know their job share it.
Track ==
    alone' = [c \in Call |->
                 \/ job'[c] = NoJob
                 \/ alone[c] /\ \A d \in Call : job'[d] \in {NoJob, job'[c]}]

\* One file of the stage is finished, well or not.
FileDone(c, p, bad) ==
    /\ IF todo[c] \cup opened[c] = {p}
       THEN GoTo(c, AfterStage(pc[c], job[c], bad), job[c], bad, found[c])
       ELSE /\ todo' = [todo EXCEPT ![c] = @ \ {p}]
            /\ opened' = [opened EXCEPT ![c] = @ \ {p}]
            /\ written' = [written EXCEPT ![c] = @ \ {p}]
            /\ failed' = [failed EXCEPT ![c] = bad]
            /\ UNCHANGED <<pc, job, found>>
    /\ Track

-------------------------------------------------------------------------------
(* The steps of a call.                                                    *)

Begin(c) ==
    /\ pc[c] = "idle"
    /\ pc' = [pc EXCEPT ![c] = "params"]
    /\ UNCHANGED <<current, file, job, todo, opened, written, failed, found,
                   assembled, alone, faults>>

\* getBootParams with NAPI and CNAPI answering: BootParams has the details.
Resolve(c) ==
    /\ pc[c] = "params"
    /\ GoTo(c, "cache", [ver |-> current, fresh |-> TRUE, os |-> OsOf[current]],
            {}, NoListing)
    /\ Track
    /\ assembled' = assembled \cup {current}
    /\ UNCHANGED <<current, file, faults>>

\* The services fail or are slow: getBootParams answers from the cache, with
\* bootParams alone.  Only a refresh knows the platforms then, and without them
\* the operating system is taken to be SmartOS (menulst.js:468-477).
FallBack(c) ==
    /\ pc[c] = "params"
    /\ IF Store!Readable(file["cache"])
       THEN LET v == file["cache"].content.ver
                j == [ver |-> v, fresh |-> FALSE,
                      os |-> IF c \in Refresher THEN OsOf[v] ELSE "smartos"]
            IN GoTo(c, ModulesStage(j), j, {}, NoListing)
       ELSE GoTo(c, "done", NoJob, {}, NoListing)
    /\ Track
    /\ UNCHANGED <<current, file, assembled, faults>>

OpenFile(c, p) ==
    /\ p \in todo[c]
    /\ file' = [file EXCEPT ![p] = Store!Opened]
    /\ todo' = [todo EXCEPT ![c] = @ \ {p}]
    /\ opened' = [opened EXCEPT ![c] = @ \cup {p}]
    /\ UNCHANGED <<current, pc, job, written, failed, found, assembled, alone,
                   faults>>

ImageFor(c, p) == IF p \in Scripts THEN Script(job[c], found[c]) ELSE Plain(job[c].ver)

\* The write itself: fs.writeFile has yet to call back.
WriteFile(c, p) ==
    /\ p \in opened[c] \ written[c]
    /\ file' = [file EXCEPT ![p] = Store!Wrote(@, ImageFor(c, p))]
    /\ written' = [written EXCEPT ![c] = @ \cup {p}]
    /\ UNCHANGED <<current, pc, job, todo, opened, failed, found, assembled, alone,
                   faults>>

\* Its callback: by now another call may have opened the file again.
FileWritten(c, p) ==
    /\ p \in written[c]
    /\ FileDone(c, p, failed[c])
    /\ UNCHANGED <<current, file, assembled, faults>>

\* mkdirp, open or write calls back with an error.
FileFails(c, p) ==
    /\ faults < MaxFaults
    /\ p \in todo[c] \cup (opened[c] \ written[c])
    /\ FileDone(c, p, failed[c] \cup {p})
    /\ faults' = faults + 1
    /\ UNCHANGED <<current, file, assembled>>

\* The directory of the boot modules cannot be made: none of them is written.
MkdirFails(c) ==
    /\ faults < MaxFaults
    /\ pc[c] = "modules"
    /\ todo[c] = ModulesOf[job[c].ver]
    /\ GoTo(c, "done", NoJob, {}, NoListing)
    /\ Track
    /\ faults' = faults + 1
    /\ UNCHANGED <<current, file, assembled>>

\* Mutant: the walk starts at the TFTP root.
FindFiles_RootMutant(c) ==
    /\ pc[c] = "find"
    /\ GoTo(c, "menu", job[c], failed[c],
            [names |-> {p \in Path \ {"cache"} : file[p].exists}, whole |-> TRUE])
    /\ Track
    /\ UNCHANGED <<current, file, assembled, faults>>

\* find.js, then the menu is built.  Nothing removes a file from the
\* directory: files of earlier versions are found and listed as well.  What
\* the walk cannot read is logged and left out, and booting goes on.  The walk
\* is one step: it reads the directory with networking.json and its hash at once.
FindFiles(c) ==
    /\ pc[c] = "find"
    /\ LET there == {p \in BootFs : file[p].exists}
       IN \/ /\ GoTo(c, "menu", job[c], failed[c], [names |-> there, whole |-> TRUE])
             /\ UNCHANGED faults
          \/ /\ faults < MaxFaults
             /\ \E names \in SUBSET there :
                   GoTo(c, "menu", job[c], failed[c], [names |-> names, whole |-> FALSE])
             /\ faults' = faults + 1
    /\ Track
    /\ UNCHANGED <<current, file, assembled>>

\* The callback of writeAll.
Return(c) ==
    /\ pc[c] = "ok"
    /\ GoTo(c, "done", NoJob, {}, NoListing)
    /\ Track
    /\ UNCHANGED <<current, file, assembled, faults>>

\* The process dies, of an uncaught exception too: stat of tftpRoot failing is
\* one (menulst.js:513 uses the missing result).  smf starts it again.
Crash ==
    /\ faults < MaxFaults
    /\ faults' = faults + 1
    /\ pc' = [c \in Call |-> IF pc[c] = "idle" THEN "idle" ELSE "done"]
    /\ job' = [c \in Call |-> NoJob]
    /\ todo' = [c \in Call |-> {}]
    /\ opened' = [c \in Call |-> {}]
    /\ written' = [c \in Call |-> {}]
    /\ failed' = [c \in Call |-> {}]
    /\ found' = [c \in Call |-> NoListing]
    /\ alone' = [c \in Call |-> TRUE]
    /\ UNCHANGED <<current, file, assembled>>

\* An operator changes the CN's configuration.
Configure ==
    /\ current < Latest
    /\ current' = current + 1
    /\ UNCHANGED <<file, callVars, assembled, faults>>

Next ==
    \/ \E c \in Call :
          \/ Begin(c) \/ Resolve(c) \/ FallBack(c) \/ FindFiles(c) \/ Return(c)
          \/ MkdirFails(c)
          \/ \E p \in Path : \/ OpenFile(c, p) \/ WriteFile(c, p)
                             \/ FileWritten(c, p) \/ FileFails(c, p)
    \/ Crash
    \/ Configure

Spec == Init /\ [][Next]_vars

-------------------------------------------------------------------------------
(* Every variable stays in its set.                                        *)
TypeOK ==
    /\ current \in Version
    /\ file \in [Path -> Store!File]
    /\ pc \in [Call -> Stage \cup {"idle", "params", "find", "ok", "done"}]
    /\ job \in [Call -> Job \cup {NoJob}]
    /\ todo \in [Call -> SUBSET Path]
    /\ opened \in [Call -> SUBSET Path]
    /\ written \in [Call -> SUBSET Path]
    /\ failed \in [Call -> SUBSET Path]
    /\ found \in [Call -> Listing]
    /\ assembled \subseteq Version
    /\ alone \in [Call -> BOOLEAN]
    /\ faults \in 0..MaxFaults

(* A script that was written in one piece names only files that are there. *)
(* It names all the boot modules of its params, and a hash only together   *)
(* with the file it is of, unless an error cut the walk short, which only  *)
(* the log tells (find.js:49-52, boot-files.js:134-138), or boot time files*)
(* are disabled: otherwise the CN's boot loader stops at a missing module  *)
(* (boot-files.js:113-140 writes, lists and names the files in this order).*)
ScriptsListFiles ==
    \A p \in Scripts : Store!Readable(file[p]) =>
        LET s == file[p].content
        IN /\ \A q \in s.lists.names : file[q].exists
           /\ s.lists.whole /\ ~ DisableBootTimeFiles =>
                 /\ ModulesOf[s.ver] \subseteq s.lists.names
                 /\ "hash" \in s.lists.names => "net" \in s.lists.names

(* A call that had no other job running beside it leaves, when it calls    *)
(* back, no trace of another version or operating system in any file it is *)
(* answerable for: what is offered, what TFTP serves and what the REQUEST  *)
(* will read agree, networking.json and its hash are a pair unless one of  *)
(* them could not be written, and the operating system is the one of the   *)
(* platform unless the answer came from the cache.  A file may be empty    *)
(* while another call with the same job rewrites it.                       *)
Answerable(c) ==
    Scripts \cup ModulesOf[job[c].ver]
        \cup (IF job[c].fresh THEN {"cache"} ELSE {})
        \cup (IF NetWritten(job[c]) /\ failed[c] = {} THEN {"net", "hash"} ELSE {})

FilesMatchAnswer ==
    \A c \in Call : pc[c] = "ok" /\ alone[c] =>
        /\ \A p \in Answerable(c) :
              file[p].content # NoImage =>
                  /\ file[p].content.ver = job[c].ver
                  /\ p \in Scripts => file[p].content.os = job[c].os
        /\ job[c].fresh => job[c].os = OsOf[job[c].ver]

(* writeAll is, for DHCP, what module WriteAll says it is: in particular   *)
(* it succeeds only when its own params are stored and both scripts have   *)
(* been written.                                                           *)
CacheSeen ==
    [exists  |-> file["cache"].exists,
     length  |-> file["cache"].length,
     content |-> IF file["cache"].content = NoImage THEN 0 ELSE file["cache"].content.ver]

ScriptsSeen == \A p \in Scripts : file[p].exists

Doing(st, td, wr) ==
    CASE st \in {"idle", "done"} -> "idle"
      [] st = "cache" -> IF td # {} THEN "open" ELSE IF wr = {} THEN "write" ELSE "rest"
      [] st \in {"params", "ok"} -> st
      [] OTHER -> "rest"

StepsSeen    == [c \in Call |-> Doing(pc[c], todo[c], written[c])]
VersionsSeen == [c \in Call |-> job[c].ver]

AsWriteAll == INSTANCE WriteAll WITH
    cache <- CacheSeen, ready <- ScriptsSeen, ver <- VersionsSeen, pc <- StepsSeen

ImplementsWriteAll == AsWriteAll!Spec
===============================================================================
