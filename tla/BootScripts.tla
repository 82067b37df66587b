----------------------------- MODULE BootScripts ------------------------------
(***************************************************************************)
(* What menu.lst and boot.ipxe tell a CN to load: findFiles of lib/find.js *)
(* and buildMenuLst, buildIpxeCfg and _isHashNeeded of lib/menulst.js.     *)
(* Console, flags and kernel arguments are left out.                       *)
(*                                                                         *)
(* A file is [dir, of, type]: in the directory "os" of the platform, in    *)
(* "bootfs" or in "extra"; a name that matches HASH_RE has type "hash",    *)
(* and of is the name without ".hash".  A line of a script is a record of  *)
(* the file it loads, and of the type and the name under which the CN gets *)
(* it.  A title of menu.lst, and boot.ipxe, are sequences of lines.        *)
(*                                                                         *)
(* o, the options of writeMenuLst, has os ("smartos" or "linux"),          *)
(* bootFiles (a sequence, empty where the code has none), bootFsDir and    *)
(* bootFsDirRelative (TRUE if set), disableBootTimeFiles, disableHash, and *)
(* tftp, the set of platform files under tftpRoot.                         *)
(***************************************************************************)
EXTENDS Naturals, Sequences, SequencesExt

InBootFs(of, type) == [dir |-> "bootfs", of |-> of, type |-> type]

Networking == {InBootFs("networking.json", type) : type \in {"file", "hash"}}

\* The files of one kind, in the order in which the walk meets them.
Pushed(walk, kind) ==
    FoldLeft(LAMBDA pushed, f : IF f \in kind THEN Append(pushed, f) ELSE pushed,
             <<>>, walk)

\* Mutant: the files are listed as they are found.
FindFiles_Mutant(walk) == walk

\* findFiles, for the order in which the walk meets the files: the networking
\* files come first, sorted.
FindFiles(walk) ==
    Pushed(walk, {InBootFs("networking.json", "file")})
        \o Pushed(walk, {InBootFs("networking.json", "hash")})
        \o Pushed(walk, ToSet(walk) \ Networking)

-------------------------------------------------------------------------------
(* Files of a platform, and lines that load them.                          *)

InOs(of) == [dir |-> "os", of |-> of, type |-> "file"]

Kernel(o)  == InOs(IF o.os = "smartos" THEN "unix" ELSE "vmlinuz")
Ramdisk(o) == InOs(IF o.os = "smartos" THEN "boot_archive" ELSE "initrd")
HashOf(file) == [file EXCEPT !.type = "hash"]

\* The name is what comes before the name of the file, this one, and the type if
\* its extension is kept.  A module that is given no type has "".
Line(type, before, of, ext, file) ==
    [type |-> type, name |-> <<before, of, ext>>, file |-> file]

\* On Linux the commands kernel and initrd are what the types are on SmartOS.
PlatformLines(o) ==
    << Line("kernel", "", "kernel", "", Kernel(o)),
       Line("rootfs", "", "ramdisk", "", Ramdisk(o)) >>

\* _isHashNeeded: the stat of the hash of the ramdisk stands for all hashes.
UseHash(o) == HashOf(Ramdisk(o)) \in o.tftp /\ ~ o.disableHash

SmartosHash(o) ==
    IF UseHash(o) THEN <<Line("hash", "", "ramdisk", "", HashOf(Ramdisk(o)))>> ELSE <<>>

LinuxHashes(o) ==
    LET hash(file) == Line("", "", file.of, "hash", HashOf(file))
    IN IF UseHash(o) THEN <<hash(InOs("squashfs")), hash(Ramdisk(o))>> ELSE <<>>

NodeConfigFile == [dir |-> "extra", of |-> "node.config", type |-> "file"]

-------------------------------------------------------------------------------
(* The scripts.  Each of three blocks names the boot files for itself.     *)

\* Mutant: a hash is given the name of its file, and its type too.
MenuModules_Mutant(o) ==
    LET bootFiles == IF o.bootFsDir THEN o.bootFiles ELSE <<>>
    IN IF o.disableBootTimeFiles THEN <<>>
       ELSE [i \in DOMAIN bootFiles |->
                Line("file", "", bootFiles[i].of, "", bootFiles[i])]

\* addMenuItem, for the titles that are given the boot files.
MenuModules(o) ==
    LET bootFiles == IF o.bootFsDir THEN o.bootFiles ELSE <<>>
    IN IF o.disableBootTimeFiles THEN <<>>
       ELSE [i \in DOMAIN bootFiles |->
                Line(bootFiles[i].type, "", bootFiles[i].of, "", bootFiles[i])]

\* The title of Linux, without hashes.
LinuxMenuModules(o) ==
    LET module(f) == Line(f.type, "", f.of, "", f)
    IN (IF o.disableBootTimeFiles THEN <<>>
        ELSE [i \in DOMAIN o.bootFiles |-> module(o.bootFiles[i])])
           \o <<Line("file", "", "etc/node.config", "", NodeConfigFile)>>

\* buildMenuLst: the titles Live, +kmdb and Rescue on SmartOS; one on Linux.
MenuLst(o) ==
    LET live == PlatformLines(o) \o SmartosHash(o) \o MenuModules(o)
    IN IF o.os = "smartos" THEN <<live, live, PlatformLines(o)>>
       ELSE <<PlatformLines(o) \o LinuxMenuModules(o)>>

IpxeModules(o) ==
    LET module(f) == IF o.os = "smartos"
                     THEN Line(f.type, "", f.of, "", f)
                     ELSE Line("", "/etc/triton-", f.of, f.type, f)
    IN IF o.disableBootTimeFiles \/ ~ o.bootFsDirRelative THEN <<>>
       ELSE [i \in DOMAIN o.bootFiles |-> module(o.bootFiles[i])]

\* buildIpxeCfg.  On Linux the kernel fetches the squashfs itself.
IpxeCfg(o) ==
    PlatformLines(o)
        \o (IF o.os = "smartos" THEN SmartosHash(o)
            ELSE LinuxHashes(o) \o <<Line("", "/etc/", "node.config", "", NodeConfigFile)>>)
        \o IpxeModules(o)
===============================================================================
