------------------------------- MODULE WriteAll -------------------------------
(***************************************************************************)
(* What the DHCP server and the refresh see of writeAll (lib/boot-files.js)*)
(* for one CN: it gets the boot params, from NAPI and CNAPI or else from   *)
(* the cache file; stores the ones it fetched in that file; writes the     *)
(* scripts, and all else; and calls back, with an error if any of this     *)
(* fails.  Calls overlap.  Module BootFiles has the details.               *)
(***************************************************************************)
EXTENDS Naturals

CONSTANTS
    Call,       \* the calls of writeAll that may overlap
    Latest,     \* bound: versions of the CN's configuration
    SizeOf      \* bytes of the cache file of each version

Version == 1..Latest
None    == 0            \* no version

VARIABLES
    current,    \* external: the version NAPI and CNAPI would give now
    cache,      \* <cacheDir>/<mac>.json
    ready,      \* menu.lst and boot.ipxe are there
    assembled,  \* history: versions that were fetched, for this CN
    pc,         \* what each call does
    ver         \* the version of its boot params

vars == <<current, cache, ready, assembled, pc, ver>>

Store == INSTANCE JsonFile WITH
    Payload <- Version, Size <- SizeOf, NoPayload <- None

Init ==
    /\ current = 1
    /\ \/ cache = Store!Absent /\ ready = FALSE /\ assembled = {}
       \/ cache = Store!Holding(1) /\ ready = TRUE /\ assembled = {1}
    /\ pc = [c \in Call |-> "idle"]
    /\ ver = [c \in Call |-> None]

GoTo(c, step, v) ==
    /\ pc' = [pc EXCEPT ![c] = step]
    /\ ver' = [ver EXCEPT ![c] = v]

Begin(c) ==
    /\ pc[c] = "idle"
    /\ GoTo(c, "params", None)
    /\ UNCHANGED <<current, cache, ready, assembled>>

\* Mutant: a cache file that exists is not written again.
Resolve_Mutant(c) ==
    /\ pc[c] = "params"
    /\ GoTo(c, IF cache.exists THEN "rest" ELSE "open", current)
    /\ assembled' = assembled \cup {current}
    /\ UNCHANGED <<current, cache, ready>>

Resolve(c) ==
    /\ pc[c] = "params"
    /\ GoTo(c, "open", current)
    /\ assembled' = assembled \cup {current}
    /\ UNCHANGED <<current, cache, ready>>

FallBack(c) ==
    /\ pc[c] = "params"
    /\ IF Store!Readable(cache) THEN GoTo(c, "rest", cache.content)
                                ELSE GoTo(c, "idle", None)
    /\ UNCHANGED <<current, cache, ready, assembled>>

OpenCache(c) ==
    /\ pc[c] = "open"
    /\ cache' = Store!Opened
    /\ GoTo(c, "write", ver[c])
    /\ UNCHANGED <<current, ready, assembled>>

WriteCache(c) ==
    /\ pc[c] = "write"
    /\ cache' = Store!Wrote(cache, ver[c])
    /\ GoTo(c, "rest", ver[c])
    /\ UNCHANGED <<current, ready, assembled>>

WriteScripts(c) ==
    /\ pc[c] = "rest"
    /\ ready' = TRUE
    /\ UNCHANGED <<current, cache, assembled, pc, ver>>

Succeed(c) ==
    /\ pc[c] = "rest"
    /\ ready
    /\ GoTo(c, "ok", ver[c])
    /\ UNCHANGED <<current, cache, ready, assembled>>

\* Mutant: an error of the cache file does not hold up booting.
Fail_Mutant(c) ==
    /\ pc[c] \in {"open", "write", "rest"}
    /\ IF pc[c] = "rest" THEN GoTo(c, "idle", None) ELSE GoTo(c, "rest", ver[c])
    /\ UNCHANGED <<current, cache, ready, assembled>>

\* A file cannot be written: the callback gets the error.
Fail(c) ==
    /\ pc[c] \in {"open", "write", "rest"}
    /\ GoTo(c, "idle", None)
    /\ UNCHANGED <<current, cache, ready, assembled>>

Return(c) ==
    /\ pc[c] = "ok"
    /\ GoTo(c, "idle", None)
    /\ UNCHANGED <<current, cache, ready, assembled>>

\* All calls die with the process; smf starts it again.
Die ==
    /\ pc' = [c \in Call |-> "idle"]
    /\ ver' = [c \in Call |-> None]
    /\ UNCHANGED <<current, cache, ready, assembled>>

Configure ==
    /\ current < Latest
    /\ current' = current + 1
    /\ UNCHANGED <<cache, ready, assembled, pc, ver>>

Step(c) ==
    \/ Begin(c) \/ Resolve(c) \/ FallBack(c) \/ OpenCache(c) \/ WriteCache(c)
    \/ WriteScripts(c) \/ Succeed(c) \/ Fail(c) \/ Return(c)

Next == (\E c \in Call : Step(c)) \/ Die \/ Configure

Spec == Init /\ [][Next]_vars

TypeOKOfCalls ==
    /\ current \in Version
    /\ cache \in Store!File
    /\ ready \in BOOLEAN
    /\ assembled \subseteq Version
    /\ pc \in [Call -> {"idle", "params", "open", "write", "rest", "ok"}]
    /\ ver \in [Call -> Version \cup {None}]
===============================================================================
