----------------------------- MODULE MCBootFiles ------------------------------
(* An instance of BootFiles for TLC.                                       *)
EXTENDS BootFiles, TLC

CONSTANTS h1, r1, m1, m2

\* A CN that is moved from Linux to SmartOS; the files of the second version
\* are longer, and it has boot modules.
MCOsOf      == <<"linux", "smartos">>
MCModulesOf == <<{}, {m1, m2}>>
MCSizeOf    == <<1, 3>>
===============================================================================
