---------------------------- MODULE MCBootParams ----------------------------
(* Instances of BootParams for TLC.                                        *)
EXTENDS BootParams, TLC

CONSTANTS c1, c2, m1, t1, own

MCParams == {own, DefaultParams}

\* The default params are shorter than a server's own; or all have one size.
MCSize     == [p \in Payload |-> IF p.params = own THEN 2 ELSE 1]
MCSameSize == [p \in Payload |-> 1]

Symmetry == Permutations({c1, c2})

\* To keep the number of initial states low: the file left by an earlier run
\* of the process, if any, holds the params the CN was set up with.
MCInit ==
    /\ Init
    /\ \A m \in Mac : file[m] \in {Store!Absent,
                                   Store!Holding([params |-> own, net |-> "admin"])}
    /\ \A m \in Mac : nic[m].net # "pool"

MCSpec     == MCInit /\ [][Next]_vars
MCFairSpec == MCSpec /\ Fairness
===============================================================================
