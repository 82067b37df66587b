--------------------------- MODULE MCAdminPoolCache ---------------------------
(* Instances of AdminPoolCache for TLC.                                    *)
EXTENDS AdminPoolCache

CONSTANTS s1, w1, r1, b1, poolA, poolB, none

\* {} is shorter than any pool, and one pool longer than the other.
MCSize == [p \in Payload |-> CASE p = NoPool -> 1 [] p = poolA -> 2 [] OTHER -> 3]
===============================================================================
