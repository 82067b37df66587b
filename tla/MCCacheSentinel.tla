--------------------------- MODULE MCCacheSentinel ----------------------------
(* Instances of CacheSentinel for TLC: m1 has a nic with the tag 'admin' on *)
(* a network of the admin pool, so two requests list it; m2 only the tag.   *)
EXTENDS CacheSentinel

CONSTANTS m1, m2
===============================================================================
