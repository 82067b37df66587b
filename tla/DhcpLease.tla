------------------------------ MODULE DhcpLease -------------------------------
(***************************************************************************)
(* What a compute node that boots can rely on, with booter's files,        *)
(* handlers and messages left out: the address it is offered and the       *)
(* address it gets come from boot params that were assembled for it from   *)
(* complete answers of NAPI and CNAPI, at some time; and when it takes an  *)
(* offer, the scripts it will ask TFTP for have been written.              *)
(***************************************************************************)
EXTENDS Naturals

CONSTANT Version    \* the versions of the CN's configuration

VARIABLES
    assembled,  \* versions whose boot params were assembled
    ready,      \* menu.lst and boot.ipxe have been written
    phase,      \* the CN: "discover", "request" or "bound"
    lease       \* the version of the offer it took, or of its address; 0: none

vars == <<assembled, ready, phase, lease>>

Init ==
    /\ assembled \in SUBSET Version
    /\ ready \in BOOLEAN
    /\ phase = "discover"
    /\ lease = 0

Assemble(v) ==
    /\ assembled' = assembled \cup {v}
    /\ UNCHANGED <<ready, phase, lease>>

WriteScripts ==
    /\ assembled # {}
    /\ ready' = TRUE
    /\ UNCHANGED <<assembled, phase, lease>>

TakeOffer(v) ==
    /\ phase = "discover"
    /\ ready
    /\ v \in assembled
    /\ phase' = "request"
    /\ lease' = v
    /\ UNCHANGED <<assembled, ready>>

Bind(v) ==
    /\ phase = "request"
    /\ v \in assembled
    /\ phase' = "bound"
    /\ lease' = v
    /\ UNCHANGED <<assembled, ready>>

StartOver ==
    /\ phase' = "discover"
    /\ lease' = 0
    /\ UNCHANGED <<assembled, ready>>

Next ==
    \/ \E v \in Version : Assemble(v) \/ TakeOffer(v) \/ Bind(v)
    \/ WriteScripts
    \/ StartOver

Spec == Init /\ [][Next]_vars
===============================================================================
