------------------------------- MODULE MCDhcpd --------------------------------
(* An instance of Dhcpd for TLC.                                           *)
EXTENDS Dhcpd

CONSTANTS c1, c2

\* The files of the second version are longer.
MCSizeOf == <<2, 3>>
===============================================================================
