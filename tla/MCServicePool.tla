---------------------------- MODULE MCServicePool ----------------------------
(* ServicePool for TLC: three clients, four addresses, two of them allowed   *)
(* in the map.                                                               *)
EXTENDS ServicePool
MCAddresses == 1..4
=============================================================================
