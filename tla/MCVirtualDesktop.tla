---------------------------- MODULE MCVirtualDesktop ----------------------------
(* Small instances of VirtualDesktop for TLC. *)
EXTENDS VirtualDesktop, TLC

CONSTANTS d1, d2

TwoAndOne == (d1 :> 2) @@ (d2 :> 1)
================================================================================
