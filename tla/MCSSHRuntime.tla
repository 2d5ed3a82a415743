----------------------------- MODULE MCSSHRuntime -----------------------------
(* Small instances of SSHRuntime for TLC. *)
EXTENDS SSHRuntime, TLC

CONSTANTS g1, g2, g3, s1, s2

DirectRoutes == s1 :> NoServer
ChainedRoutes == (s1 :> NoServer) @@ (s2 :> s1)
GoroutineSymmetry == Permutations(Goroutine)
================================================================================
