--------------------------- MODULE MCConnectionManager ---------------------------
(* Small instances of ConnectionManager for TLC. *)
EXTENDS ConnectionManager, TLC

CONSTANTS s1, s2, a1, a2, a3

DirectRoutes == s1 :> NoServer
ChainedRoutes == (s1 :> NoServer) @@ (s2 :> s1)
AttemptSymmetry == Permutations(Attempt)
================================================================================
