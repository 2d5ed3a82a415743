-------------------------- MODULE MCSSHTransportPool --------------------------
(* Small instances of SSHTransportPool for TLC. *)
EXTENDS SSHTransportPool, TLC

CONSTANTS u1, u2, u3

Callers2 == {u1, u2}
Callers3 == {u1, u2, u3}
CallerSymmetry == Permutations(Caller)
================================================================================
