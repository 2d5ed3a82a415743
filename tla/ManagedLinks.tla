------------------------------ MODULE ManagedLinks ------------------------------
(***************************************************************************)
(* What SSHRuntime promises to its callers: which servers have a managed   *)
(* client, and that one Connect at a time, admitted while the signer was   *)
(* unlocked, can add at most the one server it was called for.             *)
(***************************************************************************)
CONSTANTS Server, NoServer

VARIABLES
    connected,  \* the servers IsConnected answers true for
    admitted,   \* the server of the Connect that passed the lock check
    signer      \* the signer service: "locked" or "unlocked"

links == <<connected, admitted, signer>>

Init ==
    /\ connected = {}
    /\ admitted = NoServer
    /\ signer = "locked"

(* A Connect finds server access unlocked. *)
Admit(s) ==
    /\ signer = "unlocked"
    /\ admitted = NoServer
    /\ admitted' = s
    /\ UNCHANGED <<connected, signer>>

(* It returns, with a new client for its server or without one. *)
Establish(s) ==
    /\ admitted = s
    /\ s \notin connected
    /\ connected' = connected \cup {s}
    /\ admitted' = NoServer
    /\ UNCHANGED signer

GiveUp ==
    /\ admitted # NoServer
    /\ admitted' = NoServer
    /\ UNCHANGED <<connected, signer>>

(* Clients leave one at a time, after a failed probe or by Disconnect, or
   all at once, by Lock. *)
Drop(s) ==
    /\ s \in connected
    /\ connected' = connected \ {s}
    /\ UNCHANGED <<admitted, signer>>

DropAll ==
    /\ connected' = {}
    /\ UNCHANGED <<admitted, signer>>

SealSigner ==
    /\ signer' = "locked"
    /\ UNCHANGED <<connected, admitted>>

UnlockSigner ==
    /\ signer' = "unlocked"
    /\ UNCHANGED <<connected, admitted>>

Next ==
    \/ \E s \in Server : Admit(s) \/ Establish(s) \/ Drop(s)
    \/ GiveUp
    \/ DropAll
    \/ SealSigner
    \/ UnlockSigner

Spec == Init /\ [][Next]_links

================================================================================
