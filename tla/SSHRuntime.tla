------------------------------- MODULE SSHRuntime -------------------------------
(***************************************************************************)
(* The managed SSH clients of the worker (runtime/sshpool.go) and the      *)
(* worker handler that locks server access (worker.go, casigner.go).       *)
(*                                                                         *)
(* r.clients holds one long-lived client per server.  connectMu serialises *)
(* Connect over all servers; r.mu protects only the map, and probes,       *)
(* dials, closes and calls to the signer run outside of it.                *)
(*                                                                         *)
(* A goroutine runs one of four operations:                                *)
(*   "connect"     Connect: connection manager, terminal create, requests  *)
(*   "keepalive"   KeepAlive of the connection manager                     *)
(*   "disconnect"  Disconnect: prune, unusable output, debug request       *)
(*   "lock"        lockRuntime: runtime.Lock, then signer.Lock             *)
(* The runtime is the worker's: the CA key is behind a provider (the       *)
(* signer service), so r.locked is never consulted.                        *)
(***************************************************************************)
EXTENDS Integers, FiniteSets

CONSTANTS Goroutine,   \* goroutines that call the runtime
          Server,      \* the configured servers
          Jump,        \* server.JumpServerID, NoServer for a direct connection
          LocalKey,    \* the servers whose key signs without the signer service
          NoServer,
          NoGoroutine,
          MaxClients   \* bound: clients ever dialled

ASSUME RuntimeAssumption ==
    /\ NoServer \notin Server
    /\ NoGoroutine \notin Goroutine
    /\ Jump \in [Server -> Server \cup {NoServer}]
    /\ LocalKey \subseteq Server
    /\ MaxClients \in Nat

Client   == 1..MaxClients
NoClient == 0

VARIABLES
    clients,    \* r.clients: the managed client of each server
    link,       \* the connection under a client: "none", "up" or "down"
    dialled,    \* the clients 1..dialled have been created so far
    connectMu,  \* the holder of r.connectMu
    signer,     \* the signer service: "locked" or "unlocked"
    pc,         \* where each goroutine is
    job,        \* the operation it runs
    server,     \* the server it works on
    held,       \* the client it snapshotted, dialled or removed
    via,        \* the jump client its dial goes through
    closing     \* the clients it took out of the map and has yet to close

runtime   == <<clients, link, dialled, connectMu, signer>>
goroutine == <<pc, job, server, held, via, closing>>
vars      == <<runtime, goroutine>>

TypeOK ==
    /\ clients \in [Server -> Client \cup {NoClient}]
    /\ link \in [Client -> {"none", "up", "down"}]
    /\ dialled \in 0..MaxClients
    /\ connectMu \in Goroutine \cup {NoGoroutine}
    /\ signer \in {"locked", "unlocked"}
    /\ pc \in [Goroutine -> {"idle", "enter", "check", "probe", "sign", "route",
                             "dial", "store", "take", "close", "seal"}]
    /\ job \in [Goroutine -> {"connect", "keepalive", "disconnect", "lock"}]
    /\ server \in [Goroutine -> Server]
    /\ held \in [Goroutine -> Client \cup {NoClient}]
    /\ via \in [Goroutine -> Client \cup {NoClient}]
    /\ closing \in [Goroutine -> SUBSET Client]

Init ==
    /\ clients = [s \in Server |-> NoClient]
    /\ link = [c \in Client |-> "none"]
    /\ dialled = 0
    /\ connectMu = NoGoroutine
    /\ signer = "locked"
    /\ pc = [g \in Goroutine |-> "idle"]
    /\ job = [g \in Goroutine |-> "connect"]
    /\ server \in [Goroutine -> Server]
    /\ held = [g \in Goroutine |-> NoClient]
    /\ via = [g \in Goroutine |-> NoClient]
    /\ closing = [g \in Goroutine |-> {}]

--------------------------------------------------------------------------------
(* Steps shared by the operations.                                         *)

Goto(g, where) == pc' = [pc EXCEPT ![g] = where]

(* The operation returns; a Connect gives up connectMu. *)
Return(g) ==
    /\ Goto(g, "idle")
    /\ held' = [held EXCEPT ![g] = NoClient]
    /\ via' = [via EXCEPT ![g] = NoClient]

ReleaseConnectMu(g) == connectMu' = IF connectMu = g THEN NoGoroutine ELSE connectMu

(* Mutant: disconnectClient deletes whatever client the server has. *)
WithoutAny(s, c) == [clients EXCEPT ![s] = NoClient]

(* r.clients without client c of server s, unless it was replaced already. *)
Without(s, c) ==
    IF clients[s] = c THEN [clients EXCEPT ![s] = NoClient] ELSE clients

--------------------------------------------------------------------------------
(* The operations begin.                                                   *)

BeginConnect(g, s) ==
    /\ pc[g] = "idle"
    /\ Goto(g, "enter")
    /\ job' = [job EXCEPT ![g] = "connect"]
    /\ server' = [server EXCEPT ![g] = s]
    /\ UNCHANGED <<runtime, held, via, closing>>

(* KeepAlive reads the client and goes on to probe it, or finds none. *)
BeginKeepAlive(g, s) ==
    /\ pc[g] = "idle"
    /\ clients[s] # NoClient
    /\ Goto(g, "probe")
    /\ job' = [job EXCEPT ![g] = "keepalive"]
    /\ server' = [server EXCEPT ![g] = s]
    /\ held' = [held EXCEPT ![g] = clients[s]]
    /\ UNCHANGED <<runtime, via, closing>>

BeginTake(g, what, s) ==
    /\ pc[g] = "idle"
    /\ Goto(g, "take")
    /\ job' = [job EXCEPT ![g] = what]
    /\ server' = [server EXCEPT ![g] = s]
    /\ UNCHANGED <<runtime, held, via, closing>>

BeginDisconnect(g, s) == BeginTake(g, "disconnect", s)
BeginLock(g) == \E s \in Server : BeginTake(g, "lock", s)

--------------------------------------------------------------------------------
(* Connect.                                                                *)

(* Mutant: Connect is serialised per server only. *)
MayEnterPerServer(g) ==
    \A h \in Goroutine :
        h # g /\ job[h] = "connect" /\ pc[h] \notin {"idle", "enter"} => server[h] # server[g]

(* Mutant: Connect does not serialise at all. *)
MayEnterAlways(g) == TRUE

(* connectMu.Lock, then the snapshot under r.mu. *)
MayEnter(g) == connectMu = NoGoroutine

Enter(g) ==
    /\ pc[g] = "enter"
    /\ MayEnter(g)
    /\ connectMu' = g
    /\ held' = [held EXCEPT ![g] = clients[server[g]]]
    /\ Goto(g, "check")
    /\ UNCHANGED <<clients, link, dialled, signer, job, server, via, closing>>

(* provider.Locked: an error or a locked signer ends the attempt. *)
CheckLocked(g) ==
    /\ pc[g] = "check"
    /\ \/ Return(g) /\ ReleaseConnectMu(g)
       \/ /\ signer = "unlocked"
          /\ Goto(g, IF held[g] = NoClient THEN "sign" ELSE "probe")
          /\ UNCHANGED <<connectMu, held, via>>
    /\ UNCHANGED <<clients, link, dialled, signer, job, server, closing>>

(* keepAliveClient answers: the client is alive. *)
ProbeAnswered(g) ==
    /\ pc[g] = "probe"
    /\ link[held[g]] = "up"
    /\ Return(g)
    /\ ReleaseConnectMu(g)
    /\ UNCHANGED <<clients, link, dialled, signer, job, server, closing>>

(* keepAliveClient fails or runs out of time: disconnectClient removes this
   client from the map, if it is still there, and closes it afterwards. *)
DropProbed(g) == Without(server[g], held[g])

(* Mutant: a client that failed its probe is only taken out of the map. *)
ProbedToForget(g) == {}

ProbedToClose(g) == {held[g]}

ProbeFailed(g) ==
    /\ pc[g] = "probe"
    /\ clients' = DropProbed(g)
    /\ closing' = [closing EXCEPT ![g] = ProbedToClose(g)]
    /\ Goto(g, "close")
    /\ UNCHANGED <<link, dialled, connectMu, signer, job, server, held, via>>

(* clientSignersFor asks the signer for a certificate or a custom key, or
   uses a local protected key; a missing or invalid host key returns early. *)
Sign(g) ==
    /\ pc[g] = "sign"
    /\ \/ Return(g) /\ ReleaseConnectMu(g)
       \/ /\ signer = "unlocked" \/ server[g] \in LocalKey
          /\ Goto(g, "route")
          /\ UNCHANGED <<connectMu, held, via>>
    /\ UNCHANGED <<clients, link, dialled, signer, job, server, closing>>

(* dialTCP: a chained server dials through the managed client of its jump
   server, and fails when there is none. *)
Route(g) ==
    LET jump == Jump[server[g]] IN
    /\ pc[g] = "route"
    /\ IF jump = NoServer
       THEN /\ Goto(g, "dial")
            /\ UNCHANGED <<connectMu, held, via>>
       ELSE IF clients[jump] = NoClient
       THEN Return(g) /\ ReleaseConnectMu(g)
       ELSE /\ via' = [via EXCEPT ![g] = clients[jump]]
            /\ Goto(g, "dial")
            /\ UNCHANGED <<connectMu, held>>
    /\ UNCHANGED <<clients, link, dialled, signer, job, server, closing>>

DialFailed(g) ==
    /\ pc[g] = "dial"
    /\ Return(g)
    /\ ReleaseConnectMu(g)
    /\ UNCHANGED <<clients, link, dialled, signer, job, server, closing>>

Dialled(g) ==
    /\ pc[g] = "dial"
    /\ dialled < MaxClients
    /\ via[g] # NoClient => link[via[g]] = "up"
    /\ dialled' = dialled + 1
    /\ link' = [link EXCEPT ![dialled'] = "up"]
    /\ held' = [held EXCEPT ![g] = dialled']
    /\ Goto(g, "store")
    /\ UNCHANGED <<clients, connectMu, signer, job, server, via, closing>>

(* The new client goes into the map under r.mu, whatever happened since the
   snapshot; a client it finds there is closed at once. *)
Store(g) ==
    LET old == clients[server[g]] IN
    /\ pc[g] = "store"
    /\ link' = [c \in Client |-> IF c = old THEN "down" ELSE link[c]]
    /\ clients' = [clients EXCEPT ![server[g]] = held[g]]
    /\ Return(g)
    /\ ReleaseConnectMu(g)
    /\ UNCHANGED <<dialled, signer, job, server, closing>>

--------------------------------------------------------------------------------
(* Disconnect and Lock take clients out under r.mu and close them later.   *)


(* Mutant: Disconnect closes the client of a server that has none. *)
TakenUnchecked(of) == {clients[s] : s \in of}

(* The clients of some servers; a server without one has nothing to close. *)
Taken(of) == {clients[s] : s \in of} \ {NoClient}

Emptied(of) == [s \in Server |-> IF s \in of THEN NoClient ELSE clients[s]]

Take(g) ==
    LET of == IF job[g] = "lock" THEN Server ELSE {server[g]} IN
    /\ pc[g] = "take"
    /\ closing' = [closing EXCEPT ![g] = Taken(of)]
    /\ clients' = Emptied(of)
    /\ Goto(g, "close")
    /\ UNCHANGED <<link, dialled, connectMu, signer, job, server, held, via>>

Close(g) ==
    /\ pc[g] = "close"
    /\ \E c \in closing[g] :
         /\ link' = [link EXCEPT ![c] = "down"]
         /\ closing' = [closing EXCEPT ![g] = @ \ {c}]
    /\ UNCHANGED <<clients, dialled, connectMu, signer, pc, job, server, held, via>>

(* All closed: Connect goes on to dial, the lock handler to the signer. *)
Closed(g) ==
    /\ pc[g] = "close"
    /\ closing[g] = {}
    /\ CASE job[g] = "connect" -> Goto(g, "sign") /\ UNCHANGED <<held, via>>
         [] job[g] = "lock"    -> Goto(g, "seal") /\ UNCHANGED <<held, via>>
         [] OTHER              -> Return(g)
    /\ UNCHANGED <<runtime, job, server, closing>>

(* signer.Lock forgets the key, or the signer cannot be reached. *)
Seal(g) ==
    /\ pc[g] = "seal"
    /\ Return(g)
    /\ signer' \in {signer, "locked"}
    /\ UNCHANGED <<clients, link, dialled, connectMu, job, server, closing>>

--------------------------------------------------------------------------------
(* The environment.                                                        *)

(* An approved device unlocks the signer. *)
Unlock ==
    /\ signer = "locked"
    /\ signer' = "unlocked"
    /\ UNCHANGED <<clients, link, dialled, connectMu, goroutine>>

(* The target or the network ends a connection; the client stays in the map
   until somebody probes it. *)
Lose(c) ==
    /\ link[c] = "up"
    /\ link' = [link EXCEPT ![c] = "down"]
    /\ UNCHANGED <<clients, dialled, connectMu, signer, goroutine>>

Step(g) ==
    \/ \E s \in Server : \/ BeginConnect(g, s)
                         \/ BeginKeepAlive(g, s)
                         \/ BeginDisconnect(g, s)
    \/ BeginLock(g)
    \/ Enter(g)
    \/ CheckLocked(g)
    \/ ProbeAnswered(g)
    \/ ProbeFailed(g)
    \/ Sign(g)
    \/ Route(g)
    \/ DialFailed(g)
    \/ Dialled(g)
    \/ Store(g)
    \/ Take(g)
    \/ Close(g)
    \/ Closed(g)
    \/ Seal(g)

Next ==
    \/ \E g \in Goroutine : Step(g)
    \/ Unlock
    \/ \E c \in Client : Lose(c)

Spec == Init /\ [][Next]_vars

--------------------------------------------------------------------------------
(* Safety.                                                                 *)

(* Every open connection belongs to somebody who will close it: it is the
   managed client of a server, it is about to become one, or the goroutine
   that took it out of the map has it in hand.  A replaced client, or one
   dropped between two critical sections, would stay open for ever. *)
NoConnectionLeak ==
    \A c \in Client : link[c] = "up" =>
        \/ \E s \in Server : clients[s] = c
        \/ \E g \in Goroutine : c \in closing[g] \/ (pc[g] = "store" /\ held[g] = c)

(* The slot a Connect stores its client into is free, although it looked at
   the slot long before, outside of r.mu: a new client never ends the live
   sessions of another one. *)
StoreFindsFreeSlot ==
    \A g \in Goroutine : pc[g] = "store" => clients[server[g]] = NoClient

(* Nobody can obtain a client that is about to be closed: what a goroutine
   closes has left the map before, and no server shares its client. *)
ClosingIsUnlisted ==
    /\ \A g \in Goroutine : \A c \in closing[g] : \A s \in Server : clients[s] # c
    /\ \A s, t \in Server : clients[s] = clients[t] /\ s # t => clients[s] = NoClient

(* A managed client leaves the map only when this very client failed a probe,
   or when the server is disconnected or access is locked on purpose.  A late
   answer about an older client never costs the server its new one. *)
OnlyTheFailedClientGoes ==
    [][\A s \in Server : clients[s] # NoClient /\ clients'[s] # clients[s] =>
         \E g \in Goroutine :
             \/ pc[g] = "probe" /\ pc'[g] = "close" /\ held[g] = clients[s]
             \/ pc[g] = "take" /\ pc'[g] = "close" /\ (job[g] = "lock" \/ server[g] = s)
      ]_vars

(* The inductive parts: who is inside Connect, and whose client is whose.  *)

Connecting(g) == job[g] = "connect" /\ pc[g] \notin {"idle", "enter"}

Control ==
    /\ \A g \in Goroutine :
         /\ Connecting(g) <=> connectMu = g
         /\ pc[g] \in {"enter", "check", "sign", "route", "dial", "store"} => job[g] = "connect"
         /\ pc[g] = "probe" => job[g] \in {"connect", "keepalive"}
         /\ pc[g] = "take" => job[g] \in {"disconnect", "lock"}
         /\ pc[g] = "seal" => job[g] = "lock"
         /\ pc[g] # "close" => closing[g] = {}
    /\ connectMu # NoGoroutine => Connecting(connectMu)

(* Within Connect the slot is free, or still holds the snapshot. *)
SlotIsKnown ==
    \A g \in Goroutine : Connecting(g) =>
        IF pc[g] \in {"check", "probe"} THEN clients[server[g]] \in {held[g], NoClient}
        ELSE clients[server[g]] = NoClient

Ownership ==
    /\ \A c \in Client : c > dialled <=> link[c] = "none"
    /\ \A s \in Server : clients[s] <= dialled
    /\ \A s, t \in Server : clients[s] = clients[t] /\ s # t => clients[s] = NoClient
    /\ \A g \in Goroutine :
         /\ held[g] <= dialled
         /\ \A c \in closing[g] : c <= dialled
         /\ pc[g] = "probe" =>
              held[g] # NoClient /\ \A t \in Server : clients[t] = held[g] => t = server[g]
         /\ pc[g] = "check" /\ held[g] # NoClient =>
              \A t \in Server : clients[t] = held[g] => t = server[g]
         /\ pc[g] = "store" =>
              /\ held[g] # NoClient
              /\ \A t \in Server : clients[t] # held[g]
              /\ \A h \in Goroutine : held[g] \notin closing[h] /\ (h # g => held[h] # held[g])

(* The runtime implements ManagedLinks: a server becomes connected only by the
   one Connect that found the signer unlocked, so that after the signer was
   locked at most one Connect can still add its client. *)
Past == {"probe", "sign", "route", "dial", "store", "close"}

Links == INSTANCE ManagedLinks WITH
    connected <- {s \in Server : clients[s] # NoClient},
    admitted <- IF connectMu # NoGoroutine /\ pc[connectMu] \in Past
                THEN server[connectMu] ELSE NoServer

ImplementsManagedLinks == Links!Spec

--------------------------------------------------------------------------------
(* What the user is told and the code does not do.                         *)

(* The confirmation dialog says that locking closes the SSH connections and
   that none is opened before the next unlock (frontend/src/main.tsx:1184).
   Connect does not look at the lock again between signing and Store. *)
LockedMeansDisconnected ==
    signer = "locked" => \A s \in Server : clients[s] = NoClient

================================================================================
