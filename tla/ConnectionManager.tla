---------------------------- MODULE ConnectionManager ----------------------------
(***************************************************************************)
(* The worker's connection manager (worker/worker.go): it keeps one SSH    *)
(* connection to every server open, probes it, reconnects it when it is    *)
(* lost, and publishes a status per server.                                *)
(*                                                                         *)
(* Every ConnectAll request starts a new generation: the context of the    *)
(* old one is cancelled and the states and in-flight flags are replaced,   *)
(* but its goroutines run on until they notice.  A generation has one loop *)
(* (run, reconcile, manageServer) and spawns a goroutine per connect       *)
(* attempt.  The runtime is used through what ManagedLinks promises.       *)
(*                                                                         *)
(* Statuses and manager states are abstracted to what is told apart here:  *)
(* "blocked" stands for blocked_auth, blocked_config, host_key_required    *)
(* and host_key_mismatch, "failed" for every other final failure.          *)
(***************************************************************************)
EXTENDS Integers, FiniteSets

CONSTANTS Server,      \* ids of servers
          NoServer,
          Jump,        \* server.JumpServerID, NoServer for a direct connection
          Attempt,     \* goroutines that run connect
          Shared,      \* servers that terminals and requests connect to as well
          Deletable,   \* servers an administrator may delete
          Locks,       \* bound: whether access is ever locked in this instance
          MaxStarts,   \* bound: generations
          MaxEdits     \* bound: changes of a connection profile

ASSUME ManagerAssumption ==
    /\ NoServer \notin Server
    /\ Jump \in [Server -> Server \cup {NoServer}]
    /\ Shared \subseteq Server
    /\ Deletable \subseteq Server
    /\ Locks \in BOOLEAN
    /\ MaxStarts \in Nat
    /\ MaxEdits \in Nat

VARIABLES
    connected, admitted, signer,  \* the runtime and the signer: ManagedLinks
    listed,    \* the servers of the store
    profile,   \* the version of the fields serverConnectionFingerprint covers
    status,    \* the published status of each server
    gen,       \* generations started so far
    running,   \* m.cancel # nil: the newest generation is not stopped
    state,     \* managedConnectionState.State, "absent" without an entry
    waiting,   \* NextRetryAt is in the future
    blocked,   \* BlockedFingerprint, 0 for none
    inFlight,  \* m.connectInFlight
    loop,      \* where the loop of each generation is
    todo,      \* the servers its sweep has yet to visit
    seen,      \* the profiles as its sweep read them, 0 for a server not listed
    at,        \* the server it probes or publishes
    news,      \* the status it is about to publish
    target,    \* the generation and state entry a probe will update
    apc,       \* where each attempt is
    asrv,      \* its server
    agen,      \* the generation whose state entry it holds
    aseen,     \* the profile it was begun with
    result,    \* how its Connect ended
    locker,    \* the worker's lockRuntime handler
    toMark,    \* the servers MarkAllLocked has yet to mark
    clean      \* history: no goroutine of an older generation was left at Start

links   == <<connected, admitted, signer>>
store   == <<listed, profile, status>>
manager == <<gen, running, state, waiting, blocked, inFlight>>
loops   == <<loop, todo, seen, at, news, target>>
attempts == <<apc, asrv, agen, aseen, result>>
handler == <<locker, toMark>>
vars    == <<links, store, manager, loops, attempts, handler, clean>>

Runtime == INSTANCE ManagedLinks

Gen     == 1..MaxStarts
Profile == 1..MaxEdits + 1
State   == {"disconnected", "connected", "retrying", "jump_unavailable",
            "locked", "blocked", "failed"}
Status  == State \cup {"connecting"}

TypeOK ==
    /\ connected \subseteq Server
    /\ admitted \in Server \cup {NoServer}
    /\ signer \in {"locked", "unlocked"}
    /\ listed \subseteq Server
    /\ profile \in [Server -> Profile]
    /\ status \in [Server -> Status]
    /\ gen \in 0..MaxStarts
    /\ running \in BOOLEAN
    /\ state \in [Server -> State \cup {"absent"}]
    /\ waiting \in [Server -> BOOLEAN]
    /\ blocked \in [Server -> Profile \cup {0}]
    /\ inFlight \in [Server -> BOOLEAN]
    /\ loop \in [Gen -> {"off", "list", "sweep", "probe", "publish"}]
    /\ todo \in [Gen -> SUBSET Server]
    /\ seen \in [Gen -> [Server -> Profile \cup {0}]]
    /\ at \in [Gen -> Server \cup {NoServer}]
    /\ news \in [Gen -> Status]
    /\ target \in [Gen -> 0..MaxStarts]
    /\ apc \in [Attempt -> {"idle", "announce", "call", "admitted", "record", "publish"}]
    /\ asrv \in [Attempt -> Server \cup {NoServer}]
    /\ agen \in [Attempt -> 0..MaxStarts]
    /\ aseen \in [Attempt -> Profile \cup {0}]
    /\ result \in [Attempt -> {"connected", "network", "locked", "blocked", "other"}]
    /\ locker \in {"idle", "clear", "seal", "mark"}
    /\ toMark \subseteq Server
    /\ clean \in BOOLEAN

(* The worker has just started: nothing runs, every status says locked. *)
Init ==
    /\ Runtime!Init
    /\ listed = Server
    /\ profile = [s \in Server |-> 1]
    /\ status = [s \in Server |-> "locked"]
    /\ gen = 0 /\ running = FALSE
    /\ state = [s \in Server |-> "absent"]
    /\ waiting = [s \in Server |-> FALSE]
    /\ blocked = [s \in Server |-> 0]
    /\ inFlight = [s \in Server |-> FALSE]
    /\ loop = [n \in Gen |-> "off"]
    /\ todo = [n \in Gen |-> {}]
    /\ seen = [n \in Gen |-> [s \in Server |-> 0]]
    /\ at = [n \in Gen |-> NoServer]
    /\ news = [n \in Gen |-> "disconnected"]
    /\ target = [n \in Gen |-> 0]
    /\ apc = [a \in Attempt |-> "idle"]
    /\ asrv = [a \in Attempt |-> NoServer]
    /\ agen = [a \in Attempt |-> 0]
    /\ aseen = [a \in Attempt |-> 0]
    /\ result = [a \in Attempt |-> "other"]
    /\ locker = "idle" /\ toMark = {}
    /\ clean = TRUE

--------------------------------------------------------------------------------
(* Helpers.                                                                *)

(* Mutant: the status is written with the caller's context, which may have
   expired. *)
PublishInTime(s, st) ==
    \/ status' = status
    \/ status' = IF s \in listed THEN [status EXCEPT ![s] = st] ELSE status

(* upsertStatus, with a context of its own when the caller's has expired; the
   row of a deleted server cannot be written. *)
Publish(s, st) ==
    status' = IF s \in listed THEN [status EXCEPT ![s] = st] ELSE status

(* The context of generation n has been cancelled by a Stop or a Start. *)
Cancelled(n) == n # gen \/ ~running

(* An entry of generation n is still the one in m.states. *)
Current(n, s) == n = gen /\ state[s] # "absent"

Direct(s) == Jump[s] = NoServer

(* state[s] becomes st with the given retry wait and blocked fingerprint. *)
SetState(s, st, wait, fp) ==
    /\ state' = [state EXCEPT ![s] = st]
    /\ waiting' = [waiting EXCEPT ![s] = wait]
    /\ blocked' = [blocked EXCEPT ![s] = fp]

--------------------------------------------------------------------------------
(* Start and Stop.                                                         *)

(* Mutant: Start leaves the flags of the old generation. *)
FreshFlagsKept == inFlight

FreshFlags == [s \in Server |-> FALSE]

(* connectAll: after an unlock, and after any server was edited. *)
ConnectAll ==
    /\ gen < MaxStarts
    /\ gen' = gen + 1
    /\ running' = TRUE
    /\ state' = [s \in Server |-> "absent"]
    /\ waiting' = [s \in Server |-> FALSE]
    /\ blocked' = [s \in Server |-> 0]
    /\ inFlight' = FreshFlags
    /\ loop' = [loop EXCEPT ![gen'] = "list"]
    /\ clean' = (/\ \A n \in Gen : loop[n] = "off"
                 /\ \A a \in Attempt : apc[a] = "idle"
                 /\ locker = "idle")
    /\ UNCHANGED <<links, store, todo, seen, at, news, target, attempts, handler>>

(* lockRuntime: Stop; runtime.Lock; signer.Lock; MarkAllLocked. *)
LockStop ==
    /\ Locks
    /\ locker = "idle"
    /\ running' = FALSE
    /\ locker' = "clear"
    /\ clean' = FALSE
    /\ UNCHANGED <<links, store, gen, state, waiting, blocked, inFlight, loops,
                   attempts, toMark>>

LockClear ==
    /\ locker = "clear"
    /\ Runtime!DropAll
    /\ locker' = "seal"
    /\ UNCHANGED <<store, manager, loops, attempts, toMark, clean>>

LockSeal ==
    /\ locker = "seal"
    /\ \/ Runtime!SealSigner /\ locker' = "mark" /\ toMark' = listed
       \/ locker' = "idle" /\ UNCHANGED <<links, toMark>>
    /\ UNCHANGED <<store, manager, loops, attempts, clean>>

LockMark ==
    /\ locker = "mark"
    /\ IF toMark = {}
       THEN locker' = "idle" /\ UNCHANGED <<status, toMark>>
       ELSE \E s \in toMark : /\ Publish(s, "locked")
                              /\ toMark' = toMark \ {s}
                              /\ UNCHANGED locker
    /\ UNCHANGED <<links, listed, profile, manager, loops, attempts, clean>>

--------------------------------------------------------------------------------
(* The loop of a generation.                                               *)

(* run: at the start and on every tick.  reconcile lists the servers, prunes
   the entries of removed ones, which disconnects them, and sweeps. *)
List(n) ==
    LET removed == {s \in Server \ listed : state[s] # "absent"} IN
    /\ loop[n] = "list"
    /\ IF Cancelled(n)
       THEN /\ loop' = [loop EXCEPT ![n] = "off"]
            /\ UNCHANGED <<connected, state, todo, seen>>
       ELSE /\ state' = [s \in Server |-> IF s \in removed THEN "absent" ELSE state[s]]
            /\ connected' = connected \ removed
            /\ todo' = [todo EXCEPT ![n] = listed]
            /\ seen' = [seen EXCEPT ![n] = [s \in Server |-> IF s \in listed THEN profile[s] ELSE 0]]
            /\ loop' = [loop EXCEPT ![n] = "sweep"]
    /\ UNCHANGED <<admitted, signer, store, gen, running, waiting, blocked, inFlight,
                   at, news, target, attempts, handler, clean>>

(* The sweep is over, or its context was cancelled between two servers. *)
SweepEnd(n) ==
    /\ loop[n] = "sweep"
    /\ todo[n] = {} \/ Cancelled(n)
    /\ todo' = [todo EXCEPT ![n] = {}]
    /\ seen' = [seen EXCEPT ![n] = [s \in Server |-> 0]]
    /\ loop' = [loop EXCEPT ![n] = "list"]
    /\ UNCHANGED <<links, store, manager, at, news, target, attempts, handler, clean>>

(* manageServer is called for s: orderedServers puts jump servers before their
   targets; validateJumpChain has excluded cycles. *)
Visiting(n, s) ==
    /\ loop[n] = "sweep"
    /\ ~Cancelled(n)
    /\ s \in todo[n]
    /\ Direct(s) \/ Jump[s] \notin todo[n]

Done(n, s) == todo' = [todo EXCEPT ![n] = @ \ {s}]

(* The visit ends by publishing st for server t. *)
Announces(n, t, st) ==
    /\ loop' = [loop EXCEPT ![n] = "publish"]
    /\ at' = [at EXCEPT ![n] = t]
    /\ news' = [news EXCEPT ![n] = st]

(* stateFor creates the entry of a server that has none. *)
Entry(s) == IF state[s] = "absent" THEN "disconnected" ELSE state[s]

(* Mutant: a blocked server stays blocked whatever is edited. *)
BlockedForGood(n, s) == blocked[s] # 0

(* The server is blocked with the profile that the sweep read. *)
BlockedIn(n, s) == blocked[s] = seen[n][s]

(* The early returns: an attempt is in flight; blocked until the profile
   changes; connected and not due for a probe; the next retry is later. *)
Nothing(n, s) ==
    /\ Visiting(n, s)
    /\ \/ inFlight[s] /\ UNCHANGED state
       \/ /\ ~inFlight[s]
          /\ Entry(s) # "connected" => s \notin connected
          /\ \/ BlockedIn(n, s)
             \/ Entry(s) = "connected" /\ s \in connected
             \/ Entry(s) # "connected" /\ waiting[s]
          /\ state' = [state EXCEPT ![s] = Entry(s)]
    /\ Done(n, s)
    /\ UNCHANGED <<links, store, gen, running, waiting, blocked, inFlight, loop, seen, at,
                   news, target, attempts, handler, clean>>

(* The runtime has a connection the manager did not know of.  It is published,
   then the visit goes on. *)
Recover(n, s) ==
    /\ Visiting(n, s)
    /\ ~inFlight[s]
    /\ Entry(s) # "connected" /\ s \in connected
    /\ SetState(s, "connected", FALSE, 0)
    /\ Announces(n, s, "connected")
    /\ UNCHANGED <<links, store, gen, running, inFlight, todo, seen, target, attempts, handler,
                   clean>>

(* The established connection is gone. *)
Lost(n, s) ==
    /\ Visiting(n, s)
    /\ ~inFlight[s]
    /\ state[s] = "connected" /\ s \notin connected
    /\ ~BlockedIn(n, s)
    /\ SetState(s, "retrying", FALSE, blocked[s])
    /\ Announces(n, s, "retrying")
    /\ Done(n, s)
    /\ UNCHANGED <<links, store, gen, running, inFlight, seen, target, attempts, handler, clean>>

(* A probe is due. *)
Probe(n, s) ==
    /\ Visiting(n, s)
    /\ ~inFlight[s]
    /\ state[s] = "connected" /\ s \in connected
    /\ ~BlockedIn(n, s)
    /\ loop' = [loop EXCEPT ![n] = "probe"]
    /\ at' = [at EXCEPT ![n] = s]
    /\ target' = [target EXCEPT ![n] = gen]
    /\ Done(n, s)
    /\ UNCHANGED <<links, store, manager, seen, news, attempts, handler, clean>>

(* keepAlive: the probe is answered, or it fails, which drops the client it
   was sent to; a newer client stays. *)
ProbeAnswered(n) ==
    /\ loop[n] = "probe"
    /\ Announces(n, at[n], "connected")
    /\ UNCHANGED <<links, store, manager, todo, seen, target, attempts, handler, clean>>

ProbeFailed(n) ==
    LET s == at[n] IN
    /\ loop[n] = "probe"
    /\ connected' \in {connected, connected \ {s}}
    /\ IF Current(target[n], s)
       THEN SetState(s, "retrying", TRUE, blocked[s])
       ELSE UNCHANGED <<state, waiting, blocked>>
    /\ Announces(n, s, "retrying")
    /\ UNCHANGED <<admitted, signer, store, gen, running, inFlight, todo, seen, target,
                   attempts, handler, clean>>

Announced(n) ==
    /\ loop[n] = "publish"
    /\ Publish(at[n], news[n])
    /\ loop' = [loop EXCEPT ![n] = "sweep"]
    /\ at' = [at EXCEPT ![n] = NoServer]
    /\ news' = [news EXCEPT ![n] = "disconnected"]
    /\ target' = [target EXCEPT ![n] = 0]
    /\ UNCHANGED <<links, listed, profile, manager, todo, seen, attempts, handler, clean>>

(* s is due for a connect attempt. *)
Due(n, s) ==
    /\ Visiting(n, s)
    /\ ~inFlight[s]
    /\ Entry(s) # "connected" /\ s \notin connected
    /\ ~BlockedIn(n, s)
    /\ ~waiting[s]

JumpKnown(n, s) == seen[n][Jump[s]] # 0

(* Mutant: only the manager's own view of the jump server counts. *)
JumpUpByState(s) == Entry(Jump[s]) = "connected"

JumpUp(s) == Entry(Jump[s]) = "connected" \/ Jump[s] \in connected

(* A chained server whose jump server does not exist is blocked. *)
NoJump(n, s) ==
    /\ Due(n, s)
    /\ ~Direct(s) /\ ~JumpKnown(n, s)
    /\ SetState(s, "blocked", FALSE, seen[n][s])
    /\ Announces(n, s, "blocked")
    /\ Done(n, s)
    /\ UNCHANGED <<links, store, gen, running, inFlight, seen, target, attempts, handler, clean>>

JumpDown(n, s) ==
    /\ Due(n, s)
    /\ ~Direct(s) /\ JumpKnown(n, s) /\ ~JumpUp(s)
    /\ state' = [state EXCEPT ![s] = "jump_unavailable", ![Jump[s]] = Entry(Jump[s])]
    /\ waiting' = [waiting EXCEPT ![s] = FALSE]
    /\ Announces(n, s, "jump_unavailable")
    /\ Done(n, s)
    /\ UNCHANGED <<links, store, gen, running, blocked, inFlight, seen, target, attempts,
                   handler, clean>>

(* The jump server is connected behind the manager's back: its entry is put
   right and published, then the visit of s goes on. *)
RecoverJump(n, s) ==
    /\ Due(n, s)
    /\ ~Direct(s) /\ JumpKnown(n, s)
    /\ Entry(Jump[s]) # "connected" /\ Jump[s] \in connected
    /\ state' = [state EXCEPT ![s] = Entry(s), ![Jump[s]] = "connected"]
    /\ waiting' = [waiting EXCEPT ![Jump[s]] = FALSE]
    /\ blocked' = [blocked EXCEPT ![Jump[s]] = 0]
    /\ Announces(n, Jump[s], "connected")
    /\ UNCHANGED <<links, store, gen, running, inFlight, todo, seen, target, attempts,
                   handler, clean>>

(* Mutant: the flag is never set. *)
FlagsUnchanged(s) == inFlight

FlagsWith(s) == [inFlight EXCEPT ![s] = TRUE]

(* beginConnect sets the flag and the attempt runs in its own goroutine. *)
BeginConnect(n, s, a) ==
    /\ Due(n, s)
    /\ ~Direct(s) => JumpKnown(n, s) /\ Entry(Jump[s]) = "connected"
    /\ apc[a] = "idle"
    /\ inFlight' = FlagsWith(s)
    /\ state' = [state EXCEPT ![s] = Entry(s)]
    /\ apc' = [apc EXCEPT ![a] = "announce"]
    /\ asrv' = [asrv EXCEPT ![a] = s]
    /\ agen' = [agen EXCEPT ![a] = gen]
    /\ aseen' = [aseen EXCEPT ![a] = seen[n][s]]
    /\ Done(n, s)
    /\ UNCHANGED <<links, store, gen, running, waiting, blocked, loop, seen, at, news, target,
                   result, handler, clean>>

(* NextRetryAt passes. *)
RetryTime(s) ==
    /\ waiting[s]
    /\ waiting' = [waiting EXCEPT ![s] = FALSE]
    /\ UNCHANGED <<links, store, gen, running, state, blocked, inFlight, loops, attempts,
                   handler, clean>>

--------------------------------------------------------------------------------
(* A connect attempt.                                                      *)

Goto(a, where) == apc' = [apc EXCEPT ![a] = where]

Ends(a, how) ==
    /\ Goto(a, "record")
    /\ result' = [result EXCEPT ![a] = how]

Announce(a) ==
    /\ apc[a] = "announce"
    /\ Publish(asrv[a], "connecting")
    /\ Goto(a, "call")
    /\ UNCHANGED <<links, listed, profile, manager, loops, asrv, agen, aseen, result, handler,
                   clean>>

(* runtime.Connect: refused by the lock check, or admitted. *)
CallRefused(a) ==
    /\ apc[a] = "call"
    /\ \/ signer = "locked" /\ Ends(a, "locked")
       \/ Ends(a, "other")
    /\ UNCHANGED <<links, store, manager, loops, asrv, agen, aseen, handler, clean>>

CallAdmitted(a) ==
    /\ apc[a] = "call"
    /\ Runtime!Admit(asrv[a])
    /\ Goto(a, "admitted")
    /\ UNCHANGED <<store, manager, loops, asrv, agen, aseen, result, handler, clean>>

(* The existing client is alive, or a new one was dialled. *)
CallConnected(a) ==
    /\ apc[a] = "admitted"
    /\ \/ asrv[a] \in connected /\ Runtime!GiveUp
       \/ Runtime!Establish(asrv[a])
    /\ Ends(a, "connected")
    /\ UNCHANGED <<store, manager, loops, asrv, agen, aseen, handler, clean>>

(* The existing client is dead: it is dropped and Connect dials. *)
CallDrops(a) ==
    /\ apc[a] = "admitted"
    /\ Runtime!Drop(asrv[a])
    /\ UNCHANGED <<store, manager, loops, attempts, handler, clean>>

(* No signature, no TCP connection, no handshake: "network" is a failed TCP
   dial, "other" an error classifyConnectionFailure does not recognise. *)
CallFailed(a) ==
    /\ apc[a] = "admitted"
    /\ asrv[a] \notin connected
    /\ Runtime!GiveUp
    /\ \/ \E how \in {"network", "blocked", "other"} : Ends(a, how)
       \/ signer = "locked" /\ Ends(a, "locked")
    /\ UNCHANGED <<store, manager, loops, asrv, agen, aseen, handler, clean>>

(* Mutant: a failure that no rule matches has no state. *)
DecisionForKnown(how) ==
    CASE how = "connected" -> "connected"
      [] how = "network"   -> "retrying"
      [] how = "locked"    -> "locked"
      [] how = "blocked"   -> "blocked"
      [] OTHER             -> "none"

(* classifyConnectionFailure: State, Retry and Block by result. *)
Decision(how) ==
    CASE how = "connected" -> "connected"
      [] how = "network"   -> "retrying"
      [] how = "locked"    -> "locked"
      [] how = "blocked"   -> "blocked"
      [] OTHER             -> "failed"

(* Mutant: a failure that is retried is blocked as well. *)
BlocksAll(how) == how # "connected"

Blocks(how) == how \notin {"connected", "network"}

(* The outcome goes into the entry the attempt was begun with, which is no
   longer in use when a new generation was started or the server removed. *)
Record(a) ==
    LET s == asrv[a] IN
    /\ apc[a] = "record"
    /\ IF Current(agen[a], s)
       THEN SetState(s, Decision(result[a]), result[a] = "network",
                     CASE result[a] = "connected" -> 0
                       [] Blocks(result[a])       -> aseen[a]
                       [] OTHER                   -> blocked[s])
       ELSE UNCHANGED <<state, waiting, blocked>>
    /\ Goto(a, "publish")
    /\ UNCHANGED <<links, store, gen, running, inFlight, loops, asrv, agen, aseen, result,
                   handler, clean>>

FlagsAfter(a) == [inFlight EXCEPT ![asrv[a]] = FALSE]

(* The status is published, then finishConnect clears the flag of the server,
   whoever set it. *)
Finish(a) ==
    /\ apc[a] = "publish"
    /\ Publish(asrv[a], Decision(result[a]))
    /\ inFlight' = FlagsAfter(a)
    /\ Goto(a, "idle")
    /\ asrv' = [asrv EXCEPT ![a] = NoServer]
    /\ agen' = [agen EXCEPT ![a] = 0]
    /\ aseen' = [aseen EXCEPT ![a] = 0]
    /\ result' = [result EXCEPT ![a] = "other"]
    /\ UNCHANGED <<links, listed, profile, gen, running, state, waiting, blocked, loops,
                   handler, clean>>

--------------------------------------------------------------------------------
(* The environment.                                                        *)

(* Terminals and requests call Connect too, and a command with unusable output
   or a debug request disconnects a server. *)
OthersUseRuntime ==
    /\ \/ \E s \in Server : Runtime!Drop(s)
       \/ \E s \in Shared : Runtime!Admit(s)
       \/ /\ \A a \in Attempt : apc[a] # "admitted"
          /\ Runtime!GiveUp \/ \E s \in Shared : Runtime!Establish(s)
    /\ UNCHANGED <<store, manager, loops, attempts, handler, clean>>

Unlock ==
    /\ signer = "locked"
    /\ Runtime!UnlockSigner
    /\ UNCHANGED <<store, manager, loops, attempts, handler, clean>>

Edit(s) ==
    /\ s \in listed
    /\ profile[s] <= MaxEdits
    /\ profile' = [profile EXCEPT ![s] = @ + 1]
    /\ UNCHANGED <<links, listed, status, manager, loops, attempts, handler, clean>>

Delete(s) ==
    /\ s \in listed \cap Deletable
    /\ listed' = listed \ {s}
    /\ UNCHANGED <<links, profile, status, manager, loops, attempts, handler, clean>>

LoopStep(n) ==
    \/ List(n)
    \/ SweepEnd(n)
    \/ \E s \in Server :
         \/ Nothing(n, s)
         \/ Recover(n, s)
         \/ Lost(n, s)
         \/ Probe(n, s)
         \/ NoJump(n, s)
         \/ JumpDown(n, s)
         \/ RecoverJump(n, s)
         \/ \E a \in Attempt : BeginConnect(n, s, a)
    \/ ProbeAnswered(n)
    \/ ProbeFailed(n)
    \/ Announced(n)

AttemptStep(a) ==
    \/ Announce(a)
    \/ CallRefused(a)
    \/ CallAdmitted(a)
    \/ CallConnected(a)
    \/ CallDrops(a)
    \/ CallFailed(a)
    \/ Record(a)
    \/ Finish(a)

LockStep == LockStop \/ LockClear \/ LockSeal \/ LockMark

Next ==
    \/ ConnectAll
    \/ LockStep
    \/ \E n \in Gen : LoopStep(n)
    \/ \E a \in Attempt : AttemptStep(a)
    \/ OthersUseRuntime
    \/ Unlock
    \/ \E s \in Server : RetryTime(s) \/ Edit(s) \/ Delete(s)

Spec == Init /\ [][Next]_vars

(* Loops never block: a probe has a timeout, and so has a status write.  The
   retry timer runs out.  Nothing is assumed of attempts, because a handshake
   has no deadline, nor of users and targets. *)
Fairness ==
    /\ \A n \in Gen : WF_vars(LoopStep(n))
    /\ \A s \in Server : WF_vars(RetryTime(s))

FairSpec == Spec /\ Fairness

--------------------------------------------------------------------------------
(* Safety.                                                                 *)

Live(a) == apc[a] # "idle"

(* A flag in connectInFlight stands for an attempt that will clear it.  While
   it is set every sweep passes the server by, so a flag left behind would
   end the reconnecting of that server for good. *)
FlagHasAttempt ==
    \A s \in Server : inFlight[s] => \E a \in Attempt : Live(a) /\ asrv[a] = s /\ agen[a] = gen

(* In a generation that began with no goroutine of an older one alive, a
   server has one connect attempt at a time.  (An older attempt would clear
   the flag of a newer one when it finishes.) *)
OneAttemptPerServer ==
    clean => \A a, b \in Attempt :
        a # b /\ Live(a) /\ Live(b) => asrv[a] # asrv[b]

(* In such a generation the status a user sees is the manager's own view
   whenever nothing is under way for the server: no decision goes unpublished
   and none is published out of order.  Servers that are jumped through are
   left out: the sweep publishes for them while their attempt is in flight. *)
Quiet(s) ==
    /\ \A a \in Attempt : Live(a) => asrv[a] # s
    /\ \A n \in Gen : loop[n] \in {"probe", "publish"} => at[n] # s

StatusIsState ==
    clean /\ running =>
        \A s \in listed :
            Quiet(s) /\ state[s] \notin {"absent", "disconnected"} /\ (\A t \in Server : Jump[t] # s)
                => status[s] = state[s]

--------------------------------------------------------------------------------
(* Liveness.                                                               *)

Managed(s) == running /\ s \in listed

(* A server whose connection was lost or could not be opened for network
   reasons is tried again, as long as the generation runs.  Like the safety
   properties, in a generation that began without leftovers of an older one:
   RetryingIsNotBlocked shows what happens in others. *)
LostServerIsRetried ==
    \A s \in Server :
        clean /\ Managed(s) /\ state[s] = "retrying"
            ~> ~Managed(s) \/ state[s] # "retrying" \/ inFlight[s]

(* A change of the connection profile lifts a block, also one that an attempt
   with the old profile records only afterwards. *)
EditLiftsBlock ==
    \A s \in Server :
        Managed(s) /\ blocked[s] \notin {0, profile[s]}
            ~> ~Managed(s) \/ blocked[s] \in {0, profile[s]} \/ inFlight[s]

(* A chained server that waits for its jump server is tried once the jump
   server is connected, whoever connected it. *)
TargetFollowsJump ==
    \A s \in Server :
        Managed(s) /\ state[s] = "jump_unavailable" /\ Jump[s] \in connected
            ~> \/ ~Managed(s) \/ state[s] # "jump_unavailable" \/ inFlight[s]
               \/ Jump[s] \notin connected \cap listed

--------------------------------------------------------------------------------
(* What the worker says of itself and the code does not do.                *)

(* The status of a failed dial promises that ShellOrchestra will retry
   (worker.go:1813).  After a ConnectAll an attempt of the older generation clears
   the flag of the newer one, two attempts for one server record their outcomes,
   and the retry of the second leaves the block of the first in place. *)
RetryingIsNotBlocked ==
    \A s \in Server : running /\ state[s] = "retrying" => blocked[s] # profile[s]

================================================================================
