---------------------------- MODULE SSHTransportPool ----------------------------
(***************************************************************************)
(* The per-server pool of SSH transports (runtime/sshpool.go).  Terminals, *)
(* command streams and tunnelled connections to one server share a bounded *)
(* number of TCP connections; each connection ("transport") carries a      *)
(* bounded number of channels.  p.mu protects the pool, and every blocking *)
(* call (dial, open channel, run, close) is made outside of it, so between *)
(* two critical sections of one caller any step of another may happen.     *)
(*                                                                         *)
(* A caller runs one of the three pool operations:                         *)
(*   "shell"   Shell:     does not wait for capacity, retries on refusal   *)
(*   "stream"  RunStream: waits, retries on refusal and, when nothing was  *)
(*                        consumed or produced, on a lost transport        *)
(*   "dial"    Dial:      waits, never retries; the caller closes it later *)
(*                                                                         *)
(* The error of an operation matters only through the predicates release   *)
(* applies to it, so it is abstracted to one of three results:             *)
(*   "refused" shouldOpenDedicatedShellClient                              *)
(*   "broken"  isConnectionEOF, transportClosedError or                    *)
(*             retryableSSHTransportError                                  *)
(*   "done"    nil, and every error none of these predicates recognises    *)
(***************************************************************************)
EXTENDS Integers, FiniteSets

CONSTANTS Caller,        \* goroutines that use the pool
          Operation,     \* the pool operations they call
          MaxTransports, \* p.max, maxTerminalTransportsPerServer
          MaxChannels,   \* maxChannelsPerSSHTransport
          MaxSessions,   \* session channels the target accepts on a connection
          MaxDials       \* bound: transports ever added to the pool

ASSUME PoolAssumption ==
    /\ IsFiniteSet(Caller)
    /\ Operation \subseteq {"shell", "stream", "dial"}
    /\ MaxTransports \in Nat \ {0}
    /\ MaxChannels \in Nat \ {0}
    /\ MaxSessions \in Nat
    /\ MaxDials \in Nat

Transport   == 1..MaxDials
NoTransport == 0
Result      == {"done", "refused", "broken"}

VARIABLES
    closed,   \* p.closed
    opening,  \* p.opening
    nextID,   \* p.nextID: the transports 1..nextID have been added so far
    listed,   \* p.transports; a slice in the order of the ids
    active,   \* transport.active
    limit,    \* transport.channelLimit, 0 when the target never refused
    retired,  \* the transports whose transport.closed is set
    conn,     \* the connection under a transport: "none", "up" or "down"
    doomed,   \* clients that pool.Close took out of the list and has yet to close
    pc,       \* where each caller is
    op,       \* the operation it runs
    held,     \* the transport it acquired
    result,   \* the error of its operation on that transport
    attempt,  \* its iteration of the retry loop
    stdin,    \* its stream has a stdin reader
    wrote,    \* the streamWriteTracker of this attempt
    consumed  \* history: this call has begun to read its stdin or written output

pool   == <<closed, opening, nextID, listed, active, limit, retired, conn, doomed>>
caller == <<pc, op, held, result, attempt, stdin, wrote, consumed>>
vars   == <<pool, caller>>

PoolTypeOK ==
    /\ closed \in BOOLEAN
    /\ opening \in Nat
    /\ nextID \in 0..MaxDials
    /\ listed \subseteq 1..nextID
    /\ active \in [Transport -> Nat]
    /\ limit \in [Transport -> Nat]
    /\ retired \subseteq 1..nextID
    /\ conn \in [Transport -> {"none", "up", "down"}]
    /\ doomed \subseteq 1..nextID

CallerTypeOK ==
    /\ pc \in [Caller -> {"idle", "acquire", "dialing", "opening", "using",
                          "release", "closing"}]
    /\ op \in [Caller -> Operation \cup {"shell"}]
    /\ held \in [Caller -> Transport \cup {NoTransport}]
    /\ result \in [Caller -> Result]
    /\ attempt \in [Caller -> 0..MaxTransports]
    /\ stdin \in [Caller -> BOOLEAN]
    /\ wrote \in [Caller -> BOOLEAN]
    /\ consumed \in [Caller -> BOOLEAN]

TypeOK == PoolTypeOK /\ CallerTypeOK

Init ==
    /\ closed = FALSE
    /\ opening = 0
    /\ nextID = 0
    /\ listed = {}
    /\ active = [t \in Transport |-> 0]
    /\ limit = [t \in Transport |-> 0]
    /\ retired = {}
    /\ conn = [t \in Transport |-> "none"]
    /\ doomed = {}
    /\ pc = [u \in Caller |-> "idle"]
    /\ op = [u \in Caller |-> "shell"]
    /\ held = [u \in Caller |-> NoTransport]
    /\ result = [u \in Caller |-> "done"]
    /\ attempt = [u \in Caller |-> 0]
    /\ stdin = [u \in Caller |-> FALSE]
    /\ wrote = [u \in Caller |-> FALSE]
    /\ consumed = [u \in Caller |-> FALSE]

-----------------------------------------------------------------------------
(* Calling the pool and acquiring a transport *)

Begin(u, k, s) ==
    /\ pc[u] = "idle"
    /\ s => k = "stream"  \* only RunStream has a stdin reader of its own
    /\ pc' = [pc EXCEPT ![u] = "acquire"]
    /\ op' = [op EXCEPT ![u] = k]
    /\ stdin' = [stdin EXCEPT ![u] = s]
    /\ UNCHANGED <<pool, held, result, attempt, wrote, consumed>>

\* The call of u returns; its local variables go out of scope.
Return(u) ==
    /\ pc' = [pc EXCEPT ![u] = "idle"]
    /\ op' = [op EXCEPT ![u] = "shell"]
    /\ held' = [held EXCEPT ![u] = NoTransport]
    /\ result' = [result EXCEPT ![u] = "done"]
    /\ attempt' = [attempt EXCEPT ![u] = 0]
    /\ stdin' = [stdin EXCEPT ![u] = FALSE]
    /\ wrote' = [wrote EXCEPT ![u] = FALSE]
    /\ consumed' = [consumed EXCEPT ![u] = FALSE]

ChannelLimit(t) == IF limit[t] \in 1..MaxChannels THEN limit[t] ELSE MaxChannels
HasRoom(t) == active[t] < ChannelLimit(t)

\* Hand transport t to caller u, who next opens a channel on it.
Obtain(u, t) ==
    /\ pc' = [pc EXCEPT ![u] = "opening"]
    /\ held' = [held EXCEPT ![u] = t]
    /\ wrote' = [wrote EXCEPT ![u] = FALSE]
    /\ UNCHANGED <<op, result, attempt, stdin, consumed>>

\* mutant: the channel is handed out without being counted
TakeUncounted(t) == active' = [active EXCEPT ![t] = @]

TakeChannel(t) == active' = [active EXCEPT ![t] = @ + 1]

\* The loop over p.transports takes the first transport with room.
AcquireReuse(u) ==
    /\ pc[u] = "acquire"
    /\ ~closed
    /\ \E t \in listed :
          /\ HasRoom(t)
          /\ \A s \in listed : s < t => ~HasRoom(s)
          /\ TakeChannel(t)
          /\ Obtain(u, t)
    /\ UNCHANGED <<closed, opening, nextID, listed, limit, retired, conn, doomed>>

\* mutant: the dials in progress are not counted
SlotFreeOfListed == Cardinality(listed) < MaxTransports

SlotFree == Cardinality(listed) + opening < MaxTransports
NoRoom   == \A t \in listed : ~HasRoom(t)
Full     == NoRoom /\ ~SlotFree

AcquireOpen(u) ==
    /\ pc[u] = "acquire"
    /\ ~closed
    /\ NoRoom /\ SlotFree
    /\ opening' = opening + 1
    /\ pc' = [pc EXCEPT ![u] = "dialing"]
    /\ UNCHANGED <<closed, nextID, listed, active, limit, retired, conn, doomed,
                   op, held, result, attempt, stdin, wrote, consumed>>

\* A closed pool, or a full pool that a terminal does not wait for.
TurnedAway(u) == closed \/ (Full /\ op[u] = "shell")

AcquireFail(u) ==
    /\ pc[u] = "acquire"
    /\ TurnedAway(u)
    /\ Return(u)
    /\ UNCHANGED pool

\* A stream or a dial polls a full pool until its context is done.
AcquireGiveUp(u) ==
    /\ pc[u] = "acquire"
    /\ ~closed /\ Full /\ op[u] # "shell"
    /\ Return(u)
    /\ UNCHANGED pool

\* The dial failed, or it succeeded after the pool was closed and the new
\* client, which nobody else has seen, is closed at once.
DialFail(u) ==
    /\ pc[u] = "dialing"
    /\ opening' = opening - 1
    /\ Return(u)
    /\ UNCHANGED <<closed, nextID, listed, active, limit, retired, conn, doomed>>

\* mutant: a dialled transport joins the pool without another look at p.closed
PublishAlways == TRUE

MayPublish == ~closed

DialSucceed(u) ==
    LET t == nextID + 1 IN
    /\ pc[u] = "dialing"
    /\ MayPublish
    /\ nextID < MaxDials
    /\ opening' = opening - 1
    /\ nextID' = t
    /\ listed' = listed \cup {t}
    /\ active' = [active EXCEPT ![t] = 1]
    /\ conn' = [conn EXCEPT ![t] = "up"]
    /\ Obtain(u, t)
    /\ UNCHANGED <<closed, limit, retired, doomed>>

-----------------------------------------------------------------------------
(* The operation on the acquired transport *)

OnTransport(t) == {u \in Caller : pc[u] = "using" /\ held[u] = t}
Sessions(t)    == {u \in OnTransport(t) : op[u] # "dial"}

\* The target opens the channel.  MaxSessions limits session channels only; a
\* stream with a stdin reader starts to consume it here.
Accept(u) ==
    /\ pc[u] = "opening"
    /\ conn[held[u]] = "up"
    /\ op[u] # "dial" => Cardinality(Sessions(held[u])) < MaxSessions
    /\ pc' = [pc EXCEPT ![u] = "using"]
    /\ consumed' = [consumed EXCEPT ![u] = @ \/ stdin[u]]
    /\ UNCHANGED <<pool, op, held, result, attempt, stdin, wrote>>

\* The operation of u on its transport is over, with the error class r.
End(u, r) ==
    /\ pc' = [pc EXCEPT ![u] = "release"]
    /\ result' = [result EXCEPT ![u] = r]
    /\ UNCHANGED <<pool, op, held, attempt, stdin, wrote, consumed>>

\* The target rejects the channel: a session above MaxSessions, or a connection
\* to an address that its own network refuses ("connect failed").
Refuse(u) ==
    /\ pc[u] = "opening"
    /\ conn[held[u]] = "up"
    /\ op[u] # "dial" => Cardinality(Sessions(held[u])) >= MaxSessions
    /\ End(u, "refused")

OpenBroken(u) == pc[u] = "opening" /\ conn[held[u]] = "down" /\ End(u, "broken")

\* Dial returns when its context is done, whatever the target answers later.
DialCancel(u) == pc[u] = "opening" /\ op[u] = "dial" /\ End(u, "done")

\* Remote output reaches the stdout of the caller of RunStream.
Write(u) ==
    /\ pc[u] = "using"
    /\ op[u] = "stream"
    /\ conn[held[u]] = "up"
    /\ wrote' = [wrote EXCEPT ![u] = TRUE]
    /\ consumed' = [consumed EXCEPT ![u] = TRUE]
    /\ UNCHANGED <<pool, pc, op, held, result, attempt, stdin>>

\* The command or shell exits, the context is done, or the connection is
\* closed, with an error that release does not recognise.
Finish(u) == pc[u] = "using" /\ End(u, "done")

\* The operation reports a lost connection: because the connection is down, ...
Lose(u) == pc[u] = "using" /\ conn[held[u]] = "down" /\ End(u, "broken")

\* ... or because of an error that is local to the channel and only looks like
\* one: shellWithClient returns io.EOF when the local window is closed, the
\* Close of a channel that the remote side closed first returns io.EOF, and a
\* stream returns the "broken pipe" of its own stdout writer.
EndLocally(u) == pc[u] = "using" /\ conn[held[u]] = "up" /\ End(u, "broken")

-----------------------------------------------------------------------------
(* Releasing the transport *)

Accepted(u) == active[held[u]] - 1

\* mutant: every refusal closes the transport
CloseOnRefusal(u) == result[u] \in {"broken", "refused"}

ShouldClose(u) ==
    \/ result[u] = "broken"
    \/ result[u] = "refused" /\ Accepted(u) <= 0

LearnsLimit(u) ==
    /\ result[u] = "refused"
    /\ Accepted(u) > 0
    /\ limit[held[u]] = 0 \/ Accepted(u) < limit[held[u]]

\* mutant: output that the caller already has is ignored
ReplayableWithOutput(u) == op[u] = "stream" /\ ~stdin[u]

\* shouldRetryReadOnlyStreamOnAnotherTransport
Replayable(u) == op[u] = "stream" /\ ~stdin[u] /\ ~wrote[u]

WantsRetry(u) ==
    \/ result[u] = "refused" /\ op[u] # "dial"
    \/ result[u] = "broken" /\ Replayable(u)

\* mutant: the retry loop has no bound
RetriesForEver(u) == WantsRetry(u)

\* retryOnAnotherTransport, with an iteration of the loop left.
Retries(u) == WantsRetry(u) /\ attempt[u] < MaxTransports

Resume(u) ==
    IF Retries(u)
    THEN /\ pc' = [pc EXCEPT ![u] = "acquire"]
         /\ held' = [held EXCEPT ![u] = NoTransport]
         /\ attempt' = [attempt EXCEPT ![u] = @ + 1]
         /\ UNCHANGED <<op, result, stdin, wrote, consumed>>
    ELSE Return(u)

Release(u) ==
    LET t == held[u] IN
    /\ pc[u] = "release"
    /\ limit' = IF LearnsLimit(u) THEN [limit EXCEPT ![t] = Accepted(u)] ELSE limit
    /\ active' = [active EXCEPT ![t] = IF @ > 0 THEN @ - 1 ELSE @]
    /\ IF ShouldClose(u) /\ t \notin retired
       THEN /\ retired' = retired \cup {t}
            /\ listed' = listed \ {t}
            /\ pc' = [pc EXCEPT ![u] = "closing"]
            /\ UNCHANGED <<op, held, result, attempt, stdin, wrote, consumed>>
       ELSE /\ Resume(u)
            /\ UNCHANGED <<listed, retired>>
    /\ UNCHANGED <<closed, opening, nextID, conn, doomed>>

\* closeClient.Close(), after p.mu was unlocked.
CloseClient(u) ==
    /\ pc[u] = "closing"
    /\ conn' = [conn EXCEPT ![held[u]] = "down"]
    /\ Resume(u)
    /\ UNCHANGED <<closed, opening, nextID, listed, active, limit, retired, doomed>>

-----------------------------------------------------------------------------
(* Closing the pool (SSHRuntime.Lock, Close and Disconnect), and the network *)

Close ==
    /\ closed' = TRUE
    /\ doomed' = doomed \cup listed
    /\ listed' = {}
    /\ UNCHANGED <<opening, nextID, active, limit, retired, conn, caller>>

\* One iteration of the loop at the end of Close.
CloseDoomed(t) ==
    /\ t \in doomed
    /\ doomed' = doomed \ {t}
    /\ conn' = [conn EXCEPT ![t] = "down"]
    /\ UNCHANGED <<closed, opening, nextID, listed, active, limit, retired, caller>>

\* The target or the network ends a connection.
Drop(t) ==
    /\ conn[t] = "up"
    /\ conn' = [conn EXCEPT ![t] = "down"]
    /\ UNCHANGED <<closed, opening, nextID, listed, active, limit, retired,
                   doomed, caller>>

\* The steps of a call, once begun.
Acquire(u) ==
    \/ AcquireReuse(u) \/ AcquireOpen(u) \/ AcquireFail(u) \/ AcquireGiveUp(u)
Dialed(u)  == DialFail(u) \/ DialSucceed(u)
Operate(u) ==
    \/ Accept(u) \/ Refuse(u) \/ OpenBroken(u) \/ DialCancel(u)
    \/ Write(u) \/ Finish(u) \/ Lose(u) \/ EndLocally(u)
GiveBack(u) == Release(u) \/ CloseClient(u)

Next ==
    \/ \E u \in Caller :
          \/ \E k \in Operation, s \in BOOLEAN : Begin(u, k, s)
          \/ Acquire(u) \/ Dialed(u) \/ Operate(u) \/ GiveBack(u)
    \/ Close
    \/ \E t \in Transport : CloseDoomed(t) \/ Drop(t)

Spec == Init /\ [][Next]_vars

(* The code's own steps do happen, and a caller notices that its connection is *)
(* down.  Nothing is assumed of the target or the network: a dial may hang (no  *)
(* deadline covers the SSH handshake), an answer may never come, a session may  *)
(* run for ever.  A waiting stream need not give up.                            *)
Fairness ==
    /\ \A u \in Caller :
          /\ WF_vars(AcquireReuse(u) \/ AcquireOpen(u) \/ AcquireFail(u))
          /\ WF_vars(OpenBroken(u) \/ Lose(u))
          /\ WF_vars(GiveBack(u))
    /\ \A t \in Transport : WF_vars(CloseDoomed(t))

FairSpec == Spec /\ Fairness

-----------------------------------------------------------------------------
(* Safety *)

Dialing    == {u \in Caller : pc[u] = "dialing"}
Holding    == {"opening", "using", "release"}
Holders(t) == {u \in Caller : pc[u] \in Holding /\ held[u] = t}

\* The count of channels that admits or turns away the next caller is exact:
\* active is the number of callers between acquire and release, whatever the
\* order of dials, refusals, releases and Close.
ActiveCountsHolders == \A t \in Transport : active[t] = Cardinality(Holders(t))

\* The slots reserved by p.opening are those of the dials in progress, and with
\* them the pool never has more than p.max connections to its server.
TransportBudget ==
    /\ opening = Cardinality(Dialing)
    /\ Cardinality(listed) + opening <= MaxTransports

\* A connection that is up can still be closed: it is in the list, or the
\* goroutine that took it out of the list is about to close it; a closed pool
\* has an empty list, so that Lock and Disconnect leave nothing behind.
NoConnectionLeak ==
    \A t \in Transport : conn[t] = "up" =>
        \/ t \in listed /\ ~closed
        \/ t \in doomed
        \/ \E u \in Caller : pc[u] = "closing" /\ held[u] = t

\* RunStream replays a command on another transport only if the first run had no
\* visible effect on the caller: nothing was written to its stdout and its stdin
\* was not read.
NoReplayAfterEffect ==
    \A u \in Caller : pc[u] \in {"acquire", "dialing", "opening"} => ~consumed[u]

\* A caller that the target refused does not come back to the transport that
\* refused it before a channel on it is given back: release leaves that
\* transport retired or full.
RefusingTransportIsFull ==
    [][\A u \in Caller, t \in Transport :
          Release(u) /\ result[u] = "refused" /\ held[u] = t =>
              t \in retired' \/ ~HasRoom(t)']_vars

\* The refusal of one caller's channel never closes the transport under another
\* caller: a transport is retired by its only holder, or because a holder found
\* it broken.
RefusalNeverCutsOthers ==
    [][\A t \in retired' \ retired :
          \/ Cardinality(Holders(t)) = 1
          \/ \E u \in Holders(t) : pc[u] = "release" /\ result[u] = "broken"]_vars

-----------------------------------------------------------------------------
(* What makes the invariants inductive *)

\* Transports that were not added yet are untouched, a caller that has acquired a
\* transport holds one that was added, and the list holds no closed transport
\* (which is why the model's count of live transports is the size of the list).
Structure ==
    /\ \A t \in Transport : t > nextID => conn[t] = "none" /\ active[t] = 0
    /\ \A u \in Caller : pc[u] \in Holding \cup {"closing"} => held[u] \in 1..nextID
    /\ listed \cap retired = {}

\* A call has had an effect only if it has a stdin reader or wrote output in this
\* attempt, and an attempt that ends in a refusal has had none.
EffectsAreKnown ==
    \A u \in Caller :
        /\ consumed[u] => stdin[u] \/ wrote[u]
        /\ pc[u] \in {"idle", "acquire", "dialing", "opening"} => ~consumed[u]
        /\ pc[u] \in {"release", "closing"} /\ result[u] = "refused" => ~consumed[u]

-----------------------------------------------------------------------------
(* Liveness *)

\* After Close every connection of the pool ends, also those whose dial was in
\* progress or which a release was closing, and every call that is not inside a
\* dial returns: nobody waits for capacity or retries on a closed pool.
ClosedPoolDrains ==
    /\ closed ~> \A t \in Transport : conn[t] # "up"
    /\ \A u \in Caller :
           (closed /\ pc[u] \notin {"idle", "dialing"}) ~> pc[u] = "idle"

-----------------------------------------------------------------------------
(* What the comment at ShellServer says, and the code does not do *)

\* "The pool reuses a transport while it still accepts channels": a transport
\* that is up and carries other callers is not taken out of the pool.
ReusedWhileAccepting ==
    [][\A t \in listed \ listed' :
          closed' \/ conn[t] = "down" \/ Cardinality(Holders(t)) = 1]_vars
================================================================================
