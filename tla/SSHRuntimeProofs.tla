----------------------------- MODULE SSHRuntimeProofs -----------------------------
(* Theorems about SSHRuntime, for any goroutines, servers and routes. *)
EXTENDS SSHRuntime, TLAPS

RuntimeInv == TypeOK /\ Control /\ SlotIsKnown /\ Ownership

LEMMA InitRuntimeInv == Init => RuntimeInv
BY RuntimeAssumption
DEF RuntimeAssumption, Init, RuntimeInv, TypeOK, Control, SlotIsKnown, Ownership, Connecting,
    Client, NoClient

-----------------------------------------------------------------------------
(* One lemma per step: what it does to the inductive invariant.            *)

\* A Connect waits for connectMu.
LEMMA BeginConnectInv ==
    ASSUME RuntimeInv, NEW g \in Goroutine, NEW s \in Server, BeginConnect(g, s)
    PROVE  RuntimeInv'
<1>1. TypeOK'
  BY RuntimeAssumption DEF RuntimeAssumption, RuntimeInv, TypeOK, Client, NoClient,
     BeginConnect, Goto, runtime
<1>2. Control'
  BY RuntimeAssumption DEF RuntimeAssumption, RuntimeInv, TypeOK, Client, NoClient,
     Control, Connecting, BeginConnect, Goto, runtime
<1>3. SlotIsKnown'
  BY RuntimeAssumption DEF RuntimeAssumption, RuntimeInv, TypeOK, Client, NoClient,
     SlotIsKnown, Control, Connecting, BeginConnect, Goto, runtime
<1>4. Ownership'
  BY RuntimeAssumption DEF RuntimeAssumption, RuntimeInv, TypeOK, Client, NoClient,
     Ownership, SlotIsKnown, Control, Connecting, BeginConnect, Goto, runtime
<1> QED BY <1>1, <1>2, <1>3, <1>4 DEF RuntimeInv

\* A probe holds the client of exactly one server.
LEMMA BeginKeepAliveInv ==
    ASSUME RuntimeInv, NEW g \in Goroutine, NEW s \in Server, BeginKeepAlive(g, s)
    PROVE  RuntimeInv'
<1>1. TypeOK'
  BY RuntimeAssumption DEF RuntimeAssumption, RuntimeInv, TypeOK, Client, NoClient,
     BeginKeepAlive, Goto, runtime
<1>2. Control'
  BY RuntimeAssumption DEF RuntimeAssumption, RuntimeInv, TypeOK, Client, NoClient,
     Control, Connecting, BeginKeepAlive, Goto, runtime
<1>3. SlotIsKnown'
  BY RuntimeAssumption DEF RuntimeAssumption, RuntimeInv, TypeOK, Client, NoClient,
     SlotIsKnown, Control, Connecting, BeginKeepAlive, Goto, runtime
<1>4. Ownership'
  BY RuntimeAssumption DEF RuntimeAssumption, RuntimeInv, TypeOK, Client, NoClient,
     Ownership, SlotIsKnown, Control, Connecting, BeginKeepAlive, Goto, runtime
<1> QED BY <1>1, <1>2, <1>3, <1>4 DEF RuntimeInv

\* A Disconnect has taken nothing yet.
LEMMA BeginDisconnectInv ==
    ASSUME RuntimeInv, NEW g \in Goroutine, NEW s \in Server, BeginTake(g, "disconnect", s)
    PROVE  RuntimeInv'
<1>1. TypeOK'
  BY RuntimeAssumption DEF RuntimeAssumption, RuntimeInv, TypeOK, Client, NoClient,
     BeginTake, Goto, runtime
<1>2. Control'
  BY RuntimeAssumption DEF RuntimeAssumption, RuntimeInv, TypeOK, Client, NoClient,
     Control, Connecting, BeginTake, Goto, runtime
<1>3. SlotIsKnown'
  BY RuntimeAssumption DEF RuntimeAssumption, RuntimeInv, TypeOK, Client, NoClient,
     SlotIsKnown, Control, Connecting, BeginTake, Goto, runtime
<1>4. Ownership'
  BY RuntimeAssumption DEF RuntimeAssumption, RuntimeInv, TypeOK, Client, NoClient,
     Ownership, SlotIsKnown, Control, Connecting, BeginTake, Goto, runtime
<1> QED BY <1>1, <1>2, <1>3, <1>4 DEF RuntimeInv

\* Neither has a Lock.
LEMMA BeginLockInv ==
    ASSUME RuntimeInv, NEW g \in Goroutine, NEW s \in Server, BeginTake(g, "lock", s)
    PROVE  RuntimeInv'
<1>1. TypeOK'
  BY RuntimeAssumption DEF RuntimeAssumption, RuntimeInv, TypeOK, Client, NoClient,
     BeginTake, Goto, runtime
<1>2. Control'
  BY RuntimeAssumption DEF RuntimeAssumption, RuntimeInv, TypeOK, Client, NoClient,
     Control, Connecting, BeginTake, Goto, runtime
<1>3. SlotIsKnown'
  BY RuntimeAssumption DEF RuntimeAssumption, RuntimeInv, TypeOK, Client, NoClient,
     SlotIsKnown, Control, Connecting, BeginTake, Goto, runtime
<1>4. Ownership'
  BY RuntimeAssumption DEF RuntimeAssumption, RuntimeInv, TypeOK, Client, NoClient,
     Ownership, SlotIsKnown, Control, Connecting, BeginTake, Goto, runtime
<1> QED BY <1>1, <1>2, <1>3, <1>4 DEF RuntimeInv

\* Only one goroutine enters Connect; what it snapshots is in the slot.
LEMMA EnterInv ==
    ASSUME RuntimeInv, NEW g \in Goroutine, Enter(g)
    PROVE  RuntimeInv'
<1>1. TypeOK'
  BY RuntimeAssumption DEF RuntimeAssumption, RuntimeInv, TypeOK, Client, NoClient,
     Enter, MayEnter, Goto
<1>2. Control'
  BY RuntimeAssumption DEF RuntimeAssumption, RuntimeInv, TypeOK, Client, NoClient,
     Control, Connecting, Enter, MayEnter, Goto
<1>3. SlotIsKnown'
  BY RuntimeAssumption DEF RuntimeAssumption, RuntimeInv, TypeOK, Client, NoClient,
     SlotIsKnown, Control, Connecting, Enter, MayEnter, Goto
<1>4. Ownership'
  BY RuntimeAssumption DEF RuntimeAssumption, RuntimeInv, TypeOK, Client, NoClient,
     Ownership, SlotIsKnown, Control, Connecting, Enter, MayEnter, Goto
<1> QED BY <1>1, <1>2, <1>3, <1>4 DEF RuntimeInv

\* The lock check leaves the map alone.
LEMMA CheckLockedInv ==
    ASSUME RuntimeInv, NEW g \in Goroutine, CheckLocked(g)
    PROVE  RuntimeInv'
<1>1. TypeOK'
  BY RuntimeAssumption DEF RuntimeAssumption, RuntimeInv, TypeOK, Client, NoClient,
     CheckLocked, Goto, Return, ReleaseConnectMu
<1>2. Control'
  BY RuntimeAssumption DEF RuntimeAssumption, RuntimeInv, TypeOK, Client, NoClient,
     Control, Connecting, CheckLocked, Goto, Return, ReleaseConnectMu
<1>3. SlotIsKnown'
  <2>1. CASE Return(g)
    BY <2>1 DEF RuntimeInv, TypeOK, SlotIsKnown, Connecting, CheckLocked, Goto, Return
  <2>2. CASE Goto(g, IF held[g] = NoClient THEN "sign" ELSE "probe") /\ UNCHANGED held
    BY <2>2 DEF RuntimeInv, TypeOK, SlotIsKnown, Connecting, CheckLocked, Goto
  <2> QED BY <2>1, <2>2 DEF CheckLocked
<1>4. Ownership'
  BY RuntimeAssumption DEF RuntimeAssumption, RuntimeInv, TypeOK, Client, NoClient,
     Ownership, SlotIsKnown, Control, Connecting, CheckLocked, Goto, Return,
     ReleaseConnectMu
<1> QED BY <1>1, <1>2, <1>3, <1>4 DEF RuntimeInv

\* A probe that is answered ends the operation.
LEMMA ProbeAnsweredInv ==
    ASSUME RuntimeInv, NEW g \in Goroutine, ProbeAnswered(g)
    PROVE  RuntimeInv'
<1>1. TypeOK'
  BY RuntimeAssumption DEF RuntimeAssumption, RuntimeInv, TypeOK, Client, NoClient,
     ProbeAnswered, Goto, Return, ReleaseConnectMu
<1>2. Control'
  BY RuntimeAssumption DEF RuntimeAssumption, RuntimeInv, TypeOK, Client, NoClient,
     Control, Connecting, ProbeAnswered, Goto, Return, ReleaseConnectMu
<1>3. SlotIsKnown'
  BY RuntimeAssumption DEF RuntimeAssumption, RuntimeInv, TypeOK, Client, NoClient,
     SlotIsKnown, Control, Connecting, ProbeAnswered, Goto, Return, ReleaseConnectMu
<1>4. Ownership'
  BY RuntimeAssumption DEF RuntimeAssumption, RuntimeInv, TypeOK, Client, NoClient,
     Ownership, SlotIsKnown, Control, Connecting, ProbeAnswered, Goto, Return,
     ReleaseConnectMu
<1> QED BY <1>1, <1>2, <1>3, <1>4 DEF RuntimeInv

\* A failed probe empties the slot of a Connect and takes its client from nobody else.
LEMMA ProbeFailedInv ==
    ASSUME RuntimeInv, NEW g \in Goroutine, ProbeFailed(g)
    PROVE  RuntimeInv'
<1>1. TypeOK'
  BY RuntimeAssumption DEF RuntimeAssumption, RuntimeInv, TypeOK, Client, NoClient,
     Ownership, ProbeFailed, DropProbed, Without, ProbedToClose, Goto
<1>2. Control'
  BY RuntimeAssumption DEF RuntimeAssumption, RuntimeInv, TypeOK, Client, NoClient,
     Control, Connecting, ProbeFailed, DropProbed, Without, ProbedToClose, Goto
<1>3. SlotIsKnown'
  BY RuntimeAssumption DEF RuntimeAssumption, RuntimeInv, TypeOK, Client, NoClient,
     SlotIsKnown, Control, Connecting, ProbeFailed, DropProbed, Without, ProbedToClose,
     Goto
<1>4. Ownership'
  BY RuntimeAssumption DEF RuntimeAssumption, RuntimeInv, TypeOK, Client, NoClient,
     Ownership, SlotIsKnown, Control, Connecting, ProbeFailed, DropProbed, Without,
     ProbedToClose, Goto
<1> QED BY <1>1, <1>2, <1>3, <1>4 DEF RuntimeInv

\* Signing leaves the map alone.
LEMMA SignInv ==
    ASSUME RuntimeInv, NEW g \in Goroutine, Sign(g)
    PROVE  RuntimeInv'
<1>1. TypeOK'
  BY RuntimeAssumption DEF RuntimeAssumption, RuntimeInv, TypeOK, Client, NoClient,
     Sign, Goto, Return, ReleaseConnectMu
<1>2. Control'
  BY RuntimeAssumption DEF RuntimeAssumption, RuntimeInv, TypeOK, Client, NoClient,
     Control, Connecting, Sign, Goto, Return, ReleaseConnectMu
<1>3. SlotIsKnown'
  BY RuntimeAssumption DEF RuntimeAssumption, RuntimeInv, TypeOK, Client, NoClient,
     SlotIsKnown, Control, Connecting, Sign, Goto, Return, ReleaseConnectMu
<1>4. Ownership'
  BY RuntimeAssumption DEF RuntimeAssumption, RuntimeInv, TypeOK, Client, NoClient,
     Ownership, SlotIsKnown, Control, Connecting, Sign, Goto, Return, ReleaseConnectMu
<1> QED BY <1>1, <1>2, <1>3, <1>4 DEF RuntimeInv

\* So does choosing a route.
LEMMA RouteInv ==
    ASSUME RuntimeInv, NEW g \in Goroutine, Route(g)
    PROVE  RuntimeInv'
<1>1. TypeOK'
  BY RuntimeAssumption DEF RuntimeAssumption, RuntimeInv, TypeOK, Client, NoClient,
     Route, Goto, Return, ReleaseConnectMu
<1>2. Control'
  BY RuntimeAssumption DEF RuntimeAssumption, RuntimeInv, TypeOK, Client, NoClient,
     Control, Connecting, Route, Goto, Return, ReleaseConnectMu
<1>3. SlotIsKnown'
  BY RuntimeAssumption DEF RuntimeAssumption, RuntimeInv, TypeOK, Client, NoClient,
     SlotIsKnown, Control, Connecting, Route, Goto, Return, ReleaseConnectMu
<1>4. Ownership'
  BY RuntimeAssumption DEF RuntimeAssumption, RuntimeInv, TypeOK, Client, NoClient,
     Ownership, SlotIsKnown, Control, Connecting, Route, Goto, Return, ReleaseConnectMu
<1> QED BY <1>1, <1>2, <1>3, <1>4 DEF RuntimeInv

\* A failed dial ends the operation.
LEMMA DialFailedInv ==
    ASSUME RuntimeInv, NEW g \in Goroutine, DialFailed(g)
    PROVE  RuntimeInv'
<1>1. TypeOK'
  BY RuntimeAssumption DEF RuntimeAssumption, RuntimeInv, TypeOK, Client, NoClient,
     DialFailed, Goto, Return, ReleaseConnectMu
<1>2. Control'
  BY RuntimeAssumption DEF RuntimeAssumption, RuntimeInv, TypeOK, Client, NoClient,
     Control, Connecting, DialFailed, Goto, Return, ReleaseConnectMu
<1>3. SlotIsKnown'
  BY RuntimeAssumption DEF RuntimeAssumption, RuntimeInv, TypeOK, Client, NoClient,
     SlotIsKnown, Control, Connecting, DialFailed, Goto, Return, ReleaseConnectMu
<1>4. Ownership'
  BY RuntimeAssumption DEF RuntimeAssumption, RuntimeInv, TypeOK, Client, NoClient,
     Ownership, SlotIsKnown, Control, Connecting, DialFailed, Goto, Return,
     ReleaseConnectMu
<1> QED BY <1>1, <1>2, <1>3, <1>4 DEF RuntimeInv

\* A dialled client is nobody else's.
LEMMA DialledInv ==
    ASSUME RuntimeInv, NEW g \in Goroutine, Dialled(g)
    PROVE  RuntimeInv'
<1>1. TypeOK'
  BY RuntimeAssumption DEF RuntimeAssumption, RuntimeInv, TypeOK, Client, NoClient,
     Dialled, Goto
<1>2. Control'
  BY RuntimeAssumption DEF RuntimeAssumption, RuntimeInv, TypeOK, Client, NoClient,
     Control, Connecting, Dialled, Goto
<1>3. SlotIsKnown'
  BY RuntimeAssumption DEF RuntimeAssumption, RuntimeInv, TypeOK, Client, NoClient,
     SlotIsKnown, Control, Connecting, Dialled, Goto
<1>4. Ownership'
  BY RuntimeAssumption DEF RuntimeAssumption, RuntimeInv, TypeOK, Client, NoClient,
     Ownership, SlotIsKnown, Control, Connecting, Dialled, Goto
<1> QED BY <1>1, <1>2, <1>3, <1>4 DEF RuntimeInv

\* The client is stored into a free slot.
LEMMA StoreInv ==
    ASSUME RuntimeInv, NEW g \in Goroutine, Store(g)
    PROVE  RuntimeInv'
<1>1. TypeOK'
  BY RuntimeAssumption DEF RuntimeAssumption, RuntimeInv, TypeOK, Client, NoClient,
     Store, Goto, Return, ReleaseConnectMu
<1>2. Control'
  BY RuntimeAssumption DEF RuntimeAssumption, RuntimeInv, TypeOK, Client, NoClient,
     Control, Connecting, Store, Goto, Return, ReleaseConnectMu
<1>3. SlotIsKnown'
  BY RuntimeAssumption DEF RuntimeAssumption, RuntimeInv, TypeOK, Client, NoClient,
     SlotIsKnown, Control, Connecting, Store, Goto, Return, ReleaseConnectMu
<1>4. Ownership'
  BY RuntimeAssumption DEF RuntimeAssumption, RuntimeInv, TypeOK, Client, NoClient,
     Ownership, SlotIsKnown, Control, Connecting, Store, Goto, Return, ReleaseConnectMu
<1> QED BY <1>1, <1>2, <1>3, <1>4 DEF RuntimeInv

\* What is taken is in no slot any more.
LEMMA TakeInv ==
    ASSUME RuntimeInv, NEW g \in Goroutine, Take(g)
    PROVE  RuntimeInv'
<1>1. TypeOK'
  BY RuntimeAssumption DEF RuntimeAssumption, RuntimeInv, TypeOK, Client, NoClient,
     Take, Taken, Emptied, Goto
<1>2. Control'
  BY RuntimeAssumption DEF RuntimeAssumption, RuntimeInv, TypeOK, Client, NoClient,
     Control, Connecting, Take, Taken, Emptied, Goto
<1>3. SlotIsKnown'
  BY RuntimeAssumption DEF RuntimeAssumption, RuntimeInv, TypeOK, Client, NoClient,
     SlotIsKnown, Control, Connecting, Take, Taken, Emptied, Goto
<1>4. Ownership'
  BY RuntimeAssumption DEF RuntimeAssumption, RuntimeInv, TypeOK, Client, NoClient,
     Ownership, SlotIsKnown, Control, Connecting, Take, Taken, Emptied, Goto
<1> QED BY <1>1, <1>2, <1>3, <1>4 DEF RuntimeInv

\* Closing changes a link and nothing in the map.
LEMMA CloseInv ==
    ASSUME RuntimeInv, NEW g \in Goroutine, Close(g)
    PROVE  RuntimeInv'
<1>1. TypeOK'
  BY RuntimeAssumption DEF RuntimeAssumption, RuntimeInv, TypeOK, Client, NoClient,
     Close
<1>2. Control'
  BY RuntimeAssumption DEF RuntimeAssumption, RuntimeInv, TypeOK, Client, NoClient,
     Control, Connecting, Close
<1>3. SlotIsKnown'
  BY RuntimeAssumption DEF RuntimeAssumption, RuntimeInv, TypeOK, Client, NoClient,
     SlotIsKnown, Control, Connecting, Close
<1>4. Ownership'
  BY RuntimeAssumption DEF RuntimeAssumption, RuntimeInv, TypeOK, Client, NoClient,
     Ownership, SlotIsKnown, Control, Connecting, Close
<1> QED BY <1>1, <1>2, <1>3, <1>4 DEF RuntimeInv

\* With everything closed the operation goes on.
LEMMA ClosedInv ==
    ASSUME RuntimeInv, NEW g \in Goroutine, Closed(g)
    PROVE  RuntimeInv'
<1>1. TypeOK'
  BY RuntimeAssumption DEF RuntimeAssumption, RuntimeInv, TypeOK, Client, NoClient,
     Closed, Goto, Return, runtime
<1>2. Control'
  BY RuntimeAssumption DEF RuntimeAssumption, RuntimeInv, TypeOK, Client, NoClient,
     Control, Connecting, Closed, Goto, Return, runtime
<1>3. SlotIsKnown'
  BY RuntimeAssumption DEF RuntimeAssumption, RuntimeInv, TypeOK, Client, NoClient,
     SlotIsKnown, Control, Connecting, Closed, Goto, Return, runtime
<1>4. Ownership'
  BY RuntimeAssumption DEF RuntimeAssumption, RuntimeInv, TypeOK, Client, NoClient,
     Ownership, SlotIsKnown, Control, Connecting, Closed, Goto, Return, runtime
<1> QED BY <1>1, <1>2, <1>3, <1>4 DEF RuntimeInv

\* Sealing the signer ends the lock handler.
LEMMA SealInv ==
    ASSUME RuntimeInv, NEW g \in Goroutine, Seal(g)
    PROVE  RuntimeInv'
<1>1. TypeOK'
  BY RuntimeAssumption DEF RuntimeAssumption, RuntimeInv, TypeOK, Client, NoClient,
     Seal, Goto, Return
<1>2. Control'
  BY RuntimeAssumption DEF RuntimeAssumption, RuntimeInv, TypeOK, Client, NoClient,
     Control, Connecting, Seal, Goto, Return
<1>3. SlotIsKnown'
  BY RuntimeAssumption DEF RuntimeAssumption, RuntimeInv, TypeOK, Client, NoClient,
     SlotIsKnown, Control, Connecting, Seal, Goto, Return
<1>4. Ownership'
  BY RuntimeAssumption DEF RuntimeAssumption, RuntimeInv, TypeOK, Client, NoClient,
     Ownership, SlotIsKnown, Control, Connecting, Seal, Goto, Return
<1> QED BY <1>1, <1>2, <1>3, <1>4 DEF RuntimeInv

\* The steps of the environment touch a link or the signer.
LEMMA EnvironmentInv ==
    ASSUME RuntimeInv, Unlock \/ (\E c \in Client : Lose(c)) \/ UNCHANGED vars
    PROVE  RuntimeInv'
<1>1. CASE Unlock
  BY <1>1 DEF RuntimeInv, TypeOK, Control, SlotIsKnown, Ownership, Connecting, Unlock, goroutine
<1>2. ASSUME NEW c \in Client, Lose(c) PROVE RuntimeInv'
  BY <1>2 DEF RuntimeInv, TypeOK, Control, SlotIsKnown, Ownership, Connecting, Lose, goroutine
<1>3. CASE UNCHANGED vars
  BY <1>3 DEF RuntimeInv, TypeOK, Control, SlotIsKnown, Ownership, Connecting, vars, runtime,
     goroutine
<1> QED BY <1>1, <1>2, <1>3

LEMMA NextRuntimeInv == RuntimeInv /\ [Next]_vars => RuntimeInv'
<1> SUFFICES ASSUME RuntimeInv, [Next]_vars PROVE RuntimeInv'
  OBVIOUS
<1>1. ASSUME NEW g \in Goroutine, Step(g) PROVE RuntimeInv'
  BY <1>1, BeginConnectInv, BeginKeepAliveInv, BeginDisconnectInv, BeginLockInv,
     EnterInv, CheckLockedInv, ProbeAnsweredInv, ProbeFailedInv, SignInv, RouteInv,
     DialFailedInv, DialledInv, StoreInv, TakeInv, CloseInv, ClosedInv, SealInv DEF
     Step, BeginDisconnect, BeginLock
<1> QED BY <1>1, EnvironmentInv DEF Next

LEMMA RuntimeInvHolds == Spec => []RuntimeInv
BY InitRuntimeInv, NextRuntimeInv, PTL DEF Spec

-----------------------------------------------------------------------------
(* The properties.                                                         *)

\* The state of the runtime has its type in every reachable state.
THEOREM RuntimeTypeCorrect == Spec => []TypeOK
BY RuntimeInvHolds, PTL DEF RuntimeInv

\* Connect never finds a client in the slot it stores into (sshpool.go:519-523):
\* no live client is closed under its users by a newer one.
THEOREM RuntimeStoresIntoFreeSlots == Spec => []StoreFindsFreeSlot
<1>1. RuntimeInv => StoreFindsFreeSlot
  BY DEF RuntimeInv, StoreFindsFreeSlot, Control, SlotIsKnown, Connecting
<1> QED BY <1>1, RuntimeInvHolds, PTL

\* A client leaves the map only after a failed probe of this very client, or by a
\* Disconnect or Lock (sshpool.go:232-287).
THEOREM RuntimeDropsOnlyTheFailed == Spec => OnlyTheFailedClientGoes
<1> DEFINE Reason(s) == \E g \in Goroutine :
             \/ pc[g] = "probe" /\ pc'[g] = "close" /\ held[g] = clients[s]
             \/ pc[g] = "take" /\ pc'[g] = "close" /\ (job[g] = "lock" \/ server[g] = s)
           Justified == \A s \in Server :
             clients[s] # NoClient /\ clients'[s] # clients[s] => Reason(s)
<1>1. ASSUME RuntimeInv, [Next]_vars PROVE Justified
  <2>1. ASSUME NEW g \in Goroutine, ProbeFailed(g) PROVE Justified
    BY <1>1, <2>1 DEF RuntimeInv, TypeOK, ProbeFailed, DropProbed, Without, Goto
  <2>2. ASSUME NEW g \in Goroutine, Store(g) PROVE Justified
    <3>1. clients[server[g]] = NoClient
      BY <1>1, <2>2 DEF RuntimeInv, SlotIsKnown, Control, Connecting, Store
    <3> QED BY <1>1, <2>2, <3>1 DEF RuntimeInv, TypeOK, Store
  <2>3. ASSUME NEW g \in Goroutine, Take(g) PROVE Justified
    <3>1. job[g] # "lock" => \A s \in Server \ {server[g]} : clients'[s] = clients[s]
      BY <1>1, <2>3 DEF RuntimeInv, TypeOK, Take, Emptied
    <3>2. pc[g] = "take" /\ pc'[g] = "close"
      BY <1>1, <2>3 DEF RuntimeInv, TypeOK, Take, Goto
    <3> QED BY <3>1, <3>2
  <2>4. CASE clients' = clients
    BY <2>4
  <2>5. ASSUME NEW g \in Goroutine, Step(g),
               ~ProbeFailed(g), ~Store(g), ~Take(g)
        PROVE  clients' = clients
    BY <2>5 DEF Step, BeginConnect, BeginKeepAlive, BeginDisconnect, BeginLock, BeginTake,
       Enter, CheckLocked, ProbeAnswered, Sign, Route, DialFailed, Dialled, Close, Closed,
       Seal, runtime
  <2>6. CASE Unlock \/ (\E c \in Client : Lose(c)) \/ UNCHANGED vars
    BY <2>4, <2>6 DEF Unlock, Lose, vars, runtime
  <2> QED BY <1>1, <2>1, <2>2, <2>3, <2>4, <2>5, <2>6 DEF Next
<1> QED BY <1>1, RuntimeInvHolds, PTL DEF Spec, OnlyTheFailedClientGoes

LEMMA NextClosingIsUnlisted ==
    ASSUME RuntimeInv, RuntimeInv', ClosingIsUnlisted, [Next]_vars
    PROVE  ClosingIsUnlisted'
<1>1. ASSUME NEW g \in Goroutine, NEW s \in Server, BeginConnect(g, s) PROVE ClosingIsUnlisted'
  BY <1>1, RuntimeAssumption DEF RuntimeAssumption, RuntimeInv, TypeOK, Client,
     NoClient, Control, Ownership, ClosingIsUnlisted, BeginConnect, Goto, runtime
<1>2. ASSUME NEW g \in Goroutine, NEW s \in Server, BeginKeepAlive(g, s) PROVE ClosingIsUnlisted'
  BY <1>2, RuntimeAssumption DEF RuntimeAssumption, RuntimeInv, TypeOK, Client,
     NoClient, Control, Ownership, ClosingIsUnlisted, BeginKeepAlive, Goto, runtime
<1>3. ASSUME NEW g \in Goroutine, NEW s \in Server, BeginTake(g, "disconnect", s) PROVE ClosingIsUnlisted'
  BY <1>3, RuntimeAssumption DEF RuntimeAssumption, RuntimeInv, TypeOK, Client,
     NoClient, Control, Ownership, ClosingIsUnlisted, BeginTake, Goto, runtime
<1>4. ASSUME NEW g \in Goroutine, NEW s \in Server, BeginTake(g, "lock", s) PROVE ClosingIsUnlisted'
  BY <1>4, RuntimeAssumption DEF RuntimeAssumption, RuntimeInv, TypeOK, Client,
     NoClient, Control, Ownership, ClosingIsUnlisted, BeginTake, Goto, runtime
<1>5. ASSUME NEW g \in Goroutine, Enter(g) PROVE ClosingIsUnlisted'
  BY <1>5, RuntimeAssumption DEF RuntimeAssumption, RuntimeInv, TypeOK, Client,
     NoClient, Control, Ownership, ClosingIsUnlisted, Enter, MayEnter, Goto
<1>6. ASSUME NEW g \in Goroutine, CheckLocked(g) PROVE ClosingIsUnlisted'
  BY <1>6, RuntimeAssumption DEF RuntimeAssumption, RuntimeInv, TypeOK, Client,
     NoClient, Control, Ownership, ClosingIsUnlisted, CheckLocked, Goto, Return,
     ReleaseConnectMu
<1>7. ASSUME NEW g \in Goroutine, ProbeAnswered(g) PROVE ClosingIsUnlisted'
  BY <1>7, RuntimeAssumption DEF RuntimeAssumption, RuntimeInv, TypeOK, Client,
     NoClient, Control, Ownership, ClosingIsUnlisted, ProbeAnswered, Goto, Return,
     ReleaseConnectMu
<1>8. ASSUME NEW g \in Goroutine, ProbeFailed(g) PROVE ClosingIsUnlisted'
  BY <1>8, RuntimeAssumption DEF RuntimeAssumption, RuntimeInv, TypeOK, Client,
     NoClient, Control, Ownership, ClosingIsUnlisted, ProbeFailed, DropProbed, Without,
     ProbedToClose, Goto
<1>9. ASSUME NEW g \in Goroutine, Sign(g) PROVE ClosingIsUnlisted'
  BY <1>9, RuntimeAssumption DEF RuntimeAssumption, RuntimeInv, TypeOK, Client,
     NoClient, Control, Ownership, ClosingIsUnlisted, Sign, Goto, Return,
     ReleaseConnectMu
<1>10. ASSUME NEW g \in Goroutine, Route(g) PROVE ClosingIsUnlisted'
  BY <1>10, RuntimeAssumption DEF RuntimeAssumption, RuntimeInv, TypeOK, Client,
     NoClient, Control, Ownership, ClosingIsUnlisted, Route, Goto, Return,
     ReleaseConnectMu
<1>11. ASSUME NEW g \in Goroutine, DialFailed(g) PROVE ClosingIsUnlisted'
  BY <1>11, RuntimeAssumption DEF RuntimeAssumption, RuntimeInv, TypeOK, Client,
     NoClient, Control, Ownership, ClosingIsUnlisted, DialFailed, Goto, Return,
     ReleaseConnectMu
<1>12. ASSUME NEW g \in Goroutine, Dialled(g) PROVE ClosingIsUnlisted'
  BY <1>12, RuntimeAssumption DEF RuntimeAssumption, RuntimeInv, TypeOK, Client,
     NoClient, Control, Ownership, ClosingIsUnlisted, Dialled, Goto
<1>13. ASSUME NEW g \in Goroutine, Store(g) PROVE ClosingIsUnlisted'
  BY <1>13, RuntimeAssumption DEF RuntimeAssumption, RuntimeInv, TypeOK, Client,
     NoClient, Control, Ownership, ClosingIsUnlisted, Store, Goto, Return,
     ReleaseConnectMu
<1>14. ASSUME NEW g \in Goroutine, Take(g) PROVE ClosingIsUnlisted'
  BY <1>14, RuntimeAssumption DEF RuntimeAssumption, RuntimeInv, TypeOK, Client,
     NoClient, Control, Ownership, ClosingIsUnlisted, Take, Taken, Emptied, Goto
<1>15. ASSUME NEW g \in Goroutine, Close(g) PROVE ClosingIsUnlisted'
  BY <1>15, RuntimeAssumption DEF RuntimeAssumption, RuntimeInv, TypeOK, Client,
     NoClient, Control, Ownership, ClosingIsUnlisted, Close
<1>16. ASSUME NEW g \in Goroutine, Closed(g) PROVE ClosingIsUnlisted'
  BY <1>16, RuntimeAssumption DEF RuntimeAssumption, RuntimeInv, TypeOK, Client,
     NoClient, Control, Ownership, ClosingIsUnlisted, Closed, Goto, Return, runtime
<1>17. ASSUME NEW g \in Goroutine, Seal(g) PROVE ClosingIsUnlisted'
  BY <1>17, RuntimeAssumption DEF RuntimeAssumption, RuntimeInv, TypeOK, Client,
     NoClient, Control, Ownership, ClosingIsUnlisted, Seal, Goto, Return
<1>18. CASE Unlock \/ (\E c \in Client : Lose(c)) \/ UNCHANGED vars
  BY <1>18 DEF RuntimeInv, TypeOK, ClosingIsUnlisted, Unlock, Lose, vars, runtime,
     goroutine
<1> QED BY <1>1, <1>2, <1>3, <1>4, <1>5, <1>6, <1>7, <1>8, <1>9, <1>10, <1>11, <1>12,
     <1>13, <1>14, <1>15, <1>16, <1>17, <1>18 DEF Next, Step, BeginDisconnect, BeginLock

\* A client that somebody is about to close is in no slot of r.clients, and no two
\* servers share one (sshpool.go:232-287).
THEOREM RuntimeHandsOutNoClosingClient == Spec => []ClosingIsUnlisted
<1>1. Init => ClosingIsUnlisted
  BY RuntimeAssumption DEF RuntimeAssumption, Init, ClosingIsUnlisted, Client, NoClient
<1>2. RuntimeInv /\ RuntimeInv' /\ ClosingIsUnlisted /\ [Next]_vars => ClosingIsUnlisted'
  BY NextClosingIsUnlisted
<1> QED BY <1>1, <1>2, RuntimeInvHolds, PTL DEF Spec

LEMMA NextNoConnectionLeak ==
    ASSUME RuntimeInv, RuntimeInv', NoConnectionLeak, [Next]_vars
    PROVE  NoConnectionLeak'
<1>1. ASSUME NEW g \in Goroutine, NEW s \in Server, BeginConnect(g, s) PROVE NoConnectionLeak'
  BY <1>1, RuntimeAssumption DEF RuntimeAssumption, RuntimeInv, TypeOK, Client,
     NoClient, Control, Ownership, NoConnectionLeak, BeginConnect, Goto, runtime
<1>2. ASSUME NEW g \in Goroutine, NEW s \in Server, BeginKeepAlive(g, s) PROVE NoConnectionLeak'
  BY <1>2, RuntimeAssumption DEF RuntimeAssumption, RuntimeInv, TypeOK, Client,
     NoClient, Control, Ownership, NoConnectionLeak, BeginKeepAlive, Goto, runtime
<1>3. ASSUME NEW g \in Goroutine, NEW s \in Server, BeginTake(g, "disconnect", s) PROVE NoConnectionLeak'
  BY <1>3, RuntimeAssumption DEF RuntimeAssumption, RuntimeInv, TypeOK, Client,
     NoClient, Control, Ownership, NoConnectionLeak, BeginTake, Goto, runtime
<1>4. ASSUME NEW g \in Goroutine, NEW s \in Server, BeginTake(g, "lock", s) PROVE NoConnectionLeak'
  BY <1>4, RuntimeAssumption DEF RuntimeAssumption, RuntimeInv, TypeOK, Client,
     NoClient, Control, Ownership, NoConnectionLeak, BeginTake, Goto, runtime
<1>5. ASSUME NEW g \in Goroutine, Enter(g) PROVE NoConnectionLeak'
  BY <1>5, RuntimeAssumption DEF RuntimeAssumption, RuntimeInv, TypeOK, Client,
     NoClient, Control, Ownership, NoConnectionLeak, Enter, MayEnter, Goto
<1>6. ASSUME NEW g \in Goroutine, CheckLocked(g) PROVE NoConnectionLeak'
  BY <1>6, RuntimeAssumption DEF RuntimeAssumption, RuntimeInv, TypeOK, Client,
     NoClient, Control, Ownership, NoConnectionLeak, CheckLocked, Goto, Return,
     ReleaseConnectMu
<1>7. ASSUME NEW g \in Goroutine, ProbeAnswered(g) PROVE NoConnectionLeak'
  BY <1>7, RuntimeAssumption DEF RuntimeAssumption, RuntimeInv, TypeOK, Client,
     NoClient, Control, Ownership, NoConnectionLeak, ProbeAnswered, Goto, Return,
     ReleaseConnectMu
<1>8. ASSUME NEW g \in Goroutine, ProbeFailed(g) PROVE NoConnectionLeak'
  BY <1>8, RuntimeAssumption DEF RuntimeAssumption, RuntimeInv, TypeOK, Client,
     NoClient, Control, Ownership, NoConnectionLeak, ProbeFailed, DropProbed, Without,
     ProbedToClose, Goto
<1>9. ASSUME NEW g \in Goroutine, Sign(g) PROVE NoConnectionLeak'
  BY <1>9, RuntimeAssumption DEF RuntimeAssumption, RuntimeInv, TypeOK, Client,
     NoClient, Control, Ownership, NoConnectionLeak, Sign, Goto, Return,
     ReleaseConnectMu
<1>10. ASSUME NEW g \in Goroutine, Route(g) PROVE NoConnectionLeak'
  BY <1>10, RuntimeAssumption DEF RuntimeAssumption, RuntimeInv, TypeOK, Client,
     NoClient, Control, Ownership, NoConnectionLeak, Route, Goto, Return,
     ReleaseConnectMu
<1>11. ASSUME NEW g \in Goroutine, DialFailed(g) PROVE NoConnectionLeak'
  BY <1>11, RuntimeAssumption DEF RuntimeAssumption, RuntimeInv, TypeOK, Client,
     NoClient, Control, Ownership, NoConnectionLeak, DialFailed, Goto, Return,
     ReleaseConnectMu
<1>12. ASSUME NEW g \in Goroutine, Dialled(g) PROVE NoConnectionLeak'
  BY <1>12, RuntimeAssumption DEF RuntimeAssumption, RuntimeInv, TypeOK, Client,
     NoClient, Control, Ownership, NoConnectionLeak, Dialled, Goto
<1>13. ASSUME NEW g \in Goroutine, Store(g) PROVE NoConnectionLeak'
  BY <1>13, RuntimeAssumption DEF RuntimeAssumption, RuntimeInv, TypeOK, Client,
     NoClient, Control, Ownership, NoConnectionLeak, Store, Goto, Return,
     ReleaseConnectMu
<1>14. ASSUME NEW g \in Goroutine, Take(g) PROVE NoConnectionLeak'
  BY <1>14, RuntimeAssumption DEF RuntimeAssumption, RuntimeInv, TypeOK, Client,
     NoClient, Control, Ownership, NoConnectionLeak, Take, Taken, Emptied, Goto
<1>15. ASSUME NEW g \in Goroutine, Close(g) PROVE NoConnectionLeak'
  BY <1>15, RuntimeAssumption DEF RuntimeAssumption, RuntimeInv, TypeOK, Client,
     NoClient, Control, Ownership, NoConnectionLeak, Close
<1>16. ASSUME NEW g \in Goroutine, Closed(g) PROVE NoConnectionLeak'
  BY <1>16, RuntimeAssumption DEF RuntimeAssumption, RuntimeInv, TypeOK, Client,
     NoClient, Control, Ownership, NoConnectionLeak, Closed, Goto, Return, runtime
<1>17. ASSUME NEW g \in Goroutine, Seal(g) PROVE NoConnectionLeak'
  <2>1. UNCHANGED <<clients, link, closing>>
    BY <1>17 DEF Seal
  <2>2. \A h \in Goroutine : pc[h] = "store" => pc'[h] = "store" /\ held'[h] = held[h]
    BY <1>17 DEF RuntimeInv, TypeOK, Seal, Return, Goto
  <2> QED BY <2>1, <2>2 DEF NoConnectionLeak
<1>18. CASE Unlock \/ (\E c \in Client : Lose(c)) \/ UNCHANGED vars
  BY <1>18 DEF RuntimeInv, TypeOK, NoConnectionLeak, Unlock, Lose, vars, runtime,
     goroutine
<1> QED BY <1>1, <1>2, <1>3, <1>4, <1>5, <1>6, <1>7, <1>8, <1>9, <1>10, <1>11, <1>12,
     <1>13, <1>14, <1>15, <1>16, <1>17, <1>18 DEF Next, Step, BeginDisconnect, BeginLock

\* Every open connection is in the map, about to be stored, or in the hands of the
\* goroutine that closes it (sshpool.go:232-287, 466-534).
THEOREM RuntimeLeaksNothing == Spec => []NoConnectionLeak
<1>1. Init => NoConnectionLeak
  BY RuntimeAssumption DEF RuntimeAssumption, Init, NoConnectionLeak, Client, NoClient
<1>2. RuntimeInv /\ RuntimeInv' /\ NoConnectionLeak /\ [Next]_vars => NoConnectionLeak'
  BY NextNoConnectionLeak
<1> QED BY <1>1, <1>2, RuntimeInvHolds, PTL DEF Spec

-----------------------------------------------------------------------------
(* The runtime implements ManagedLinks.                                    *)

LEMMA NextImplements ==
    ASSUME RuntimeInv, RuntimeInv', [Next]_vars
    PROVE  [Links!Next]_(Links!links)
<1>1. ASSUME NEW g \in Goroutine, NEW s \in Server, BeginConnect(g, s) PROVE [Links!Next]_(Links!links)
  BY <1>1, RuntimeAssumption DEF RuntimeAssumption, RuntimeInv, TypeOK, Client,
     NoClient, Control, SlotIsKnown, Connecting, Past, Links!Next, Links!links,
     BeginConnect, Goto, runtime
<1>2. ASSUME NEW g \in Goroutine, NEW s \in Server, BeginKeepAlive(g, s) PROVE [Links!Next]_(Links!links)
  BY <1>2, RuntimeAssumption DEF RuntimeAssumption, RuntimeInv, TypeOK, Client,
     NoClient, Control, SlotIsKnown, Connecting, Past, Links!Next, Links!links,
     BeginKeepAlive, Goto, runtime
<1>3. ASSUME NEW g \in Goroutine, NEW s \in Server, BeginTake(g, "disconnect", s) PROVE [Links!Next]_(Links!links)
  BY <1>3, RuntimeAssumption DEF RuntimeAssumption, RuntimeInv, TypeOK, Client,
     NoClient, Control, SlotIsKnown, Connecting, Past, Links!Next, Links!links,
     BeginTake, Goto, runtime
<1>4. ASSUME NEW g \in Goroutine, NEW s \in Server, BeginTake(g, "lock", s) PROVE [Links!Next]_(Links!links)
  BY <1>4, RuntimeAssumption DEF RuntimeAssumption, RuntimeInv, TypeOK, Client,
     NoClient, Control, SlotIsKnown, Connecting, Past, Links!Next, Links!links,
     BeginTake, Goto, runtime
<1>5. ASSUME NEW g \in Goroutine, Enter(g) PROVE [Links!Next]_(Links!links)
  BY <1>5, RuntimeAssumption DEF RuntimeAssumption, RuntimeInv, TypeOK, Client,
     NoClient, Control, SlotIsKnown, Connecting, Past, Links!Next, Links!links, Enter,
     MayEnter, Goto
<1>6. ASSUME NEW g \in Goroutine, CheckLocked(g) PROVE [Links!Next]_(Links!links)
  BY <1>6, RuntimeAssumption DEF RuntimeAssumption, RuntimeInv, TypeOK, Client,
     NoClient, Control, SlotIsKnown, Connecting, Past, Links!Next, Links!links,
     Links!Admit, CheckLocked, Goto, Return, ReleaseConnectMu
<1>7. ASSUME NEW g \in Goroutine, ProbeAnswered(g) PROVE [Links!Next]_(Links!links)
  BY <1>7, RuntimeAssumption DEF RuntimeAssumption, RuntimeInv, TypeOK, Client,
     NoClient, Control, SlotIsKnown, Connecting, Past, Links!Next, Links!links,
     Links!GiveUp, ProbeAnswered, Goto, Return, ReleaseConnectMu
<1>8. ASSUME NEW g \in Goroutine, ProbeFailed(g) PROVE [Links!Next]_(Links!links)
  BY <1>8, RuntimeAssumption DEF RuntimeAssumption, RuntimeInv, TypeOK, Client,
     NoClient, Control, SlotIsKnown, Connecting, Past, Links!Next, Links!links,
     Links!Drop, ProbeFailed, DropProbed, Without, ProbedToClose, Goto
<1>9. ASSUME NEW g \in Goroutine, Sign(g) PROVE [Links!Next]_(Links!links)
  BY <1>9, RuntimeAssumption DEF RuntimeAssumption, RuntimeInv, TypeOK, Client,
     NoClient, Control, SlotIsKnown, Connecting, Past, Links!Next, Links!links,
     Links!GiveUp, Sign, Goto, Return, ReleaseConnectMu
<1>10. ASSUME NEW g \in Goroutine, Route(g) PROVE [Links!Next]_(Links!links)
  BY <1>10, RuntimeAssumption DEF RuntimeAssumption, RuntimeInv, TypeOK, Client,
     NoClient, Control, SlotIsKnown, Connecting, Past, Links!Next, Links!links,
     Links!GiveUp, Route, Goto, Return, ReleaseConnectMu
<1>11. ASSUME NEW g \in Goroutine, DialFailed(g) PROVE [Links!Next]_(Links!links)
  BY <1>11, RuntimeAssumption DEF RuntimeAssumption, RuntimeInv, TypeOK, Client,
     NoClient, Control, SlotIsKnown, Connecting, Past, Links!Next, Links!links,
     Links!GiveUp, DialFailed, Goto, Return, ReleaseConnectMu
<1>12. ASSUME NEW g \in Goroutine, Dialled(g) PROVE [Links!Next]_(Links!links)
  BY <1>12, RuntimeAssumption DEF RuntimeAssumption, RuntimeInv, TypeOK, Client,
     NoClient, Control, SlotIsKnown, Connecting, Past, Links!Next, Links!links, Dialled,
     Goto
<1>13. ASSUME NEW g \in Goroutine, Store(g) PROVE [Links!Next]_(Links!links)
  <2>1. /\ connectMu = g /\ connectMu' = NoGoroutine /\ signer' = signer
        /\ clients[server[g]] = NoClient /\ held[g] # NoClient
        /\ clients' = [clients EXCEPT ![server[g]] = held[g]]
        /\ server[g] \in Server /\ pc[g] \in Past
    BY <1>13, RuntimeAssumption DEF RuntimeAssumption, RuntimeInv, TypeOK, Control,
       SlotIsKnown, Ownership, Connecting, Past, Store, ReleaseConnectMu
  <2>2. {s \in Server : clients'[s] # NoClient}
          = {s \in Server : clients[s] # NoClient} \cup {server[g]}
    BY <2>1 DEF RuntimeInv, TypeOK
  <2>3. g # NoGoroutine
    BY RuntimeAssumption DEF RuntimeAssumption
  <2>4. server[g] \notin {s \in Server : clients[s] # NoClient}
    BY <2>1
  <2>5. (IF connectMu # NoGoroutine /\ pc[connectMu] \in Past
         THEN server[connectMu] ELSE NoServer) = server[g]
    BY <2>1, <2>3
  <2>6. (IF connectMu' # NoGoroutine /\ pc'[connectMu'] \in Past
         THEN server'[connectMu'] ELSE NoServer) = NoServer
    BY <2>1
  <2>7. PICK s \in Server : s = server[g]
    BY <2>1
  <2>8. Links!Establish(s)
    BY <2>1, <2>2, <2>4, <2>5, <2>6, <2>7 DEF Links!Establish, Past
  <2> QED BY <2>8 DEF Links!Next
<1>14. ASSUME NEW g \in Goroutine, Take(g) PROVE [Links!Next]_(Links!links)
  BY <1>14, RuntimeAssumption DEF RuntimeAssumption, RuntimeInv, TypeOK, Client,
     NoClient, Control, SlotIsKnown, Connecting, Past, Links!Next, Links!links,
     Links!Drop, Links!DropAll, Take, Taken, Emptied, Goto
<1>15. ASSUME NEW g \in Goroutine, Close(g) PROVE [Links!Next]_(Links!links)
  BY <1>15, RuntimeAssumption DEF RuntimeAssumption, RuntimeInv, TypeOK, Client,
     NoClient, Control, SlotIsKnown, Connecting, Past, Links!Next, Links!links, Close
<1>16. ASSUME NEW g \in Goroutine, Closed(g) PROVE [Links!Next]_(Links!links)
  BY <1>16, RuntimeAssumption DEF RuntimeAssumption, RuntimeInv, TypeOK, Client,
     NoClient, Control, SlotIsKnown, Connecting, Past, Links!Next, Links!links, Closed,
     Goto, Return, runtime
<1>17. ASSUME NEW g \in Goroutine, Seal(g) PROVE [Links!Next]_(Links!links)
  BY <1>17, RuntimeAssumption DEF RuntimeAssumption, RuntimeInv, TypeOK, Client,
     NoClient, Control, SlotIsKnown, Connecting, Past, Links!Next, Links!links,
     Links!SealSigner, Seal, Goto, Return
<1>18. CASE Unlock
  BY <1>18 DEF Unlock, Links!Next, Links!links, Links!UnlockSigner, goroutine
<1>19. CASE (\E c \in Client : Lose(c)) \/ UNCHANGED vars
  BY <1>19 DEF Lose, Links!links, vars, runtime, goroutine
<1> QED BY <1>1, <1>2, <1>3, <1>4, <1>5, <1>6, <1>7, <1>8, <1>9, <1>10, <1>11, <1>12,
     <1>13, <1>14, <1>15, <1>16, <1>17, <1>18, <1>19 DEF Next, Step, BeginDisconnect,
     BeginLock

\* With connectMu, r.mu and the lock checks as they are (sshpool.go:466-534), the
\* runtime is an implementation of ManagedLinks: one admitted Connect at a time,
\* admitted under an unlocked signer, adding at most the server it is for.
THEOREM RuntimeImplementsManagedLinks == Spec => ImplementsManagedLinks
<1>1. Init => Links!Init
  BY RuntimeAssumption DEF RuntimeAssumption, Init, Links!Init, NoClient
<1>2. RuntimeInv /\ RuntimeInv' /\ [Next]_vars => [Links!Next]_(Links!links)
  BY NextImplements
<1> QED BY <1>1, <1>2, RuntimeInvHolds, PTL DEF Spec, ImplementsManagedLinks, Links!Spec

================================================================================
