-------------------------- MODULE ConnectionManagerProofs --------------------------
(* Theorems about ConnectionManager, for any servers, chains, generations and
   attempts. *)
EXTENDS ConnectionManager, TLAPS

(* Somebody's jump server: the sweep writes and publishes for it while an
   attempt for it may be in flight. *)
Jumped(s) == \E t \in Server : Jump[t] = s

Own(s) == s \in listed /\ ~Jumped(s)

(* An attempt that is under way has a server. *)
HasServer == \A a \in Attempt : Live(a) => asrv[a] \in Server

(* What holds in a generation that began with no goroutine of an older one. *)

(* Nobody but the newest generation's loop and attempts is there. *)
OnlyNewest ==
    /\ locker = "idle"
    /\ \A n \in Gen : loop[n] # "off" => n = gen
    /\ \A a \in Attempt : Live(a) => agen[a] = gen

(* Every live attempt has the flag of its server, and no other has it. *)
Claimed ==
    /\ \A a \in Attempt : Live(a) => inFlight[asrv[a]]
    /\ \A a, b \in Attempt : a # b /\ Live(a) /\ Live(b) => asrv[a] # asrv[b]

(* What an attempt is about to publish is what it recorded. *)
Recorded(a) ==
    /\ state[asrv[a]] # "absent"
    /\ apc[a] = "publish" => state[asrv[a]] = Decision(result[a])

AttemptOrder == \A a \in Attempt : Live(a) /\ Own(asrv[a]) => Recorded(a)

(* While the sweep stays at a server no attempt for it begins, so what it is about to
   publish is the state it left or will leave. *)
SweepOrder ==
    \A n \in Gen : loop[n] \in {"probe", "publish"} /\ Own(at[n]) =>
        /\ ~inFlight[at[n]]
        /\ loop[n] = "probe" => target[n] = gen /\ state[at[n]] = "connected"
        /\ loop[n] = "publish" => state[at[n]] = news[n]

StatusOrder ==
    \A s \in Server :
        Own(s) /\ Quiet(s) /\ state[s] \notin {"absent", "disconnected"} => status[s] = state[s]

ManagerInv ==
    /\ TypeOK
    /\ HasServer
    /\ FlagHasAttempt
    /\ clean => OnlyNewest /\ Claimed /\ AttemptOrder /\ SweepOrder /\ StatusOrder

--------------------------------------------------------------------------------
(* One lemma per part of the invariant, with one step per action.           *)

(* Every step keeps every variable within its type.  A Connect stores a client
   for the server of an attempt, so the attempt must have one. *)
LEMMA TypeStep ==
    ASSUME TypeOK, HasServer,
           Next
    PROVE  TypeOK'
<1> USE ManagerAssumption DEF ManagerAssumption, TypeOK, Gen, Profile, State, Status, links,
     store, manager, loops, attempts, handler
<1>1. CASE ConnectAll
  BY <1>1 DEF ConnectAll, FreshFlags
<1>2. CASE LockStep
  <2>1. CASE LockStop
    BY <2>1 DEF LockStop
  <2>2. CASE LockClear
    BY <2>2 DEF LockClear, Runtime!DropAll
  <2>3. CASE LockSeal
    BY <2>3 DEF LockSeal, Runtime!SealSigner
  <2>4. CASE LockMark
    BY <2>4 DEF LockMark, Publish
  <2> QED BY <1>2, <2>1, <2>2, <2>3, <2>4 DEF LockStep
<1>3. ASSUME NEW n \in Gen, LoopStep(n) PROVE TypeOK'
  <2>1. CASE List(n)
    <3>1. CASE Cancelled(n)
      BY <2>1, <3>1 DEF List
    <3>2. CASE ~Cancelled(n)
      <4>1. /\ state' \in [Server -> State \cup {"absent"}]
            /\ connected' \subseteq Server
        BY <2>1, <3>2 DEF List
      <4>2. todo' \in [Gen -> SUBSET Server]
        BY <2>1, <3>2 DEF List
      <4>3. seen' \in [Gen -> [Server -> Profile \cup {0}]]
        <5> HIDE DEF Gen, Profile
        <5>1. [s \in Server |-> IF s \in listed THEN profile[s] ELSE 0] \in [Server -> Profile \cup {0}]
          OBVIOUS
        <5> QED BY <2>1, <3>2, <5>1 DEF List
      <4>4. loop' \in [Gen -> {"off", "list", "sweep", "probe", "publish"}]
        BY <2>1, <3>2 DEF List
      <4> QED BY <2>1, <3>2, <4>1, <4>2, <4>3, <4>4 DEF List
    <3> QED BY <3>1, <3>2
  <2>2. CASE SweepEnd(n)
    BY <2>2 DEF SweepEnd, Cancelled
  <2>3. ASSUME NEW s \in Server, Nothing(n, s) PROVE TypeOK'
    <3>1. Entry(s) \in State
      BY DEF Entry
    <3>2. state' = state \/ state' = [state EXCEPT ![s] = Entry(s)]
      BY <2>3 DEF Nothing
    <3> HIDE DEF Gen, Profile, State, Status
    <3>3. state' \in [Server -> State \cup {"absent"}]
      <4>1. CASE state' = state
        BY <4>1
      <4>2. CASE state' = [state EXCEPT ![s] = Entry(s)]
        <5> HIDE DEF Entry
        <5> QED BY <3>1, <4>2
      <4> QED BY <3>2, <4>1, <4>2
    <3>4. /\ todo' = [todo EXCEPT ![n] = @ \ {s}]
          /\ UNCHANGED <<links, store, gen, running, waiting, blocked, inFlight, loop, seen,
                         at, news, target, attempts, handler, clean>>
      BY <2>3 DEF Nothing, Done
    <3> QED BY <3>3, <3>4
  <2>4. ASSUME NEW s \in Server, Recover(n, s) PROVE TypeOK'
    BY <2>4 DEF Recover, Visiting, Cancelled, Entry, SetState, Announces
  <2>5. ASSUME NEW s \in Server, Lost(n, s) PROVE TypeOK'
    BY <2>5 DEF Lost, Visiting, Cancelled, SetState, Announces, Done, BlockedIn
  <2>6. ASSUME NEW s \in Server, Probe(n, s) PROVE TypeOK'
    BY <2>6 DEF Probe, Visiting, Cancelled, Done
  <2>7. ASSUME NEW s \in Server, NoJump(n, s) PROVE TypeOK'
    BY <2>7 DEF NoJump, Due, Visiting, Cancelled, Entry, SetState, Announces, Done, Direct
  <2>8. ASSUME NEW s \in Server, JumpDown(n, s) PROVE TypeOK'
    BY <2>8 DEF JumpDown, Due, Visiting, Cancelled, Entry, Announces, Done, Direct
  <2>9. ASSUME NEW s \in Server, RecoverJump(n, s) PROVE TypeOK'
    BY <2>9 DEF RecoverJump, Due, Visiting, Cancelled, Entry, Announces, Direct
  <2>10. ASSUME NEW s \in Server, NEW a \in Attempt, BeginConnect(n, s, a) PROVE TypeOK'
    BY <2>10 DEF BeginConnect, Due, Visiting, Cancelled, Entry, Done, FlagsWith
  <2>11. CASE ProbeAnswered(n)
    BY <2>11 DEF ProbeAnswered, Announces
  <2>12. CASE ProbeFailed(n)
    <3>1. state' \in [Server -> State \cup {"absent"}]
      BY <2>12 DEF ProbeFailed, SetState
    <3>2. waiting' \in [Server -> BOOLEAN]
      BY <2>12 DEF ProbeFailed, SetState
    <3>3. blocked' \in [Server -> Profile \cup {0}]
      <4> HIDE DEF Gen, Profile, State, Status
      <4> QED BY <2>12 DEF ProbeFailed, SetState
    <3>4. connected' \subseteq Server
      BY <2>12 DEF ProbeFailed
    <3>5. /\ loop' \in [Gen -> {"off", "list", "sweep", "probe", "publish"}]
          /\ at' \in [Gen -> Server \cup {NoServer}]
          /\ news' \in [Gen -> Status]
      BY <2>12 DEF ProbeFailed, Announces
    <3> QED BY <2>12, <3>1, <3>2, <3>3, <3>4, <3>5 DEF ProbeFailed
  <2>13. CASE Announced(n)
    BY <2>13 DEF Announced, Publish
  <2> QED
    BY <1>3, <2>1, <2>2, <2>3, <2>4, <2>5, <2>6, <2>7, <2>8, <2>9, <2>10, <2>11, <2>12, <2>13
         DEF LoopStep
<1>4. ASSUME NEW a \in Attempt, AttemptStep(a) PROVE TypeOK'
  <2>1. CASE Announce(a)
    BY <2>1 DEF Announce, Publish, Goto
  <2>2. CASE CallRefused(a)
    BY <2>2 DEF CallRefused, Ends, Goto
  <2>3. CASE CallAdmitted(a)
    BY <2>3 DEF CallAdmitted, Goto, Runtime!Admit
  <2>4. CASE CallConnected(a)
    <3>1. connected' \subseteq Server
      BY <2>4 DEF CallConnected, HasServer, Live, Runtime!GiveUp, Runtime!Establish
    <3>2. admitted' \in Server \cup {NoServer} /\ signer' = signer
      BY <2>4 DEF CallConnected, Runtime!GiveUp, Runtime!Establish
    <3>3. /\ apc' \in [Attempt -> {"idle", "announce", "call", "admitted", "record", "publish"}]
          /\ result' \in [Attempt -> {"connected", "network", "locked", "blocked", "other"}]
      BY <2>4 DEF CallConnected, Ends, Goto
    <3> QED BY <2>4, <3>1, <3>2, <3>3 DEF CallConnected
  <2>5. CASE CallDrops(a)
    BY <2>5 DEF CallDrops, Runtime!Drop
  <2>6. CASE CallFailed(a)
    <3>1. admitted' \in Server \cup {NoServer} /\ UNCHANGED <<connected, signer>>
      BY <2>6 DEF CallFailed, Runtime!GiveUp
    <3>2. \E how \in {"network", "locked", "blocked", "other"} : Ends(a, how)
      BY <2>6 DEF CallFailed
    <3>3. /\ apc' \in [Attempt -> {"idle", "announce", "call", "admitted", "record", "publish"}]
          /\ result' \in [Attempt -> {"connected", "network", "locked", "blocked", "other"}]
      BY <3>2 DEF Ends, Goto
    <3> QED BY <2>6, <3>1, <3>3 DEF CallFailed
  <2>7. CASE Record(a)
    <3> DEFINE fp == CASE result[a] = "connected" -> 0
                       [] Blocks(result[a])       -> aseen[a]
                       [] OTHER                   -> blocked[asrv[a]]
    <3>1. Decision(result[a]) \in State
      BY DEF Decision
    <3>2. state' \in [Server -> State \cup {"absent"}]
      BY <2>7, <3>1 DEF Record, SetState
    <3>3. waiting' \in [Server -> BOOLEAN]
      BY <2>7 DEF Record, SetState
    <3>4. blocked' \in [Server -> Profile \cup {0}]
      <4> HIDE DEF Gen, Profile, State, Status
      <4>1. asrv[a] \in Server => fp \in Profile \cup {0}
        BY DEF Blocks
      <4>2. blocked' \in {blocked, [blocked EXCEPT ![asrv[a]] = fp]}
        BY <2>7 DEF Record, SetState
      <4> HIDE DEF fp
      <4> QED BY <4>1, <4>2
    <3>5. apc' \in [Attempt -> {"idle", "announce", "call", "admitted", "record", "publish"}]
      BY <2>7 DEF Record, Goto
    <3> QED BY <2>7, <3>2, <3>3, <3>4, <3>5 DEF Record
  <2>8. CASE Finish(a)
    <3>1. status' \in [Server -> Status]
      BY <2>8 DEF Finish, Publish, Decision
    <3>2. inFlight' \in [Server -> BOOLEAN]
      BY <2>8 DEF Finish, FlagsAfter
    <3>3. /\ apc' \in [Attempt -> {"idle", "announce", "call", "admitted", "record", "publish"}]
          /\ asrv' \in [Attempt -> Server \cup {NoServer}]
      BY <2>8 DEF Finish, Goto
    <3>4. /\ agen' \in [Attempt -> 0..MaxStarts]
          /\ aseen' \in [Attempt -> Profile \cup {0}]
      BY <2>8 DEF Finish
    <3>5. result' \in [Attempt -> {"connected", "network", "locked", "blocked", "other"}]
      BY <2>8 DEF Finish
    <3> QED BY <2>8, <3>1, <3>2, <3>3, <3>4, <3>5 DEF Finish
  <2> QED
    BY <1>4, <2>1, <2>2, <2>3, <2>4, <2>5, <2>6, <2>7, <2>8 DEF AttemptStep
<1>5. CASE OthersUseRuntime
  BY <1>5 DEF OthersUseRuntime, Runtime!Drop, Runtime!Admit, Runtime!GiveUp, Runtime!Establish
<1>6. CASE Unlock
  BY <1>6 DEF Unlock, Runtime!UnlockSigner
<1>7. ASSUME NEW s \in Server, RetryTime(s) PROVE TypeOK'
  BY <1>7 DEF RetryTime
<1>8. ASSUME NEW s \in Server, Edit(s) PROVE TypeOK'
  BY <1>8 DEF Edit
<1>9. ASSUME NEW s \in Server, Delete(s) PROVE TypeOK'
  BY <1>9 DEF Delete
<1> QED
  BY <1>1, <1>2, <1>3, <1>4, <1>5, <1>6, <1>7, <1>8, <1>9 DEF Next

(* Only beginConnect puts an attempt under way, and it names the server. *)
LEMMA ServerStep ==
    ASSUME TypeOK, HasServer,
           Next
    PROVE  HasServer'
<1> USE ManagerAssumption DEF ManagerAssumption, TypeOK, Gen, Profile, State, Status, links,
     store, manager, loops, attempts, handler, HasServer, Live
<1>1. CASE ConnectAll
  BY <1>1 DEF ConnectAll, FreshFlags
<1>2. CASE LockStep
  <2>1. CASE LockStop
    BY <2>1 DEF LockStop
  <2>2. CASE LockClear
    BY <2>2 DEF LockClear, Runtime!DropAll
  <2>3. CASE LockSeal
    BY <2>3 DEF LockSeal, Runtime!SealSigner
  <2>4. CASE LockMark
    BY <2>4 DEF LockMark, Publish
  <2> QED BY <1>2, <2>1, <2>2, <2>3, <2>4 DEF LockStep
<1>3. ASSUME NEW n \in Gen, LoopStep(n) PROVE HasServer'
  <2>1. CASE List(n)
    BY <2>1 DEF List, Cancelled
  <2>2. CASE SweepEnd(n)
    BY <2>2 DEF SweepEnd, Cancelled
  <2>3. ASSUME NEW s \in Server, Nothing(n, s) PROVE HasServer'
    BY <2>3 DEF Nothing, Visiting, Cancelled, Entry, Done, BlockedIn
  <2>4. ASSUME NEW s \in Server, Recover(n, s) PROVE HasServer'
    BY <2>4 DEF Recover, Visiting, Cancelled, Entry, SetState, Announces
  <2>5. ASSUME NEW s \in Server, Lost(n, s) PROVE HasServer'
    BY <2>5 DEF Lost, Visiting, Cancelled, SetState, Announces, Done, BlockedIn
  <2>6. ASSUME NEW s \in Server, Probe(n, s) PROVE HasServer'
    BY <2>6 DEF Probe, Visiting, Cancelled, Done
  <2>7. ASSUME NEW s \in Server, NoJump(n, s) PROVE HasServer'
    BY <2>7 DEF NoJump, Due, Visiting, Cancelled, Entry, SetState, Announces, Done, Direct
  <2>8. ASSUME NEW s \in Server, JumpDown(n, s) PROVE HasServer'
    BY <2>8 DEF JumpDown, Due, Visiting, Cancelled, Entry, Announces, Done, Direct
  <2>9. ASSUME NEW s \in Server, RecoverJump(n, s) PROVE HasServer'
    BY <2>9 DEF RecoverJump, Due, Visiting, Cancelled, Entry, Announces, Direct
  <2>10. ASSUME NEW s \in Server, NEW a \in Attempt, BeginConnect(n, s, a) PROVE HasServer'
    BY <2>10 DEF BeginConnect, Due, Visiting, Cancelled, Entry, Done, FlagsWith
  <2>11. CASE ProbeAnswered(n)
    BY <2>11 DEF ProbeAnswered, Announces
  <2>12. CASE ProbeFailed(n)
    BY <2>12 DEF ProbeFailed, SetState, Announces, Current
  <2>13. CASE Announced(n)
    BY <2>13 DEF Announced, Publish
  <2> QED
    BY <1>3, <2>1, <2>2, <2>3, <2>4, <2>5, <2>6, <2>7, <2>8, <2>9, <2>10, <2>11, <2>12, <2>13
         DEF LoopStep
<1>4. ASSUME NEW a \in Attempt, AttemptStep(a) PROVE HasServer'
  <2>1. CASE Announce(a)
    BY <2>1 DEF Announce, Publish, Goto
  <2>2. CASE CallRefused(a)
    BY <2>2 DEF CallRefused, Ends, Goto
  <2>3. CASE CallAdmitted(a)
    BY <2>3 DEF CallAdmitted, Goto, Runtime!Admit
  <2>4. CASE CallConnected(a)
    BY <2>4 DEF CallConnected, Ends, Goto, Runtime!GiveUp, Runtime!Establish
  <2>5. CASE CallDrops(a)
    BY <2>5 DEF CallDrops, Runtime!Drop
  <2>6. CASE CallFailed(a)
    BY <2>6 DEF CallFailed, Ends, Goto, Runtime!GiveUp
  <2>7. CASE Record(a)
    BY <2>7 DEF Record, Current, SetState, Decision, Blocks, Goto
  <2>8. CASE Finish(a)
    BY <2>8 DEF Finish, Publish, FlagsAfter, Goto, Decision
  <2> QED
    BY <1>4, <2>1, <2>2, <2>3, <2>4, <2>5, <2>6, <2>7, <2>8 DEF AttemptStep
<1>5. CASE OthersUseRuntime
  BY <1>5 DEF OthersUseRuntime, Runtime!Drop, Runtime!Admit, Runtime!GiveUp, Runtime!Establish
<1>6. CASE Unlock
  BY <1>6 DEF Unlock, Runtime!UnlockSigner
<1>7. ASSUME NEW s \in Server, RetryTime(s) PROVE HasServer'
  BY <1>7 DEF RetryTime
<1>8. ASSUME NEW s \in Server, Edit(s) PROVE HasServer'
  BY <1>8 DEF Edit
<1>9. ASSUME NEW s \in Server, Delete(s) PROVE HasServer'
  BY <1>9 DEF Delete
<1> QED
  BY <1>1, <1>2, <1>3, <1>4, <1>5, <1>6, <1>7, <1>8, <1>9 DEF Next

(* A flag is set with its attempt, and the attempt clears it when it ends; Start
   leaves no flag. *)
LEMMA FlagStep ==
    ASSUME TypeOK, FlagHasAttempt,
           Next
    PROVE  FlagHasAttempt'
<1> USE ManagerAssumption DEF ManagerAssumption, TypeOK, Gen, Profile, State, Status, links,
     store, manager, loops, attempts, handler, FlagHasAttempt, Live
<1>1. CASE ConnectAll
  BY <1>1 DEF ConnectAll, FreshFlags
<1>2. CASE LockStep
  <2>1. CASE LockStop
    BY <2>1 DEF LockStop
  <2>2. CASE LockClear
    BY <2>2 DEF LockClear, Runtime!DropAll
  <2>3. CASE LockSeal
    BY <2>3 DEF LockSeal, Runtime!SealSigner
  <2>4. CASE LockMark
    BY <2>4 DEF LockMark, Publish
  <2> QED BY <1>2, <2>1, <2>2, <2>3, <2>4 DEF LockStep
<1>3. ASSUME NEW n \in Gen, LoopStep(n) PROVE FlagHasAttempt'
  <2>1. CASE List(n)
    BY <2>1 DEF List, Cancelled
  <2>2. CASE SweepEnd(n)
    BY <2>2 DEF SweepEnd, Cancelled
  <2>3. ASSUME NEW s \in Server, Nothing(n, s) PROVE FlagHasAttempt'
    BY <2>3 DEF Nothing, Visiting, Cancelled, Entry, Done, BlockedIn
  <2>4. ASSUME NEW s \in Server, Recover(n, s) PROVE FlagHasAttempt'
    BY <2>4 DEF Recover, Visiting, Cancelled, Entry, SetState, Announces
  <2>5. ASSUME NEW s \in Server, Lost(n, s) PROVE FlagHasAttempt'
    BY <2>5 DEF Lost, Visiting, Cancelled, SetState, Announces, Done, BlockedIn
  <2>6. ASSUME NEW s \in Server, Probe(n, s) PROVE FlagHasAttempt'
    BY <2>6 DEF Probe, Visiting, Cancelled, Done
  <2>7. ASSUME NEW s \in Server, NoJump(n, s) PROVE FlagHasAttempt'
    BY <2>7 DEF NoJump, Due, Visiting, Cancelled, Entry, SetState, Announces, Done, Direct
  <2>8. ASSUME NEW s \in Server, JumpDown(n, s) PROVE FlagHasAttempt'
    BY <2>8 DEF JumpDown, Due, Visiting, Cancelled, Entry, Announces, Done, Direct
  <2>9. ASSUME NEW s \in Server, RecoverJump(n, s) PROVE FlagHasAttempt'
    BY <2>9 DEF RecoverJump, Due, Visiting, Cancelled, Entry, Announces, Direct
  <2>10. ASSUME NEW s \in Server, NEW a \in Attempt, BeginConnect(n, s, a) PROVE FlagHasAttempt'
    BY <2>10 DEF BeginConnect, Due, Visiting, Cancelled, Entry, Done, FlagsWith
  <2>11. CASE ProbeAnswered(n)
    BY <2>11 DEF ProbeAnswered, Announces
  <2>12. CASE ProbeFailed(n)
    BY <2>12 DEF ProbeFailed, SetState, Announces, Current
  <2>13. CASE Announced(n)
    BY <2>13 DEF Announced, Publish
  <2> QED
    BY <1>3, <2>1, <2>2, <2>3, <2>4, <2>5, <2>6, <2>7, <2>8, <2>9, <2>10, <2>11, <2>12, <2>13
         DEF LoopStep
<1>4. ASSUME NEW a \in Attempt, AttemptStep(a) PROVE FlagHasAttempt'
  <2>1. CASE Announce(a)
    BY <2>1 DEF Announce, Publish, Goto
  <2>2. CASE CallRefused(a)
    BY <2>2 DEF CallRefused, Ends, Goto
  <2>3. CASE CallAdmitted(a)
    BY <2>3 DEF CallAdmitted, Goto, Runtime!Admit
  <2>4. CASE CallConnected(a)
    BY <2>4 DEF CallConnected, Ends, Goto, Runtime!GiveUp, Runtime!Establish
  <2>5. CASE CallDrops(a)
    BY <2>5 DEF CallDrops, Runtime!Drop
  <2>6. CASE CallFailed(a)
    BY <2>6 DEF CallFailed, Ends, Goto, Runtime!GiveUp
  <2>7. CASE Record(a)
    BY <2>7 DEF Record, Current, SetState, Decision, Blocks, Goto
  <2>8. CASE Finish(a)
    BY <2>8 DEF Finish, Publish, FlagsAfter, Goto, Decision
  <2> QED
    BY <1>4, <2>1, <2>2, <2>3, <2>4, <2>5, <2>6, <2>7, <2>8 DEF AttemptStep
<1>5. CASE OthersUseRuntime
  BY <1>5 DEF OthersUseRuntime, Runtime!Drop, Runtime!Admit, Runtime!GiveUp, Runtime!Establish
<1>6. CASE Unlock
  BY <1>6 DEF Unlock, Runtime!UnlockSigner
<1>7. ASSUME NEW s \in Server, RetryTime(s) PROVE FlagHasAttempt'
  BY <1>7 DEF RetryTime
<1>8. ASSUME NEW s \in Server, Edit(s) PROVE FlagHasAttempt'
  BY <1>8 DEF Edit
<1>9. ASSUME NEW s \in Server, Delete(s) PROVE FlagHasAttempt'
  BY <1>9 DEF Delete
<1> QED
  BY <1>1, <1>2, <1>3, <1>4, <1>5, <1>6, <1>7, <1>8, <1>9 DEF Next

(* A loop and an attempt belong to the generation that started them, and a
   Stop or a Start with anything left is not clean. *)
LEMMA OnlyNewestStep ==
    ASSUME TypeOK, HasServer, clean => OnlyNewest,
           Next
    PROVE  (clean => OnlyNewest)'
<1> USE ManagerAssumption DEF ManagerAssumption, TypeOK, Gen, Profile, State, Status, links,
     store, manager, loops, attempts, handler, HasServer, Live, Own, Jumped, OnlyNewest
<1>1. CASE ConnectAll
  BY <1>1 DEF ConnectAll, FreshFlags
<1>2. CASE LockStep
  <2>1. CASE LockStop
    BY <2>1 DEF LockStop
  <2>2. CASE LockClear
    BY <2>2 DEF LockClear, Runtime!DropAll
  <2>3. CASE LockSeal
    BY <2>3 DEF LockSeal, Runtime!SealSigner
  <2>4. CASE LockMark
    BY <2>4 DEF LockMark, Publish
  <2> QED BY <1>2, <2>1, <2>2, <2>3, <2>4 DEF LockStep
<1>3. ASSUME NEW n \in Gen, LoopStep(n) PROVE (clean => OnlyNewest)'
  <2>1. CASE List(n)
    BY <2>1 DEF List, Cancelled
  <2>2. CASE SweepEnd(n)
    BY <2>2 DEF SweepEnd, Cancelled
  <2>3. ASSUME NEW s \in Server, Nothing(n, s) PROVE (clean => OnlyNewest)'
    BY <2>3 DEF Nothing, Visiting, Cancelled, Entry, Done, BlockedIn
  <2>4. ASSUME NEW s \in Server, Recover(n, s) PROVE (clean => OnlyNewest)'
    BY <2>4 DEF Recover, Visiting, Cancelled, Entry, SetState, Announces
  <2>5. ASSUME NEW s \in Server, Lost(n, s) PROVE (clean => OnlyNewest)'
    BY <2>5 DEF Lost, Visiting, Cancelled, SetState, Announces, Done, BlockedIn
  <2>6. ASSUME NEW s \in Server, Probe(n, s) PROVE (clean => OnlyNewest)'
    BY <2>6 DEF Probe, Visiting, Cancelled, Done
  <2>7. ASSUME NEW s \in Server, NoJump(n, s) PROVE (clean => OnlyNewest)'
    BY <2>7 DEF NoJump, Due, Visiting, Cancelled, Entry, SetState, Announces, Done, Direct
  <2>8. ASSUME NEW s \in Server, JumpDown(n, s) PROVE (clean => OnlyNewest)'
    BY <2>8 DEF JumpDown, Due, Visiting, Cancelled, Entry, Announces, Done, Direct
  <2>9. ASSUME NEW s \in Server, RecoverJump(n, s) PROVE (clean => OnlyNewest)'
    BY <2>9 DEF RecoverJump, Due, Visiting, Cancelled, Entry, Announces, Direct
  <2>10. ASSUME NEW s \in Server, NEW a \in Attempt, BeginConnect(n, s, a)
         PROVE  (clean => OnlyNewest)'
    BY <2>10 DEF BeginConnect, Due, Visiting, Cancelled, Entry, Done, FlagsWith
  <2>11. CASE ProbeAnswered(n)
    BY <2>11 DEF ProbeAnswered, Announces
  <2>12. CASE ProbeFailed(n)
    BY <2>12 DEF ProbeFailed, SetState, Announces, Current
  <2>13. CASE Announced(n)
    BY <2>13 DEF Announced, Publish
  <2> QED
    BY <1>3, <2>1, <2>2, <2>3, <2>4, <2>5, <2>6, <2>7, <2>8, <2>9, <2>10, <2>11, <2>12, <2>13
         DEF LoopStep
<1>4. ASSUME NEW a \in Attempt, AttemptStep(a) PROVE (clean => OnlyNewest)'
  <2>1. CASE Announce(a)
    BY <2>1 DEF Announce, Publish, Goto
  <2>2. CASE CallRefused(a)
    BY <2>2 DEF CallRefused, Ends, Goto
  <2>3. CASE CallAdmitted(a)
    BY <2>3 DEF CallAdmitted, Goto, Runtime!Admit
  <2>4. CASE CallConnected(a)
    BY <2>4 DEF CallConnected, Ends, Goto, Runtime!GiveUp, Runtime!Establish
  <2>5. CASE CallDrops(a)
    BY <2>5 DEF CallDrops, Runtime!Drop
  <2>6. CASE CallFailed(a)
    BY <2>6 DEF CallFailed, Ends, Goto, Runtime!GiveUp
  <2>7. CASE Record(a)
    BY <2>7 DEF Record, Current, SetState, Decision, Blocks, Goto
  <2>8. CASE Finish(a)
    BY <2>8 DEF Finish, Publish, FlagsAfter, Goto, Decision
  <2> QED
    BY <1>4, <2>1, <2>2, <2>3, <2>4, <2>5, <2>6, <2>7, <2>8 DEF AttemptStep
<1>5. CASE OthersUseRuntime
  BY <1>5 DEF OthersUseRuntime, Runtime!Drop, Runtime!Admit, Runtime!GiveUp, Runtime!Establish
<1>6. CASE Unlock
  BY <1>6 DEF Unlock, Runtime!UnlockSigner
<1>7. ASSUME NEW s \in Server, RetryTime(s) PROVE (clean => OnlyNewest)'
  BY <1>7 DEF RetryTime
<1>8. ASSUME NEW s \in Server, Edit(s) PROVE (clean => OnlyNewest)'
  BY <1>8 DEF Edit
<1>9. ASSUME NEW s \in Server, Delete(s) PROVE (clean => OnlyNewest)'
  BY <1>9 DEF Delete
<1> QED
  BY <1>1, <1>2, <1>3, <1>4, <1>5, <1>6, <1>7, <1>8, <1>9 DEF Next

(* beginConnect finds the flag of its server clear, so no other attempt is under
   way for it, and each clears the flag of its own server only. *)
LEMMA ClaimedStep ==
    ASSUME TypeOK, HasServer, clean => Claimed,
           Next
    PROVE  (clean => Claimed)'
<1> USE ManagerAssumption DEF ManagerAssumption, TypeOK, Gen, Profile, State, Status, links,
     store, manager, loops, attempts, handler, HasServer, Live, Own, Jumped, Claimed
<1>1. CASE ConnectAll
  BY <1>1 DEF ConnectAll, FreshFlags
<1>2. CASE LockStep
  <2>1. CASE LockStop
    BY <2>1 DEF LockStop
  <2>2. CASE LockClear
    BY <2>2 DEF LockClear, Runtime!DropAll
  <2>3. CASE LockSeal
    BY <2>3 DEF LockSeal, Runtime!SealSigner
  <2>4. CASE LockMark
    BY <2>4 DEF LockMark, Publish
  <2> QED BY <1>2, <2>1, <2>2, <2>3, <2>4 DEF LockStep
<1>3. ASSUME NEW n \in Gen, LoopStep(n) PROVE (clean => Claimed)'
  <2>1. CASE List(n)
    BY <2>1 DEF List, Cancelled
  <2>2. CASE SweepEnd(n)
    BY <2>2 DEF SweepEnd, Cancelled
  <2>3. ASSUME NEW s \in Server, Nothing(n, s) PROVE (clean => Claimed)'
    BY <2>3 DEF Nothing, Visiting, Cancelled, Entry, Done, BlockedIn
  <2>4. ASSUME NEW s \in Server, Recover(n, s) PROVE (clean => Claimed)'
    BY <2>4 DEF Recover, Visiting, Cancelled, Entry, SetState, Announces
  <2>5. ASSUME NEW s \in Server, Lost(n, s) PROVE (clean => Claimed)'
    BY <2>5 DEF Lost, Visiting, Cancelled, SetState, Announces, Done, BlockedIn
  <2>6. ASSUME NEW s \in Server, Probe(n, s) PROVE (clean => Claimed)'
    BY <2>6 DEF Probe, Visiting, Cancelled, Done
  <2>7. ASSUME NEW s \in Server, NoJump(n, s) PROVE (clean => Claimed)'
    BY <2>7 DEF NoJump, Due, Visiting, Cancelled, Entry, SetState, Announces, Done, Direct
  <2>8. ASSUME NEW s \in Server, JumpDown(n, s) PROVE (clean => Claimed)'
    BY <2>8 DEF JumpDown, Due, Visiting, Cancelled, Entry, Announces, Done, Direct
  <2>9. ASSUME NEW s \in Server, RecoverJump(n, s) PROVE (clean => Claimed)'
    BY <2>9 DEF RecoverJump, Due, Visiting, Cancelled, Entry, Announces, Direct
  <2>10. ASSUME NEW s \in Server, NEW a \in Attempt, BeginConnect(n, s, a)
         PROVE  (clean => Claimed)'
    BY <2>10 DEF BeginConnect, Due, Visiting, Cancelled, Entry, Done, FlagsWith
  <2>11. CASE ProbeAnswered(n)
    BY <2>11 DEF ProbeAnswered, Announces
  <2>12. CASE ProbeFailed(n)
    BY <2>12 DEF ProbeFailed, SetState, Announces, Current
  <2>13. CASE Announced(n)
    BY <2>13 DEF Announced, Publish
  <2> QED
    BY <1>3, <2>1, <2>2, <2>3, <2>4, <2>5, <2>6, <2>7, <2>8, <2>9, <2>10, <2>11, <2>12, <2>13
         DEF LoopStep
<1>4. ASSUME NEW a \in Attempt, AttemptStep(a) PROVE (clean => Claimed)'
  <2>0. ASSUME NEW where \in {"call", "admitted", "record", "publish"}, apc[a] # "idle",
               Goto(a, where), UNCHANGED <<asrv, inFlight, clean>>
        PROVE  (clean => Claimed)'
    BY <2>0 DEF Goto
  <2>1. CASE Announce(a)
    BY <2>1 DEF Announce, Publish, Goto
  <2>2. CASE CallRefused(a)
    BY <2>0, <2>2 DEF CallRefused, Ends
  <2>3. CASE CallAdmitted(a)
    BY <2>0, <2>3 DEF CallAdmitted
  <2>4. CASE CallConnected(a)
    BY <2>0, <2>4 DEF CallConnected, Ends
  <2>5. CASE CallDrops(a)
    BY <2>5 DEF CallDrops, Runtime!Drop
  <2>6. CASE CallFailed(a)
    <3>1. \E how \in {"network", "blocked", "locked", "other"} : Ends(a, how)
      BY <2>6 DEF CallFailed
    <3>2. apc' = [apc EXCEPT ![a] = "record"] /\ apc[a] # "idle"
      BY <2>6, <3>1 DEF CallFailed, Ends, Goto
    <3> QED BY <2>6, <3>2 DEF CallFailed
  <2>7. CASE Record(a)
    BY <2>7 DEF Record, Current, SetState, Decision, Blocks, Goto
  <2>8. CASE Finish(a)
    BY <2>8 DEF Finish, Publish, FlagsAfter, Goto, Decision
  <2> QED
    BY <1>4, <2>1, <2>2, <2>3, <2>4, <2>5, <2>6, <2>7, <2>8 DEF AttemptStep
<1>5. CASE OthersUseRuntime
  BY <1>5 DEF OthersUseRuntime, Runtime!Drop, Runtime!Admit, Runtime!GiveUp, Runtime!Establish
<1>6. CASE Unlock
  BY <1>6 DEF Unlock, Runtime!UnlockSigner
<1>7. ASSUME NEW s \in Server, RetryTime(s) PROVE (clean => Claimed)'
  BY <1>7 DEF RetryTime
<1>8. ASSUME NEW s \in Server, Edit(s) PROVE (clean => Claimed)'
  BY <1>8 DEF Edit
<1>9. ASSUME NEW s \in Server, Delete(s) PROVE (clean => Claimed)'
  BY <1>9 DEF Delete
<1> QED
  BY <1>1, <1>2, <1>3, <1>4, <1>5, <1>6, <1>7, <1>8, <1>9 DEF Next

(* Between its record and its publication nobody else writes the state of an
   attempt's server: the sweep passes it by, unless it is jumped through. *)
LEMMA AttemptOrderStep ==
    ASSUME TypeOK, HasServer, clean => OnlyNewest /\ Claimed /\ AttemptOrder /\ SweepOrder,
           Next
    PROVE  (clean => AttemptOrder)'
<1> USE ManagerAssumption DEF ManagerAssumption, TypeOK, Gen, Profile, State, Status, links,
     store, manager, loops, attempts, handler, HasServer, Live, Own, Jumped, Recorded,
     OnlyNewest, Claimed, AttemptOrder, SweepOrder
<1> SUFFICES ASSUME clean', NEW b \in Attempt, Live(b)', Own(asrv[b])'
             PROVE  Recorded(b)'
  BY DEF Recorded
<1>1. CASE ConnectAll
  BY <1>1 DEF ConnectAll, FreshFlags
<1>2. CASE LockStep
  <2>1. CASE LockStop
    BY <2>1 DEF LockStop
  <2>2. CASE LockClear
    BY <2>2 DEF LockClear, Runtime!DropAll
  <2>3. CASE LockSeal
    BY <2>3 DEF LockSeal, Runtime!SealSigner
  <2>4. CASE LockMark
    BY <2>4 DEF LockMark, Publish
  <2> QED BY <1>2, <2>1, <2>2, <2>3, <2>4 DEF LockStep
<1>3. ASSUME NEW n \in Gen, LoopStep(n) PROVE Recorded(b)'
  <2>1. CASE List(n)
    BY <2>1 DEF List, Cancelled
  <2>2. CASE SweepEnd(n)
    BY <2>2 DEF SweepEnd, Cancelled
  <2>3. ASSUME NEW s \in Server, Nothing(n, s) PROVE Recorded(b)'
    BY <2>3 DEF Nothing, Visiting, Cancelled, Entry, Done, BlockedIn
  <2>4. ASSUME NEW s \in Server, Recover(n, s) PROVE Recorded(b)'
    BY <2>4 DEF Recover, Visiting, Cancelled, Entry, SetState, Announces
  <2>5. ASSUME NEW s \in Server, Lost(n, s) PROVE Recorded(b)'
    BY <2>5 DEF Lost, Visiting, Cancelled, SetState, Announces, Done, BlockedIn
  <2>6. ASSUME NEW s \in Server, Probe(n, s) PROVE Recorded(b)'
    BY <2>6 DEF Probe, Visiting, Cancelled, Done
  <2>7. ASSUME NEW s \in Server, NoJump(n, s) PROVE Recorded(b)'
    BY <2>7 DEF NoJump, Due, Visiting, Cancelled, Entry, SetState, Announces, Done, Direct
  <2>8. ASSUME NEW s \in Server, JumpDown(n, s) PROVE Recorded(b)'
    <3>1. asrv[b] # s /\ asrv[b] # Jump[s]
      BY <2>8 DEF JumpDown, Due, Direct
    <3> QED BY <2>8, <3>1 DEF JumpDown
  <2>9. ASSUME NEW s \in Server, RecoverJump(n, s) PROVE Recorded(b)'
    BY <2>9 DEF RecoverJump, Due, Visiting, Cancelled, Entry, Announces, Direct
  <2>10. ASSUME NEW s \in Server, NEW a \in Attempt, BeginConnect(n, s, a) PROVE Recorded(b)'
    BY <2>10 DEF BeginConnect, Due, Visiting, Cancelled, Entry, Done, FlagsWith
  <2>11. CASE ProbeAnswered(n)
    BY <2>11 DEF ProbeAnswered, Announces
  <2>12. CASE ProbeFailed(n)
    <3>1. asrv[b] # at[n]
      BY <2>12 DEF ProbeFailed
    <3> QED BY <2>12, <3>1 DEF ProbeFailed, SetState
  <2>13. CASE Announced(n)
    BY <2>13 DEF Announced, Publish
  <2> QED
    BY <1>3, <2>1, <2>2, <2>3, <2>4, <2>5, <2>6, <2>7, <2>8, <2>9, <2>10, <2>11, <2>12, <2>13
         DEF LoopStep
<1>4. ASSUME NEW a \in Attempt, AttemptStep(a) PROVE Recorded(b)'
  <2>1. CASE Announce(a)
    BY <2>1 DEF Announce, Publish, Goto
  <2>2. CASE CallRefused(a)
    <3>1. PICK how : /\ apc' = [apc EXCEPT ![a] = "record"]
                     /\ result' = [result EXCEPT ![a] = how]
      BY <2>2 DEF CallRefused, Ends, Goto
    <3>2. Live(a) /\ UNCHANGED <<listed, state, asrv, clean>>
      BY <2>2 DEF CallRefused
    <3> QED BY <3>1, <3>2
  <2>3. CASE CallAdmitted(a)
    BY <2>3 DEF CallAdmitted, Goto, Runtime!Admit
  <2>4. CASE CallConnected(a)
    BY <2>4 DEF CallConnected, Ends, Goto, Runtime!GiveUp, Runtime!Establish
  <2>5. CASE CallDrops(a)
    BY <2>5 DEF CallDrops, Runtime!Drop
  <2>6. CASE CallFailed(a)
    <3>1. PICK how : /\ apc' = [apc EXCEPT ![a] = "record"]
                     /\ result' = [result EXCEPT ![a] = how]
      BY <2>6 DEF CallFailed, Ends, Goto
    <3>2. Live(a) /\ UNCHANGED <<listed, state, asrv, clean>>
      BY <2>6 DEF CallFailed
    <3> QED BY <3>1, <3>2
  <2>7. CASE Record(a)
    <3>1. CASE b = a
      BY <2>7, <3>1 DEF Record, Current, SetState, Goto, Decision
    <3>2. CASE b # a
      <4>1. asrv[b] # asrv[a]
        BY <2>7, <3>2 DEF Record, Goto
      <4> QED BY <2>7, <3>2, <4>1 DEF Record, SetState, Goto
    <3> QED BY <3>1, <3>2
  <2>8. CASE Finish(a)
    BY <2>8 DEF Finish, Publish, FlagsAfter, Goto, Decision
  <2> QED
    BY <1>4, <2>1, <2>2, <2>3, <2>4, <2>5, <2>6, <2>7, <2>8 DEF AttemptStep
<1>5. CASE OthersUseRuntime
  BY <1>5 DEF OthersUseRuntime, Runtime!Drop, Runtime!Admit, Runtime!GiveUp, Runtime!Establish
<1>6. CASE Unlock
  BY <1>6 DEF Unlock, Runtime!UnlockSigner
<1>7. ASSUME NEW s \in Server, RetryTime(s) PROVE Recorded(b)'
  BY <1>7 DEF RetryTime
<1>8. ASSUME NEW s \in Server, Edit(s) PROVE Recorded(b)'
  BY <1>8 DEF Edit
<1>9. ASSUME NEW s \in Server, Delete(s) PROVE Recorded(b)'
  BY <1>9 DEF Delete
<1> QED
  BY <1>1, <1>2, <1>3, <1>4, <1>5, <1>6, <1>7, <1>8, <1>9 DEF Next

(* Nor does an attempt write the state of the server the sweep is at. *)
LEMMA SweepOrderStep ==
    ASSUME TypeOK, HasServer, clean => OnlyNewest /\ Claimed /\ SweepOrder,
           Next
    PROVE  (clean => SweepOrder)'
<1> USE ManagerAssumption DEF ManagerAssumption, TypeOK, Gen, Profile, State, Status, links,
     store, manager, loops, attempts, handler, HasServer, Live, Own, Jumped, OnlyNewest,
     Claimed, SweepOrder
<1>1. CASE ConnectAll
  BY <1>1 DEF ConnectAll, FreshFlags
<1>2. CASE LockStep
  <2>1. CASE LockStop
    BY <2>1 DEF LockStop
  <2>2. CASE LockClear
    BY <2>2 DEF LockClear, Runtime!DropAll
  <2>3. CASE LockSeal
    BY <2>3 DEF LockSeal, Runtime!SealSigner
  <2>4. CASE LockMark
    BY <2>4 DEF LockMark, Publish
  <2> QED BY <1>2, <2>1, <2>2, <2>3, <2>4 DEF LockStep
<1>3. ASSUME NEW n \in Gen, LoopStep(n) PROVE (clean => SweepOrder)'
  <2>1. CASE List(n)
    BY <2>1 DEF List, Cancelled
  <2>2. CASE SweepEnd(n)
    BY <2>2 DEF SweepEnd, Cancelled
  <2>3. ASSUME NEW s \in Server, Nothing(n, s) PROVE (clean => SweepOrder)'
    BY <2>3 DEF Nothing, Visiting, Cancelled, Entry, Done, BlockedIn
  <2>4. ASSUME NEW s \in Server, Recover(n, s) PROVE (clean => SweepOrder)'
    BY <2>4 DEF Recover, Visiting, Cancelled, Entry, SetState, Announces
  <2>5. ASSUME NEW s \in Server, Lost(n, s) PROVE (clean => SweepOrder)'
    BY <2>5 DEF Lost, Visiting, Cancelled, SetState, Announces, Done, BlockedIn
  <2>6. ASSUME NEW s \in Server, Probe(n, s) PROVE (clean => SweepOrder)'
    BY <2>6 DEF Probe, Visiting, Cancelled, Done
  <2>7. ASSUME NEW s \in Server, NoJump(n, s) PROVE (clean => SweepOrder)'
    BY <2>7 DEF NoJump, Due, Visiting, Cancelled, Entry, SetState, Announces, Done, Direct
  <2>8. ASSUME NEW s \in Server, JumpDown(n, s) PROVE (clean => SweepOrder)'
    BY <2>8 DEF JumpDown, Due, Visiting, Cancelled, Entry, Announces, Done, Direct
  <2>9. ASSUME NEW s \in Server, RecoverJump(n, s) PROVE (clean => SweepOrder)'
    BY <2>9 DEF RecoverJump, Due, Visiting, Cancelled, Entry, Announces, Direct
  <2>10. ASSUME NEW s \in Server, NEW a \in Attempt, BeginConnect(n, s, a)
         PROVE  (clean => SweepOrder)'
    BY <2>10 DEF BeginConnect, Due, Visiting, Cancelled, Entry, Done, FlagsWith
  <2>11. CASE ProbeAnswered(n)
    BY <2>11 DEF ProbeAnswered, Announces
  <2>12. CASE ProbeFailed(n)
    BY <2>12 DEF ProbeFailed, SetState, Announces, Current
  <2>13. CASE Announced(n)
    BY <2>13 DEF Announced, Publish
  <2> QED
    BY <1>3, <2>1, <2>2, <2>3, <2>4, <2>5, <2>6, <2>7, <2>8, <2>9, <2>10, <2>11, <2>12, <2>13
         DEF LoopStep
<1>4. ASSUME NEW a \in Attempt, AttemptStep(a) PROVE (clean => SweepOrder)'
  <2>1. CASE Announce(a)
    BY <2>1 DEF Announce, Publish, Goto
  <2>2. CASE CallRefused(a)
    BY <2>2 DEF CallRefused, Ends, Goto
  <2>3. CASE CallAdmitted(a)
    BY <2>3 DEF CallAdmitted, Goto, Runtime!Admit
  <2>4. CASE CallConnected(a)
    BY <2>4 DEF CallConnected, Ends, Goto, Runtime!GiveUp, Runtime!Establish
  <2>5. CASE CallDrops(a)
    BY <2>5 DEF CallDrops, Runtime!Drop
  <2>6. CASE CallFailed(a)
    BY <2>6 DEF CallFailed, Ends, Goto, Runtime!GiveUp
  <2>7. CASE Record(a)
    BY <2>7 DEF Record, Current, SetState, Decision, Blocks, Goto
  <2>8. CASE Finish(a)
    BY <2>8 DEF Finish, Publish, FlagsAfter, Goto, Decision
  <2> QED
    BY <1>4, <2>1, <2>2, <2>3, <2>4, <2>5, <2>6, <2>7, <2>8 DEF AttemptStep
<1>5. CASE OthersUseRuntime
  BY <1>5 DEF OthersUseRuntime, Runtime!Drop, Runtime!Admit, Runtime!GiveUp, Runtime!Establish
<1>6. CASE Unlock
  BY <1>6 DEF Unlock, Runtime!UnlockSigner
<1>7. ASSUME NEW s \in Server, RetryTime(s) PROVE (clean => SweepOrder)'
  BY <1>7 DEF RetryTime
<1>8. ASSUME NEW s \in Server, Edit(s) PROVE (clean => SweepOrder)'
  BY <1>8 DEF Edit
<1>9. ASSUME NEW s \in Server, Delete(s) PROVE (clean => SweepOrder)'
  BY <1>9 DEF Delete
<1> QED
  BY <1>1, <1>2, <1>3, <1>4, <1>5, <1>6, <1>7, <1>8, <1>9 DEF Next

(* So a server that becomes quiet has its state published, and one that stays
   quiet keeps state and status. *)
LEMMA StatusOrderStep ==
    ASSUME TypeOK, HasServer,
           clean => OnlyNewest /\ Claimed /\ AttemptOrder /\ SweepOrder /\ StatusOrder,
           Next
    PROVE  (clean => StatusOrder)'
<1> USE ManagerAssumption DEF ManagerAssumption, TypeOK, Gen, Profile, State, Status, links,
     store, manager, loops, attempts, handler, HasServer, Live, Own, Jumped, OnlyNewest, Claimed
<1> SUFFICES ASSUME clean', NEW t \in Server, Own(t)', Quiet(t)',
                    state'[t] # "absent", state'[t] # "disconnected"
             PROVE  status'[t] = state'[t]
  BY DEF StatusOrder
<1>0. clean /\ Own(t) /\ Quiet(t) /\ state[t] \notin {"absent", "disconnected"}
         => status[t] = state[t]
  BY DEF StatusOrder
<1>1. CASE ConnectAll
  BY <1>1 DEF ConnectAll, FreshFlags
<1>2. CASE LockStep
  <2>1. CASE LockStop
    BY <2>1 DEF LockStop
  <2>2. CASE LockClear
    BY <2>2 DEF LockClear, Runtime!DropAll
  <2>3. CASE LockSeal
    BY <2>3 DEF LockSeal, Runtime!SealSigner
  <2>4. CASE LockMark
    BY <2>4 DEF LockMark, Publish
  <2> QED BY <1>2, <2>1, <2>2, <2>3, <2>4 DEF LockStep
<1>3. ASSUME NEW n \in Gen, LoopStep(n) PROVE status'[t] = state'[t]
  <2>1. CASE List(n)
    <3>1. Quiet(t)
      BY <2>1 DEF List, Cancelled, Quiet
    <3>2. clean /\ Own(t) /\ status'[t] = status[t] /\ state'[t] = state[t]
      BY <2>1 DEF List, Cancelled, Quiet
    <3> QED BY <1>0, <3>1, <3>2
  <2>2. CASE SweepEnd(n)
    <3>1. Quiet(t)
      BY <2>2 DEF SweepEnd, Quiet
    <3>2. clean /\ Own(t) /\ status'[t] = status[t] /\ state'[t] = state[t]
      BY <2>2 DEF SweepEnd, Quiet
    <3> QED BY <1>0, <3>1, <3>2
  <2>3. ASSUME NEW s \in Server, Nothing(n, s) PROVE status'[t] = state'[t]
    <3>1. Quiet(t)
      BY <2>3 DEF Nothing, Visiting, Cancelled, Entry, Done, Quiet
    <3>2. clean /\ Own(t) /\ status'[t] = status[t] /\ state'[t] = state[t]
      BY <2>3 DEF Nothing, Visiting, Cancelled, Entry, Done, Quiet
    <3> QED BY <1>0, <3>1, <3>2
  <2>4. ASSUME NEW s \in Server, Recover(n, s) PROVE status'[t] = state'[t]
    <3>1. Quiet(t)
      BY <2>4 DEF Recover, Visiting, Entry, SetState, Announces, Quiet
    <3>2. clean /\ Own(t) /\ status'[t] = status[t] /\ state'[t] = state[t]
      BY <2>4 DEF Recover, Visiting, Entry, SetState, Announces, Quiet
    <3> QED BY <1>0, <3>1, <3>2
  <2>5. ASSUME NEW s \in Server, Lost(n, s) PROVE status'[t] = state'[t]
    <3>1. Quiet(t)
      BY <2>5 DEF Lost, Visiting, SetState, Announces, Done, Quiet
    <3>2. clean /\ Own(t) /\ status'[t] = status[t] /\ state'[t] = state[t]
      BY <2>5 DEF Lost, Visiting, SetState, Announces, Done, Quiet
    <3> QED BY <1>0, <3>1, <3>2
  <2>6. ASSUME NEW s \in Server, Probe(n, s) PROVE status'[t] = state'[t]
    <3>1. Quiet(t)
      BY <2>6 DEF Probe, Visiting, Done, Quiet
    <3>2. clean /\ Own(t) /\ status'[t] = status[t] /\ state'[t] = state[t]
      BY <2>6 DEF Probe, Visiting, Done, Quiet
    <3> QED BY <1>0, <3>1, <3>2
  <2>7. ASSUME NEW s \in Server, NoJump(n, s) PROVE status'[t] = state'[t]
    <3>1. Quiet(t)
      BY <2>7 DEF NoJump, Due, Visiting, SetState, Announces, Done, Quiet
    <3>2. clean /\ Own(t) /\ status'[t] = status[t] /\ state'[t] = state[t]
      BY <2>7 DEF NoJump, Due, Visiting, SetState, Announces, Done, Quiet
    <3> QED BY <1>0, <3>1, <3>2
  <2>8. ASSUME NEW s \in Server, JumpDown(n, s) PROVE status'[t] = state'[t]
    <3>1. Quiet(t)
      BY <2>8 DEF JumpDown, Due, Visiting, Entry, Announces, Done, Direct, Quiet
    <3>2. clean /\ Own(t) /\ status'[t] = status[t] /\ state'[t] = state[t]
      BY <2>8 DEF JumpDown, Due, Visiting, Entry, Announces, Done, Direct, Quiet
    <3> QED BY <1>0, <3>1, <3>2
  <2>9. ASSUME NEW s \in Server, RecoverJump(n, s) PROVE status'[t] = state'[t]
    <3>1. Quiet(t)
      BY <2>9 DEF RecoverJump, Due, Visiting, Entry, Announces, Direct, Quiet
    <3>2. clean /\ Own(t) /\ status'[t] = status[t] /\ state'[t] = state[t]
      BY <2>9 DEF RecoverJump, Due, Visiting, Entry, Announces, Direct, Quiet
    <3> QED BY <1>0, <3>1, <3>2
  <2>10. ASSUME NEW s \in Server, NEW a \in Attempt, BeginConnect(n, s, a)
         PROVE  status'[t] = state'[t]
    <3>1. Quiet(t)
      BY <2>10 DEF BeginConnect, Due, Visiting, Entry, Done, Quiet
    <3>2. clean /\ Own(t) /\ status'[t] = status[t] /\ state'[t] = state[t]
      BY <2>10 DEF BeginConnect, Due, Visiting, Entry, Done, Quiet
    <3> QED BY <1>0, <3>1, <3>2
  <2>11. CASE ProbeAnswered(n)
    <3>1. Quiet(t)
      BY <2>11 DEF ProbeAnswered, Announces, Quiet
    <3>2. clean /\ Own(t) /\ status'[t] = status[t] /\ state'[t] = state[t]
      BY <2>11 DEF ProbeAnswered, Announces, Quiet
    <3> QED BY <1>0, <3>1, <3>2
  <2>12. CASE ProbeFailed(n)
    <3>1. Quiet(t)
      BY <2>12 DEF ProbeFailed, SetState, Announces, Current, Quiet
    <3>2. clean /\ Own(t) /\ status'[t] = status[t] /\ state'[t] = state[t]
      BY <2>12 DEF ProbeFailed, SetState, Announces, Current, Quiet
    <3> QED BY <1>0, <3>1, <3>2
  <2>13. CASE Announced(n)
    <3>1. CASE at[n] = t
      BY <2>13, <3>1 DEF Announced, Publish, SweepOrder
    <3>2. CASE at[n] # t
      <4>1. Quiet(t)
        BY <2>13, <3>2 DEF Announced, Quiet
      <4>2. clean /\ Own(t) /\ status'[t] = status[t] /\ state'[t] = state[t]
        BY <2>13, <3>2 DEF Announced, Publish
      <4> QED BY <1>0, <4>1, <4>2
    <3> QED BY <3>1, <3>2
  <2> QED
    BY <1>3, <2>1, <2>2, <2>3, <2>4, <2>5, <2>6, <2>7, <2>8, <2>9, <2>10, <2>11, <2>12, <2>13
         DEF LoopStep
<1>4. ASSUME NEW a \in Attempt, AttemptStep(a) PROVE status'[t] = state'[t]
  <2>1. CASE Announce(a)
    <3>1. Quiet(t)
      BY <2>1 DEF Announce, Publish, Goto, Quiet
    <3>2. clean /\ Own(t) /\ status'[t] = status[t] /\ state'[t] = state[t]
      BY <2>1 DEF Announce, Publish, Goto, Quiet
    <3> QED BY <1>0, <3>1, <3>2
  <2>2. CASE CallRefused(a)
    <3>1. Quiet(t)
      BY <2>2 DEF CallRefused, Ends, Goto, Quiet
    <3>2. clean /\ Own(t) /\ status'[t] = status[t] /\ state'[t] = state[t]
      BY <2>2 DEF CallRefused, Ends, Goto, Quiet
    <3> QED BY <1>0, <3>1, <3>2
  <2>3. CASE CallAdmitted(a)
    <3>1. Quiet(t)
      BY <2>3 DEF CallAdmitted, Goto, Quiet
    <3>2. clean /\ Own(t) /\ status'[t] = status[t] /\ state'[t] = state[t]
      BY <2>3 DEF CallAdmitted, Goto, Quiet
    <3> QED BY <1>0, <3>1, <3>2
  <2>4. CASE CallConnected(a)
    <3>1. Quiet(t)
      BY <2>4 DEF CallConnected, Ends, Goto, Quiet
    <3>2. clean /\ Own(t) /\ status'[t] = status[t] /\ state'[t] = state[t]
      BY <2>4 DEF CallConnected, Ends, Goto, Quiet
    <3> QED BY <1>0, <3>1, <3>2
  <2>5. CASE CallDrops(a)
    <3>1. Quiet(t)
      BY <2>5 DEF CallDrops, Quiet
    <3>2. clean /\ Own(t) /\ status'[t] = status[t] /\ state'[t] = state[t]
      BY <2>5 DEF CallDrops, Quiet
    <3> QED BY <1>0, <3>1, <3>2
  <2>6. CASE CallFailed(a)
    <3>1. Quiet(t)
      BY <2>6 DEF CallFailed, Ends, Goto, Quiet
    <3>2. clean /\ Own(t) /\ status'[t] = status[t] /\ state'[t] = state[t]
      BY <2>6 DEF CallFailed, Ends, Goto, Quiet
    <3> QED BY <1>0, <3>1, <3>2
  <2>7. CASE Record(a)
    <3>1. Quiet(t)
      BY <2>7 DEF Record, SetState, Goto, Quiet
    <3>2. clean /\ Own(t) /\ status'[t] = status[t] /\ state'[t] = state[t]
      BY <2>7 DEF Record, SetState, Goto, Quiet
    <3> QED BY <1>0, <3>1, <3>2
  <2>8. CASE Finish(a)
    <3>1. CASE asrv[a] = t
      BY <2>8, <3>1 DEF Finish, Publish, AttemptOrder, Recorded
    <3>2. CASE asrv[a] # t
      <4> SUFFICES Quiet(t) /\ clean /\ Own(t) /\ status'[t] = status[t] /\ state'[t] = state[t]
        BY <1>0
      <4>1. \A c \in Attempt : Live(c) => asrv[c] # t
        <5>1. ASSUME NEW c \in Attempt, Live(c), c # a PROVE asrv[c] # t
          BY <2>8, <5>1 DEF Finish, Goto, Quiet
        <5> QED BY <3>2, <5>1
      <4>3. Quiet(t)
        BY <2>8, <4>1 DEF Finish, Quiet
      <4>2. clean /\ Own(t) /\ status'[t] = status[t] /\ state'[t] = state[t]
        BY <2>8, <3>2 DEF Finish, Publish
      <4> QED BY <4>2, <4>3
    <3> QED BY <3>1, <3>2
  <2> QED
    BY <1>4, <2>1, <2>2, <2>3, <2>4, <2>5, <2>6, <2>7, <2>8 DEF AttemptStep
<1>5. CASE OthersUseRuntime
  <2>1. Quiet(t)
    BY <1>5 DEF OthersUseRuntime, Quiet
  <2>2. clean /\ Own(t) /\ status'[t] = status[t] /\ state'[t] = state[t]
    BY <1>5 DEF OthersUseRuntime, Quiet
  <2> QED BY <1>0, <2>1, <2>2
<1>6. CASE Unlock
  <2>1. Quiet(t)
    BY <1>6 DEF Unlock, Quiet
  <2>2. clean /\ Own(t) /\ status'[t] = status[t] /\ state'[t] = state[t]
    BY <1>6 DEF Unlock, Quiet
  <2> QED BY <1>0, <2>1, <2>2
<1>7. ASSUME NEW s \in Server, RetryTime(s) PROVE status'[t] = state'[t]
  <2>1. Quiet(t)
    BY <1>7 DEF RetryTime, Quiet
  <2>2. clean /\ Own(t) /\ status'[t] = status[t] /\ state'[t] = state[t]
    BY <1>7 DEF RetryTime, Quiet
  <2> QED BY <1>0, <2>1, <2>2
<1>8. ASSUME NEW s \in Server, Edit(s) PROVE status'[t] = state'[t]
  <2>1. Quiet(t)
    BY <1>8 DEF Edit, Quiet
  <2>2. clean /\ Own(t) /\ status'[t] = status[t] /\ state'[t] = state[t]
    BY <1>8 DEF Edit, Quiet
  <2> QED BY <1>0, <2>1, <2>2
<1>9. ASSUME NEW s \in Server, Delete(s) PROVE status'[t] = state'[t]
  <2>1. Quiet(t)
    BY <1>9 DEF Delete, Quiet
  <2>2. clean /\ Own(t) /\ status'[t] = status[t] /\ state'[t] = state[t]
    BY <1>9 DEF Delete, Quiet
  <2> QED BY <1>0, <2>1, <2>2
<1> QED
  BY <1>1, <1>2, <1>3, <1>4, <1>5, <1>6, <1>7, <1>8, <1>9 DEF Next

--------------------------------------------------------------------------------
(* The invariant and what follows from it.                                 *)

(* Nothing runs in a worker that has just started. *)
LEMMA InitManagerInv == Init => ManagerInv
<1> SUFFICES ASSUME Init PROVE ManagerInv
  OBVIOUS
<1> USE ManagerAssumption DEF ManagerAssumption, Init, Gen
<1>1. TypeOK
  <2>1. /\ listed \subseteq Server /\ profile \in [Server -> Profile]
        /\ status \in [Server -> Status]
        /\ state \in [Server -> State \cup {"absent"}]
        /\ waiting \in [Server -> BOOLEAN] /\ inFlight \in [Server -> BOOLEAN]
        /\ blocked \in [Server -> Profile \cup {0}]
    BY DEF Profile, State, Status
  <2>2. /\ loop \in [Gen -> {"off", "list", "sweep", "probe", "publish"}]
        /\ todo \in [Gen -> SUBSET Server]
        /\ at \in [Gen -> Server \cup {NoServer}]
        /\ news \in [Gen -> Status]
        /\ target \in [Gen -> 0..MaxStarts]
    BY DEF State, Status
  <2>3. seen \in [Gen -> [Server -> Profile \cup {0}]]
    <3>1. [s \in Server |-> 0] \in [Server -> Profile \cup {0}]
      OBVIOUS
    <3> QED BY <3>1
  <2>4. /\ apc \in [Attempt -> {"idle", "announce", "call", "admitted", "record", "publish"}]
        /\ asrv \in [Attempt -> Server \cup {NoServer}]
        /\ agen \in [Attempt -> 0..MaxStarts]
        /\ aseen \in [Attempt -> Profile \cup {0}]
        /\ result \in [Attempt -> {"connected", "network", "locked", "blocked", "other"}]
    OBVIOUS
  <2>5. /\ connected \subseteq Server /\ admitted \in Server \cup {NoServer}
        /\ signer \in {"locked", "unlocked"}
    BY DEF Runtime!Init
  <2>6. gen \in 0..MaxStarts /\ locker \in {"idle", "clear", "seal", "mark"}
    OBVIOUS
  <2>7. toMark \subseteq Server /\ running \in BOOLEAN /\ clean \in BOOLEAN
    BY Zenon
  <2> HIDE DEF Init, Gen
  <2> QED BY <2>1, <2>2, <2>3, <2>4, <2>5, <2>6, <2>7 DEF TypeOK
<1>2. HasServer /\ FlagHasAttempt
  BY DEF HasServer, FlagHasAttempt, Live
<1>3. OnlyNewest /\ Claimed /\ AttemptOrder
  BY DEF OnlyNewest, Claimed, AttemptOrder, Live
<1>4. SweepOrder /\ StatusOrder
  BY DEF SweepOrder, StatusOrder
<1> QED BY <1>1, <1>2, <1>3, <1>4 DEF ManagerInv

(* Every step keeps the invariant. *)
LEMMA NextManagerInv == ManagerInv /\ [Next]_vars => ManagerInv'
<1> SUFFICES ASSUME ManagerInv, [Next]_vars PROVE ManagerInv'
  OBVIOUS
<1>1. CASE Next
  BY <1>1, TypeStep, ServerStep, FlagStep, OnlyNewestStep, ClaimedStep, AttemptOrderStep,
     SweepOrderStep, StatusOrderStep
  DEF ManagerInv
<1>2. CASE UNCHANGED vars
  <2> USE <1>2 DEF vars, links, store, manager, loops, attempts, handler, ManagerInv
  <2>1. TypeOK' /\ HasServer' /\ FlagHasAttempt'
    BY DEF TypeOK, HasServer, FlagHasAttempt, Live
  <2>2. clean => OnlyNewest' /\ Claimed' /\ AttemptOrder'
    BY DEF OnlyNewest, Claimed, AttemptOrder, Recorded, Own, Live
  <2>3. clean => SweepOrder' /\ StatusOrder'
    BY DEF SweepOrder, StatusOrder, Own, Quiet, Live
  <2> QED BY <2>1, <2>2, <2>3
<1> QED BY <1>1, <1>2

(* The invariant holds always. *)
LEMMA ManagerInvariant == Spec => []ManagerInv
BY InitManagerInv, NextManagerInv, PTL DEF Spec

(* Every variable of the manager keeps its type, in every generation. *)
THEOREM ManagerTypeCorrect == Spec => []TypeOK
<1>1. ManagerInv => TypeOK
  BY DEF ManagerInv
<1> QED BY ManagerInvariant, <1>1, PTL

(* connectInFlight never holds a flag that no attempt will clear, also after any
   number of restarts of the manager with attempts left over from before. *)
THEOREM FlagsAreCleared == Spec => []FlagHasAttempt
<1>1. ManagerInv => FlagHasAttempt
  BY DEF ManagerInv
<1> QED BY ManagerInvariant, <1>1, PTL

(* In a generation that began clean, beginConnect and finishConnect keep the
   attempts of one server apart. *)
THEOREM AttemptsAreApart == Spec => []OneAttemptPerServer
<1>1. ManagerInv => OneAttemptPerServer
  BY DEF ManagerInv, Claimed, OneAttemptPerServer
<1> QED BY ManagerInvariant, <1>1, PTL

(* And the status of a quiet server is what the manager believes of it,
   whatever the order of sweeps, probes and attempts. *)
THEOREM StatusFollowsState == Spec => []StatusIsState
<1>1. ManagerInv => StatusIsState
  <2> SUFFICES ASSUME ManagerInv, clean, NEW s \in listed, Quiet(s),
                      state[s] \notin {"absent", "disconnected"},
                      \A t \in Server : Jump[t] # s
               PROVE  status[s] = state[s]
    BY DEF StatusIsState
  <2>1. s \in Server /\ Own(s)
    BY DEF ManagerInv, TypeOK, Own, Jumped
  <2> QED BY <2>1 DEF ManagerInv, StatusOrder
<1> QED BY ManagerInvariant, <1>1, PTL
================================================================================
