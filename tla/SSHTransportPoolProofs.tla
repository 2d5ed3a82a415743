------------------------- MODULE SSHTransportPoolProofs -------------------------
(* Theorems about SSHTransportPool, for every set of callers and every bound. *)
EXTENDS SSHTransportPool, FiniteSetTheorems, TLAPS

-----------------------------------------------------------------------------
(* Counting callers *)

\* A set of callers is finite and its cardinality a natural number.
LEMMA CallerSets ==
    ASSUME NEW S \in SUBSET Caller
    PROVE  IsFiniteSet(S) /\ Cardinality(S) \in Nat
BY PoolAssumption, FS_Subset, FS_CardinalityType

\* One more caller.
LEMMA CountJoin ==
    ASSUME NEW S \in SUBSET Caller, NEW u \in Caller, u \notin S
    PROVE  Cardinality(S \cup {u}) = Cardinality(S) + 1
BY CallerSets, FS_AddElement

\* One caller less.
LEMMA CountLeave ==
    ASSUME NEW S \in SUBSET Caller, NEW u \in S
    PROVE  /\ Cardinality(S \ {u}) = Cardinality(S) - 1
           /\ Cardinality(S) >= 1
<1>1. IsFiniteSet(S) /\ Cardinality(S) \in Nat
  BY CallerSets
<1>2. Cardinality(S \ {u}) = Cardinality(S) - 1
  BY <1>1, FS_RemoveElement
<1>3. Cardinality(S \ {u}) \in Nat
  BY CallerSets
<1> QED BY <1>1, <1>2, <1>3

-----------------------------------------------------------------------------
(* Types, structure and the budget of transports *)

PoolInv == TypeOK /\ Structure /\ TransportBudget

LEMMA InitPoolInv == Init => PoolInv
<1> SUFFICES ASSUME Init PROVE PoolInv
  OBVIOUS
<1>1. TypeOK
  <2>1. 0 \in 0..MaxTransports /\ 0 \in 0..MaxDials
    BY PoolAssumption DEF PoolAssumption
  <2>2. closed \in BOOLEAN /\ opening \in Nat /\ nextID \in 0..MaxDials
    BY <2>1 DEF Init
  <2>3. listed \subseteq 1..nextID /\ retired \subseteq 1..nextID /\ doomed \subseteq 1..nextID
    BY DEF Init
  <2>4. /\ active \in [Transport -> Nat]
        /\ limit \in [Transport -> Nat]
        /\ conn \in [Transport -> {"none", "up", "down"}]
    BY DEF Init
  <2>5. /\ pc \in [Caller -> {"idle", "acquire", "dialing", "opening", "using",
                              "release", "closing"}]
        /\ op \in [Caller -> Operation \cup {"shell"}]
        /\ held \in [Caller -> Transport \cup {NoTransport}]
        /\ result \in [Caller -> Result]
    BY DEF Init, Result
  <2>6. /\ attempt \in [Caller -> 0..MaxTransports]
        /\ stdin \in [Caller -> BOOLEAN]
        /\ wrote \in [Caller -> BOOLEAN]
        /\ consumed \in [Caller -> BOOLEAN]
    BY <2>1 DEF Init
  <2> QED BY <2>2, <2>3, <2>4, <2>5, <2>6 DEF TypeOK, PoolTypeOK, CallerTypeOK
<1>2. Structure
  BY DEF Init, Structure, Holding
<1>3. TransportBudget
  <2>1. Dialing = {}
    BY DEF Init, Dialing
  <2>2. Cardinality(Dialing) = 0 /\ Cardinality(listed) = 0
    BY <2>1, FS_EmptySet DEF Init
  <2> QED BY <2>2, PoolAssumption DEF Init, TransportBudget
<1> QED BY <1>1, <1>2, <1>3 DEF PoolInv

\* Where the program counter of u moves, Dialing moves with it.
LEMMA DialingMoves ==
    ASSUME TypeOK, NEW u \in Caller, NEW p, pc' = [pc EXCEPT ![u] = p]
    PROVE  Dialing' = IF p = "dialing" THEN Dialing \cup {u} ELSE Dialing \ {u}
BY DEF TypeOK, CallerTypeOK, Dialing

\* Steps that leave the dials, the list and the bookkeeping of transports alone.
LEMMA BudgetKept ==
    ASSUME TransportBudget, Dialing' = Dialing, UNCHANGED <<opening, listed>>
    PROVE  TransportBudget'
BY DEF TransportBudget

LEMMA ListIsFinite ==
    ASSUME TypeOK
    PROVE  \A L \in SUBSET listed : IsFiniteSet(L) /\ Cardinality(L) \in Nat
                                     /\ Cardinality(L) <= Cardinality(listed)
<1>1. nextID \in Int /\ listed \subseteq 1..nextID
  BY DEF TypeOK, PoolTypeOK
<1>2. IsFiniteSet(1..nextID)
  BY <1>1, FS_Interval
<1>3. IsFiniteSet(listed)
  BY <1>1, <1>2, FS_Subset
<1> QED BY <1>3, FS_Subset, FS_CardinalityType

\* What a return leaves behind is well typed.
LEMMA ReturnTypes ==
    ASSUME TypeOK, NEW u \in Caller, Return(u)
    PROVE  CallerTypeOK' /\ Dialing' = Dialing \ {u}
<1>1. 0 \in 0..MaxTransports
  BY PoolAssumption DEF PoolAssumption
<1>2. Dialing' = Dialing \ {u}
  BY DEF Return, Dialing, TypeOK, CallerTypeOK
<1> QED BY <1>1, <1>2 DEF TypeOK, CallerTypeOK, Return, Result

\* What Obtain hands over is well typed.
LEMMA ObtainTypes ==
    ASSUME TypeOK, NEW u \in Caller, NEW t \in Transport, Obtain(u, t)
    PROVE  CallerTypeOK' /\ Dialing' = Dialing \ {u}
<1>1. Dialing' = Dialing \ {u}
  BY DEF Obtain, Dialing, TypeOK, CallerTypeOK
<1> QED BY <1>1 DEF TypeOK, CallerTypeOK, Obtain

\* Going on after a release is well typed.
LEMMA ResumeTypes ==
    ASSUME TypeOK, NEW u \in Caller, Resume(u)
    PROVE  CallerTypeOK' /\ Dialing' = Dialing \ {u}
<1>1. CASE Retries(u)
  <2>1. attempt[u] + 1 \in 0..MaxTransports
    BY <1>1, PoolAssumption DEF PoolAssumption, Retries, TypeOK, CallerTypeOK
  <2>2. Dialing' = Dialing \ {u}
    BY <1>1 DEF Resume, Dialing, TypeOK, CallerTypeOK
  <2>3. pc' = [pc EXCEPT ![u] = "acquire"] /\ held' = [held EXCEPT ![u] = NoTransport]
        /\ attempt' = [attempt EXCEPT ![u] = @ + 1]
        /\ UNCHANGED <<op, result, stdin, wrote, consumed>>
    BY <1>1 DEF Resume
  <2> QED BY <2>1, <2>2, <2>3 DEF TypeOK, CallerTypeOK
<1>2. CASE ~Retries(u)
  BY <1>2, ReturnTypes DEF Resume
<1> QED BY <1>1, <1>2

\* A step of a caller that does not dial and that changes no more of the pool
\* than the use counts and limits keeps the invariant.
LEMMA OffDialStep ==
    ASSUME PoolInv, NEW u \in Caller, u \notin Dialing,
           Dialing' = Dialing \ {u}, CallerTypeOK',
           UNCHANGED pool,
           \A v \in Caller \ {u} : pc'[v] = pc[v] /\ held'[v] = held[v],
           pc'[u] \in Holding => held'[u] \in 1..nextID, pc'[u] # "closing"
    PROVE  PoolInv'
<1>1. TypeOK'
  BY DEF PoolInv, TypeOK, PoolTypeOK, pool
<1>2. Structure'
  BY DEF PoolInv, Structure, pool, Holding
<1>3. TransportBudget'
  BY BudgetKept DEF PoolInv, pool
<1> QED BY <1>1, <1>2, <1>3 DEF PoolInv

\* The steps of an operation move only their caller, who keeps its transport.
LEMMA OperateStep ==
    ASSUME PoolInv, NEW u \in Caller, Operate(u)
    PROVE  PoolInv'
<1>1. /\ UNCHANGED pool
      /\ pc[u] \in {"opening", "using"}
      /\ \E p \in {"using", "release"} : pc' = [pc EXCEPT ![u] = p]
      /\ UNCHANGED held
      /\ CallerTypeOK'
  BY DEF PoolInv, TypeOK, CallerTypeOK, Operate, Accept, Refuse, OpenBroken,
         DialCancel, Write, Finish, Lose, EndLocally, End, Result
<1>2. u \notin Dialing /\ Dialing' = Dialing \ {u}
  BY <1>1 DEF PoolInv, TypeOK, CallerTypeOK, Dialing
<1>3. held[u] \in 1..nextID
  BY <1>1 DEF PoolInv, Structure, Holding
<1>4. /\ \A v \in Caller \ {u} : pc'[v] = pc[v] /\ held'[v] = held[v]
      /\ held'[u] \in 1..nextID /\ pc'[u] # "closing"
  BY <1>1, <1>3 DEF PoolInv, TypeOK, CallerTypeOK
<1> QED BY <1>1, <1>2, <1>4, OffDialStep

LEMMA BeginStep ==
    ASSUME PoolInv, NEW u \in Caller, NEW k \in Operation, NEW s \in BOOLEAN,
           Begin(u, k, s)
    PROVE  PoolInv'
<1>1. /\ UNCHANGED pool /\ UNCHANGED held
      /\ pc[u] = "idle" /\ pc' = [pc EXCEPT ![u] = "acquire"]
      /\ CallerTypeOK'
  BY DEF PoolInv, TypeOK, CallerTypeOK, Begin
<1>2. u \notin Dialing /\ Dialing' = Dialing \ {u}
  BY <1>1 DEF PoolInv, TypeOK, CallerTypeOK, Dialing
<1>3. /\ \A v \in Caller \ {u} : pc'[v] = pc[v] /\ held'[v] = held[v]
      /\ pc'[u] = "acquire"
  BY <1>1 DEF PoolInv, TypeOK, CallerTypeOK
<1> QED BY <1>1, <1>2, <1>3, OffDialStep DEF Holding

\* Giving up on a transport, before any was acquired.
LEMMA AcquireNothingStep ==
    ASSUME PoolInv, NEW u \in Caller, AcquireFail(u) \/ AcquireGiveUp(u)
    PROVE  PoolInv'
<1>1. UNCHANGED pool /\ Return(u) /\ pc[u] = "acquire"
  BY DEF AcquireFail, AcquireGiveUp
<1>2. u \notin Dialing /\ Dialing' = Dialing \ {u} /\ CallerTypeOK'
  BY <1>1, ReturnTypes DEF PoolInv, Dialing
<1>3. /\ \A v \in Caller \ {u} : pc'[v] = pc[v] /\ held'[v] = held[v]
      /\ pc'[u] = "idle"
  BY <1>1 DEF PoolInv, TypeOK, CallerTypeOK, Return
<1> QED BY <1>1, <1>2, <1>3, OffDialStep DEF Holding

LEMMA AcquireReuseStep ==
    ASSUME PoolInv, NEW u \in Caller, AcquireReuse(u)
    PROVE  PoolInv'
<1>1. PICK t \in listed : active' = [active EXCEPT ![t] = @ + 1] /\ Obtain(u, t)
  BY DEF AcquireReuse, TakeChannel
<1>2. pc[u] = "acquire" /\ UNCHANGED <<closed, opening, nextID, listed, limit,
                                       retired, conn, doomed>>
  BY DEF AcquireReuse
<1>3. t \in 1..nextID /\ t \in Transport
  BY PoolAssumption DEF PoolAssumption, PoolInv, TypeOK, PoolTypeOK, Transport
<1>4. CallerTypeOK' /\ Dialing' = Dialing \ {u} /\ u \notin Dialing
  BY <1>1, <1>2, <1>3, ObtainTypes DEF PoolInv, Dialing
<1>5. TypeOK'
  BY <1>1, <1>2, <1>3, <1>4 DEF PoolInv, TypeOK, PoolTypeOK
<1>6. Structure'
  <2>1. \A s \in Transport : s > nextID => conn[s] = "none" /\ active'[s] = 0
    BY <1>1, <1>3 DEF PoolInv, TypeOK, PoolTypeOK, Structure
  <2>2. \A v \in Caller : pc'[v] \in Holding \cup {"closing"} => held'[v] \in 1..nextID
    BY <1>1, <1>3 DEF PoolInv, TypeOK, CallerTypeOK, Structure, Obtain
  <2> QED BY <1>2, <2>1, <2>2 DEF PoolInv, Structure
<1>7. TransportBudget'
  BY <1>2, <1>4, BudgetKept DEF PoolInv
<1> QED BY <1>5, <1>6, <1>7 DEF PoolInv

LEMMA AcquireOpenStep ==
    ASSUME PoolInv, NEW u \in Caller, AcquireOpen(u)
    PROVE  PoolInv'
<1>1. /\ pc[u] = "acquire" /\ pc' = [pc EXCEPT ![u] = "dialing"]
      /\ opening' = opening + 1
      /\ Cardinality(listed) + opening < MaxTransports
      /\ UNCHANGED <<closed, nextID, listed, active, limit, retired, conn, doomed, held>>
  BY ListIsFinite DEF AcquireOpen, SlotFree
<1>2. TypeOK'
  BY <1>1 DEF PoolInv, TypeOK, PoolTypeOK, CallerTypeOK, AcquireOpen
<1>3. Structure'
  BY <1>1 DEF PoolInv, TypeOK, CallerTypeOK, Structure, Holding
<1>4. TransportBudget'
  <2>1. u \notin Dialing /\ Dialing' = Dialing \cup {u}
    BY <1>1 DEF PoolInv, TypeOK, CallerTypeOK, Dialing
  <2>2. Cardinality(Dialing') = Cardinality(Dialing) + 1
    BY <2>1, CountJoin DEF Dialing
  <2>3. Cardinality(listed) \in Nat /\ opening \in Nat /\ MaxTransports \in Nat
    BY ListIsFinite, PoolAssumption DEF PoolAssumption, PoolInv, TypeOK, PoolTypeOK
  <2> QED BY <1>1, <2>2, <2>3 DEF PoolInv, TransportBudget
<1> QED BY <1>2, <1>3, <1>4 DEF PoolInv

\* A dial that ends gives its slot back, and the count of dials follows.
LEMMA DialEnds ==
    ASSUME PoolInv, NEW u \in Caller, pc[u] = "dialing", Dialing' = Dialing \ {u}
    PROVE  Cardinality(Dialing') = opening - 1 /\ opening >= 1
<1>1. u \in Dialing /\ Dialing \in SUBSET Caller
  BY DEF Dialing
<1>2. Cardinality(Dialing \ {u}) = Cardinality(Dialing) - 1 /\ Cardinality(Dialing) >= 1
  BY <1>1, CountLeave
<1> QED BY <1>2 DEF PoolInv, TransportBudget

LEMMA DialFailStep ==
    ASSUME PoolInv, NEW u \in Caller, DialFail(u)
    PROVE  PoolInv'
<1>1. /\ pc[u] = "dialing" /\ Return(u) /\ opening' = opening - 1
      /\ UNCHANGED <<closed, nextID, listed, active, limit, retired, conn, doomed>>
  BY DEF DialFail
<1>2. CallerTypeOK' /\ Dialing' = Dialing \ {u}
  BY <1>1, ReturnTypes DEF PoolInv
<1>3. Cardinality(Dialing') = opening - 1 /\ opening >= 1
  BY <1>1, <1>2, DialEnds
<1>4. TypeOK'
  BY <1>1, <1>2, <1>3 DEF PoolInv, TypeOK, PoolTypeOK
<1>5. Structure'
  BY <1>1 DEF PoolInv, TypeOK, CallerTypeOK, Structure, Return, Holding
<1>6. TransportBudget'
  <2>1. Cardinality(listed) \in Nat /\ opening \in Nat /\ MaxTransports \in Nat
    BY ListIsFinite, PoolAssumption DEF PoolAssumption, PoolInv, TypeOK, PoolTypeOK
  <2> QED BY <1>1, <1>3, <2>1 DEF PoolInv, TransportBudget
<1> QED BY <1>4, <1>5, <1>6 DEF PoolInv

LEMMA DialSucceedStep ==
    ASSUME PoolInv, NEW u \in Caller, DialSucceed(u)
    PROVE  PoolInv'
<1> DEFINE t == nextID + 1
<1>1. /\ pc[u] = "dialing" /\ Obtain(u, t) /\ opening' = opening - 1
      /\ nextID' = t /\ listed' = listed \cup {t} /\ nextID < MaxDials
      /\ active' = [active EXCEPT ![t] = 1] /\ conn' = [conn EXCEPT ![t] = "up"]
      /\ UNCHANGED <<closed, limit, retired, doomed>>
  BY DEF DialSucceed
<1>2. t \in Transport /\ t \notin listed /\ t \notin retired /\ nextID \in Nat
  BY <1>1, PoolAssumption
     DEF PoolAssumption, PoolInv, TypeOK, PoolTypeOK, Transport
<1> HIDE DEF t
<1>3. CallerTypeOK' /\ Dialing' = Dialing \ {u}
  BY <1>1, <1>2, ObtainTypes DEF PoolInv
<1>4. Cardinality(Dialing') = opening - 1 /\ opening >= 1
  BY <1>1, <1>3, DialEnds
<1>5. TypeOK'
  <2>1. nextID' \in 0..MaxDials /\ opening' \in Nat
    BY <1>1, <1>2, <1>4, PoolAssumption
       DEF t, PoolAssumption, PoolInv, TypeOK, PoolTypeOK
  <2>2. 1..nextID \subseteq 1..nextID' /\ t \in 1..nextID'
    BY <1>1, <1>2 DEF t
  <2> QED BY <1>1, <1>2, <1>3, <2>1, <2>2 DEF PoolInv, TypeOK, PoolTypeOK
<1>6. Structure'
  <2>1. \A s \in Transport : s > nextID' => conn'[s] = "none" /\ active'[s] = 0
    BY <1>1, <1>2 DEF t, Transport, PoolInv, TypeOK, PoolTypeOK, Structure
  <2>2. \A v \in Caller : pc'[v] \in Holding \cup {"closing"} => held'[v] \in 1..nextID'
    BY <1>1, <1>2 DEF t, PoolInv, TypeOK, CallerTypeOK, Structure, Obtain
  <2> QED BY <1>1, <1>2, <2>1, <2>2 DEF PoolInv, Structure
<1>7. TransportBudget'
  <2>1. Cardinality(listed) \in Nat /\ opening \in Nat /\ MaxTransports \in Nat
    BY ListIsFinite, PoolAssumption DEF PoolAssumption, PoolInv, TypeOK, PoolTypeOK
  <2>2. Cardinality(listed') = Cardinality(listed) + 1
    BY <1>1, <1>2, ListIsFinite, FS_AddElement DEF PoolInv
  <2> QED BY <1>1, <1>4, <2>1, <2>2 DEF PoolInv, TransportBudget
<1> QED BY <1>5, <1>6, <1>7 DEF PoolInv

LEMMA ReleaseStep ==
    ASSUME PoolInv, NEW u \in Caller, Release(u)
    PROVE  PoolInv'
<1> DEFINE t == held[u]
<1>1. /\ pc[u] = "release"
      /\ limit' = IF LearnsLimit(u) THEN [limit EXCEPT ![t] = Accepted(u)] ELSE limit
      /\ active' = [active EXCEPT ![t] = IF @ > 0 THEN @ - 1 ELSE @]
      /\ UNCHANGED <<closed, opening, nextID, conn, doomed>>
  BY DEF Release
<1>2. t \in 1..nextID /\ t \in Transport
  BY <1>1, PoolAssumption
     DEF PoolAssumption, PoolInv, TypeOK, PoolTypeOK, Structure, Holding, Transport
<1>3. limit' \in [Transport -> Nat] /\ active' \in [Transport -> Nat]
  BY <1>1, <1>2 DEF PoolInv, TypeOK, PoolTypeOK, LearnsLimit, Accepted
<1>4. /\ listed' \subseteq listed /\ retired' \subseteq 1..nextID
      /\ listed' \cap retired' = {}
  BY <1>2 DEF PoolInv, TypeOK, PoolTypeOK, Structure, Release
<1>5. /\ CallerTypeOK' /\ Dialing' = Dialing
      /\ \A v \in Caller : pc'[v] \in Holding \cup {"closing"} => held'[v] \in 1..nextID
  <2>1. u \notin Dialing
    BY <1>1 DEF Dialing
  <2>2. CASE pc' = [pc EXCEPT ![u] = "closing"]
             /\ UNCHANGED <<op, held, result, attempt, stdin, wrote, consumed>>
    BY <2>1, <2>2, <1>2 DEF PoolInv, TypeOK, CallerTypeOK, Dialing, Structure
  <2>3. CASE Resume(u)
    <3>1. CallerTypeOK' /\ Dialing' = Dialing
      BY <2>1, <2>3, ResumeTypes DEF PoolInv
    <3>2. /\ \A v \in Caller \ {u} : pc'[v] = pc[v] /\ held'[v] = held[v]
          /\ pc'[u] \in {"acquire", "idle"}
      BY <2>3 DEF PoolInv, TypeOK, CallerTypeOK, Resume, Return
    <3> QED BY <3>1, <3>2 DEF PoolInv, Structure, Holding
  <2> QED BY <2>2, <2>3 DEF Release
<1>6. TypeOK'
  BY <1>1, <1>3, <1>4, <1>5 DEF PoolInv, TypeOK, PoolTypeOK
<1>7. Structure'
  <2>1. \A s \in Transport : s > nextID => conn[s] = "none" /\ active'[s] = 0
    BY <1>1, <1>2 DEF PoolInv, TypeOK, PoolTypeOK, Structure
  <2> QED BY <1>1, <1>4, <1>5, <2>1 DEF Structure
<1>8. TransportBudget'
  <2>1. /\ Cardinality(listed') \in Nat /\ Cardinality(listed') <= Cardinality(listed)
        /\ Cardinality(listed) \in Nat
    BY <1>4, ListIsFinite DEF PoolInv
  <2>2. opening \in Nat /\ MaxTransports \in Nat
    BY PoolAssumption DEF PoolAssumption, PoolInv, TypeOK, PoolTypeOK
  <2> QED BY <1>1, <1>5, <2>1, <2>2 DEF PoolInv, TransportBudget
<1> QED BY <1>6, <1>7, <1>8 DEF PoolInv

LEMMA CloseClientStep ==
    ASSUME PoolInv, NEW u \in Caller, CloseClient(u)
    PROVE  PoolInv'
<1>1. /\ pc[u] = "closing" /\ conn' = [conn EXCEPT ![held[u]] = "down"] /\ Resume(u)
      /\ UNCHANGED <<closed, opening, nextID, listed, active, limit, retired, doomed>>
  BY DEF CloseClient
<1>2. held[u] \in 1..nextID
  BY <1>1 DEF PoolInv, Structure
<1>3. CallerTypeOK' /\ Dialing' = Dialing
  BY <1>1, ResumeTypes DEF PoolInv, Dialing
<1>4. /\ \A v \in Caller \ {u} : pc'[v] = pc[v] /\ held'[v] = held[v]
      /\ pc'[u] \in {"acquire", "idle"}
  BY <1>1 DEF PoolInv, TypeOK, CallerTypeOK, Resume, Return
<1>5. TypeOK'
  BY <1>1, <1>3 DEF PoolInv, TypeOK, PoolTypeOK
<1>6. Structure'
  <2>1. \A s \in Transport : s > nextID => conn'[s] = "none" /\ active[s] = 0
    BY <1>1, <1>2 DEF PoolInv, TypeOK, PoolTypeOK, Structure
  <2>2. \A v \in Caller : pc'[v] \in Holding \cup {"closing"} => held'[v] \in 1..nextID
    BY <1>4 DEF PoolInv, Structure, Holding
  <2> QED BY <1>1, <2>1, <2>2 DEF PoolInv, Structure
<1>7. TransportBudget'
  BY <1>1, <1>3, BudgetKept DEF PoolInv
<1> QED BY <1>5, <1>6, <1>7 DEF PoolInv

LEMMA EnvironmentStep ==
    ASSUME PoolInv, Close \/ \E t \in Transport : CloseDoomed(t) \/ Drop(t)
    PROVE  PoolInv'
<1>1. CASE Close
  <2>1. TypeOK' /\ Structure'
    BY <1>1 DEF PoolInv, TypeOK, PoolTypeOK, CallerTypeOK, Structure, Close, caller
  <2>2. Dialing' = Dialing /\ opening' = opening /\ listed' = {}
    BY <1>1 DEF Close, Dialing, caller
  <2>3. Cardinality(listed') = 0 /\ Cardinality(listed) \in Nat
    BY <2>2, FS_EmptySet, ListIsFinite DEF PoolInv
  <2>4. opening \in Nat /\ MaxTransports \in Nat
    BY PoolAssumption DEF PoolAssumption, PoolInv, TypeOK, PoolTypeOK
  <2>5. TransportBudget'
    BY <2>2, <2>3, <2>4 DEF PoolInv, TransportBudget
  <2> QED BY <2>1, <2>5 DEF PoolInv
<1>2. ASSUME NEW t \in Transport, CloseDoomed(t) \/ Drop(t)
      PROVE  PoolInv'
  <2>1. /\ conn' = [conn EXCEPT ![t] = "down"] /\ doomed' \subseteq doomed
        /\ UNCHANGED <<closed, opening, nextID, listed, active, limit, retired, caller>>
    BY <1>2 DEF CloseDoomed, Drop
  <2>2. conn[t] = "up" \/ t \in 1..nextID
    BY <1>2 DEF CloseDoomed, Drop, PoolInv, TypeOK, PoolTypeOK
  <2>3. TypeOK'
    BY <2>1 DEF PoolInv, TypeOK, PoolTypeOK, CallerTypeOK, caller
  <2>4. Structure'
    BY <2>1, <2>2 DEF PoolInv, TypeOK, PoolTypeOK, Structure, Transport, caller
  <2>5. TransportBudget'
    <3>1. Dialing' = Dialing
      BY <2>1 DEF Dialing, caller
    <3> QED BY <2>1, <3>1, BudgetKept DEF PoolInv
  <2> QED BY <2>3, <2>4, <2>5 DEF PoolInv
<1> QED BY <1>1, <1>2

LEMMA StutterStep == ASSUME PoolInv, UNCHANGED vars PROVE PoolInv'
BY DEF PoolInv, TypeOK, PoolTypeOK, CallerTypeOK, Structure, TransportBudget,
       Dialing, vars, pool, caller

\* Every step keeps the invariant.
LEMMA NextPoolInv == PoolInv /\ [Next]_vars => PoolInv'
<1> SUFFICES ASSUME PoolInv, [Next]_vars PROVE PoolInv'
  OBVIOUS
<1>1. ASSUME NEW u \in Caller, Acquire(u) PROVE PoolInv'
  BY <1>1, AcquireReuseStep, AcquireOpenStep, AcquireNothingStep DEF Acquire
<1>2. ASSUME NEW u \in Caller, Dialed(u) PROVE PoolInv'
  BY <1>2, DialFailStep, DialSucceedStep DEF Dialed
<1>3. ASSUME NEW u \in Caller, GiveBack(u) PROVE PoolInv'
  BY <1>3, ReleaseStep, CloseClientStep DEF GiveBack
<1> QED BY <1>1, <1>2, <1>3, BeginStep, OperateStep, EnvironmentStep, StutterStep DEF Next

-----------------------------------------------------------------------------
(* Theorems *)

\* The variables of the pool and of its callers keep their types, whatever the
\* interleaving of dials, operations, releases and Close (sshpool.go).
THEOREM PoolTypeCorrect == Spec => []TypeOK
<1>1. Init => PoolInv
  BY InitPoolInv
<1>2. PoolInv /\ [Next]_vars => PoolInv'
  BY NextPoolInv
<1>3. PoolInv => TypeOK
  BY DEF PoolInv
<1> QED BY <1>1, <1>2, <1>3, PTL DEF Spec

\* acquire and release never let the pool exceed p.max connections, those being
\* dialled outside of the mutex included.
THEOREM PoolStaysInBudget == Spec => []TransportBudget
<1>1. Init => PoolInv
  BY InitPoolInv
<1>2. PoolInv /\ [Next]_vars => PoolInv'
  BY NextPoolInv
<1>3. PoolInv => TransportBudget
  BY DEF PoolInv
<1> QED BY <1>1, <1>2, <1>3, PTL DEF Spec

-----------------------------------------------------------------------------
(* The use counts *)

\* Only u moves in this step.
OnlyMoves(u) == \A v \in Caller \ {u} : pc'[v] = pc[v] /\ held'[v] = held[v]

\* Where u is after its step decides whose holder it is.
LEMMA HoldersMove ==
    ASSUME NEW u \in Caller, OnlyMoves(u), NEW t
    PROVE  Holders(t)' = IF pc'[u] \in Holding /\ held'[u] = t
                         THEN Holders(t) \cup {u} ELSE Holders(t) \ {u}
BY DEF OnlyMoves, Holders

LEMMA ResumeMoves ==
    ASSUME TypeOK, NEW u \in Caller, Resume(u) \/ Return(u)
    PROVE  OnlyMoves(u) /\ pc'[u] \notin Holding /\ pc'[u] # "closing"
BY DEF TypeOK, CallerTypeOK, Resume, Return, OnlyMoves, Holding

\* A step of u that leaves the use counts and neither takes nor gives back a
\* transport.
LEMMA CountsKept ==
    ASSUME ActiveCountsHolders, NEW u \in Caller, OnlyMoves(u), active' = active,
           pc'[u] \in Holding <=> pc[u] \in Holding,
           pc[u] \in Holding => held'[u] = held[u]
    PROVE  ActiveCountsHolders'
<1>1. ASSUME NEW t \in Transport PROVE Holders(t)' = Holders(t)
  BY HoldersMove DEF Holders
<1> QED BY <1>1 DEF ActiveCountsHolders

\* A step in which u takes transport t.
LEMMA CountsTake ==
    ASSUME ActiveCountsHolders, NEW u \in Caller, OnlyMoves(u), NEW t \in Transport,
           pc[u] \notin Holding, pc'[u] \in Holding, held'[u] = t,
           active \in [Transport -> Nat],
           active' = [active EXCEPT ![t] = active[t] + 1]
    PROVE  ActiveCountsHolders'
<1>1. ASSUME NEW s \in Transport, s # t PROVE Holders(s)' = Holders(s)
  BY <1>1, HoldersMove DEF Holders
<1>2. Holders(t)' = Holders(t) \cup {u} /\ u \notin Holders(t)
  BY HoldersMove DEF Holders
<1>3. Cardinality(Holders(t)') = active[t] + 1
  <2>1. Holders(t) \in SUBSET Caller
    BY DEF Holders
  <2>2. Cardinality(Holders(t) \cup {u}) = Cardinality(Holders(t)) + 1
    BY <1>2, <2>1, CountJoin
  <2> QED BY <1>2, <2>2 DEF ActiveCountsHolders
<1> QED BY <1>1, <1>3 DEF ActiveCountsHolders

LEMMA InitCounts == Init => ActiveCountsHolders
<1> SUFFICES ASSUME Init, NEW t \in Transport PROVE active[t] = Cardinality(Holders(t))
  BY DEF ActiveCountsHolders
<1>1. Holders(t) = {}
  BY DEF Init, Holders, Holding
<1> QED BY <1>1, FS_EmptySet DEF Init

LEMMA OperateCounts ==
    ASSUME PoolInv, ActiveCountsHolders, NEW u \in Caller, Operate(u)
    PROVE  ActiveCountsHolders'
<1>1. /\ pc[u] \in {"opening", "using"} /\ UNCHANGED pool /\ UNCHANGED held
      /\ \E p \in {"using", "release"} : pc' = [pc EXCEPT ![u] = p]
  BY DEF PoolInv, TypeOK, CallerTypeOK, Operate, Accept, Refuse, OpenBroken,
         DialCancel, Write, Finish, Lose, EndLocally, End
<1>2. OnlyMoves(u) /\ pc'[u] \in Holding /\ pc[u] \in Holding
  BY <1>1 DEF PoolInv, TypeOK, CallerTypeOK, OnlyMoves, Holding
<1> QED BY <1>1, <1>2, CountsKept DEF pool

LEMMA AcquireCounts ==
    ASSUME PoolInv, ActiveCountsHolders, NEW u \in Caller, Acquire(u)
    PROVE  ActiveCountsHolders'
<1>1. CASE AcquireReuse(u)
  <2>1. PICK t \in listed : active' = [active EXCEPT ![t] = @ + 1] /\ Obtain(u, t)
    BY <1>1 DEF AcquireReuse, TakeChannel
  <2>2. t \in Transport
    BY PoolAssumption DEF PoolAssumption, PoolInv, TypeOK, PoolTypeOK, Transport
  <2>3. OnlyMoves(u) /\ pc[u] \notin Holding /\ pc'[u] \in Holding /\ held'[u] = t
    BY <1>1, <2>1 DEF AcquireReuse, Obtain, PoolInv, TypeOK, CallerTypeOK, OnlyMoves, Holding
  <2> QED BY <2>1, <2>2, <2>3, CountsTake DEF PoolInv, TypeOK, PoolTypeOK
<1>2. CASE AcquireOpen(u)
  <2>1. OnlyMoves(u) /\ pc[u] \notin Holding /\ pc'[u] \notin Holding /\ active' = active
    BY <1>2 DEF AcquireOpen, PoolInv, TypeOK, CallerTypeOK, OnlyMoves, Holding
  <2> QED BY <2>1, CountsKept
<1>3. CASE AcquireFail(u) \/ AcquireGiveUp(u)
  <2>1. Return(u) /\ pc[u] \notin Holding /\ active' = active
    BY <1>3 DEF AcquireFail, AcquireGiveUp, Holding, pool
  <2> QED BY <2>1, ResumeMoves, CountsKept DEF PoolInv
<1> QED BY <1>1, <1>2, <1>3 DEF Acquire

LEMMA DialedCounts ==
    ASSUME PoolInv, ActiveCountsHolders, NEW u \in Caller, Dialed(u)
    PROVE  ActiveCountsHolders'
<1>1. CASE DialFail(u)
  <2>1. Return(u) /\ pc[u] \notin Holding /\ active' = active
    BY <1>1 DEF DialFail, Holding
  <2> QED BY <2>1, ResumeMoves, CountsKept DEF PoolInv
<1>2. CASE DialSucceed(u)
  <2> DEFINE t == nextID + 1
  <2>1. pc[u] = "dialing" /\ Obtain(u, t) /\ active' = [active EXCEPT ![t] = 1]
    BY <1>2 DEF DialSucceed
  <2>2. t \in Transport /\ active[t] = 0
    BY <1>2, PoolAssumption DEF DialSucceed, PoolAssumption, PoolInv, TypeOK,
                                PoolTypeOK, Structure, Transport
  <2> HIDE DEF t
  <2>3. OnlyMoves(u) /\ pc[u] \notin Holding /\ pc'[u] \in Holding /\ held'[u] = t
    BY <2>1 DEF Obtain, PoolInv, TypeOK, CallerTypeOK, OnlyMoves, Holding
  <2>4. active' = [active EXCEPT ![t] = active[t] + 1] /\ active \in [Transport -> Nat]
    BY <2>1, <2>2 DEF PoolInv, TypeOK, PoolTypeOK
  <2> QED BY <2>2, <2>3, <2>4, CountsTake
<1> QED BY <1>1, <1>2 DEF Dialed

\* Where a release leaves its caller.
LEMMA ReleaseMoves ==
    ASSUME PoolInv, NEW u \in Caller, Release(u)
    PROVE  OnlyMoves(u) /\ pc'[u] \notin Holding
<1>1. CASE pc' = [pc EXCEPT ![u] = "closing"] /\ held' = held
  BY <1>1 DEF PoolInv, TypeOK, CallerTypeOK, OnlyMoves, Holding
<1>2. CASE Resume(u)
  BY <1>2, ResumeMoves DEF PoolInv
<1> QED BY <1>1, <1>2 DEF Release

LEMMA ReleaseCounts ==
    ASSUME PoolInv, ActiveCountsHolders, NEW u \in Caller, Release(u)
    PROVE  ActiveCountsHolders'
<1>1. PICK t \in Transport : t = held[u]
  BY PoolAssumption DEF PoolAssumption, PoolInv, TypeOK, PoolTypeOK, Structure,
                        Holding, Transport, Release
<1>2. /\ pc[u] = "release"
      /\ active' = [active EXCEPT ![t] = IF @ > 0 THEN @ - 1 ELSE @]
  BY <1>1 DEF Release
<1>3. ASSUME NEW s \in Transport, s # t PROVE Holders(s)' = Holders(s)
  BY <1>1, <1>3, ReleaseMoves, HoldersMove DEF Holders
<1>4. Holders(t)' = Holders(t) \ {u} /\ u \in Holders(t) /\ Holders(t) \in SUBSET Caller
  BY <1>1, <1>2, ReleaseMoves, HoldersMove DEF Holders, Holding
<1>5. Cardinality(Holders(t)') = active[t] - 1 /\ active[t] >= 1
  <2>1. /\ Cardinality(Holders(t) \ {u}) = Cardinality(Holders(t)) - 1
        /\ Cardinality(Holders(t)) >= 1
    BY <1>4, CountLeave
  <2> QED BY <1>4, <2>1 DEF ActiveCountsHolders
<1>6. active'[t] = active[t] - 1 /\ \A s \in Transport \ {t} : active'[s] = active[s]
  BY <1>2, <1>5 DEF PoolInv, TypeOK, PoolTypeOK
<1> QED BY <1>3, <1>5, <1>6 DEF ActiveCountsHolders

\* Every step keeps the use counts exact.
LEMMA NextCounts == PoolInv /\ ActiveCountsHolders /\ [Next]_vars => ActiveCountsHolders'
<1> SUFFICES ASSUME PoolInv, ActiveCountsHolders, [Next]_vars PROVE ActiveCountsHolders'
  OBVIOUS
<1>1. ASSUME NEW u \in Caller, NEW k \in Operation, NEW s \in BOOLEAN, Begin(u, k, s)
      PROVE  ActiveCountsHolders'
  <2>1. OnlyMoves(u) /\ pc[u] \notin Holding /\ pc'[u] \notin Holding /\ active' = active
    BY <1>1 DEF Begin, PoolInv, TypeOK, CallerTypeOK, OnlyMoves, Holding, pool
  <2> QED BY <2>1, CountsKept
<1>2. ASSUME NEW u \in Caller, CloseClient(u) PROVE ActiveCountsHolders'
  <2>1. Resume(u) /\ pc[u] \notin Holding /\ active' = active
    BY <1>2 DEF CloseClient, Holding
  <2> QED BY <2>1, ResumeMoves, CountsKept DEF PoolInv
<1>3. ASSUME UNCHANGED <<active, caller>> PROVE ActiveCountsHolders'
  <2>1. \A t \in Transport : Holders(t)' = Holders(t)
    BY <1>3 DEF Holders, caller
  <2> QED BY <1>3, <2>1 DEF ActiveCountsHolders
<1>4. ASSUME Close \/ \E t \in Transport : CloseDoomed(t) \/ Drop(t)
      PROVE  UNCHANGED <<active, caller>>
  BY <1>4 DEF Close, CloseDoomed, Drop
<1>5. ASSUME UNCHANGED vars PROVE UNCHANGED <<active, caller>>
  BY <1>5 DEF vars, pool
<1> QED BY <1>1, <1>2, <1>3, <1>4, <1>5, AcquireCounts, DialedCounts, OperateCounts,
           ReleaseCounts DEF Next, GiveBack

\* transport.active is the number of callers between acquire and release on every
\* path of Shell, RunStream and Dial, so the pool neither strands capacity nor
\* hands out more channels than it counts.
THEOREM PoolCountsAreExact == Spec => []ActiveCountsHolders
<1>1. Init => PoolInv /\ ActiveCountsHolders
  BY InitPoolInv, InitCounts
<1>2. PoolInv /\ ActiveCountsHolders /\ [Next]_vars => (PoolInv /\ ActiveCountsHolders)'
  BY NextPoolInv, NextCounts
<1> QED BY <1>1, <1>2, PTL DEF Spec

-----------------------------------------------------------------------------
(* Connections do not leak *)

\* A step of u that touches neither the list nor the connections, and in which u
\* is not closing a client, leaves every connection with its closer.
LEMMA LeakKept ==
    ASSUME NoConnectionLeak, NEW u \in Caller, OnlyMoves(u), pc[u] # "closing",
           UNCHANGED <<closed, listed, doomed, conn>>
    PROVE  NoConnectionLeak'
BY DEF NoConnectionLeak, OnlyMoves

LEMMA AcquireLeak ==
    ASSUME PoolInv, NoConnectionLeak, NEW u \in Caller, Acquire(u)
    PROVE  NoConnectionLeak'
<1>1. pc[u] = "acquire" /\ UNCHANGED <<closed, listed, doomed, conn>>
  BY DEF Acquire, AcquireReuse, AcquireOpen, AcquireFail, AcquireGiveUp, pool
<1>2. OnlyMoves(u)
  <2>1. CASE AcquireReuse(u)
    BY <2>1 DEF AcquireReuse, Obtain, OnlyMoves, PoolInv, TypeOK, CallerTypeOK
  <2>2. CASE AcquireOpen(u)
    BY <2>2 DEF AcquireOpen, OnlyMoves, PoolInv, TypeOK, CallerTypeOK
  <2>3. CASE Return(u)
    BY <2>3, ResumeMoves DEF PoolInv
  <2> QED BY <2>1, <2>2, <2>3 DEF Acquire, AcquireFail, AcquireGiveUp
<1> QED BY <1>1, <1>2, LeakKept

LEMMA DialedLeak ==
    ASSUME PoolInv, NoConnectionLeak, NEW u \in Caller, Dialed(u)
    PROVE  NoConnectionLeak'
<1>1. CASE DialFail(u)
  <2>1. pc[u] = "dialing" /\ Return(u) /\ UNCHANGED <<closed, listed, doomed, conn>>
    BY <1>1 DEF DialFail
  <2> QED BY <2>1, ResumeMoves, LeakKept DEF PoolInv
<1>2. CASE DialSucceed(u)
  <2>1. /\ pc[u] = "dialing" /\ ~closed /\ UNCHANGED <<closed, doomed>>
        /\ listed' = listed \cup {nextID + 1}
        /\ conn' = [conn EXCEPT ![nextID + 1] = "up"]
        /\ Obtain(u, nextID + 1)
    BY <1>2 DEF DialSucceed, MayPublish
  <2>2. OnlyMoves(u)
    BY <2>1 DEF Obtain, OnlyMoves, PoolInv, TypeOK, CallerTypeOK
  <2> QED BY <2>1, <2>2 DEF NoConnectionLeak, OnlyMoves, PoolInv, TypeOK, PoolTypeOK
<1> QED BY <1>1, <1>2 DEF Dialed

LEMMA ReleaseLeak ==
    ASSUME PoolInv, NoConnectionLeak, NEW u \in Caller, Release(u)
    PROVE  NoConnectionLeak'
<1>1. pc[u] = "release" /\ UNCHANGED <<closed, doomed, conn>> /\ OnlyMoves(u)
  BY ReleaseMoves DEF Release
<1>2. CASE UNCHANGED listed
  BY <1>1, <1>2, LeakKept
<1>3. CASE /\ listed' = listed \ {held[u]} /\ held' = held
           /\ pc' = [pc EXCEPT ![u] = "closing"]
  <2>1. pc'[u] = "closing"
    BY <1>3 DEF PoolInv, TypeOK, CallerTypeOK
  <2> QED BY <1>1, <1>3, <2>1 DEF NoConnectionLeak, OnlyMoves
<1> QED BY <1>2, <1>3 DEF Release

LEMMA CloseClientLeak ==
    ASSUME PoolInv, NoConnectionLeak, NEW u \in Caller, CloseClient(u)
    PROVE  NoConnectionLeak'
<1>1. /\ conn' = [conn EXCEPT ![held[u]] = "down"] /\ Resume(u)
      /\ UNCHANGED <<closed, listed, doomed>>
  BY DEF CloseClient
<1>2. OnlyMoves(u)
  BY <1>1, ResumeMoves DEF PoolInv
<1>3. \A t \in Transport : conn'[t] = "up" => conn[t] = "up" /\ t # held[u]
  BY <1>1 DEF PoolInv, TypeOK, PoolTypeOK
<1> QED BY <1>1, <1>2, <1>3 DEF NoConnectionLeak, OnlyMoves

LEMMA NextLeak == PoolInv /\ NoConnectionLeak /\ [Next]_vars => NoConnectionLeak'
<1> SUFFICES ASSUME PoolInv, NoConnectionLeak, [Next]_vars PROVE NoConnectionLeak'
  OBVIOUS
<1>1. ASSUME NEW u \in Caller, NEW k \in Operation, NEW s \in BOOLEAN, Begin(u, k, s)
      PROVE  NoConnectionLeak'
  <2>1. OnlyMoves(u) /\ pc[u] = "idle" /\ UNCHANGED <<closed, listed, doomed, conn>>
    BY <1>1 DEF Begin, PoolInv, TypeOK, CallerTypeOK, OnlyMoves, pool
  <2> QED BY <2>1, LeakKept
<1>2. ASSUME NEW u \in Caller, Operate(u) PROVE NoConnectionLeak'
  <2>1. /\ pc[u] \in {"opening", "using"} /\ UNCHANGED pool /\ UNCHANGED held
        /\ \E p \in {"using", "release"} : pc' = [pc EXCEPT ![u] = p]
    BY <1>2 DEF PoolInv, TypeOK, CallerTypeOK, Operate, Accept, Refuse, OpenBroken,
                DialCancel, Write, Finish, Lose, EndLocally, End
  <2>2. OnlyMoves(u) /\ pc[u] # "closing"
    BY <2>1 DEF PoolInv, TypeOK, CallerTypeOK, OnlyMoves
  <2> QED BY <2>1, <2>2, LeakKept DEF pool
<1>3. ASSUME Close PROVE NoConnectionLeak'
  BY <1>3 DEF Close, NoConnectionLeak, caller
<1>4. ASSUME NEW t \in Transport, CloseDoomed(t) PROVE NoConnectionLeak'
  BY <1>4 DEF CloseDoomed, NoConnectionLeak, caller, PoolInv, TypeOK, PoolTypeOK
<1>5. ASSUME NEW t \in Transport, Drop(t) PROVE NoConnectionLeak'
  BY <1>5 DEF Drop, NoConnectionLeak, caller, PoolInv, TypeOK, PoolTypeOK
<1>6. ASSUME UNCHANGED vars PROVE NoConnectionLeak'
  BY <1>6 DEF NoConnectionLeak, vars, pool, caller
<1> QED BY <1>1, <1>2, <1>3, <1>4, <1>5, <1>6, AcquireLeak, DialedLeak, ReleaseLeak,
           CloseClientLeak DEF Next, GiveBack

\* Whatever the order of dials, releases and Close, a connection of the pool that
\* is up stays within reach of the code that closes it; so nothing outlives
\* SSHRuntime.Lock or Disconnect once their loops and releases are through.
THEOREM PoolLeaksNothing == Spec => []NoConnectionLeak
<1>1. Init => PoolInv /\ NoConnectionLeak
  BY InitPoolInv DEF Init, NoConnectionLeak
<1>2. PoolInv /\ NoConnectionLeak /\ [Next]_vars => (PoolInv /\ NoConnectionLeak)'
  BY NextPoolInv, NextLeak
<1> QED BY <1>1, <1>2, PTL DEF Spec

-----------------------------------------------------------------------------
(* A command is not replayed after it had an effect *)

LEMMA NextEffects == TypeOK /\ EffectsAreKnown /\ [Next]_vars => EffectsAreKnown'
<1> SUFFICES ASSUME TypeOK, EffectsAreKnown, [Next]_vars PROVE EffectsAreKnown'
  OBVIOUS
<1> USE DEF TypeOK, CallerTypeOK
<1>1. ASSUME NEW u \in Caller, Return(u) PROVE EffectsAreKnown'
  BY <1>1 DEF Return, EffectsAreKnown
<1>2. ASSUME NEW u \in Caller, pc[u] \in {"release", "closing"}, Resume(u)
      PROVE  EffectsAreKnown'
  <2>1. CASE Retries(u)
    <3>1. ~consumed[u]
      BY <1>2, <2>1 DEF Retries, WantsRetry, Replayable, EffectsAreKnown
    <3> QED BY <1>2, <2>1, <3>1 DEF Resume, EffectsAreKnown
  <2>2. CASE ~Retries(u)
    BY <1>1, <1>2, <2>2 DEF Resume
  <2> QED BY <2>1, <2>2
<1>3. ASSUME NEW u \in Caller, NEW t, pc[u] \in {"acquire", "dialing"}, Obtain(u, t)
      PROVE  EffectsAreKnown'
  BY <1>3 DEF Obtain, EffectsAreKnown
<1>4. ASSUME NEW u \in Caller, NEW k \in Operation, NEW s \in BOOLEAN, Begin(u, k, s)
      PROVE  EffectsAreKnown'
  BY <1>4 DEF Begin, EffectsAreKnown
<1>5. ASSUME NEW u \in Caller, AcquireOpen(u) PROVE EffectsAreKnown'
  BY <1>5 DEF AcquireOpen, EffectsAreKnown
<1>6. ASSUME NEW u \in Caller, Accept(u) PROVE EffectsAreKnown'
  BY <1>6 DEF Accept, EffectsAreKnown
<1>7. ASSUME NEW u \in Caller, Write(u) PROVE EffectsAreKnown'
  BY <1>7 DEF Write, EffectsAreKnown
<1>8. ASSUME NEW u \in Caller, Refuse(u) PROVE EffectsAreKnown'
  BY <1>8 DEF Refuse, End, EffectsAreKnown, Result
<1>9. ASSUME NEW u \in Caller, NEW r \in {"done", "broken"}, End(u, r)
      PROVE  EffectsAreKnown'
  BY <1>9 DEF End, EffectsAreKnown, Result
<1>10. ASSUME NEW u \in Caller, pc[u] = "release", pc' = [pc EXCEPT ![u] = "closing"],
              UNCHANGED <<op, held, result, attempt, stdin, wrote, consumed>>
       PROVE  EffectsAreKnown'
  BY <1>10 DEF EffectsAreKnown
<1>11. ASSUME UNCHANGED caller PROVE EffectsAreKnown'
  BY <1>11 DEF EffectsAreKnown, caller
<1>12. ASSUME NEW u \in Caller, Acquire(u) PROVE EffectsAreKnown'
  BY <1>12, <1>1, <1>3, <1>5 DEF Acquire, AcquireReuse, AcquireFail, AcquireGiveUp
<1>13. ASSUME NEW u \in Caller, Dialed(u) PROVE EffectsAreKnown'
  BY <1>13, <1>1, <1>3 DEF Dialed, DialFail, DialSucceed
<1>14. ASSUME NEW u \in Caller, Operate(u) PROVE EffectsAreKnown'
  BY <1>14, <1>6, <1>7, <1>8, <1>9
     DEF Operate, OpenBroken, DialCancel, Finish, Lose, EndLocally
<1>15. ASSUME NEW u \in Caller, GiveBack(u) PROVE EffectsAreKnown'
  BY <1>15, <1>2, <1>10 DEF GiveBack, Release, CloseClient
<1>16. ASSUME Close \/ \E t \in Transport : CloseDoomed(t) \/ Drop(t) PROVE UNCHANGED caller
  BY <1>16 DEF Close, CloseDoomed, Drop
<1> QED BY <1>4, <1>11, <1>12, <1>13, <1>14, <1>15, <1>16 DEF Next, vars

\* The retries of Shell and RunStream never run a command a second time for a
\* caller that has already received output or handed over its stdin.
THEOREM PoolNeverReplays == Spec => []NoReplayAfterEffect
<1>1. Init => EffectsAreKnown
  BY DEF Init, EffectsAreKnown
<1>2. TypeOK /\ EffectsAreKnown /\ [Next]_vars => EffectsAreKnown'
  BY NextEffects
<1>3. EffectsAreKnown => NoReplayAfterEffect
  BY DEF EffectsAreKnown, NoReplayAfterEffect
<1> QED BY <1>1, <1>2, <1>3, PoolTypeCorrect, PTL DEF Spec

-----------------------------------------------------------------------------
(* Refusals *)

\* Only a release retires a transport: the one its caller holds.
LEMMA OnlyReleaseRetires ==
    ASSUME Next, NEW t \in retired' \ retired
    PROVE  \E u \in Caller : Release(u) /\ held[u] = t /\ ShouldClose(u)
<1>1. \A u \in Caller : Acquire(u) \/ Dialed(u) \/ Operate(u) \/ CloseClient(u)
                        => retired' = retired
  BY DEF Acquire, AcquireReuse, AcquireOpen, AcquireFail, AcquireGiveUp, Dialed,
         DialFail, DialSucceed, Operate, Accept, Refuse, OpenBroken, DialCancel, Write,
         Finish, Lose, EndLocally, End, CloseClient, pool
<1>2. \A u \in Caller, k \in Operation, s \in BOOLEAN : Begin(u, k, s) => retired' = retired
  BY DEF Begin, pool
<1>3. Close \/ (\E s \in Transport : CloseDoomed(s) \/ Drop(s)) => retired' = retired
  BY DEF Close, CloseDoomed, Drop
<1>4. PICK u \in Caller : Release(u)
  BY <1>1, <1>2, <1>3 DEF Next, GiveBack
<1>5. retired' # retired
  OBVIOUS
<1>6. retired' = retired \cup {held[u]} /\ ShouldClose(u)
  BY <1>4, <1>5 DEF Release
<1> QED BY <1>4, <1>6

LEMMA RefusalStep ==
    ASSUME PoolInv, ActiveCountsHolders, Next, NEW t \in retired' \ retired
    PROVE  \/ Cardinality(Holders(t)) = 1
           \/ \E u \in Holders(t) : pc[u] = "release" /\ result[u] = "broken"
<1>1. PICK u \in Caller : Release(u) /\ held[u] = t /\ ShouldClose(u)
  BY OnlyReleaseRetires
<1>2. t \in Transport /\ pc[u] = "release"
  BY <1>1, PoolAssumption DEF Release, PoolAssumption, PoolInv, TypeOK, PoolTypeOK,
                              Structure, Holding, Transport
<1>3. u \in Holders(t) /\ Holders(t) \in SUBSET Caller
  BY <1>1, <1>2 DEF Holders, Holding
<1>4. Cardinality(Holders(t)) >= 1 /\ active[t] = Cardinality(Holders(t))
  BY <1>2, <1>3, CountLeave DEF ActiveCountsHolders
<1>5. active[t] \in Nat
  BY <1>2 DEF PoolInv, TypeOK, PoolTypeOK
<1>6. CASE result[u] = "broken"
  BY <1>2, <1>3, <1>6
<1>7. CASE Accepted(u) <= 0
  BY <1>1, <1>4, <1>5, <1>7 DEF Accepted
<1> QED BY <1>1, <1>6, <1>7 DEF ShouldClose

\* A target that refuses a channel costs nobody else a connection: release retires
\* the transport only when the refused caller was its last holder.
THEOREM PoolRefusalIsLocal == Spec => RefusalNeverCutsOthers
<1>1. Init => PoolInv /\ ActiveCountsHolders
  BY InitPoolInv, InitCounts
<1>2. PoolInv /\ ActiveCountsHolders /\ [Next]_vars => (PoolInv /\ ActiveCountsHolders)'
  BY NextPoolInv, NextCounts
<1>3. PoolInv /\ ActiveCountsHolders /\ [Next]_vars =>
        [\A t \in retired' \ retired :
            \/ Cardinality(Holders(t)) = 1
            \/ \E u \in Holders(t) : pc[u] = "release" /\ result[u] = "broken"]_vars
  BY RefusalStep
<1> QED BY <1>1, <1>2, <1>3, PTL DEF Spec, RefusalNeverCutsOthers

\* After a refusal the transport is retired or has no room until somebody gives a
\* channel back, so the retry loop moves on to another transport or a new one.
THEOREM PoolRefusalFillsTransport == Spec => RefusingTransportIsFull
<1>1. Init => PoolInv /\ ActiveCountsHolders
  BY InitPoolInv, InitCounts
<1>2. PoolInv /\ ActiveCountsHolders /\ [Next]_vars => (PoolInv /\ ActiveCountsHolders)'
  BY NextPoolInv, NextCounts
<1>3. ASSUME PoolInv, ActiveCountsHolders, NEW u \in Caller, NEW t \in Transport,
             Release(u), result[u] = "refused", held[u] = t
      PROVE  t \in retired' \/ ~HasRoom(t)'
  <2>1. u \in Holders(t) /\ Holders(t) \in SUBSET Caller
    BY <1>3 DEF Holders, Holding, Release
  <2>2. active[t] \in Nat /\ active[t] >= 1 /\ limit[t] \in Nat
    BY <1>3, <2>1, CountLeave DEF ActiveCountsHolders, PoolInv, TypeOK, PoolTypeOK
  <2>3. active'[t] = active[t] - 1 /\ Accepted(u) = active[t] - 1
    BY <1>3, <2>2 DEF Release, Accepted, PoolInv, TypeOK, PoolTypeOK
  <2>4. CASE Accepted(u) <= 0
    BY <1>3, <2>4 DEF Release, ShouldClose
  <2>5. CASE Accepted(u) > 0
    <3>1. limit'[t] \in Nat /\ limit'[t] > 0 /\ limit'[t] <= active'[t]
      BY <1>3, <2>2, <2>3, <2>5
         DEF Release, LearnsLimit, Accepted, PoolInv, TypeOK, PoolTypeOK
    <3>2. MaxChannels \in Nat
      BY PoolAssumption DEF PoolAssumption
    <3> QED BY <2>2, <2>3, <3>1, <3>2 DEF HasRoom, ChannelLimit
  <2> QED BY <2>2, <2>3, <2>4, <2>5
<1>4. PoolInv /\ ActiveCountsHolders /\ [Next]_vars =>
        [\A u \in Caller, t \in Transport :
            Release(u) /\ result[u] = "refused" /\ held[u] = t =>
                t \in retired' \/ ~HasRoom(t)']_vars
  BY <1>3
<1> QED BY <1>1, <1>2, <1>4, PTL DEF Spec, RefusingTransportIsFull
================================================================================
