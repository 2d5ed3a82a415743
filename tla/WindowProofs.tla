----------------------------- MODULE WindowProofs ------------------------------
(* Theorems about DesktopWindows, TerminalStream and AddServerWizard, for any windows,
   pages, sizes, addresses, logins and bounds. *)
EXTENDS DesktopWindows, TerminalStream, AddServerWizard, WellFoundedInduction, SequenceTheorems,
        FiniteSetTheorems, TLAPS

WindowsSpec == WindowsInit /\ [][WindowsNext]_windowVars

--------------------------------------------------------------------------------
(* Stacks. *)

(* A set of natural numbers has a least element. *)
LEMMA LeastOf ==
    ASSUME NEW S \in SUBSET Nat, S # {}
    PROVE  \E x \in S : \A y \in S : x <= y
<1>1. IsWellFoundedOn(OpToRel(<, Nat), Nat)
  BY NatLessThanWellFounded
<1>2. PICK x \in S : \A y \in S : ~ (<<y, x>> \in OpToRel(<, Nat))
  BY <1>1, WFMin
<1>3. \A y \in Nat : y < x => <<y, x>> \in OpToRel(<, Nat)
  BY DEF OpToRel
<1>4. \A y \in S : ~(y < x)
  BY <1>2, <1>3
<1> QED BY <1>4

(* A window is the topmost visible one when all above it are hidden. *)
LEMMA TopIs ==
    ASSUME NEW stack \in Seq(Window), NEW hidden, NEW i \in 1..Len(stack),
           stack[i] \notin hidden,
           \A j \in 1..Len(stack) : j > i => stack[j] \in hidden
    PROVE  TopVisible(stack, hidden) = stack[i]
<1> DEFINE I == {j \in 1..Len(stack) : stack[j] \notin hidden}
<1>1. TopVisible(stack, hidden) = LET top == IF I # {} THEN SX!Max(I) ELSE 0
                                  IN IF top = 0 THEN NoWindow ELSE stack[top]
  BY DEF TopVisible, SX!SelectLastInSeq
<1>2. SX!Max(I) = i
  BY DEF SX!Max
<1> QED BY <1>1, <1>2

(* Without a visible window there is no topmost one. *)
LEMMA TopIsNone ==
    ASSUME NEW stack \in Seq(Window), NEW hidden,
           \A j \in 1..Len(stack) : stack[j] \in hidden
    PROVE  TopVisible(stack, hidden) = NoWindow
<1> DEFINE I == {j \in 1..Len(stack) : stack[j] \notin hidden}
<1>1. TopVisible(stack, hidden) = LET top == IF I # {} THEN SX!Max(I) ELSE 0
                                  IN IF top = 0 THEN NoWindow ELSE stack[top]
  BY DEF TopVisible, SX!SelectLastInSeq
<1>2. I = {}
  OBVIOUS
<1> QED BY <1>1, <1>2

(* There is no other case. *)
LEMMA TopCases ==
    ASSUME NEW stack \in Seq(Window), NEW hidden
    PROVE  \/ \A j \in 1..Len(stack) : stack[j] \in hidden
           \/ \E i \in 1..Len(stack) :
                 /\ stack[i] \notin hidden
                 /\ \A j \in 1..Len(stack) : j > i => stack[j] \in hidden
<1> SUFFICES ASSUME NEW v \in 1..Len(stack), stack[v] \notin hidden
             PROVE  \E i \in 1..Len(stack) :
                       /\ stack[i] \notin hidden
                       /\ \A j \in 1..Len(stack) : j > i => stack[j] \in hidden
  OBVIOUS
<1> DEFINE Distances == {d \in Nat : \E j \in 1..Len(stack) :
                                        stack[j] \notin hidden /\ d = Len(stack) - j}
<1>0. Len(stack) \in Nat
  OBVIOUS
<1>1. Distances \in SUBSET Nat /\ Len(stack) - v \in Distances
  BY <1>0
<1>2. PICK d \in Distances : \A e \in Distances : d <= e
  <2> HIDE DEF Distances
  <2> QED BY <1>1, LeastOf
<1>3. PICK i \in 1..Len(stack) : stack[i] \notin hidden /\ d = Len(stack) - i
  BY <1>2
<1>4. ASSUME NEW j \in 1..Len(stack), j > i, stack[j] \notin hidden
      PROVE  FALSE
  <2>1. Len(stack) - j \in Distances
    BY <1>0, <1>4
  <2>2. Len(stack) - j < d /\ d \in Nat
    BY <1>0, <1>3, <1>4
  <2> HIDE DEF Distances
  <2>3. d <= Len(stack) - j
    BY <1>2, <2>1
  <2> QED BY <1>0, <2>2, <2>3
<1> QED BY <1>3, <1>4

(* The topmost visible window is one of the stack, or none. *)
LEMMA TopType ==
    ASSUME NEW stack \in Seq(Window), NEW hidden
    PROVE  TopVisible(stack, hidden) \in Window \cup {NoWindow}
<1>1. CASE \A j \in 1..Len(stack) : stack[j] \in hidden
  BY <1>1, TopIsNone
<1>2. ASSUME NEW i \in 1..Len(stack), stack[i] \notin hidden,
             \A j \in 1..Len(stack) : j > i => stack[j] \in hidden
      PROVE  TopVisible(stack, hidden) \in Window
  BY <1>2, TopIs
<1> QED BY <1>1, <1>2, TopCases

(* Taking a window away closes the gap. *)
LEMMA WithoutShifts ==
    ASSUME NEW stack \in Seq(Window), SX!IsInjective(stack), NEW k \in 1..Len(stack)
    PROVE  LET rest == Without(stack, stack[k])
           IN /\ rest \in Seq(Window) /\ Len(rest) = Len(stack) - 1
              /\ \A i \in 1..Len(rest) : rest[i] = IF i < k THEN stack[i] ELSE stack[i + 1]
<1> DEFINE low == SubSeq(stack, 1, k - 1)
           high == SubSeq(stack, k + 1, Len(stack))
           I == {j \in 1..Len(stack) : stack[j] = stack[k]}
<1>0. Len(stack) \in Nat
  OBVIOUS
<1>1. I = {k}
  BY DEF SX!IsInjective
<1>2. SX!SelectInSeq(stack, LAMBDA v : v = stack[k]) = IF I # {} THEN SX!Min(I) ELSE 0
  BY DEF SX!SelectInSeq
<1>3. SX!Min({k}) = k
  BY DEF SX!Min
<1>4. SX!SelectInSeq(stack, LAMBDA v : v = stack[k]) = k
  <2> HIDE DEF I
  <2> QED BY <1>1, <1>2, <1>3
<1>5. Without(stack, stack[k]) = low \o high
  <2>1. SX!RemoveFirst(stack, stack[k])
           = SX!RemoveAt(stack, SX!SelectInSeq(stack, LAMBDA v : v = stack[k]))
    BY DEF SX!RemoveFirst
  <2> QED BY <1>4, <2>1 DEF Without, SX!RemoveAt
<1>6. /\ low \in Seq(Window) /\ Len(low) = k - 1
      /\ \A i \in 1..(k - 1) : low[i] = stack[i]
  BY <1>0, SubSeqProperties
<1>7. /\ high \in Seq(Window) /\ Len(high) = Len(stack) - k
      /\ \A i \in 1..(Len(stack) - k) : high[i] = stack[k + i]
  <2>1. k + 1 \in Int /\ Len(stack) \in Int /\ \A i \in (k + 1)..Len(stack) : stack[i] \in Window
    BY <1>0
  <2>2. /\ high \in Seq(Window)
        /\ Len(high) = IF k + 1 <= Len(stack) THEN Len(stack) - (k + 1) + 1 ELSE 0
        /\ \A i \in 1..(Len(stack) - (k + 1) + 1) : high[i] = stack[(k + 1) + i - 1]
    BY <2>1, SubSeqProperties
  <2> HIDE DEF high
  <2>3. ASSUME NEW i \in 1..(Len(stack) - k)
        PROVE  high[i] = stack[k + i]
    <3>1. i \in 1..(Len(stack) - (k + 1) + 1) /\ (k + 1) + i - 1 = k + i
      BY <1>0
    <3>2. high[i] = stack[(k + 1) + i - 1]
      BY <2>2, <3>1
    <3> QED BY <3>1, <3>2
  <2>4. Len(high) = Len(stack) - k
    BY <1>0, <2>2
  <2> QED BY <2>2, <2>3, <2>4
<1> HIDE DEF low, high
<1>8. /\ low \o high \in Seq(Window) /\ Len(low \o high) = Len(stack) - 1
      /\ \A i \in 1..(Len(stack) - 1) :
            (low \o high)[i] = IF i < k THEN stack[i] ELSE stack[i + 1]
  <2>a. low \in Seq(Window) /\ high \in Seq(Window)
    BY <1>6, <1>7
  <2>b. /\ low \o high \in Seq(Window) /\ Len(low \o high) = Len(low) + Len(high)
        /\ \A i \in 1..(Len(low) + Len(high)) :
              (low \o high)[i] = IF i <= Len(low) THEN low[i] ELSE high[i - Len(low)]
    BY <2>a, ConcatProperties, Zenon
  <2>0. Len(low) = k - 1 /\ Len(low) + Len(high) = Len(stack) - 1
    BY <1>0, <1>6, <1>7
  <2>1. low \o high \in Seq(Window) /\ Len(low \o high) = Len(stack) - 1
    BY <2>0, <2>b
  <2>2. \A i \in 1..(Len(stack) - 1) :
           (low \o high)[i] = IF i <= k - 1 THEN low[i] ELSE high[i - (k - 1)]
    BY <2>0, <2>b, Zenon
  <2>3. ASSUME NEW i \in 1..(Len(stack) - 1)
        PROVE  (low \o high)[i] = IF i < k THEN stack[i] ELSE stack[i + 1]
    <3>1. CASE i < k
      <4>1. i \in 1..(k - 1) /\ i <= k - 1
        BY <1>0, <3>1
      <4>2. low[i] = stack[i]
        BY <1>6, <4>1
      <4> QED BY <2>2, <3>1, <4>1, <4>2
    <3>2. CASE ~(i < k)
      <4>1. i - (k - 1) \in 1..(Len(stack) - k) /\ k + (i - (k - 1)) = i + 1 /\ ~(i <= k - 1)
        BY <1>0, <3>2
      <4>2. high[i - (k - 1)] = stack[i + 1]
        BY <1>7, <4>1
      <4> QED BY <2>1, <2>2, <3>2, <4>1, <4>2
    <3> QED BY <3>1, <3>2
  <2> QED BY <2>1, <2>3
<1> QED BY <1>5, <1>8

(* A window that is not there cannot be taken away. *)
LEMMA WithoutAbsent ==
    ASSUME NEW stack \in Seq(Window), NEW w, w \notin SX!ToSet(stack)
    PROVE  Without(stack, w) = stack
  BY DEF Without, SX!RemoveFirst, SX!ToSet

(* Taking a window out leaves a stack of the others. *)
LEMMA WithoutType ==
    ASSUME NEW stack \in Seq(Window), SX!IsInjective(stack), NEW w
    PROVE  /\ Without(stack, w) \in Seq(Window) /\ SX!IsInjective(Without(stack, w))
           /\ SX!ToSet(Without(stack, w)) = SX!ToSet(stack) \ {w}
<1>1. CASE w \notin SX!ToSet(stack)
  BY <1>1, WithoutAbsent
<1>2. CASE w \in SX!ToSet(stack)
  <2>1. PICK k \in 1..Len(stack) : w = stack[k]
    BY <1>2 DEF SX!ToSet
  <2> DEFINE rest == Without(stack, w)
  <2>2. /\ rest \in Seq(Window) /\ Len(rest) = Len(stack) - 1
        /\ \A i \in 1..Len(rest) : rest[i] = IF i < k THEN stack[i] ELSE stack[i + 1]
    BY <2>1, WithoutShifts
  <2>3. \A i, j \in 1..Len(stack) : stack[i] = stack[j] => i = j
    BY DEF SX!IsInjective
  <2> HIDE DEF rest
  <2>4. SX!IsInjective(rest)
    BY <2>2, <2>3 DEF SX!IsInjective
  <2>5. SX!ToSet(rest) \subseteq SX!ToSet(stack) \ {w}
    BY <2>1, <2>2, <2>3 DEF SX!ToSet
  <2>6. ASSUME NEW i \in 1..Len(stack), stack[i] # w
        PROVE  stack[i] \in SX!ToSet(rest)
    <3>1. CASE i < k
      BY <2>2, <3>1 DEF SX!ToSet
    <3>2. CASE i > k
      <4>1. i - 1 \in 1..Len(rest) /\ rest[i - 1] = stack[i]
        BY <2>2, <3>2
      <4> QED BY <2>2, <4>1 DEF SX!ToSet
    <3> QED BY <2>1, <2>6, <3>1, <3>2
  <2>7. SX!ToSet(stack) \ {w} \subseteq SX!ToSet(rest)
    BY <2>6 DEF SX!ToSet
  <2> QED BY <2>2, <2>4, <2>5, <2>7 DEF rest
<1> QED BY <1>1, <1>2

(* A window that is brought to the front is the topmost one. *)
LEMMA FrontIsTop ==
    ASSUME NEW stack \in Seq(Window), SX!IsInjective(stack), NEW w \in Window
    PROVE  /\ BringToFront(stack, w) \in Seq(Window)
           /\ SX!IsInjective(BringToFront(stack, w))
           /\ SX!ToSet(BringToFront(stack, w)) = SX!ToSet(stack) \cup {w}
           /\ \A hidden : TopVisible(BringToFront(stack, w), hidden \ {w}) = w
<1> DEFINE rest == Without(stack, w)
           top == BringToFront(stack, w)
<1>1. /\ rest \in Seq(Window) /\ SX!IsInjective(rest)
      /\ SX!ToSet(rest) = SX!ToSet(stack) \ {w}
  BY WithoutType
<1>2. top = Append(rest, w)
  BY DEF BringToFront
<1> HIDE DEF rest, top
<1>3. /\ top \in Seq(Window) /\ Len(top) = Len(rest) + 1
      /\ \A i \in 1..Len(rest) : top[i] = rest[i]
      /\ top[Len(rest) + 1] = w
  <2>1. rest \in Seq(Window) /\ w \in Window
    BY <1>1
  <2>2. /\ Append(rest, w) \in Seq(Window) /\ Len(Append(rest, w)) = Len(rest) + 1
        /\ \A i \in 1..Len(rest) : Append(rest, w)[i] = rest[i]
        /\ Append(rest, w)[Len(rest) + 1] = w
    <3>1. ASSUME NEW s \in Seq(Window)
          PROVE  /\ Append(s, w) \in Seq(Window) /\ Len(Append(s, w)) = Len(s) + 1
                 /\ \A i \in 1..Len(s) : Append(s, w)[i] = s[i]
                 /\ Append(s, w)[Len(s) + 1] = w
      BY AppendProperties
    <3> QED BY <2>1, <3>1
  <2> QED BY <1>2, <2>2, Zenon
<1>a. SX!ToSet(rest) = {rest[i] : i \in 1..Len(rest)}
  BY <1>1 DEF SX!ToSet
<1>4. \A i \in 1..Len(rest) : rest[i] # w
  BY <1>1, <1>a
<1>5. SX!IsInjective(top)
  BY <1>1, <1>3, <1>4 DEF SX!IsInjective
<1>6. SX!ToSet(top) = SX!ToSet(rest) \cup {w}
  <2>1. Len(rest) \in Nat
    BY <1>1
  <2>2. SX!ToSet(top) = {top[i] : i \in 1..(Len(rest) + 1)}
    BY <1>3 DEF SX!ToSet
  <2>3. 1..(Len(rest) + 1) = (1..Len(rest)) \cup {Len(rest) + 1}
    BY <2>1
  <2> QED BY <1>3, <1>a, <2>2, <2>3
<1>7. ASSUME NEW hidden
      PROVE  TopVisible(top, hidden \ {w}) = w
  <2>1. Len(rest) + 1 \in 1..Len(top) /\ \A j \in 1..Len(top) : ~(j > Len(rest) + 1)
    BY <1>1, <1>3
  <2> QED BY <1>3, <2>1, TopIs
<1> QED BY <1>1, <1>3, <1>5, <1>6, <1>7 DEF top

(* Taking away another window than the topmost leaves the topmost on top. *)
LEMMA TopStays ==
    ASSUME NEW stack \in Seq(Window), SX!IsInjective(stack), NEW hidden, NEW w,
           TopVisible(stack, hidden) # w
    PROVE  TopVisible(Without(stack, w), hidden \ {w}) = TopVisible(stack, hidden)
<1> DEFINE rest == Without(stack, w)
<1>0. /\ rest \in Seq(Window)
      /\ \A i \in 1..Len(rest) : rest[i] # w /\ rest[i] \in SX!ToSet(stack)
  <2>1. rest \in Seq(Window) /\ SX!ToSet(rest) = SX!ToSet(stack) \ {w}
    BY WithoutType
  <2>2. \A i \in 1..Len(rest) : rest[i] \in SX!ToSet(rest)
    BY <2>1 DEF SX!ToSet
  <2> QED BY <2>1, <2>2
<1>1. CASE \A j \in 1..Len(stack) : stack[j] \in hidden
  <2>1. \A i \in 1..Len(rest) : rest[i] \in hidden \ {w}
    BY <1>0, <1>1 DEF SX!ToSet
  <2> HIDE DEF rest
  <2>2. TopVisible(rest, hidden \ {w}) = NoWindow
    BY <1>0, <2>1, TopIsNone
  <2> QED BY <1>1, <2>2, TopIsNone DEF rest
<1>2. ASSUME NEW i \in 1..Len(stack), stack[i] \notin hidden,
             \A j \in 1..Len(stack) : j > i => stack[j] \in hidden
      PROVE  TopVisible(rest, hidden \ {w}) = TopVisible(stack, hidden)
  <2>1. TopVisible(stack, hidden) = stack[i]
    BY <1>2, TopIs
  <2>2. CASE w \notin SX!ToSet(stack)
    <3>1. rest = stack /\ \A j \in 1..Len(stack) : stack[j] # w
      BY <2>2, WithoutAbsent DEF SX!ToSet
    <3>2. /\ stack[i] \notin hidden \ {w}
          /\ \A j \in 1..Len(stack) : j > i => stack[j] \in hidden \ {w}
      BY <1>2, <3>1
    <3> HIDE DEF rest
    <3>3. TopVisible(stack, hidden \ {w}) = stack[i]
      BY <3>2, TopIs
    <3> QED BY <2>1, <3>1, <3>3
  <2>3. CASE w \in SX!ToSet(stack)
    <3>1. PICK k \in 1..Len(stack) : w = stack[k]
      BY <2>3 DEF SX!ToSet
    <3>2. /\ Len(rest) = Len(stack) - 1
          /\ \A j \in 1..Len(rest) : rest[j] = IF j < k THEN stack[j] ELSE stack[j + 1]
      BY <3>1, WithoutShifts
    <3> DEFINE n == IF i < k THEN i ELSE i - 1
    <3> HIDE DEF rest
    <3>3. i # k /\ Len(stack) \in Nat
      BY <2>1, <3>1
    <3>4. n \in 1..Len(rest) /\ rest[n] = stack[i]
      BY <3>2, <3>3
    <3>5. ASSUME NEW j \in 1..Len(rest), j > n
          PROVE  rest[j] \in hidden \ {w}
      <4>1. rest[j] # w
        BY <1>0
      <4>2. CASE j < k
        BY <1>2, <3>2, <3>3, <3>5, <4>1, <4>2
      <4>3. CASE ~(j < k)
        <5>1. j + 1 \in 1..Len(stack) /\ j + 1 > i
          BY <3>2, <3>3, <3>5, <4>3
        <5> QED BY <1>2, <3>2, <4>1, <4>3, <5>1
      <4> QED BY <4>2, <4>3
    <3>6. rest[n] \notin hidden \ {w}
      BY <1>2, <3>4
    <3> HIDE DEF n
    <3> QED BY <1>0, <2>1, <3>4, <3>5, <3>6, TopIs
  <2> QED BY <2>2, <2>3
<1> QED BY <1>1, <1>2, TopCases DEF rest

--------------------------------------------------------------------------------
(* The three ways in which the stack changes. *)

(* No window is listed twice, and what is minimized or maximized is listed. *)
StackOK ==
    /\ windows \in Seq(Window) /\ SX!IsInjective(windows)
    /\ minimized \subseteq Listed /\ maximized \subseteq Listed

(* What a stack lists are windows. *)
LEMMA ListedAreWindows ==
    ASSUME NEW stack \in Seq(Window)
    PROVE  SX!ToSet(stack) \subseteq Window
  BY DEF SX!ToSet

(* A window that is raised is on top and has the focus. *)
LEMMA RaisedStack ==
    ASSUME StackOK, NEW w \in Window, Raise(w), maximized' \subseteq maximized \cup {w}
    PROVE  StackOK' /\ FocusIsOnTop' /\ active' \in Window
<1>1. /\ windows' \in Seq(Window) /\ SX!IsInjective(windows')
      /\ SX!ToSet(windows') = SX!ToSet(windows) \cup {w}
      /\ TopVisible(windows', minimized \ {w}) = w
  BY FrontIsTop DEF StackOK, Raise
<1>2. minimized' = minimized \ {w} /\ active' = w
  BY DEF Raise
<1>3. minimized \subseteq SX!ToSet(windows) /\ maximized \subseteq SX!ToSet(windows)
  BY DEF StackOK, Listed
<1>4. minimized' \subseteq SX!ToSet(windows') /\ maximized' \subseteq SX!ToSet(windows')
  BY <1>1, <1>2, <1>3
<1> QED BY <1>1, <1>2, <1>4 DEF StackOK, Listed, FocusIsOnTop

(* A window that goes leaves the topmost of the others where it was. *)
LEMMA DroppedStack ==
    ASSUME StackOK, NEW w, windows' = Without(windows, w),
           minimized' = minimized \ {w}, maximized' = maximized \ {w}
    PROVE  /\ StackOK'
           /\ TopVisible(windows, minimized) # w =>
                 TopVisible(windows', minimized') = TopVisible(windows, minimized)
<1>1. /\ windows' \in Seq(Window) /\ SX!IsInjective(windows')
      /\ SX!ToSet(windows') = SX!ToSet(windows) \ {w}
  BY WithoutType DEF StackOK
<1>2. minimized \subseteq SX!ToSet(windows) /\ maximized \subseteq SX!ToSet(windows)
  BY DEF StackOK, Listed
<1>3. minimized' \subseteq SX!ToSet(windows') /\ maximized' \subseteq SX!ToSet(windows')
  BY <1>1, <1>2
<1>4. TopVisible(windows, minimized) # w =>
         TopVisible(Without(windows, w), minimized \ {w}) = TopVisible(windows, minimized)
  BY TopStays DEF StackOK
<1> QED BY <1>1, <1>3, <1>4 DEF StackOK, Listed

(* What a merge makes of a window of the other device. *)
LEMMA ReplacedStack ==
    ASSUME StackOK, NEW w \in Window, NEW how \in {"gone", "hidden", "raised"}, Replaced(w, how)
    PROVE  StackOK' /\ FocusIsOnTop'
<1>1. FocusIsOnTop'
  BY DEF Replaced, FocusIsOnTop
<1>2. CASE how = "gone"
  <2>1. windows' = Without(windows, w) /\ minimized' = minimized \ {w}
        /\ maximized' = maximized \ {w}
    BY <1>2 DEF Replaced
  <2> QED BY <1>1, <2>1, DroppedStack
<1>3. CASE how = "hidden"
  BY <1>1, <1>3 DEF Replaced, StackOK, Listed
<1>4. CASE how = "raised"
  <2>1. windows' = BringToFront(windows, w) /\ minimized' = minimized \ {w}
        /\ maximized' = maximized
    BY <1>4 DEF Replaced
  <2>2. /\ windows' \in Seq(Window) /\ SX!IsInjective(windows')
        /\ SX!ToSet(windows') = SX!ToSet(windows) \cup {w}
    BY <2>1, FrontIsTop DEF StackOK
  <2>3. minimized \subseteq SX!ToSet(windows) /\ maximized \subseteq SX!ToSet(windows)
    BY DEF StackOK, Listed
  <2>4. minimized' \subseteq SX!ToSet(windows') /\ maximized' \subseteq SX!ToSet(windows')
    BY <2>1, <2>2, <2>3
  <2> QED BY <1>1, <2>2, <2>4 DEF StackOK, Listed
<1> QED BY <1>2, <1>3, <1>4

(* Minimizing passes the focus to the topmost window that is left. *)
LEMMA MinimizedStack ==
    ASSUME StackOK, NEW w \in Listed, MinimizeWindow(w)
    PROVE  StackOK' /\ FocusIsOnTop' /\ active' \in Window \cup {NoWindow}
<1>1. /\ windows' = windows /\ minimized' = minimized \cup {w} /\ maximized' = maximized
      /\ active' = TopVisible(windows, minimized')
  BY DEF MinimizeWindow, Refocus
<1>2. StackOK'
  BY <1>1 DEF StackOK, Listed
<1>3. active' \in Window \cup {NoWindow}
  BY <1>1, TopType DEF StackOK
<1> QED BY <1>1, <1>2, <1>3 DEF FocusIsOnTop

(* So does closing, if the window had the focus. *)
LEMMA ClosedStack ==
    ASSUME StackOK, FocusIsOnTop, active \in Window \cup {NoWindow}, NEW w, CloseWindow(w)
    PROVE  StackOK' /\ FocusIsOnTop' /\ active' \in Window \cup {NoWindow}
<1>1. windows' = Without(windows, w) /\ minimized' = minimized \ {w} /\ maximized' = maximized \ {w}
  BY DEF CloseWindow
<1>2. StackOK'
  BY <1>1, DroppedStack
<1>3. CASE w = active
  <2>1. active' = TopVisible(windows', minimized')
    BY <1>3 DEF CloseWindow, Refocus
  <2>2. active' \in Window \cup {NoWindow}
    BY <1>2, <2>1, TopType DEF StackOK
  <2> QED BY <1>2, <2>1, <2>2 DEF FocusIsOnTop
<1>4. CASE w # active
  <2>1. active' = active /\ outside' = outside
    BY <1>4 DEF CloseWindow
  <2>2. ~outside => TopVisible(windows', minimized') = active
    BY <1>1, <1>4, DroppedStack DEF FocusIsOnTop
  <2> QED BY <1>2, <2>1, <2>2 DEF FocusIsOnTop
<1> QED BY <1>3, <1>4

(* And so does an application that is no longer available. *)
LEMMA UnavailableStack ==
    ASSUME StackOK, FocusIsOnTop, NEW w, Unavailable(w)
    PROVE  StackOK' /\ FocusIsOnTop'
<1>1. windows' = Without(windows, w) /\ minimized' = minimized \ {w} /\ maximized' = maximized \ {w}
  BY DEF Unavailable
<1>2. active' = active /\ outside' = (outside \/ w = active)
  BY DEF Unavailable
<1>3. ~outside' => TopVisible(windows', minimized') = active
  BY <1>1, <1>2, DroppedStack DEF FocusIsOnTop
<1>4. StackOK'
  BY <1>1, DroppedStack
<1> QED BY <1>2, <1>3, <1>4 DEF FocusIsOnTop

--------------------------------------------------------------------------------
(* The invariant. *)

(* The part about the stack ... *)
WindowInv == StackOK /\ FocusIsOnTop /\ active \in Window \cup {NoWindow}

(* ... and the part about what the operator or the server still has to answer. *)
AnswersOK ==
    /\ opening \subseteq TerminalWindow /\ pointer \in Window \cup {NoWindow}
    /\ closeGuards \subseteq AppWindow

(* Every step keeps the stack in order. *)
LEMMA WindowStep ==
    ASSUME WindowInv, AnswersOK, WindowsNext
    PROVE  WindowInv'
<1>0. Listed \subseteq Window /\ opening \subseteq Window
  BY ListedAreWindows DEF WindowInv, StackOK, Listed, AnswersOK, Window
<1>1. ASSUME NEW w \in Window, Raise(w), maximized' \subseteq maximized \cup {w}
      PROVE  WindowInv'
  BY <1>1, RaisedStack DEF WindowInv
<1>2. ASSUME UNCHANGED focusVars
      PROVE  WindowInv'
  BY <1>2 DEF WindowInv, StackOK, Listed, FocusIsOnTop, focusVars
<1>3. ASSUME NEW w \in Listed, MinimizeWindow(w)
      PROVE  WindowInv'
  BY <1>3, MinimizedStack DEF WindowInv
<1>4. ASSUME NEW w, CloseWindow(w)
      PROVE  WindowInv'
  BY <1>4, ClosedStack DEF WindowInv
<1>5. ASSUME NEW w \in AppWindow, OpenWindow(w) \/ OpenDesktopApp(w)
      PROVE  WindowInv'
  BY <1>1, <1>5 DEF OpenWindow, OpenDesktopApp, Window
<1>6. ASSUME NEW w \in TerminalWindow, AskTerminal(w)
      PROVE  WindowInv'
  BY <1>2, <1>6 DEF AskTerminal
<1>7. ASSUME NEW w \in opening, TerminalOpened(w) \/ TerminalRefused(w)
      PROVE  WindowInv'
  <2>1. CASE TerminalOpened(w)
    BY <1>0, <1>1, <2>1 DEF TerminalOpened
  <2>2. CASE TerminalRefused(w)
    BY <1>2, <2>2 DEF TerminalRefused
  <2> QED BY <1>7, <2>1, <2>2
<1>8. ASSUME NEW w \in Listed, RestoreWindow(w)
      PROVE  WindowInv'
  BY <1>0, <1>1, <1>8 DEF RestoreWindow
<1>9. ASSUME NEW w \in Listed, FocusWindow(w) \/ ToggleMaximize(w) \/ BeginPointer(w)
      PROVE  WindowInv'
  <2>1. Raise(w) /\ maximized' \subseteq maximized \cup {w}
    BY <1>9 DEF FocusWindow, ToggleMaximize, BeginPointer
  <2> QED BY <1>0, <1>1, <2>1
<1>10. ASSUME NEW w \in Listed, ActivateTaskbarWindow(w)
       PROVE  WindowInv'
  BY <1>3, <1>8, <1>10 DEF ActivateTaskbarWindow
<1>11. ASSUME NEW w \in Listed, ReportGuard(w)
       PROVE  WindowInv'
  BY <1>2, <1>11 DEF ReportGuard
<1>12. ASSUME NEW w \in Listed, RequestClose(w)
       PROVE  WindowInv'
  BY <1>2, <1>4, <1>12 DEF RequestClose
<1>13. ASSUME NEW w \in Listed, Unavailable(w)
       PROVE  WindowInv'
  <2>1. StackOK' /\ FocusIsOnTop'
    BY <1>13, UnavailableStack DEF WindowInv
  <2> QED BY <1>13, <2>1 DEF WindowInv, Unavailable
<1>14. ASSUME NEW w \in Window \ opening, NEW how \in {"gone", "hidden", "raised"},
              TakePoll(w, how) \/ TakeMerge(w, how)
       PROVE  WindowInv'
  <2>1. Replaced(w, how)
    BY <1>14 DEF TakePoll, TakeMerge
  <2>2. StackOK' /\ FocusIsOnTop'
    BY <2>1, ReplacedStack DEF WindowInv
  <2>3. active' = active \/ active' \in SX!ToSet(windows')
    BY <1>14 DEF TakePoll, TakeMerge
  <2>4. SX!ToSet(windows') \subseteq Window
    BY <2>2, ListedAreWindows DEF StackOK
  <2> QED BY <2>2, <2>3, <2>4 DEF WindowInv
<1>15. CASE PointerDone \/ CancelClose
  BY <1>2, <1>15 DEF PointerDone, CancelClose
<1>16. CASE ConfirmClose
  BY <1>4, <1>16 DEF ConfirmClose
<1> QED BY <1>3, <1>5, <1>6, <1>7, <1>8, <1>9, <1>10, <1>11, <1>12, <1>13, <1>14, <1>15, <1>16
        DEF WindowsNext

(* Every step keeps the types of what is open. *)
LEMMA AnswersStep ==
    ASSUME WindowInv, AnswersOK, WindowsNext
    PROVE  AnswersOK'
<1>0. Listed \subseteq Window
  BY ListedAreWindows DEF WindowInv, StackOK, Listed
<1> USE DEF AnswersOK, Window
<1>1. ASSUME NEW w \in AppWindow, OpenWindow(w) \/ OpenDesktopApp(w)
      PROVE  AnswersOK'
  BY <1>1 DEF OpenWindow, OpenDesktopApp, guardVars
<1>2. ASSUME NEW w \in TerminalWindow, AskTerminal(w)
      PROVE  AnswersOK'
  BY <1>2 DEF AskTerminal, guardVars
<1>3. ASSUME NEW w \in opening, TerminalOpened(w) \/ TerminalRefused(w)
      PROVE  AnswersOK'
  BY <1>3 DEF TerminalOpened, TerminalRefused, guardVars
<1>4. ASSUME NEW w, MinimizeWindow(w) \/ RestoreWindow(w) \/ FocusWindow(w) \/ ToggleMaximize(w)
      PROVE  AnswersOK'
  BY <1>4 DEF MinimizeWindow, RestoreWindow, FocusWindow, ToggleMaximize, guardVars
<1>5. ASSUME NEW w, ActivateTaskbarWindow(w)
      PROVE  AnswersOK'
  BY <1>4, <1>5 DEF ActivateTaskbarWindow
<1>6. ASSUME NEW w \in Listed, BeginPointer(w)
      PROVE  AnswersOK'
  BY <1>0, <1>6 DEF BeginPointer, guardVars
<1>7. ASSUME NEW w, ReportGuard(w)
      PROVE  AnswersOK'
  BY <1>7 DEF ReportGuard, Guards
<1>8. ASSUME NEW w, CloseWindow(w)
      PROVE  AnswersOK'
  BY <1>8 DEF CloseWindow, Guards
<1>9. ASSUME NEW w, RequestClose(w)
      PROVE  AnswersOK'
  BY <1>8, <1>9 DEF RequestClose
<1>10. ASSUME NEW w, Unavailable(w)
       PROVE  AnswersOK'
  BY <1>10 DEF Unavailable, guardVars
<1>11. ASSUME NEW w, NEW how, TakePoll(w, how) \/ TakeMerge(w, how)
       PROVE  AnswersOK'
  <2>1. Replaced(w, how)
    BY <1>11 DEF TakePoll, TakeMerge
  <2> QED BY <2>1 DEF Replaced, Guards
<1>12. CASE PointerDone \/ ConfirmClose \/ CancelClose
  BY <1>8, <1>12 DEF PointerDone, ConfirmClose, CancelClose, guardVars
<1> QED BY <1>1, <1>2, <1>3, <1>4, <1>5, <1>6, <1>7, <1>9, <1>10, <1>11, <1>12 DEF WindowsNext

(* The invariant holds at first and in every step. *)
LEMMA WindowInvHolds == WindowsSpec => [](WindowInv /\ AnswersOK)
<1>1. WindowsInit => WindowInv /\ AnswersOK
  <2> SUFFICES ASSUME WindowsInit PROVE WindowInv /\ AnswersOK
    OBVIOUS
  <2>1. windows = <<>> /\ windows \in Seq(Window) /\ SX!IsInjective(windows)
    BY DEF WindowsInit, SX!IsInjective
  <2>2. \A j \in 1..Len(windows) : windows[j] \in minimized
    BY <2>1
  <2>3. TopVisible(windows, minimized) = NoWindow
    BY <2>1, <2>2, TopIsNone
  <2> QED BY <2>1, <2>3 DEF WindowsInit, WindowInv, AnswersOK, StackOK, FocusIsOnTop
<1>2. WindowInv /\ AnswersOK /\ [WindowsNext]_windowVars => (WindowInv /\ AnswersOK)'
  <2> SUFFICES ASSUME WindowInv, AnswersOK, [WindowsNext]_windowVars
               PROVE  (WindowInv /\ AnswersOK)'
    OBVIOUS
  <2>1. CASE WindowsNext
    BY <2>1, WindowStep, AnswersStep
  <2>2. CASE UNCHANGED windowVars
    BY <2>2 DEF windowVars, WindowInv, AnswersOK, StackOK, Listed, FocusIsOnTop
  <2> QED BY <2>1, <2>2
<1> QED BY <1>1, <1>2, PTL DEF WindowsSpec

(* Every variable of the window manager has its type, and no window is listed twice. *)
THEOREM WindowsHaveTheirTypes == WindowsSpec => []WindowsTypeOK
<1>1. WindowInv /\ AnswersOK => WindowsTypeOK
  BY DEF WindowInv, AnswersOK, StackOK, WindowsTypeOK
<1> QED BY <1>1, WindowInvHolds, PTL

(* The focus is on the topmost visible window, for any number of windows. *)
THEOREM FocusStaysOnTop == WindowsSpec => []FocusIsOnTop
<1>1. WindowInv /\ AnswersOK => FocusIsOnTop
  BY DEF WindowInv
<1> QED BY <1>1, WindowInvHolds, PTL

--------------------------------------------------------------------------------
(* TerminalStream: the types. *)

(* What a page sends. *)
Request == [kind : {"redraw", "resize"}, size : Size, seq : Nat]

(* The constants have the types of what they stand for. *)
LEMMA TerminalConstants ==
    /\ Blank \in Frame /\ NoMessage \in Message /\ NoDesire \in Desire
    /\ Redraw \in Request /\ \A z \in Size, n \in Nat : Resize(z, n) \in Request
    /\ 0 \in PaneText /\ Mixed \notin PaneText
<1>1. Blank.size \in Size
  BY TerminalAssumption DEF TerminalAssumption, Blank
<1>2. 0 \in PaneText /\ Mixed \notin PaneText
  BY TerminalAssumption DEF TerminalAssumption, PaneText, Mixed
<1>3. Blank \in Frame
  BY <1>1, <1>2 DEF Blank, Frame
<1> QED BY <1>1, <1>2, <1>3 DEF NoMessage, Message, NoDesire, Desire, Redraw, Request, Resize

(* Where a goroutine of the worker may be. *)
Stage == {"idle", "measure", "measured only", "capture", "build", "send", "resize"}

(* The types in parts, by those who write the variables: the worker ... *)
WorkerOK ==
    /\ pane \in Frame /\ sessionSize \in Size /\ resizeSeq \in Nat
    /\ rendered \in [rev : Nat, frame : Frame]
    /\ streamDirty \in BOOLEAN /\ due \in BOOLEAN
    /\ captured \in [Job -> Frame] /\ built \in [Job -> Message]

(* ... its goroutines ... *)
GoroutinesOK ==
    /\ captureStage \in [Job -> Stage]
    /\ refreshers \subseteq {b \in Background : captureStage[b] # "idle"}

(* ... the connections ... *)
SocketsOK ==
    /\ subscriber \in [Page -> {"none", "attached", "reading", "gone"}]
    /\ inbox \in [Page -> Seq(Message)] /\ outbox \in [Page -> Seq(Request)]
    /\ sock \in [Page -> {"none", "connecting", "open", "closed"}]

(* ... the pages ... *)
ScreensOK ==
    /\ pageBox \in [Page -> Size] /\ dims \in [Page -> Size]
    /\ desired \in [Page -> Desire]
    /\ pageSeq \in [Page -> Nat] /\ revision \in [Page -> Nat]
    /\ shown \in [Page -> PaneText \cup {Mixed}]
    /\ redrawDue \in [Page -> BOOLEAN]

(* ... and the bounds. *)
CountsOK ==
    /\ outputs \in 0..MaxOutput /\ resizes \in 0..MaxResizes
    /\ pageLoads \in 0..MaxPageLoads /\ captureFailures \in 0..MaxCaptureFailures

(* Together the parts are the type invariant. *)
LEMMA TypeParts ==
    TerminalTypeOK <=> WorkerOK /\ GoroutinesOK /\ SocketsOK /\ ScreensOK /\ CountsOK
  BY DEF TerminalTypeOK, WorkerOK, GoroutinesOK, SocketsOK, ScreensOK, CountsOK, Stage, Request

(* A goroutine that goes on is at one of its stages. *)
LEMMA ProceedType ==
    ASSUME GoroutinesOK, NEW j \in Job, NEW where \in Stage, Proceed(j, where)
    PROVE  GoroutinesOK'
  BY DEF GoroutinesOK, Proceed, Stage, Job

(* What one message becomes on its way. *)
LEMMA SeqSet ==
    ASSUME NEW m \in Message, NEW n \in Nat
    PROVE  LET m2 == [m EXCEPT !.seq = n]
           IN /\ m2 \in Message /\ m2.kind = m.kind /\ m2.base = m.base /\ m2.rev = m.rev
              /\ m2.frame = m.frame /\ m2.seq = n
  BY DEF Message

(* A frame that differs from the last one has the next revision. *)
LEMMA RevisedFrame ==
    ASSUME WorkerOK, NEW f \in Frame
    PROVE  LET c == Revised(rendered, f)
           IN /\ c \in [rev : Nat, frame : Frame] /\ c.rev > 0 /\ c.frame = f
              /\ \/ c = rendered
                 \/ c.rev = rendered.rev + 1
  BY DEF WorkerOK, Revised

(* A message carries the frame that was captured, as a patch of the last revision if it
   is one. *)
LEMMA BuiltMessage ==
    ASSUME WorkerOK, NEW f \in Frame, NEW force \in BOOLEAN,
           NEW m \in Built(rendered, Revised(rendered, f), force), m # NoMessage
    PROVE  LET c == Revised(rendered, f)
           IN /\ m \in Message /\ m.rev = c.rev /\ m.frame = c.frame
              /\ m.kind = "patch" =>
                    /\ c.rev = rendered.rev + 1 /\ rendered.rev > 0 /\ m.base = rendered.rev
                    /\ c.frame.size = rendered.frame.size
<1> DEFINE c == Revised(rendered, f)
<1>1. /\ c \in [rev : Nat, frame : Frame] /\ c.rev > 0
      /\ \/ c = rendered
         \/ c.rev = rendered.rev + 1
  BY RevisedFrame
<1>2. rendered \in [rev : Nat, frame : Frame]
  BY DEF WorkerOK
<1> HIDE DEF c
<1>3. m \in Built(rendered, c, force)
  BY DEF c
<1>4. CASE m = FullFrame(c)
  BY <1>1, <1>4 DEF FullFrame, Message, c
<1>5. CASE m # FullFrame(c)
  <2>1. m = RowPatch(c) /\ rendered.rev # 0 /\ c # rendered
        /\ rendered.frame.size = c.frame.size
    BY <1>3, <1>5 DEF Built
  <2>2. c.rev = rendered.rev + 1 /\ rendered.rev > 0 /\ c.rev - 1 = rendered.rev
    BY <1>1, <1>2, <2>1
  <2> QED BY <1>1, <1>2, <2>1, <2>2 DEF RowPatch, Message, c
<1> QED BY <1>4, <1>5

(* All of them. *)
Parts == WorkerOK /\ GoroutinesOK /\ SocketsOK /\ ScreensOK /\ CountsOK

(* The steps of the worker keep the types. *)
LEMMA CaptureTypes ==
    ASSUME Parts, TerminalNext,
           \/ PaneWrites
           \/ \E b \in Background : RefreshStart(b) \/ SyncStart(b)
           \/ \E j \in Job : Capturing(j) \/ CapturePaneFails(j)
    PROVE  Parts'
<1> USE DEF Parts, Job, render, tmux, socket, pageScreen, terminalCounts
<1>1. CASE PaneWrites
  <2>1. PICK text \in {0, outputs + 1} : pane' = [pane EXCEPT !.text = text]
    BY <1>1 DEF PaneWrites
  <2>2. outputs' \in 0..MaxOutput /\ text \in PaneText
    BY <1>1, TerminalAssumption DEF PaneWrites, CountsOK, TerminalAssumption, PaneText
  <2>3. pane' \in Frame
    BY <2>1, <2>2 DEF Frame, WorkerOK
  <2>4. CountsOK'
    BY <1>1, <2>2 DEF PaneWrites, CountsOK
  <2>5. WorkerOK'
    BY <1>1, <2>3 DEF PaneWrites, WorkerOK
  <2> QED BY <1>1, <2>4, <2>5 DEF PaneWrites, GoroutinesOK, SocketsOK, ScreensOK
<1>2. ASSUME NEW b \in Background, RefreshStart(b)
      PROVE  Parts'
  <2>1. GoroutinesOK'
    BY <1>2 DEF RefreshStart, GoroutinesOK, Stage
  <2> QED BY <1>2, <2>1 DEF RefreshStart, WorkerOK, SocketsOK, ScreensOK, CountsOK
<1>3. ASSUME NEW b \in Background, SyncStart(b)
      PROVE  Parts'
  <2>1. GoroutinesOK'
    BY <1>3, ProceedType DEF SyncStart, Stage
  <2> QED BY <1>3, <2>1 DEF SyncStart, WorkerOK, SocketsOK, ScreensOK, CountsOK
<1>4. ASSUME NEW j \in Job, MeasurePane(j)
      PROVE  Parts'
  <2>1. GoroutinesOK'
    BY <1>4, ProceedType DEF MeasurePane, Stage
  <2>2. pane.size \in Size
    BY DEF WorkerOK, Frame
  <2> QED BY <1>4, <2>1, <2>2 DEF MeasurePane, WorkerOK, SocketsOK, ScreensOK, CountsOK
<1>5. ASSUME NEW j \in Job, CapturePane(j)
      PROVE  Parts'
  <2>1. GoroutinesOK'
    BY <1>5, ProceedType DEF CapturePane, Stage
  <2>2. [size |-> sessionSize, text |-> pane.text] \in Frame
    BY DEF WorkerOK, Frame
  <2> QED BY <1>5, <2>1, <2>2 DEF CapturePane, WorkerOK, SocketsOK, ScreensOK, CountsOK
<1>6. ASSUME NEW j \in Job, CapturePaneFails(j)
      PROVE  Parts'
  <2>1. GoroutinesOK'
    BY <1>6, ProceedType DEF CapturePaneFails, Stage
  <2>2. captureFailures' \in 0..MaxCaptureFailures
    BY <1>6, TerminalAssumption DEF CapturePaneFails, TerminalAssumption, CountsOK
  <2> QED BY <1>6, <2>1, <2>2 DEF CapturePaneFails, WorkerOK, SocketsOK, ScreensOK, CountsOK
<1>7. ASSUME NEW j \in Job, BuildMessage(j)
      PROVE  Parts'
  <2>1. PICK m \in Built(rendered, rendered', j \notin refreshers) :
           /\ built' = [built EXCEPT ![j] = m]
           /\ Proceed(j, IF m = NoMessage THEN "idle" ELSE "send")
    BY <1>7 DEF BuildMessage
  <2>2. GoroutinesOK'
    BY <2>1, ProceedType DEF Stage
  <2>3. captured[j] \in Frame /\ rendered' = Revised(rendered, captured[j])
    BY <1>7 DEF WorkerOK, BuildMessage
  <2>4. m \in Message
    BY <2>1, <2>3, BuiltMessage, TerminalConstants
  <2>5. rendered' \in [rev : Nat, frame : Frame]
    BY <2>3, RevisedFrame
  <2>6. WorkerOK'
    BY <1>7, <2>1, <2>4, <2>5, TerminalConstants DEF BuildMessage, WorkerOK
  <2> QED BY <1>7, <2>2, <2>6 DEF BuildMessage, SocketsOK, ScreensOK, CountsOK
<1>8. ASSUME NEW j \in Job, Broadcast(j)
      PROVE  Parts'
  <2> DEFINE m == [built[j] EXCEPT !.seq = resizeSeq]
  <2>1. GoroutinesOK'
    BY <1>8, ProceedType DEF Broadcast, Stage
  <2>2. m \in Message
    BY SeqSet DEF WorkerOK
  <2>3. \A p \in Page : inbox'[p] = inbox[p] \/ inbox'[p] = Append(inbox[p], m)
    BY <1>8 DEF Broadcast
  <2>4. inbox' = [p \in Page |-> inbox'[p]]
    BY <1>8 DEF Broadcast
  <2> HIDE DEF m
  <2>5. ASSUME NEW p \in Page
        PROVE  inbox'[p] \in Seq(Message)
    <3>1. inbox[p] \in Seq(Message)
      BY DEF SocketsOK
    <3>2. Append(inbox[p], m) \in Seq(Message)
      BY <2>2, <3>1
    <3> QED BY <2>3, <3>1, <3>2
  <2>6. inbox' \in [Page -> Seq(Message)]
    BY <2>4, <2>5
  <2>7. SocketsOK'
    BY <1>8, <2>6 DEF Broadcast, SocketsOK
  <2>8. WorkerOK'
    BY <1>8, TerminalConstants DEF Broadcast, WorkerOK
  <2> QED BY <1>8, <2>1, <2>7, <2>8 DEF Broadcast, ScreensOK, CountsOK
<1> QED BY <1>1, <1>2, <1>3, <1>4, <1>5, <1>6, <1>7, <1>8 DEF Capturing

(* So do the steps of the connections ... *)
LEMMA SocketTypes ==
    ASSUME Parts, NEW p \in Page, Serving(p)
    PROVE  Parts'
<1> USE DEF Parts, Job, render, tmux, socket, pageScreen, terminalCounts
<1>1. CASE Attach(p)
  <2>1. GoroutinesOK'
    BY <1>1, ProceedType DEF Attach, Stage
  <2> QED BY <1>1, <2>1 DEF Attach, WorkerOK, SocketsOK, ScreensOK, CountsOK
<1>2. CASE WriteInitial(p)
  <2>1. GoroutinesOK'
    BY <1>2, ProceedType DEF WriteInitial, Stage
  <2>2. built[p] \in Message /\ inbox[p] \in Seq(Message)
    BY DEF WorkerOK, SocketsOK
  <2>3. <<built[p]>> \o inbox[p] \in Seq(Message)
    BY <2>2
  <2>4. SocketsOK'
    BY <1>2, <2>3 DEF WriteInitial, SocketsOK
  <2>5. WorkerOK'
    BY <1>2, TerminalConstants DEF WriteInitial, WorkerOK
  <2> QED BY <1>2, <2>1, <2>4, <2>5 DEF WriteInitial, ScreensOK, CountsOK
<1>3. CASE Serve(p)
  <2> DEFINE m == Head(outbox[p])
  <2>1. m \in Request /\ Tail(outbox[p]) \in Seq(Request)
    BY <1>3 DEF Serve, SocketsOK
  <2>2. SocketsOK'
    BY <1>3, <2>1 DEF Serve, SocketsOK
  <2>3. m.size \in Size /\ m.seq \in Nat
    BY <2>1 DEF Request
  <2>4. \/ Proceed(p, "measure") /\ sessionSize' = sessionSize /\ resizeSeq' = resizeSeq
        \/ /\ Proceed(p, "resize") /\ sessionSize' = m.size
           /\ resizeSeq' \in {m.seq, resizeSeq}
    BY <1>3 DEF Serve
  <2>5. GoroutinesOK'
    BY <2>4, ProceedType DEF Stage
  <2> HIDE DEF m
  <2>6. WorkerOK'
    BY <1>3, <2>3, <2>4 DEF Serve, WorkerOK
  <2> QED BY <1>3, <2>2, <2>5, <2>6 DEF Serve, ScreensOK, CountsOK
<1>4. CASE ResizePane(p)
  <2>1. GoroutinesOK'
    BY <1>4, ProceedType DEF ResizePane, Stage
  <2>2. pane' \in Frame
    BY <1>4 DEF ResizePane, WorkerOK, Frame
  <2> QED BY <1>4, <2>1, <2>2 DEF ResizePane, WorkerOK, SocketsOK, ScreensOK, CountsOK
<1>5. CASE Detach(p)
  <2>1. SocketsOK'
    BY <1>5 DEF Detach, SocketsOK
  <2> QED BY <1>5, <2>1 DEF Detach, WorkerOK, GoroutinesOK, ScreensOK, CountsOK
<1>6. CASE Hangup(p)
  BY <1>6 DEF Hangup, WorkerOK, GoroutinesOK, SocketsOK, ScreensOK, CountsOK
<1> QED BY <1>1, <1>2, <1>3, <1>4, <1>5, <1>6 DEF Serving

(* ... a request that is sent ... *)
LEMMA SendType ==
    ASSUME SocketsOK, NEW p \in Page, NEW m \in Request, Send(p, m)
    PROVE  outbox' \in [Page -> Seq(Request)]
<1>1. Append(outbox[p], m) \in Seq(Request)
  BY DEF SocketsOK
<1> QED BY <1>1 DEF Send, SocketsOK

(* ... a size that is wanted ... *)
LEMMA WantsType ==
    ASSUME ScreensOK, NEW p \in Page, NEW z \in Size, Wants(p, z)
    PROVE  /\ desired' \in [Page -> Desire] /\ pageSeq' \in [Page -> Nat]
           /\ redrawDue' \in [Page -> BOOLEAN] /\ dims' \in [Page -> Size]
           /\ shown' \in [Page -> PaneText \cup {Mixed}]
<1>1. Desired(p, z) \in Desire
  BY DEF Desired, Desire, ScreensOK
<1> QED BY <1>1 DEF Wants, ScreensOK

(* ... and the steps of a page. *)
LEMMA PageTypes ==
    ASSUME Parts, NEW p \in Page, PageStep(p)
    PROVE  Parts'
<1> USE DEF Parts, render, tmux, socket, pageScreen, terminalCounts
<1>0. pageBox[p] \in Size /\ pageSeq[p] + 1 \in Nat
  BY DEF ScreensOK
<1>1. CASE LoadPage(p)
  <2>1. ScreensOK'
    BY <1>1, TerminalConstants DEF LoadPage, ScreensOK
  <2>2. pageLoads' \in 0..MaxPageLoads
    BY <1>1, TerminalAssumption DEF LoadPage, TerminalAssumption, CountsOK
  <2> QED BY <1>1, <2>1, <2>2 DEF LoadPage, WorkerOK, GoroutinesOK, SocketsOK, CountsOK
<1>2. CASE Opened(p)
  <2>1. ScreensOK'
    BY <1>0, <1>2, WantsType DEF Opened, ScreensOK
  <2>2. outbox' \in [Page -> Seq(Request)]
    BY <1>0, <1>2, SendType, TerminalConstants DEF Opened
  <2>3. SocketsOK'
    BY <1>2, <2>2 DEF Opened, SocketsOK
  <2> QED BY <1>2, <2>1, <2>3 DEF Opened, WorkerOK, GoroutinesOK, CountsOK
<1>3. CASE ResizeWindow(p)
  <2>1. resizes' \in 0..MaxResizes
    BY <1>3, TerminalAssumption DEF ResizeWindow, TerminalAssumption, CountsOK
  <2>2. ScreensOK'
    BY <1>3 DEF ResizeWindow, ScreensOK
  <2> QED BY <1>3, <2>1, <2>2 DEF ResizeWindow, WorkerOK, GoroutinesOK, SocketsOK, CountsOK
<1>4. CASE FitPage(p)
  <2>1. ScreensOK'
    BY <1>0, <1>4, WantsType DEF FitPage, ScreensOK
  <2>2. outbox' \in [Page -> Seq(Request)]
    BY <1>0, <1>4, SendType, TerminalConstants DEF FitPage, SocketsOK
  <2>3. SocketsOK'
    BY <1>4, <2>2 DEF FitPage, SocketsOK
  <2> QED BY <1>4, <2>1, <2>3 DEF FitPage, WorkerOK, GoroutinesOK, CountsOK
<1>5. CASE RedrawTimer(p)
  <2>1. outbox' \in [Page -> Seq(Request)]
    BY <1>5, SendType, TerminalConstants DEF RedrawTimer, SocketsOK
  <2>2. SocketsOK'
    BY <1>5, <2>1 DEF RedrawTimer, SocketsOK
  <2> QED BY <1>5, <2>2 DEF RedrawTimer, WorkerOK, GoroutinesOK, ScreensOK, CountsOK
<1>6. CASE Expire(p)
  <2>1. desired' \in [Page -> Desire]
    BY <1>6 DEF Expire, ScreensOK, Desire
  <2> QED BY <1>6, <2>1 DEF Expire, WorkerOK, GoroutinesOK, SocketsOK, ScreensOK, CountsOK
<1>7. ASSUME NEW kind, Arrives(p, kind), outbox' \in [Page -> Seq(Request)]
      PROVE  WorkerOK' /\ GoroutinesOK' /\ SocketsOK' /\ CountsOK' /\ Arriving(p) \in Message
  <2>1. Head(inbox[p]) \in Message /\ Tail(inbox[p]) \in Seq(Message)
    BY <1>7 DEF Arrives, SocketsOK
  <2>2. SocketsOK'
    BY <1>7, <2>1 DEF Arrives, SocketsOK
  <2> QED BY <1>7, <2>1, <2>2 DEF Arrives, WorkerOK, GoroutinesOK, CountsOK, Arriving
<1>8. CASE RefuseFrame(p) \/ RefusePatch(p)
  <2>1. outbox' \in [Page -> Seq(Request)]
    BY <1>8, SendType, TerminalConstants DEF RefuseFrame, RefusePatch
  <2> QED BY <1>7, <1>8, <2>1 DEF RefuseFrame, RefusePatch, Arrives, ScreensOK
<1>9. CASE BlankFrame(p)
  <2>1. outbox' \in [Page -> Seq(Request)]
    BY <1>9, SendType, TerminalConstants DEF BlankFrame
  <2>2. Arrives(p, "full")
    BY <1>9 DEF BlankFrame
  <2>3. Arriving(p).frame.size \in Size
    BY <1>7, <2>1, <2>2 DEF Message, Frame
  <2>4. ScreensOK'
    BY <1>9, <2>2, <2>3 DEF BlankFrame, Arrives, ScreensOK
  <2> QED BY <1>7, <2>1, <2>2, <2>4
<1>10. CASE ShowFrame(p)
  <2>1. outbox' \in [Page -> Seq(Request)] /\ Arrives(p, "full")
    BY <1>10 DEF ShowFrame, SocketsOK
  <2>2. Arriving(p) \in Message
    BY <1>7, <2>1
  <2>3. Arriving(p).frame.size \in Size /\ Arriving(p).frame.text \in PaneText
        /\ Arriving(p).rev \in Nat
    BY <2>2 DEF Message, Frame
  <2> DEFINE d == IF desired[p].size = Arriving(p).frame.size THEN desired[p] ELSE NoDesire
  <2>4. Cleared(d, Arriving(p)) \in Desire
    BY TerminalConstants DEF Cleared, ScreensOK, Desire
  <2>5. /\ desired' = [desired EXCEPT ![p] = Cleared(d, Arriving(p))]
        /\ dims' = [dims EXCEPT ![p] = Arriving(p).frame.size]
        /\ revision' = [revision EXCEPT ![p] = Arriving(p).rev]
        /\ shown' = [shown EXCEPT ![p] = Arriving(p).frame.text]
    BY <1>10 DEF ShowFrame
  <2>6. pageBox' = pageBox /\ pageSeq' = pageSeq /\ redrawDue' = redrawDue
    BY <2>1 DEF Arrives
  <2> HIDE DEF Parts, d
  <2>7. ScreensOK'
    BY <2>3, <2>4, <2>5, <2>6 DEF ScreensOK, Parts
  <2> QED BY <1>7, <2>1, <2>7 DEF Parts
<1>11. CASE ShowPatch(p)
  <2>1. outbox' \in [Page -> Seq(Request)] /\ Arrives(p, "patch")
    BY <1>11 DEF ShowPatch, SocketsOK
  <2>2. Arriving(p) \in Message
    BY <1>7, <2>1
  <2>3. Patched(p, Arriving(p)) \in PaneText \cup {Mixed} /\ Arriving(p).rev \in Nat
    BY <2>2 DEF Message, Frame, Patched
  <2>4. ScreensOK'
    BY <1>11, <2>1, <2>3 DEF ShowPatch, Arrives, ScreensOK
  <2> QED BY <1>7, <2>1, <2>4
<1> QED BY <1>1, <1>2, <1>3, <1>4, <1>5, <1>6, <1>8, <1>9, <1>10, <1>11
        DEF PageStep, Receives

--------------------------------------------------------------------------------
(* Messages on their way. *)

(* The messages that were built and those that wait for a page. *)
InFlight ==
    {built[j] : j \in Job}
       \cup UNION {{inbox[p][i] : i \in 1..Len(inbox[p])} : p \in Page}

(* The same message, by all that a page tells it by. *)
Alike(m, n) == m.kind = n.kind /\ m.base = n.base /\ m.rev = n.rev /\ m.frame = n.frame

(* A message that is not new. *)
Known(m) == m = NoMessage \/ \E n \in InFlight : Alike(m, n)

(* Messages on their way are messages. *)
LEMMA Flying ==
    ASSUME Parts
    PROVE  /\ InFlight \subseteq Message
           /\ \A j \in Job : built[j] \in InFlight
           /\ \A p \in Page : \A i \in 1..Len(inbox[p]) : inbox[p][i] \in InFlight
<1>1. \A j \in Job : built[j] \in Message
  BY DEF Parts, WorkerOK
<1>2. \A p \in Page : \A i \in 1..Len(inbox[p]) : inbox[p][i] \in Message
  BY DEF Parts, SocketsOK
<1> QED BY <1>1, <1>2 DEF InFlight

(* Unless a goroutine builds one, no new message appears. *)
LEMMA NothingNewFlies ==
    ASSUME Parts,
           \A j \in Job : built'[j] \in {built[j], NoMessage},
           \A p \in Page : \A i \in 1..Len(inbox'[p]) : Known(inbox'[p][i])
    PROVE  \A m \in InFlight' : Known(m)
<1>1. \A j \in Job : Known(built'[j])
  BY Flying DEF Known, Alike
<1>2. ASSUME NEW m \in InFlight'
      PROVE  \/ \E j \in Job : m = built'[j]
             \/ \E p \in Page : \E i \in 1..Len(inbox'[p]) : m = inbox'[p][i]
  BY <1>2 DEF InFlight
<1> QED BY <1>1, <1>2

(* Nothing new is on its way where nothing was built or received. *)
LEMMA FlightKept ==
    ASSUME Parts, UNCHANGED <<built, inbox>>
    PROVE  \A m \in InFlight' : Known(m)
  BY DEF InFlight, Known, Alike

(* The one step that makes a message. *)
Builds == \E j \in Job : BuildMessage(j)

(* No other step does. *)
LEMMA FlightStep ==
    ASSUME Parts, TerminalNext, ~Builds
    PROVE  rendered' = rendered /\ \A m \in InFlight' : Known(m)
<1> USE DEF render, socket
<1>0. \A j \in Job : built[j] \in Message
  BY DEF Parts, WorkerOK
<1>1. ASSUME NEW j \in Job, Broadcast(j)
      PROVE  rendered' = rendered /\ \A m \in InFlight' : Known(m)
  <2> DEFINE m == [built[j] EXCEPT !.seq = resizeSeq]
  <2>1. Alike(m, built[j])
    BY <1>0, SeqSet DEF Alike, Parts, WorkerOK
  <2>2. \A k \in Job : built'[k] \in {built[k], NoMessage}
    BY <1>1 DEF Broadcast, Parts, WorkerOK
  <2>3. \A p \in Page : inbox'[p] = inbox[p] \/ inbox'[p] = Append(inbox[p], m)
    BY <1>1 DEF Broadcast
  <2> HIDE DEF m
  <2>4. Known(m)
    BY <2>1, Flying DEF Known
  <2>5. ASSUME NEW p \in Page, NEW i \in 1..Len(inbox'[p])
        PROVE  Known(inbox'[p][i])
    <3>1. inbox[p] \in Seq(Message)
      BY DEF Parts, SocketsOK
    <3>2. \/ inbox'[p][i] = m
          \/ i \in 1..Len(inbox[p]) /\ inbox'[p][i] = inbox[p][i]
      <4>1. CASE inbox'[p] = inbox[p]
        BY <4>1
      <4>2. CASE inbox'[p] = Append(inbox[p], m)
        BY <3>1, <4>2
      <4> QED BY <2>3, <4>1, <4>2
    <3> QED BY <2>4, <3>2, Flying DEF Known, Alike
  <2> QED BY <1>1, <2>2, <2>5, NothingNewFlies DEF Broadcast
<1>2. ASSUME NEW p \in Page, WriteInitial(p)
      PROVE  rendered' = rendered /\ \A m \in InFlight' : Known(m)
  <2>1. \A k \in Job : built'[k] \in {built[k], NoMessage}
    BY <1>2 DEF WriteInitial, Parts, WorkerOK
  <2>2. inbox' = [inbox EXCEPT ![p] = <<built[p]>> \o inbox[p]]
    BY <1>2 DEF WriteInitial
  <2>3. ASSUME NEW q \in Page, NEW i \in 1..Len(inbox'[q])
        PROVE  inbox'[q][i] \in InFlight
    <3>1. inbox[q] \in Seq(Message) /\ inbox \in [Page -> Seq(Message)]
      BY DEF Parts, SocketsOK
    <3>2. CASE q = p
      <4>1. inbox'[q] = <<built[q]>> \o inbox[q] /\ built[q] \in Message
        BY <1>0, <2>2, <3>1, <3>2 DEF Job
      <4>2. \/ inbox'[q][i] = built[q]
            \/ i - 1 \in 1..Len(inbox[q]) /\ inbox'[q][i] = inbox[q][i - 1]
        BY <3>1, <4>1
      <4> QED BY <4>2, Flying DEF Job
    <3>3. CASE q # p
      <4>1. inbox'[q] = inbox[q]
        BY <2>2, <3>1, <3>3
      <4> QED BY <4>1, Flying
    <3> QED BY <3>2, <3>3
  <2> QED BY <1>2, <2>1, <2>3, NothingNewFlies DEF WriteInitial, Known, Alike
<1>3. ASSUME NEW p \in Page, inbox' = [inbox EXCEPT ![p] = <<>>], built' = built
      PROVE  \A m \in InFlight' : Known(m)
  <2>1. \A q \in Page : \A i \in 1..Len(inbox'[q]) : inbox'[q][i] \in InFlight
    BY <1>3, Flying DEF Parts, SocketsOK
  <2> QED BY <1>3, <2>1, NothingNewFlies DEF Known, Alike
<1>4. ASSUME NEW p \in Page, NEW kind, Arrives(p, kind)
      PROVE  rendered' = rendered /\ \A m \in InFlight' : Known(m)
  <2>1. inbox' = [inbox EXCEPT ![p] = Tail(inbox[p])] /\ inbox[p] # <<>> /\ built' = built
    BY <1>4 DEF Arrives
  <2>2. ASSUME NEW q \in Page, NEW i \in 1..Len(inbox'[q])
        PROVE  inbox'[q][i] \in InFlight
    <3>1. inbox[q] \in Seq(Message) /\ inbox \in [Page -> Seq(Message)]
      BY DEF Parts, SocketsOK
    <3>2. CASE q = p
      <4>1. inbox'[q] = Tail(inbox[q]) /\ inbox[q] # <<>>
        BY <2>1, <3>1, <3>2
      <4>2. i + 1 \in 1..Len(inbox[q]) /\ inbox'[q][i] = inbox[q][i + 1]
        BY <3>1, <4>1
      <4> QED BY <4>2, Flying
    <3>3. CASE q # p
      <4>1. inbox'[q] = inbox[q]
        BY <2>1, <3>1, <3>3
      <4> QED BY <4>1, Flying
    <3> QED BY <3>2, <3>3
  <2> QED BY <1>4, <2>1, <2>2, NothingNewFlies DEF Arrives, Known, Alike
<1>5. ASSUME NEW p \in Page, Receives(p)
      PROVE  rendered' = rendered /\ \A m \in InFlight' : Known(m)
  BY <1>4, <1>5 DEF Receives, RefuseFrame, BlankFrame, ShowFrame, RefusePatch, ShowPatch
<1>6. ASSUME NEW p \in Page, PageStep(p), ~Receives(p)
      PROVE  rendered' = rendered /\ \A m \in InFlight' : Known(m)
  BY <1>6, FlightKept DEF PageStep, LoadPage, Opened, ResizeWindow, FitPage, RedrawTimer, Expire
<1>7. ASSUME NEW p \in Page, Serving(p)
      PROVE  rendered' = rendered /\ \A m \in InFlight' : Known(m)
  <2>1. CASE Attach(p) \/ Serve(p) \/ ResizePane(p) \/ Hangup(p)
    BY <2>1, FlightKept DEF Attach, Serve, ResizePane, Hangup
  <2>2. CASE Detach(p)
    BY <1>3, <2>2 DEF Detach
  <2> QED BY <1>2, <1>7, <2>1, <2>2 DEF Serving
<1>8. CASE PaneWrites
  BY <1>8, FlightKept DEF PaneWrites
<1>9. ASSUME NEW b \in Background, RefreshStart(b) \/ SyncStart(b)
      PROVE  rendered' = rendered /\ \A m \in InFlight' : Known(m)
  BY <1>9, FlightKept DEF RefreshStart, SyncStart
<1>10. ASSUME NEW j \in Job, MeasurePane(j) \/ CapturePane(j) \/ CapturePaneFails(j)
       PROVE  rendered' = rendered /\ \A m \in InFlight' : Known(m)
  BY <1>10, FlightKept DEF MeasurePane, CapturePane, CapturePaneFails
<1> QED BY <1>1, <1>5, <1>6, <1>7, <1>8, <1>9, <1>10 DEF TerminalNext, Capturing, Builds

--------------------------------------------------------------------------------
(* The invariant: what the messages on their way say of the revisions. *)

(* No message is ahead of the renderer, and one that is level with it carries
   its frame. *)
FramesOfRevision ==
    \A m \in InFlight :
       /\ m.rev <= rendered.rev
       /\ m.rev > 0 /\ m.rev = rendered.rev => m.frame = rendered.frame

(* A patch leads from one revision to the next ... *)
PatchesFollow == \A m \in InFlight : m.kind = "patch" => m.base > 0 /\ m.rev = m.base + 1

(* ... and keeps the size of the revision that it starts from. *)
PatchesFit ==
    \A m, n \in InFlight : n.kind = "patch" /\ n.base = m.rev => n.frame.size = m.frame.size

(* The same of a page: it is not ahead, it shows what it says, and while it waits for
   no size, every patch that it may take has the size of its xterm. *)
PageFollows(p) ==
    /\ revision[p] <= rendered.rev
    /\ revision[p] = rendered.rev /\ rendered.rev > 0 /\ shown[p] # Mixed =>
          shown[p] = rendered.frame.text
    /\ desired[p] = NoDesire =>
          /\ shown[p] # Mixed
          /\ revision[p] = rendered.rev /\ rendered.rev > 0 => dims[p] = rendered.frame.size
          /\ \A m \in InFlight :
                m.kind = "patch" /\ m.base = revision[p] => m.frame.size = dims[p]

Streams == FramesOfRevision /\ PatchesFollow /\ PatchesFit
StreamInv == Parts /\ Streams /\ \A p \in Page : PageFollows(p)

(* The empty message is no patch and has no revision. *)
LEMMA NoMessageFields ==
    NoMessage.kind = "none" /\ NoMessage.base = 0 /\ NoMessage.rev = 0
  BY DEF NoMessage

(* Messages that were on their way before keep all this. *)
LEMMA StreamsKept ==
    ASSUME StreamInv, rendered' = rendered, \A m \in InFlight' : Known(m)
    PROVE  Streams'
<1>0. rendered.rev \in Nat /\ InFlight \subseteq Message
  BY Flying DEF StreamInv, Parts, WorkerOK
<1>1. FramesOfRevision'
  BY <1>0, NoMessageFields DEF StreamInv, Streams, FramesOfRevision, Known, Alike
<1>2. PatchesFollow'
  BY NoMessageFields DEF StreamInv, Streams, PatchesFollow, Known, Alike
<1>3. ASSUME NEW m \in InFlight', NEW n \in InFlight', n.kind = "patch", n.base = m.rev
      PROVE  n.frame.size = m.frame.size
  <2>1. PICK n2 \in InFlight : Alike(n, n2)
    BY <1>3, NoMessageFields DEF Known
  <2>2. n2.kind = "patch" /\ n2.base > 0 /\ n2.base = m.rev
    BY <1>3, <2>1 DEF Alike, StreamInv, Streams, PatchesFollow
  <2>3. m # NoMessage
    BY <2>2, NoMessageFields
  <2>4. PICK m2 \in InFlight : Alike(m, m2)
    BY <2>3 DEF Known
  <2> QED BY <2>1, <2>2, <2>4 DEF Alike, StreamInv, Streams, PatchesFit
<1> QED BY <1>1, <1>2, <1>3 DEF Streams, PatchesFit

(* A page whose revision stays keeps its part, whatever it is waiting for. *)
LEMMA PageKept ==
    ASSUME StreamInv, rendered' = rendered, \A m \in InFlight' : Known(m),
           NEW p \in Page, revision'[p] = revision[p],
           shown'[p] \in {shown[p], Mixed},
           \/ desired'[p] # NoDesire
           \/ desired'[p] = desired[p] /\ dims'[p] = dims[p] /\ shown'[p] = shown[p]
    PROVE  PageFollows(p)'
<1>1. PageFollows(p)
  BY DEF StreamInv
<1>2. CASE desired'[p] # NoDesire
  BY <1>1, <1>2 DEF PageFollows
<1>3. CASE desired'[p] = NoDesire
  <2>1. desired[p] = NoDesire /\ dims'[p] = dims[p] /\ shown'[p] = shown[p]
    BY <1>3
  <2>2. \A m \in InFlight' :
           m.kind = "patch" /\ m.base = revision[p] => m.frame.size = dims[p]
    BY <1>1, <2>1, NoMessageFields DEF PageFollows, Known, Alike
  <2> QED BY <1>1, <2>1, <2>2 DEF PageFollows
<1> QED BY <1>2, <1>3

(* A page that has just taken the frame of a message follows. *)
LEMMA PageTakes ==
    ASSUME StreamInv, rendered' = rendered, \A m \in InFlight' : Known(m),
           NEW p \in Page, NEW m \in InFlight,
           revision'[p] = m.rev, shown'[p] = m.frame.text, dims'[p] = m.frame.size
    PROVE  PageFollows(p)'
<1>1. /\ m.rev <= rendered.rev
      /\ m.rev > 0 /\ m.rev = rendered.rev => m.frame = rendered.frame
  BY DEF StreamInv, Streams, FramesOfRevision
<1>2. m.frame.text \in PaneText
  BY Flying DEF StreamInv, Message, Frame
<1>3. ASSUME NEW n \in InFlight', n.kind = "patch", n.base = m.rev
      PROVE  n.frame.size = m.frame.size
  <2>1. PICK n2 \in InFlight : Alike(n, n2)
    BY <1>3, NoMessageFields DEF Known
  <2> QED BY <1>3, <2>1 DEF Alike, StreamInv, Streams, PatchesFit
<1> QED BY <1>1, <1>2, <1>3, TerminalConstants DEF PageFollows

(* Steps that make no message keep the page in order. *)
LEMMA PageFollowsStep ==
    ASSUME StreamInv, TerminalNext, ~Builds, NEW p \in Page
    PROVE  PageFollows(p)'
<1>0. rendered' = rendered /\ \A m \in InFlight' : Known(m)
  BY FlightStep DEF StreamInv
<1>1. ASSUME desired'[p] = desired[p], dims'[p] = dims[p], shown'[p] = shown[p],
             revision'[p] = revision[p]
      PROVE  PageFollows(p)'
  BY <1>0, <1>1, PageKept
<1>2. ASSUME NEW q \in Page \ {p}, PageStep(q)
      PROVE  PageFollows(p)'
  <2>1. desired'[p] = desired[p] /\ dims'[p] = dims[p] /\ shown'[p] = shown[p]
        /\ revision'[p] = revision[p]
    BY <1>2 DEF PageStep, LoadPage, Opened, ResizeWindow, FitPage, RedrawTimer, Expire, Receives,
       RefuseFrame, BlankFrame, ShowFrame, RefusePatch, ShowPatch, Wants, pageScreen, StreamInv,
       Parts, ScreensOK
  <2> QED BY <1>1, <2>1
<1>3. CASE UNCHANGED pageScreen
  BY <1>1, <1>3 DEF pageScreen
<1>4. ASSUME NEW z \in Size, Wants(p, z), revision' = revision
      PROVE  PageFollows(p)'
  <2>1. desired'[p] # NoDesire
    BY <1>4 DEF Wants, Desired, NoDesire, StreamInv, Parts, ScreensOK
  <2>2. shown'[p] \in {shown[p], Mixed}
    BY <1>4 DEF Wants, StreamInv, Parts, ScreensOK
  <2> QED BY <1>0, <1>4, <2>1, <2>2, PageKept
<1>5. CASE LoadPage(p)
  <2>1. revision'[p] = 0 /\ shown'[p] = 0 /\ desired'[p] = NoDesire
    BY <1>5 DEF LoadPage, StreamInv, Parts, ScreensOK
  <2>2. PatchesFollow'
    BY <1>0, StreamsKept DEF Streams
  <2>3. rendered.rev \in Nat /\ 0 # Mixed
    BY TerminalConstants DEF StreamInv, Parts, WorkerOK
  <2> QED BY <1>0, <2>1, <2>2, <2>3 DEF PageFollows, PatchesFollow
<1>6. CASE Opened(p) \/ FitPage(p)
  BY <1>4, <1>6 DEF Opened, FitPage, StreamInv, Parts, ScreensOK
<1>7. CASE ResizeWindow(p) \/ RedrawTimer(p)
  BY <1>3, <1>7 DEF ResizeWindow, RedrawTimer
<1>8. CASE Expire(p)
  <2>1. desired'[p] # NoDesire /\ revision' = revision /\ shown' = shown
    BY <1>8 DEF Expire, NoDesire, StreamInv, Parts, ScreensOK, Desire
  <2> QED BY <1>0, <2>1, PageKept
<1>9. CASE RefuseFrame(p) \/ RefusePatch(p)
  <2>1. UNCHANGED pageScreen
    BY <1>9 DEF RefuseFrame, RefusePatch, Arrives, pageScreen
  <2> QED BY <1>3, <2>1
<1>10. CASE BlankFrame(p)
  <2>1. desired'[p] # NoDesire /\ revision' = revision
    BY <1>10 DEF BlankFrame
  <2>2. shown'[p] \in {shown[p], Mixed}
    BY <1>10 DEF BlankFrame, StreamInv, Parts, ScreensOK
  <2> QED BY <1>0, <2>1, <2>2, PageKept
<1>11. ASSUME NEW kind, Arrives(p, kind)
       PROVE  Arriving(p) \in InFlight /\ Arriving(p).kind = kind
  <2>1. inbox[p] # <<>> /\ inbox[p] \in Seq(Message)
    BY <1>11 DEF Arrives, StreamInv, Parts, SocketsOK
  <2>2. 1 \in 1..Len(inbox[p]) /\ Head(inbox[p]) = inbox[p][1]
    BY <2>1
  <2> QED BY <1>11, <2>2, Flying DEF Arriving, Arrives, StreamInv
<1>12. CASE ShowFrame(p)
  <2>1. Arriving(p) \in InFlight /\ Arriving(p).kind = "full"
    BY <1>11, <1>12 DEF ShowFrame
  <2>2. /\ revision'[p] = Arriving(p).rev /\ shown'[p] = Arriving(p).frame.text
        /\ dims'[p] = Arriving(p).frame.size
    BY <1>12 DEF ShowFrame, StreamInv, Parts, ScreensOK
  <2> QED BY <1>0, <2>1, <2>2, PageTakes
<1>13. CASE ShowPatch(p)
  <2> DEFINE m == Arriving(p)
  <2>1. m \in InFlight /\ m.kind = "patch"
    BY <1>11, <1>13 DEF ShowPatch
  <2>2. /\ revision'[p] = m.rev /\ shown'[p] = Patched(p, m) /\ desired' = desired /\ dims' = dims
        /\ m.base = revision[p]
    BY <1>13 DEF ShowPatch, WrongBase, StreamInv, Parts, ScreensOK
  <2> HIDE DEF m
  <2>3. m.rev = m.base + 1 /\ m.base > 0
    BY <2>1 DEF StreamInv, Streams, PatchesFollow
  <2>4. CASE desired[p] = NoDesire
    <3>1. dims[p] = m.frame.size /\ shown[p] # Mixed
      BY <2>1, <2>2, <2>4 DEF StreamInv, PageFollows
    <3>2. shown'[p] = m.frame.text /\ dims'[p] = m.frame.size
      BY <2>2, <3>1 DEF Patched
    <3> QED BY <1>0, <2>1, <2>2, <2>3, <3>2, PageTakes
  <2>5. CASE desired[p] # NoDesire
    <3>1. shown'[p] = Mixed \/ shown'[p] = m.frame.text
      BY <2>2 DEF Patched
    <3>2. /\ m.rev <= rendered.rev
          /\ m.rev > 0 /\ m.rev = rendered.rev => m.frame = rendered.frame
      BY <2>1 DEF StreamInv, Streams, FramesOfRevision
    <3> QED BY <1>0, <2>2, <2>5, <3>1, <3>2 DEF PageFollows
  <2> QED BY <2>4, <2>5
<1>14. CASE PageStep(p)
  BY <1>5, <1>6, <1>7, <1>8, <1>9, <1>10, <1>12, <1>13, <1>14 DEF PageStep, Receives
<1>15. CASE UNCHANGED pageScreen \/ \E q \in Page : PageStep(q)
  BY <1>2, <1>3, <1>14, <1>15
<1>16. UNCHANGED pageScreen \/ \E q \in Page : PageStep(q)
  BY DEF TerminalNext, PaneWrites, RefreshStart, SyncStart, Capturing, MeasurePane, CapturePane,
     BuildMessage, Broadcast, CapturePaneFails, Serving, Attach, WriteInitial, Serve, ResizePane,
     Detach, Hangup
<1> QED BY <1>15, <1>16

(* A message that is built is either about the cached revision or about the next one,
   which nobody has seen. *)
LEMMA BuildStep ==
    ASSUME StreamInv, NEW j \in Job, BuildMessage(j)
    PROVE  Streams' /\ \A p \in Page : PageFollows(p)'
<1>1. PICK m \in Built(rendered, rendered', j \notin refreshers) :
         built' = [built EXCEPT ![j] = m]
  BY DEF BuildMessage
<1>2. captured[j] \in Frame /\ rendered' = Revised(rendered, captured[j])
  BY DEF StreamInv, Parts, WorkerOK, BuildMessage
<1>3. /\ rendered.rev \in Nat /\ rendered'.rev \in Nat
      /\ \/ rendered' = rendered
         \/ rendered'.rev = rendered.rev + 1
  BY <1>2, RevisedFrame DEF StreamInv, Parts, WorkerOK
<1>4. \/ m = NoMessage
      \/ /\ m \in Message /\ m.rev = rendered'.rev /\ m.frame = rendered'.frame
         /\ m.kind = "patch" =>
               /\ rendered'.rev = rendered.rev + 1 /\ rendered.rev > 0 /\ m.base = rendered.rev
               /\ rendered'.frame.size = rendered.frame.size
  BY <1>1, <1>2, BuiltMessage DEF StreamInv, Parts
<1>5. UNCHANGED pageScreen /\ UNCHANGED inbox
  BY DEF BuildMessage, socket
<1>6. \A n \in InFlight' : n \in InFlight \/ n = m
  BY <1>1, <1>5 DEF InFlight, StreamInv, Parts, WorkerOK
<1>7. \A n \in InFlight : n \in Message /\ n.rev \in Nat /\ n.base \in Nat
  BY Flying DEF StreamInv, Message
<1>8. FramesOfRevision'
  BY <1>3, <1>4, <1>6, <1>7, NoMessageFields DEF StreamInv, Streams, FramesOfRevision
<1>9. PatchesFollow'
  BY <1>3, <1>4, <1>6, <1>7, NoMessageFields DEF StreamInv, Streams, PatchesFollow
<1>10. ASSUME NEW k \in InFlight', NEW n \in InFlight', n.kind = "patch", n.base = k.rev
       PROVE  n.frame.size = k.frame.size
  <2>1. n.rev = n.base + 1 /\ n.base > 0
    BY <1>9, <1>10 DEF PatchesFollow
  <2>2. CASE k \in InFlight /\ n \in InFlight
    BY <1>10, <2>2 DEF StreamInv, Streams, PatchesFit
  <2>3. CASE k \in InFlight /\ n = m /\ m # NoMessage
    BY <1>3, <1>4, <1>7, <1>10, <2>1, <2>3 DEF StreamInv, Streams, FramesOfRevision
  <2>4. CASE n \in InFlight /\ k = m /\ m # NoMessage
    <3>1. n.rev <= rendered.rev /\ n.base = rendered'.rev /\ n.base \in Nat
      BY <1>4, <1>7, <1>10, <2>4 DEF StreamInv, Streams, FramesOfRevision
    <3> QED BY <1>3, <2>1, <3>1
  <2>5. CASE n = m /\ k = m /\ m # NoMessage
    <3>1. m.base \in Nat /\ m.rev = m.base
      BY <1>4, <1>10, <2>5 DEF Message
    <3> QED BY <2>1, <2>5, <3>1
  <2>6. n # NoMessage /\ (k # NoMessage)
    BY <1>10, <2>1, NoMessageFields
  <2> QED BY <1>6, <2>2, <2>3, <2>4, <2>5, <2>6
<1>11. ASSUME NEW p \in Page
       PROVE  PageFollows(p)'
  <2>1. /\ revision'[p] = revision[p] /\ shown'[p] = shown[p] /\ desired'[p] = desired[p]
        /\ dims'[p] = dims[p] /\ PageFollows(p) /\ revision[p] \in Nat
    BY <1>5 DEF pageScreen, StreamInv, Parts, ScreensOK
  <2>2. ASSUME desired[p] = NoDesire, NEW n \in InFlight', n.kind = "patch", n.base = revision[p]
        PROVE  n.frame.size = dims[p]
    <3>1. CASE n \in InFlight
      BY <2>1, <2>2, <3>1 DEF PageFollows
    <3>2. CASE n = m /\ m # NoMessage
      BY <1>4, <2>1, <2>2, <3>2 DEF PageFollows
    <3> QED BY <1>6, <2>2, <3>1, <3>2, NoMessageFields
  <2>3. rendered'.rev = revision[p] => rendered' = rendered
    BY <1>3, <2>1 DEF PageFollows
  <2>4. revision[p] <= rendered'.rev
    BY <1>3, <2>1 DEF PageFollows
  <2> QED BY <2>1, <2>2, <2>3, <2>4 DEF PageFollows
<1> QED BY <1>8, <1>9, <1>10, <1>11 DEF Streams, PatchesFit

(* At first nothing is shown and nothing is on its way. *)
LEMMA StreamInit == TerminalInit => StreamInv
<1> SUFFICES ASSUME TerminalInit PROVE StreamInv
  OBVIOUS
<1>1. Parts
  <2>1. pane \in Frame /\ pane.size \in Size
    BY TerminalConstants DEF TerminalInit, Frame
  <2>2. Blank.size \in Size
    BY TerminalConstants DEF Frame
  <2>3. WorkerOK
    BY <2>1, TerminalConstants DEF TerminalInit, WorkerOK
  <2>4. GoroutinesOK
    BY DEF TerminalInit, GoroutinesOK, Stage
  <2>5. SocketsOK
    BY DEF TerminalInit, SocketsOK
  <2>6. ScreensOK
    BY <2>2, TerminalConstants DEF TerminalInit, ScreensOK
  <2>7. CountsOK
    BY TerminalAssumption DEF TerminalInit, CountsOK, TerminalAssumption
  <2> QED BY <2>3, <2>4, <2>5, <2>6, <2>7 DEF Parts
<1>2. \A m \in InFlight : m = NoMessage
  BY DEF TerminalInit, InFlight
<1>3. Streams
  BY <1>1, <1>2, NoMessageFields
     DEF Streams, FramesOfRevision, PatchesFollow, PatchesFit, Parts, WorkerOK
<1>4. ASSUME NEW p \in Page
      PROVE  PageFollows(p)
  <2>1. revision[p] = 0 /\ shown[p] = 0 /\ rendered.rev = 0 /\ 0 # Mixed
    BY TerminalConstants DEF TerminalInit
  <2>2. \A m \in InFlight : m.kind # "patch"
    BY <1>2, NoMessageFields
  <2> QED BY <2>1, <2>2 DEF PageFollows
<1> QED BY <1>1, <1>3, <1>4 DEF StreamInv

(* The invariant holds at first and in every step. *)
LEMMA StreamInvHolds == TerminalSpec => []StreamInv
<1>1. StreamInv /\ [TerminalNext]_terminalVars => StreamInv'
  <2> SUFFICES ASSUME StreamInv, [TerminalNext]_terminalVars PROVE StreamInv'
    OBVIOUS
  <2>1. CASE TerminalNext
    <3>1. Parts'
      BY <2>1, CaptureTypes, SocketTypes, PageTypes DEF TerminalNext, StreamInv
    <3>2. CASE Builds
      BY <3>1, <3>2, BuildStep DEF Builds, StreamInv
    <3>3. CASE ~Builds
      <4>1. Streams'
        BY <2>1, <3>3, FlightStep, StreamsKept DEF StreamInv
      <4> QED BY <2>1, <3>1, <3>3, <4>1, PageFollowsStep DEF StreamInv
    <3> QED BY <3>2, <3>3
  <2>2. CASE UNCHANGED terminalVars
    <3> USE <2>2 DEF terminalVars, render, tmux, socket, pageScreen, terminalCounts
    <3>1. Parts'
      BY DEF StreamInv, Parts, WorkerOK, GoroutinesOK, SocketsOK, ScreensOK, CountsOK
    <3>2. Streams' /\ InFlight' = InFlight
      BY DEF StreamInv, Streams, FramesOfRevision, PatchesFollow, PatchesFit, InFlight
    <3>3. \A p \in Page : PageFollows(p)'
      BY <3>2 DEF StreamInv, PageFollows
    <3> QED BY <3>1, <3>2, <3>3 DEF StreamInv
  <2> QED BY <2>1, <2>2
<1> QED BY <1>1, StreamInit, PTL DEF TerminalSpec

(* Every variable of the stream keeps its type: any pages, goroutines, sizes, queues
   and bounds. *)
THEOREM TerminalTypeCorrect == TerminalSpec => []TerminalTypeOK
<1>1. StreamInv => TerminalTypeOK
  BY TypeParts DEF StreamInv, Parts
<1> QED BY <1>1, StreamInvHolds, PTL

(* A page that says it is at the revision of the worker, and shows one capture, shows
   the capture of that revision, whatever was dropped, patched, resized or reloaded on
   the way. *)
THEOREM PagesShowTheirRevision == TerminalSpec => []ShowsItsRevision
<1>1. StreamInv => ShowsItsRevision
  BY DEF StreamInv, PageFollows, ShowsItsRevision
<1> QED BY <1>1, StreamInvHolds, PTL

(* A page that waits for no size has the size of what it shows once it is up to date. *)
THEOREM SettledPagesFit == TerminalSpec => []SettledFits
<1>1. StreamInv => SettledFits
  BY DEF StreamInv, PageFollows, SettledFits
<1> QED BY <1>1, StreamInvHolds, PTL

--------------------------------------------------------------------------------
(* The wizard: what is stored belongs together.                             *)

WizardSpec == WizardInit /\ [][WizardNext]_wizardVars

SomeAddress == Address \cup {NoAddress}
SomeLogin == Login \cup {NoLogin}
Tested == SomeAddress \X SomeLogin
Found == [address : SomeAddress, login : SomeLogin, usable : BOOLEAN]
TestCall == [kind : {"tcp", "auth", "detect"}, address : SomeAddress, login : SomeLogin,
             pin : SomeAddress, attached : BOOLEAN]
SaveCall == [kind : {"save"}, address : SomeAddress, login : SomeLogin, hostKey : SomeAddress,
             facts : Found, proved : SUBSET Tested, late : BOOLEAN]

WizardType ==
    /\ address \in SomeAddress /\ login \in SomeLogin /\ hostKey \in SomeAddress
    /\ facts \subseteq Found
    /\ tcpPassed \in BOOLEAN /\ authPassed \in BOOLEAN /\ lateAnswer \in BOOLEAN
    /\ proved \subseteq Tested /\ wizardCalls \subseteq TestCall \cup SaveCall

(* What the property says of one stored server. *)
Together(s) ==
    /\ {<<s.address, NoLogin>>, <<s.address, s.login>>} \subseteq s.proved
    /\ ~s.late => /\ s.hostKey = s.address
                  /\ s.facts.address = s.address /\ s.facts.login = s.login

(* The results on display are about the fields on display. *)
ResultsFit ==
    /\ tcpPassed => <<address, NoLogin>> \in proved
    /\ authPassed => <<address, login>> \in proved
    /\ authPassed /\ ~lateAnswer => hostKey = address
    /\ ~lateAnswer => \A f \in facts : f.address = address /\ f.login = login

(* The tests that still count were asked about them, and a save holds what fits. *)
TestFits(c) ==
    /\ c.kind \in {"tcp", "auth"} /\ c.attached => c.address = address
    /\ c.kind = "auth" /\ c.attached => c.login = login
CallFits(c) == IF c.kind = "save" THEN Together(c) ELSE TestFits(c)
CallsFit == \A c \in wizardCalls : CallFits(c)

WizardInv == WizardType /\ ResultsFit /\ CallsFit /\ SavedBelongsTogether

(* At first there are no results and no requests. *)
LEMMA InitWizard == WizardInit => WizardInv
  BY WizardAssumption
  DEF WizardInit, WizardInv, WizardType, ResultsFit, CallsFit, SavedBelongsTogether, SomeAddress,
      SomeLogin, WizardAssumption

(* Withdrawing a test leaves what else was asked. *)
LEMMA WithdrawnCalls ==
    ASSUME NEW calls \in SUBSET (TestCall \cup SaveCall),
           NEW kinds \in SUBSET {"tcp", "auth", "detect"}
    PROVE  /\ Withdrawn(calls, kinds) \subseteq TestCall \cup SaveCall
           /\ \A c \in Withdrawn(calls, kinds) :
                \/ c \in calls /\ c.kind \notin kinds
                \/ c.kind \in kinds /\ ~c.attached
<1> SUFFICES ASSUME NEW c \in calls
             PROVE  LET d == IF c.kind \in kinds THEN [c EXCEPT !.attached = FALSE] ELSE c
                    IN  /\ d \in TestCall \cup SaveCall
                        /\ \/ d \in calls /\ d.kind \notin kinds
                           \/ d.kind \in kinds /\ ~d.attached
  BY DEF Withdrawn
<1>1. CASE c.kind \in kinds
  <2>1. c \in TestCall
    BY <1>1 DEF SaveCall
  <2> QED BY <1>1, <2>1 DEF TestCall
<1>2. CASE c.kind \notin kinds
  BY <1>2
<1> QED BY <1>1, <1>2

(* A request that is sent now is about the fields on display. *)
LEMMA NewCallFits ==
    ASSUME WizardType, NEW kind \in {"tcp", "auth", "detect"}
    PROVE  /\ NewCall(kind) \in TestCall /\ CallFits(NewCall(kind))
           /\ NewCall(kind).kind = kind
  BY DEF WizardType, NewCall, TestCall, CallFits, TestFits

(* Steps that only ask, or only drop a request, keep everything. *)
LEMMA AskingKeepsWizard ==
    ASSUME WizardInv, wizardCalls' \subseteq TestCall \cup SaveCall,
           \A c \in wizardCalls' : CallFits(c),
           UNCHANGED <<address, login, hostKey, facts, tcpPassed, authPassed, savedServer,
                       proved, lateAnswer>>
    PROVE  WizardInv'
<1>1. \A c \in wizardCalls' : CallFits(c)'
  BY DEF CallFits, TestFits, Together
<1> QED BY <1>1
  DEF WizardInv, WizardType, ResultsFit, CallsFit, SavedBelongsTogether, CallFits, TestFits,
      Together

(* An edit withdraws the results and the requests that depended on the field. *)
LEMMA EditingKeepsWizard ==
    ASSUME WizardInv,
           \/ \E a \in Address \cup {NoAddress} : EditAddress(a)
           \/ \E l \in Login \cup {NoLogin} : EditLogin(l)
           \/ \E text \in {"", "typed"} : EditLabel(text)
    PROVE  WizardInv'
<1>0. WizardType /\ ResultsFit /\ CallsFit /\ SavedBelongsTogether
  BY DEF WizardInv
<1>1. ASSUME NEW kinds \in SUBSET {"tcp", "auth", "detect"}, Withdraw(kinds), "auth" \in kinds,
             UNCHANGED <<hostKey, savedServer, proved, lateAnswer>>,
             address' \in SomeAddress, login' \in SomeLogin,
             "tcp" \in kinds \/ address' = address
      PROVE  WizardInv'
  <2>1. wizardCalls' = Withdrawn(wizardCalls, kinds) /\ facts' = {}
    BY <1>1 DEF Withdraw
  <2>2. /\ wizardCalls' \subseteq TestCall \cup SaveCall
        /\ \A c \in wizardCalls' : \/ c \in wizardCalls /\ c.kind \notin kinds
                                   \/ c.kind \in kinds /\ ~c.attached
    BY <1>0, <2>1, WithdrawnCalls DEF WizardType
  <2>3. ~authPassed' /\ tcpPassed' \in BOOLEAN /\ authPassed' \in BOOLEAN
    BY <1>0, <1>1 DEF Withdraw, WizardType
  <2>4. tcpPassed' => tcpPassed /\ address' = address
    BY <1>1 DEF Withdraw
  <2>5. CallsFit'
    <3> SUFFICES ASSUME NEW c \in wizardCalls' PROVE CallFits(c)'
      BY DEF CallsFit
    <3>1. CASE c.kind \in kinds /\ ~c.attached
      BY <3>1 DEF CallFits, TestFits
    <3>2. CASE c \in wizardCalls /\ c.kind \notin kinds
      BY <1>0, <1>1, <3>2 DEF CallsFit, CallFits, TestFits, Together
    <3> QED BY <2>2, <3>1, <3>2
  <2>6. ResultsFit'
    BY <1>0, <1>1, <2>1, <2>3, <2>4 DEF ResultsFit
  <2>7. WizardType'
    BY <1>0, <1>1, <2>1, <2>2, <2>3 DEF WizardType
  <2>8. SavedBelongsTogether'
    BY <1>0, <1>1 DEF SavedBelongsTogether
  <2> QED BY <2>5, <2>6, <2>7, <2>8 DEF WizardInv
<1>2. ASSUME NEW a \in Address \cup {NoAddress}, EditAddress(a) PROVE WizardInv'
  BY <1>0, <1>1, <1>2 DEF EditAddress, AddressWithdraws, SomeAddress, WizardType
<1>3. ASSUME NEW l \in Login \cup {NoLogin}, EditLogin(l) PROVE WizardInv'
  BY <1>0, <1>1, <1>3 DEF EditLogin, LoginWithdraws, SomeLogin, WizardType
<1>4. ASSUME NEW text \in {"", "typed"}, EditLabel(text) PROVE WizardInv'
  <2>1. UNCHANGED <<address, login, hostKey, savedServer, proved, lateAnswer>>
    BY <1>4 DEF EditLabel
  <2>2. CASE Withdraw({"tcp", "auth"})
    BY <1>0, <1>1, <2>1, <2>2 DEF WizardType
  <2>3. CASE UNCHANGED <<wizardCalls, tcpPassed, authPassed, facts>>
    BY <1>0, <2>1, <2>3, AskingKeepsWizard DEF WizardType, CallsFit
  <2> QED BY <1>4, <2>2, <2>3 DEF EditLabel
<1> QED BY <1>2, <1>3, <1>4

(* Turning pages and asking. *)
LEMMA PagesKeepWizard ==
    ASSUME WizardInv,
           \/ \E locked \in BOOLEAN : ReadLockState(locked)
           \/ AskTCP \/ AskAuth \/ DetectAgain \/ NextPage \/ PreviousPage
           \/ \E c \in wizardCalls : DetectFails(c) \/ SaveServerFails(c)
    PROVE  WizardInv'
<1>0. WizardType /\ CallsFit
  BY DEF WizardInv
<1>1. UNCHANGED <<address, login, hostKey, facts, tcpPassed, authPassed, savedServer, proved,
                  lateAnswer>>
  BY DEF ReadLockState, AskTCP, AskAuth, DetectAgain, NextPage, PreviousPage, DetectFails,
         SaveServerFails
<1>2. wizardCalls' \subseteq wizardCalls \cup {NewCall(k) : k \in {"tcp", "auth", "detect"}}
  BY DEF ReadLockState, AskTCP, AskAuth, DetectAgain, NextPage, PreviousPage, DetectFails,
         SaveServerFails, Ask
<1>3. wizardCalls' \subseteq TestCall \cup SaveCall /\ \A c \in wizardCalls' : CallFits(c)
  BY <1>0, <1>2, NewCallFits DEF WizardType, CallsFit
<1> QED BY <1>1, <1>3, AskingKeepsWizard

(* An answer: a test that counts has confirmed the fields on display. *)
LEMMA AnswersKeepWizard ==
    ASSUME WizardInv, NEW c \in wizardCalls, NEW b \in BOOLEAN,
           AnswerTCP(c, b) \/ AnswerAuth(c, b) \/ AnswerDetect(c, b)
    PROVE  WizardInv'
<1>0. WizardType /\ ResultsFit /\ CallsFit /\ SavedBelongsTogether
  BY DEF WizardInv
<1>1. /\ wizardCalls' \subseteq wizardCalls /\ UNCHANGED <<address, login, savedServer>>
      /\ proved \subseteq proved'
  BY DEF AnswerTCP, AnswerAuth, AnswerDetect
<1>2. c \in TestCall /\ TestFits(c)
  <2>1. c.kind # "save"
    BY DEF AnswerTCP, AnswerAuth, AnswerDetect
  <2> QED BY <1>0, <2>1 DEF WizardType, SaveCall, CallsFit, CallFits
<1>3. CallsFit'
  BY <1>0, <1>1 DEF CallsFit, CallFits, TestFits, Together
<1>4. SavedBelongsTogether'
  BY <1>0, <1>1 DEF SavedBelongsTogether
<1>5. CASE AnswerTCP(c, b)
  <2>1. WizardType'
    BY <1>0, <1>1, <1>2, <1>5 DEF AnswerTCP, WizardType, TestCall, Tested, SomeLogin
  <2>2. ResultsFit'
    BY <1>0, <1>1, <1>2, <1>5 DEF AnswerTCP, ResultsFit, TestFits
  <2> QED BY <1>3, <1>4, <2>1, <2>2 DEF WizardInv
<1>6. CASE AnswerAuth(c, b)
  <2>1. WizardType'
    BY <1>0, <1>1, <1>2, <1>6 DEF AnswerAuth, WizardType, TestCall, Tested, SomeLogin
  <2>2. lateAnswer' <=> (lateAnswer \/ (b /\ c.address # address))
    BY <1>6 DEF AnswerAuth
  <2>3. authPassed' => <<address, login>> \in proved'
    BY <1>0, <1>1, <1>2, <1>6 DEF AnswerAuth, ResultsFit, TestFits
  <2>4. authPassed' /\ ~lateAnswer' => hostKey' = address
    BY <1>0, <1>2, <1>6, <2>2 DEF AnswerAuth, ResultsFit, TestFits
  <2>5. ResultsFit'
    BY <1>0, <1>1, <1>6, <2>2, <2>3, <2>4 DEF AnswerAuth, ResultsFit
  <2> QED BY <1>3, <1>4, <2>1, <2>5 DEF WizardInv
<1>7. CASE AnswerDetect(c, b)
  <2>1. [address |-> c.address, login |-> c.login, usable |-> b] \in Found
    BY <1>2 DEF TestCall, Found
  <2>2. lateAnswer' \in BOOLEAN
    BY <1>0, <1>7 DEF AnswerDetect, WizardType
  <2>3. WizardType'
    BY <1>0, <1>1, <1>7, <2>1, <2>2 DEF AnswerDetect, WizardType
  <2>4. ~lateAnswer' => ~lateAnswer /\ c.address = address /\ c.login = login
    BY <1>7 DEF AnswerDetect
  <2>5. facts' = {[address |-> c.address, login |-> c.login, usable |-> b]}
    BY <1>7 DEF AnswerDetect
  <2>6. ~lateAnswer' => \A f \in facts' : f.address = address /\ f.login = login
    BY <2>4, <2>5
  <2>7. UNCHANGED <<hostKey, tcpPassed, authPassed, proved>>
    BY <1>7 DEF AnswerDetect
  <2>8. ResultsFit'
    BY <1>0, <1>1, <2>4, <2>6, <2>7 DEF ResultsFit
  <2> QED BY <1>3, <1>4, <2>3, <2>8 DEF WizardInv
<1> QED BY <1>5, <1>6, <1>7

(* A save takes what is displayed, and its answer stores what the save took. *)
LEMMA SavingKeepsWizard ==
    ASSUME WizardInv,
           SaveServer \/ CloseWizard \/ \E c \in wizardCalls : ServerSaved(c)
    PROVE  WizardInv'
<1>0. WizardType /\ ResultsFit /\ CallsFit /\ SavedBelongsTogether
  BY DEF WizardInv
<1>1. CASE SaveServer
  <2> DEFINE f == CHOOSE x \in facts : TRUE
             s == [kind |-> "save", address |-> address, login |-> login,
                   hostKey |-> hostKey, facts |-> f, proved |-> proved, late |-> lateAnswer]
  <2>1. tcpPassed /\ authPassed /\ f \in facts
    BY <1>1 DEF SaveServer, Blocked
  <2>2. s \in SaveCall
    BY <1>0, <2>1 DEF WizardType, SaveCall
  <2>3. s.kind = "save" /\ Together(s)
    BY <1>0, <2>1 DEF ResultsFit, Together
  <2>4. wizardCalls' = wizardCalls \cup {s}
    BY <1>1 DEF SaveServer
  <2>5. UNCHANGED <<address, login, hostKey, facts, tcpPassed, authPassed, savedServer, proved,
                    lateAnswer>>
    BY <1>1 DEF SaveServer
  <2> HIDE DEF s
  <2>6. wizardCalls' \subseteq TestCall \cup SaveCall /\ \A c \in wizardCalls' : CallFits(c)
    BY <1>0, <2>2, <2>3, <2>4 DEF WizardType, CallsFit, CallFits
  <2> QED BY <2>5, <2>6, AskingKeepsWizard
<1>2. ASSUME NEW calls \in SUBSET wizardCalls, ResetWizard(calls), SavedBelongsTogether'
      PROVE  WizardInv'
  <2>1. wizardCalls' = Withdrawn(calls, {"tcp", "auth", "detect"})
    BY <1>2 DEF ResetWizard
  <2>2. /\ wizardCalls' \subseteq TestCall \cup SaveCall
        /\ \A c \in wizardCalls' : \/ c \in calls /\ c.kind \notin {"tcp", "auth", "detect"}
                                   \/ c.kind \in {"tcp", "auth", "detect"} /\ ~c.attached
    <3>1. calls \in SUBSET (TestCall \cup SaveCall)
      BY <1>0 DEF WizardType
    <3> QED BY <2>1, <3>1, WithdrawnCalls
  <2>3. CallsFit'
    BY <1>0, <2>2 DEF CallsFit, CallFits, TestFits, Together
  <2>4. WizardType' /\ ResultsFit'
    BY <1>2, <2>2, WizardAssumption
    DEF ResetWizard, WizardType, ResultsFit, SomeAddress, SomeLogin, WizardAssumption
  <2> QED BY <1>2, <2>3, <2>4 DEF WizardInv
<1>3. CASE CloseWizard
  BY <1>0, <1>2, <1>3 DEF CloseWizard, SavedBelongsTogether
<1>4. ASSUME NEW c \in wizardCalls, ServerSaved(c) PROVE WizardInv'
  <2> DEFINE s == [address |-> c.address, login |-> c.login, hostKey |-> c.hostKey,
                   facts |-> c.facts, proved |-> c.proved, late |-> c.late]
  <2>1. c.kind = "save" /\ Together(c)
    BY <1>0, <1>4 DEF ServerSaved, Saving, CallsFit, CallFits
  <2>2. Together(s)
    BY <2>1 DEF Together
  <2>3. savedServer' = {s} /\ ResetWizard(wizardCalls \ {c})
    BY <1>4 DEF ServerSaved
  <2> HIDE DEF s
  <2>4. SavedBelongsTogether'
    BY <2>2, <2>3 DEF SavedBelongsTogether, Together
  <2> QED BY <1>2, <2>3, <2>4
<1> QED BY <1>1, <1>3, <1>4

(* Every step keeps results, requests and fields together. *)
LEMMA NextWizard == WizardInv /\ [WizardNext]_wizardVars => WizardInv'
<1> SUFFICES ASSUME WizardInv, [WizardNext]_wizardVars PROVE WizardInv'
  OBVIOUS
<1>1. CASE UNCHANGED wizardVars
  BY <1>1, AskingKeepsWizard DEF wizardVars, WizardInv, WizardType, CallsFit
<1> QED BY <1>1, EditingKeepsWizard, PagesKeepWizard, AnswersKeepWizard, SavingKeepsWizard
  DEF WizardNext

(* A server is stored with what was tested for it, in whatever order edits and
   answers came: any addresses, logins, requests and rounds. *)
THEOREM ServersBelongTogether == WizardSpec => []SavedBelongsTogether
<1>1. WizardInv => SavedBelongsTogether
  BY DEF WizardInv
<1> QED BY <1>1, InitWizard, NextWizard, PTL DEF WizardSpec

--------------------------------------------------------------------------------
(* The wizard: the types; a test asks about complete fields, and one of a kind counts. *)

(* The requests name an address, and all but the first test a login: what was not
   complete was not asked about. *)
Asked(c) ==
    /\ c.address \in Address
    /\ c.kind # "tcp" => c.login \in Login
    /\ c.kind = "save" => c.facts \in Facts /\ c.proved \subseteq Address \X SomeLogin
CallsAsked == \A c \in wizardCalls : Asked(c)

(* One test of a kind counts. *)
OneCounts ==
    \A c, d \in wizardCalls :
       c.kind = d.kind /\ c.kind # "save" /\ c.attached /\ d.attached => c = d

(* What was found, proved and stored is about addresses and logins that were entered. *)
FieldsAsked ==
    /\ authPassed => address \in Address /\ login \in Login
    /\ facts \subseteq Facts /\ proved \subseteq Address \X SomeLogin
    /\ savedServer \subseteq ServerRecord

(* The rest of the dialog. *)
DialogType ==
    /\ step \in 0..4 /\ label \in {"", "suggested", "typed"}
    /\ labelEdited \in BOOLEAN /\ accessLocked \in BOOLEAN

WizardTypeInv == CallsAsked /\ OneCounts /\ FieldsAsked /\ DialogType

(* What is withdrawn was asked about the same. *)
LEMMA WithdrawnAsked ==
    ASSUME NEW calls \in SUBSET wizardCalls, wizardCalls \subseteq TestCall \cup SaveCall,
           CallsAsked, OneCounts,
           NEW kinds \in SUBSET {"tcp", "auth", "detect"},
           wizardCalls' = Withdrawn(calls, kinds)
    PROVE  CallsAsked' /\ OneCounts'
<1>1. ASSUME NEW d \in wizardCalls'
      PROVE  Asked(d) /\ (d.kind # "save" /\ d.attached => d \in wizardCalls)
  <2>1. PICK c \in calls : d = IF c.kind \in kinds THEN [c EXCEPT !.attached = FALSE] ELSE c
    BY <1>1 DEF Withdrawn
  <2>2. CASE c.kind \in kinds
    <3>1. c \in TestCall /\ d = [c EXCEPT !.attached = FALSE]
      BY <2>1, <2>2 DEF SaveCall
    <3>2. d.address = c.address /\ d.kind = c.kind /\ d.login = c.login /\ d.attached = FALSE
          /\ c.kind # "save"
      BY <3>1 DEF TestCall
    <3> QED BY <3>2 DEF CallsAsked, Asked
  <2>3. CASE c.kind \notin kinds
    BY <2>1, <2>3 DEF CallsAsked
  <2> QED BY <2>2, <2>3
<1> QED BY <1>1 DEF CallsAsked, OneCounts, Asked

(* Nothing was asked at first. *)
LEMMA WizardTypeInit == WizardInit => WizardTypeInv
<1> SUFFICES ASSUME WizardInit PROVE WizardTypeInv
  OBVIOUS
<1>1. CallsAsked /\ OneCounts
  BY DEF WizardInit, CallsAsked, OneCounts
<1>2. FieldsAsked
  BY DEF WizardInit, FieldsAsked
<1>3. step = 0
  BY DEF WizardInit
<1>4. DialogType
  <2>1. step \in 0..4
    BY <1>3
  <2>2. label \in {"", "suggested", "typed"}
    BY Zenon DEF WizardInit
  <2>3. labelEdited \in BOOLEAN /\ accessLocked \in BOOLEAN
    BY Zenon DEF WizardInit
  <2> QED BY <2>1, <2>2, <2>3 DEF DialogType
<1> QED BY <1>1, <1>2, <1>4 DEF WizardTypeInv

(* A new request about the fields on display, when no other of its kind counts. *)
LEMMA AskedOnce ==
    ASSUME WizardInv, CallsAsked, OneCounts, NEW kind \in {"tcp", "auth", "detect"},
           ~Running(kind), address \in Address, kind # "tcp" => login \in Login,
           NEW calls \in SUBSET wizardCalls, wizardCalls' = calls \cup {NewCall(kind)}
    PROVE  CallsAsked' /\ OneCounts'
<1>1. NewCall(kind).kind = kind /\ NewCall(kind).address = address /\ NewCall(kind).login = login
  BY DEF NewCall
<1>2. Asked(NewCall(kind))
  BY <1>1 DEF Asked
<1> QED BY <1>1, <1>2 DEF CallsAsked, OneCounts, Asked, Running

(* Every step of the dialog asks about complete fields only, and once. *)
LEMMA WizardTypeStep ==
    ASSUME WizardInv, WizardTypeInv, WizardNext
    PROVE  WizardTypeInv'
<1>0. /\ wizardCalls \subseteq TestCall \cup SaveCall /\ CallsAsked /\ OneCounts /\ FieldsAsked
      /\ DialogType /\ CallsFit /\ address \in SomeAddress /\ login \in SomeLogin
  BY DEF WizardInv, WizardType, WizardTypeInv
<1>1. ASSUME wizardCalls' \subseteq wizardCalls
      PROVE  CallsAsked' /\ OneCounts'
  BY <1>0, <1>1 DEF CallsAsked, OneCounts, Asked
<1>2. ASSUME NEW kinds \in SUBSET {"tcp", "auth", "detect"}, Withdraw(kinds), "auth" \in kinds,
             UNCHANGED <<savedServer, proved>>, DialogType'
      PROVE  WizardTypeInv'
  <2>1. CallsAsked' /\ OneCounts'
    BY <1>0, <1>2, WithdrawnAsked DEF Withdraw
  <2>2. FieldsAsked'
    BY <1>0, <1>2 DEF Withdraw, FieldsAsked
  <2> QED BY <1>2, <2>1, <2>2 DEF WizardTypeInv
<1>3. ASSUME NEW a \in Address \cup {NoAddress}, EditAddress(a)
      PROVE  WizardTypeInv'
  <2>1. DialogType'
    BY <1>0, <1>3 DEF EditAddress, Unname, DialogType
  <2> QED BY <1>2, <1>3, <2>1 DEF EditAddress, AddressWithdraws
<1>4. ASSUME NEW l \in Login \cup {NoLogin}, EditLogin(l)
      PROVE  WizardTypeInv'
  <2>1. DialogType'
    BY <1>0, <1>4 DEF EditLogin, Unname, DialogType
  <2> QED BY <1>2, <1>4, <2>1 DEF EditLogin, LoginWithdraws
<1>5. ASSUME NEW text \in {"", "typed"}, EditLabel(text)
      PROVE  WizardTypeInv'
  <2>1. DialogType'
    BY <1>0, <1>5 DEF EditLabel, DialogType
  <2>2. CASE Withdraw({"tcp", "auth"})
    BY <1>2, <1>5, <2>1, <2>2 DEF EditLabel
  <2>3. CASE UNCHANGED <<wizardCalls, tcpPassed, authPassed, facts>>
    BY <1>0, <1>1, <1>5, <2>1, <2>3 DEF EditLabel, FieldsAsked, WizardTypeInv
  <2> QED BY <1>5, <2>2, <2>3 DEF EditLabel
<1>6. ASSUME NEW locked \in BOOLEAN, ReadLockState(locked)
      PROVE  WizardTypeInv'
  BY <1>0, <1>1, <1>6 DEF ReadLockState, FieldsAsked, DialogType, WizardTypeInv
<1>7. CASE AskTCP
  <2>1. CallsAsked' /\ OneCounts'
    BY <1>0, <1>7, AskedOnce DEF AskTCP, Ask, SomeAddress
  <2> QED BY <1>0, <1>7, <2>1 DEF AskTCP, FieldsAsked, DialogType, WizardTypeInv
<1>8. CASE AskAuth
  <2>1. CallsAsked' /\ OneCounts'
    BY <1>0, <1>8, AskedOnce DEF AskAuth, Ask, SomeAddress, SomeLogin
  <2> QED BY <1>0, <1>8, <2>1 DEF AskAuth, FieldsAsked, DialogType, WizardTypeInv
<1>9. ASSUME Ask("detect"), ~Running("detect"), address \in Address, login \in Login
      PROVE  CallsAsked' /\ OneCounts'
  BY <1>0, <1>9, AskedOnce DEF Ask
<1>10. CASE DetectAgain
  <2>1. CallsAsked' /\ OneCounts'
    BY <1>0, <1>9, <1>10 DEF DetectAgain, FieldsAsked
  <2> QED BY <1>0, <1>10, <2>1 DEF DetectAgain, FieldsAsked, DialogType, WizardTypeInv
<1>11. CASE NextPage
  <2>0. step \in {0, 1, 2, 3} /\ step' = step + 1
    BY <1>11 DEF NextPage
  <2>1. step' \in 0..4 /\ (step' = 2 => step = 1)
    BY <2>0
  <2>2. CASE UNCHANGED wizardCalls
    BY <1>0, <1>1, <1>11, <2>1, <2>2 DEF NextPage, FieldsAsked, DialogType, WizardTypeInv
  <2>3. CASE Ask("detect") /\ step' = 2 /\ ~Running("detect")
    <3>0. step = 1
      BY <2>1, <2>3
    <3>1. address # NoAddress /\ login # NoLogin
      BY <1>11, <3>0 DEF NextPage
    <3>4. address \in Address /\ login \in Login
      BY <1>0, <3>1 DEF SomeAddress, SomeLogin
    <3>2. CallsAsked' /\ OneCounts'
      BY <1>9, <2>3, <3>4
    <3> QED BY <1>0, <1>11, <2>1, <3>2 DEF NextPage, FieldsAsked, DialogType, WizardTypeInv
  <2> QED BY <1>11, <2>2, <2>3 DEF NextPage
<1>12. CASE PreviousPage
  <2>0. step \in 0..4 /\ step > 0 /\ step' = step - 1
    BY <1>0, <1>12 DEF PreviousPage, DialogType
  <2>1. step' \in 0..4
    BY <2>0
  <2>2. CallsAsked' /\ OneCounts'
    BY <1>0, <1>1, <1>9, <1>12 DEF PreviousPage, FieldsAsked
  <2> QED BY <1>0, <1>12, <2>1, <2>2 DEF PreviousPage, FieldsAsked, DialogType, WizardTypeInv
<1>13. ASSUME NEW c \in wizardCalls, NEW b \in BOOLEAN, AnswerTCP(c, b)
       PROVE  WizardTypeInv'
  <2>1. CallsAsked' /\ OneCounts'
    BY <1>1, <1>13 DEF AnswerTCP
  <2>2. <<c.address, NoLogin>> \in Address \X SomeLogin
    BY <1>0 DEF CallsAsked, Asked, SomeLogin
  <2> QED BY <1>0, <1>13, <2>1, <2>2 DEF AnswerTCP, FieldsAsked, DialogType, WizardTypeInv
<1>14. ASSUME NEW c \in wizardCalls, NEW b \in BOOLEAN, AnswerAuth(c, b)
       PROVE  WizardTypeInv'
  <2>1. CallsAsked' /\ OneCounts'
    BY <1>1, <1>14 DEF AnswerAuth
  <2>2. c.address \in Address /\ c.login \in Login /\ <<c.address,
        c.login>> \in Address \X SomeLogin
    BY <1>0, <1>14 DEF AnswerAuth, CallsAsked, Asked, SomeLogin
  <2>3. c.attached => c.address = address /\ c.login = login
    BY <1>0, <1>14 DEF AnswerAuth, CallsFit, CallFits, TestFits
  <2>4. authPassed' => address' \in Address /\ login' \in Login
    BY <1>0, <1>14, <2>2, <2>3 DEF AnswerAuth, FieldsAsked
  <2> QED BY <1>0, <1>14, <2>1, <2>2, <2>4 DEF AnswerAuth, FieldsAsked, DialogType, WizardTypeInv
<1>15. ASSUME NEW c \in wizardCalls, NEW b \in BOOLEAN, AnswerDetect(c, b)
       PROVE  WizardTypeInv'
  <2>1. CallsAsked' /\ OneCounts'
    BY <1>1, <1>15 DEF AnswerDetect
  <2>2. c.address \in Address /\ c.login \in Login
    BY <1>0, <1>15 DEF AnswerDetect, CallsAsked, Asked
  <2> DEFINE f == [address |-> c.address, login |-> c.login, usable |-> b]
  <2>3. facts' \subseteq Facts
    <3>1. facts' = {f}
      BY <1>15 DEF AnswerDetect
    <3>2. f \in Facts
      BY <2>2 DEF Facts
    <3> QED BY <3>1, <3>2
  <2>4. DialogType'
    BY <1>0, <1>15 DEF AnswerDetect, DialogType
  <2> QED BY <1>0, <1>15, <2>1, <2>3, <2>4 DEF AnswerDetect, FieldsAsked, WizardTypeInv
<1>16. ASSUME NEW c \in wizardCalls, DetectFails(c)
       PROVE  WizardTypeInv'
  <2> DEFINE rest == wizardCalls \ {c}
  <2>1. CASE wizardCalls' = rest
    BY <1>0, <1>1, <1>16, <2>1 DEF DetectFails, FieldsAsked, DialogType, WizardTypeInv
  <2>2. CASE wizardCalls' # rest
    <3>1. /\ wizardCalls' = rest \cup {NewCall("detect")} /\ authPassed
          /\ \A d \in rest : d.kind = "detect" => ~d.attached
      BY <1>16, <2>2 DEF DetectFails
    <3>2. address \in Address /\ login \in Login
      BY <1>0, <3>1 DEF FieldsAsked
    <3>3. NewCall("detect").kind = "detect" /\ Asked(NewCall("detect"))
      BY <3>2 DEF NewCall, Asked
    <3>4. CallsAsked' /\ OneCounts'
      BY <1>0, <3>1, <3>3 DEF CallsAsked, OneCounts, Asked
    <3> QED BY <1>0, <1>16, <3>4 DEF DetectFails, FieldsAsked, DialogType, WizardTypeInv
  <2> QED BY <2>1, <2>2
<1>17. CASE SaveServer
  <2> DEFINE f == CHOOSE x \in facts : TRUE
             s == [kind |-> "save", address |-> address, login |-> login,
                   hostKey |-> hostKey, facts |-> f, proved |-> proved, late |-> lateAnswer]
  <2>1. f \in Facts /\ address \in Address /\ login \in Login
    BY <1>0, <1>17 DEF SaveServer, Blocked, FieldsAsked
  <2>2. wizardCalls' = wizardCalls \cup {s}
    BY <1>17 DEF SaveServer
  <2>3. s.kind = "save" /\ Asked(s)
    BY <1>0, <2>1 DEF Asked, FieldsAsked
  <2> HIDE DEF s
  <2>4. CallsAsked' /\ OneCounts'
    BY <1>0, <2>2, <2>3 DEF CallsAsked, OneCounts, Asked
  <2> QED BY <1>0, <1>17, <2>4 DEF SaveServer, FieldsAsked, DialogType, WizardTypeInv
<1>18. ASSUME NEW c \in wizardCalls, SaveServerFails(c)
       PROVE  WizardTypeInv'
  BY <1>0, <1>1, <1>18 DEF SaveServerFails, FieldsAsked, DialogType, WizardTypeInv
<1>19. ASSUME NEW calls \in SUBSET wizardCalls, ResetWizard(calls),
              savedServer' \subseteq ServerRecord
       PROVE  WizardTypeInv'
  <2>1. CallsAsked' /\ OneCounts'
    BY <1>0, <1>19, WithdrawnAsked DEF ResetWizard
  <2>2. step' = 0
    BY <1>19 DEF ResetWizard
  <2>3. DialogType'
    <3>1. step' \in 0..4
      BY <2>2
    <3>2. label' \in {"", "suggested", "typed"}
      BY <1>19, Zenon DEF ResetWizard
    <3>3. labelEdited' \in BOOLEAN
      BY <1>19, Zenon DEF ResetWizard
    <3>4. accessLocked' \in BOOLEAN
      BY <1>0, <1>19 DEF DialogType, ResetWizard
    <3> QED BY <3>1, <3>2, <3>3, <3>4 DEF DialogType
  <2>4. FieldsAsked'
    BY <1>19 DEF ResetWizard, FieldsAsked
  <2> QED BY <2>1, <2>3, <2>4 DEF WizardTypeInv
<1>20. ASSUME NEW c \in wizardCalls, ServerSaved(c)
       PROVE  WizardTypeInv'
  <2>1. c \in SaveCall /\ Asked(c)
    BY <1>0, <1>20 DEF ServerSaved, Saving, TestCall, CallsAsked
  <2>2. c.address \in Address /\ c.login \in Login /\ c.hostKey \in SomeAddress /\ c.facts \in Facts
        /\ c.proved \subseteq Address \X SomeLogin /\ c.late \in BOOLEAN
    BY <2>1 DEF SaveCall, Asked
  <2>3. savedServer' \subseteq ServerRecord
    BY <1>20, <2>2 DEF ServerSaved, ServerRecord, SomeAddress, SomeLogin
  <2> QED BY <1>19, <1>20, <2>3 DEF ServerSaved
<1>21. CASE CloseWizard
  BY <1>0, <1>19, <1>21 DEF CloseWizard, FieldsAsked
<1> QED BY <1>3, <1>4, <1>5, <1>6, <1>7, <1>8, <1>10, <1>11, <1>12, <1>13, <1>14, <1>15, <1>16,
           <1>17, <1>18, <1>20, <1>21 DEF WizardNext

(* At most one request counts, as a number of elements. *)
LEMMA AtMostOne ==
    ASSUME NEW S, \A x, y \in S : x = y
    PROVE  Cardinality(S) <= 1
<1>1. CASE S = {}
  BY <1>1, FS_EmptySet
<1>2. ASSUME NEW x \in S
      PROVE  Cardinality(S) <= 1
  <2>1. S = {x}
    BY <1>2
  <2> QED BY <2>1, FS_Singleton
<1> QED BY <1>1, <1>2

(* This is the type of every variable. *)
LEMMA WizardTypeFollows == WizardInv /\ WizardTypeInv => WizardTypeOK
<1> SUFFICES ASSUME WizardInv, WizardTypeInv PROVE WizardTypeOK
  OBVIOUS
<1>1. wizardCalls \ Saving \subseteq Call
  <2> SUFFICES ASSUME NEW c \in wizardCalls, c.kind # "save" PROVE c \in Call
    BY DEF Saving
  <2>1. c \in TestCall
    BY DEF WizardInv, WizardType, SaveCall
  <2>2. c.address \in Address
    BY DEF WizardTypeInv, CallsAsked, Asked
  <2> QED BY <2>1, <2>2 DEF TestCall, Call, SomeAddress, SomeLogin
<1>2. ASSUME NEW kind \in {"tcp", "auth", "detect"}
      PROVE  Cardinality({c \in wizardCalls : c.kind = kind /\ c.attached}) <= 1
  BY AtMostOne DEF WizardTypeInv, OneCounts
<1> QED BY <1>1, <1>2
        DEF WizardTypeOK, WizardTypeInv, DialogType, FieldsAsked, WizardInv, WizardType,
            SomeAddress, SomeLogin

(* The fields, the requests and the servers stored keep their types, and of each kind
   of test one request at most counts for the dialog: any addresses, logins and bounds. *)
THEOREM WizardTypeCorrect == WizardSpec => []WizardTypeOK
<1>1. WizardTypeInv /\ WizardInv /\ [WizardNext]_wizardVars => WizardTypeInv'
  <2> SUFFICES ASSUME WizardTypeInv, WizardInv, UNCHANGED wizardVars PROVE WizardTypeInv'
    BY WizardTypeStep
  <2> QED BY DEF wizardVars, WizardTypeInv, CallsAsked, Asked, OneCounts, FieldsAsked, DialogType
<1> QED BY <1>1, WizardTypeInit, WizardTypeFollows, InitWizard, NextWizard, PTL DEF WizardSpec
================================================================================
