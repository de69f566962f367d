----------------------------- MODULE LibraryProofs -----------------------------
(***************************************************************************)
(* Of src/Shared, what the whole program is built on:                      *)
(*                                                                         *)
(* The events: no set event of a CMEvent goes unnoticed and no time-out is *)
(* false, for any threads and events.                                      *)
(*                                                                         *)
(* The red-black tree keeps its order, its balance and its pool whatever   *)
(* is stored and deleted, and is a dictionary, for any data, keys and size *)
(* of the pool.  A tree is described by what is below each node (Shape)    *)
(* and by the black height of each node (Balanced); a repair also by what  *)
(* is wrong, and where (Pushing, Deleting).                                *)
(***************************************************************************)
EXTENDS MEvent, RBTree, FiniteSetTheorems, WellFoundedInduction, TLAPS

-----------------------------------------------------------------------------
(* The events.                                                             *)

\* What the step of each thread relies on: the counters need no types here.
Covered ==
  /\ sem \in Nat /\ signals \in Nat
  /\ pc \in [Threads -> {"out", "sleep", "timed", "signal"}]
  /\ signals <= sem + Cardinality(Claiming)

Counts == NoManual => Covered

LEMMA ClaimingFinite == IsFiniteSet(Claiming) /\ Cardinality(Claiming) \in Nat
  <1>1. Claiming \subseteq Threads  BY DEF Claiming
  <1>2. QED  BY <1>1, MEventAssumption, FS_Subset, FS_CardinalityType DEF MEventAssumption

\* A thread that begins to look for its event is one more that does.
LEMMA OneMore ==
  ASSUME NEW t \in Threads, pc \in [Threads -> {"out", "sleep", "timed", "signal"}],
         pc[t] # "signal", pc' = [pc EXCEPT ![t] = "signal"]
  PROVE  Cardinality(Claiming') = Cardinality(Claiming) + 1
  <1>1. Claiming' = Claiming \cup {t} /\ t \notin Claiming  BY DEF Claiming
  <1>2. QED  BY <1>1, ClaimingFinite, FS_AddElement

\* One that returns with its result is one less.
LEMMA OneLess ==
  ASSUME NEW t \in Threads, pc \in [Threads -> {"out", "sleep", "timed", "signal"}],
         pc[t] = "signal", pc' = [pc EXCEPT ![t] = "out"]
  PROVE  Cardinality(Claiming') = Cardinality(Claiming) - 1
  <1>1. Claiming' = Claiming \ {t} /\ t \in Claiming  BY DEF Claiming
  <1>2. QED  BY <1>1, ClaimingFinite, FS_RemoveElement

\* The others change nothing.
LEMMA SameClaims ==
  ASSUME NEW t \in Threads, pc \in [Threads -> {"out", "sleep", "timed", "signal"}],
         NEW p \in {"out", "sleep", "timed"},
         pc[t] # "signal", pc' = [pc EXCEPT ![t] = p]
  PROVE  Claiming' = Claiming
  BY DEF Claiming

LEMMA CountsInit == Init => Counts
  <1> SUFFICES ASSUME Init PROVE Counts  OBVIOUS
  <1>1. Claiming = {}  BY DEF Init, Claiming
  <1>2. Cardinality(Claiming) = 0  BY <1>1, FS_EmptySet
  <1>3. QED  BY <1>2 DEF Init, Counts, Covered

LEMMA CoveredStep ==
  ASSUME Covered, NoManual, [Next]_vars
  PROVE  Covered'
  <1> USE DEF Covered
  <1>0. Cardinality(Claiming) \in Nat  BY ClaimingFinite
  <1>1. ASSUME NEW e \in Events, Set(e)  PROVE Covered'
    <2>1. Claiming' = Claiming  BY <1>1 DEF Set, Claiming
    <2>2. QED  BY <1>0, <1>1, <2>1 DEF Set
  <1>2. ASSUME NEW e \in Events, Clr(e)  PROVE Covered'
    BY <1>2, NoManual DEF Clr, NoManual
  <1>3. ASSUME NEW t \in Threads, Wait(t) \/ WaitTimed(t)  PROVE Covered'
    <2>1. Claiming' = Claiming  BY <1>3, SameClaims DEF Wait, WaitTimed
    <2>2. QED  BY <1>3, <2>1 DEF Wait, WaitTimed, eventVars
  <1>4. ASSUME NEW t \in Threads, SemTaken(t)  PROVE Covered'
    <2>1. Cardinality(Claiming') = Cardinality(Claiming) + 1  BY <1>4, OneMore DEF SemTaken
    <2>2. QED  BY <1>0, <1>4, <2>1 DEF SemTaken, eventVars
  <1>5. ASSUME NEW t \in Threads, Interrupted(t)  PROVE Covered'
    <2>1. Cardinality(Claiming') = Cardinality(Claiming) + 1  BY <1>5, OneMore DEF Interrupted
    <2>2. QED  BY <1>0, <1>5, <2>1 DEF Interrupted, eventVars
  <1>6. ASSUME NEW t \in Threads, TimedOut(t)  PROVE Covered'
    <2>1. Claiming' = Claiming  BY <1>6, SameClaims DEF TimedOut
    <2>2. QED  BY <1>6, <2>1 DEF TimedOut, eventVars
  <1>7. ASSUME NEW t \in Threads, NotFound(t)  PROVE Covered'
    <2>1. Cardinality(Claiming') = Cardinality(Claiming) - 1
      BY <1>7, OneLess DEF NotFound, Return
    <2>2. Cardinality(Claiming') \in Nat
      <3>1. Claiming # {}  BY <1>7 DEF NotFound, Claiming
      <3>2. Cardinality(Claiming) # 0  BY <3>1, ClaimingFinite, FS_EmptySet
      <3>3. QED  BY <1>0, <2>1, <3>2
    <2>3. QED  BY <1>0, <1>7, <2>1, <2>2 DEF NotFound, Return
  <1>8. ASSUME NEW t \in Threads, NEW e \in Events, Found(t, e)  PROVE Covered'
    <2>1. Cardinality(Claiming') = Cardinality(Claiming) - 1
      BY <1>8, OneLess DEF Found, Return
    <2>2. signals' = signals - 1 /\ signals # 0 /\ sem' = sem
      BY <1>8, NoManual DEF Found, Take, Return, NoManual
    <2>3. pc' \in [Threads -> {"out", "sleep", "timed", "signal"}]  BY <1>8 DEF Found, Return
    <2>4. QED  BY <1>0, <2>1, <2>2, <2>3
  <1>9. ASSUME UNCHANGED vars  PROVE Covered'
    BY <1>9 DEF vars, eventVars, Claiming
  <1>10. QED
    BY <1>1, <1>2, <1>3, <1>4, <1>5, <1>6, <1>7, <1>8, <1>9 DEF Next, GetSignal

\* Nothing changes the types of the events.
LEMMA TypesStay == [Next]_vars => types' = types
  BY DEF Next, vars, eventVars, Set, Clr, Wait, WaitTimed, SemTaken, Interrupted, TimedOut,
    GetSignal, NotFound, Found

LEMMA CountsStep == Counts /\ [Next]_vars => Counts'
  <1> SUFFICES ASSUME Counts, [Next]_vars, NoManual'  PROVE Covered'
    BY DEF Counts
  <1>1. NoManual  BY TypesStay DEF NoManual
  <1>2. QED  BY <1>1, CoveredStep DEF Counts

\* While a thread could sleep, the semaphore and the threads on their way cover
\* every signal that is set, for any number of threads and events without a
\* manual one, with any signals of the system.
THEOREM Noticed == Spec => []NoneUnnoticed
  <1>1. Init => Counts  BY CountsInit
  <1>2. Counts /\ [Next]_vars => Counts'  BY CountsStep
  <1>3. Counts => NoneUnnoticed  BY DEF Counts, Covered, NoneUnnoticed
  <1>4. QED  BY <1>1, <1>2, <1>3, PTL DEF Spec

-----------------------------------------------------------------------------
\* The settings of the events that nobody has used up yet, one by one
Settings == {s \in Events \X Nat : 1 <= s[2] /\ s[2] <= counter[s[1]]}

\* m_iSignals counts them.
Settled ==
  /\ counter \in [Events -> Nat] /\ signals \in Nat
  /\ IsFiniteSet(Settings) /\ Cardinality(Settings) = signals

LEMMA SettledInit == Init => Settled
  <1> SUFFICES ASSUME Init PROVE Settled  OBVIOUS
  <1>1. Settings = {}  BY DEF Init, Settings
  <1>2. IsFiniteSet(Settings) /\ Cardinality(Settings) = 0  BY <1>1, FS_EmptySet
  <1>3. QED  BY <1>2 DEF Init, Settled

\* One event more is set.
LEMMA OneSet ==
  ASSUME Settled, NEW e \in Events,
         signals' = signals + 1, counter' = [counter EXCEPT ![e] = @ + 1]
  PROVE  Settled'
  <1> DEFINE s == <<e, counter[e] + 1>>
  <1>1. s \in Events \X Nat /\ s \notin Settings  BY DEF Settled, Settings
  <1>2. Settings' = Settings \cup {s}
    <2>1. \A f \in Events : counter'[f] = IF f = e THEN counter[e] + 1 ELSE counter[f]
      BY DEF Settled
    <2>2. ASSUME NEW x \in Events \X Nat
          PROVE  x \in Settings' <=> x \in Settings \/ x = s
      <3>1. x[1] \in Events /\ x[2] \in Nat /\ x = <<x[1], x[2]>>  OBVIOUS
      <3>2. CASE x[1] = e
        BY <2>1, <3>1, <3>2 DEF Settings, Settled
      <3>3. CASE x[1] # e
        BY <2>1, <3>1, <3>3 DEF Settings
      <3>4. QED  BY <3>2, <3>3
    <2>3. Settings \subseteq Events \X Nat /\ Settings' \subseteq Events \X Nat  BY DEF Settings
    <2>4. QED  BY <1>1, <2>2, <2>3
  <1> HIDE DEF s
  <1>3. IsFiniteSet(Settings') /\ Cardinality(Settings') = Cardinality(Settings) + 1
    BY <1>1, <1>2, FS_AddElement DEF Settled
  <1>4. counter' \in [Events -> Nat] /\ signals' \in Nat  BY DEF Settled
  <1>5. QED  BY <1>3, <1>4 DEF Settled

\* One event that is set is set once less.
LEMMA OneUsed ==
  ASSUME Settled, NEW e \in Events, counter[e] > 0,
         signals' = signals - 1, counter' = [counter EXCEPT ![e] = @ - 1]
  PROVE  Settled'
  <1> DEFINE s == <<e, counter[e]>>
  <1>1. s \in Settings  BY DEF Settled, Settings
  <1>2. Settings' = Settings \ {s}
    <2>1. \A f \in Events : counter'[f] = IF f = e THEN counter[e] - 1 ELSE counter[f]
      BY DEF Settled
    <2>2. ASSUME NEW x \in Events \X Nat
          PROVE  x \in Settings' <=> x \in Settings /\ x # s
      <3>1. x[1] \in Events /\ x[2] \in Nat /\ x = <<x[1], x[2]>>  OBVIOUS
      <3>2. CASE x[1] = e
        BY <2>1, <3>1, <3>2 DEF Settings, Settled
      <3>3. CASE x[1] # e
        BY <2>1, <3>1, <3>3 DEF Settings
      <3>4. QED  BY <3>2, <3>3
    <2>3. Settings \subseteq Events \X Nat /\ Settings' \subseteq Events \X Nat  BY DEF Settings
    <2>4. QED  BY <2>2, <2>3
  <1> HIDE DEF s
  <1>3. IsFiniteSet(Settings') /\ Cardinality(Settings') = Cardinality(Settings) - 1
    BY <1>1, <1>2, FS_RemoveElement DEF Settled
  <1>4. Cardinality(Settings) # 0
    BY <1>1, FS_EmptySet DEF Settled
  <1>5. counter' \in [Events -> Nat] /\ signals' \in Nat
    BY <1>4 DEF Settled
  <1>6. QED  BY <1>3, <1>5 DEF Settled

\* Nothing is counted exactly when no event is set.
LEMMA NoneSet ==
  ASSUME Settled
  PROVE  signals = 0 <=> \A e \in Events : counter[e] = 0
  <1>1. signals = 0 <=> Settings = {}  BY FS_EmptySet DEF Settled
  <1>2. ASSUME NEW e \in Events, counter[e] # 0
        PROVE  <<e, counter[e]>> \in Settings
    BY <1>2 DEF Settled, Settings
  <1>3. ASSUME \A e \in Events : counter[e] = 0
        PROVE  Settings = {}
    BY <1>3 DEF Settings
  <1>4. QED  BY <1>1, <1>2, <1>3

LEMMA SettledStep == Settled /\ [Next]_vars => Settled'
  <1> SUFFICES ASSUME Settled, [Next]_vars PROVE Settled'  OBVIOUS
  <1>1. ASSUME UNCHANGED <<signals, counter>>  PROVE Settled'
    <2>1. Settings' = Settings  BY <1>1 DEF Settings
    <2>2. QED  BY <1>1, <2>1 DEF Settled
  <1>2. ASSUME NEW e \in Events, Set(e)  PROVE Settled'
    BY <1>2, OneSet DEF Set
  <1>3. ASSUME NEW e \in Events, Clr(e)  PROVE Settled'
    BY <1>3, OneUsed DEF Clr
  <1>4. ASSUME NEW t \in Threads,
               Wait(t) \/ WaitTimed(t) \/ SemTaken(t) \/ Interrupted(t) \/ TimedOut(t)
        PROVE  Settled'
    BY <1>1, <1>4 DEF Wait, WaitTimed, SemTaken, Interrupted, TimedOut, eventVars
  <1>5. ASSUME NEW t \in Threads, NotFound(t)  PROVE Settled'
    <2>1. signals = 0  BY <1>5, NoneSet DEF NotFound
    <2>2. QED  BY <1>1, <1>5, <2>1 DEF NotFound
  <1>6. ASSUME NEW t \in Threads, NEW e \in Events, Found(t, e)  PROVE Settled'
    <2>1. counter[e] > 0  BY <1>6 DEF Found, IsFirst
    <2>2. CASE types[e] = "manual"
      BY <1>1, <1>6, <2>2 DEF Found, Take
    <2>3. CASE types[e] # "manual"
      BY <1>6, <2>1, <2>3, OneUsed DEF Found, Take
    <2>4. QED  BY <2>2, <2>3
  <1>7. CASE UNCHANGED vars
    BY <1>1, <1>7 DEF vars, eventVars
  <1>8. QED
    BY <1>2, <1>3, <1>4, <1>5, <1>6, <1>7 DEF Next, GetSignal

\* The search of Get_Signal after a count was taken finds an event exactly when
\* m_iSignals is not zero: the error "signal event wasn't found !" of
\* PMEvent.h never occurs.
THEOREM SignalsAreSettings == Spec => [](signals = 0 <=> \A e \in Events : counter[e] = 0)
  <1>1. Settled => (signals = 0 <=> \A e \in Events : counter[e] = 0)  BY NoneSet
  <1>2. QED  BY <1>1, SettledInit, SettledStep, PTL DEF Spec

\* A thread that no signal of the system interrupts and that hears of the end of
\* its time has missed nothing: while no other thread is on its way to an event,
\* none is set.
THEOREM TimeOutsAreTrue == Spec => TimeOutIsTrue
  <1>1. ASSUME Counts, Settled, NEW t \in Threads \ Interrupts,
               TimedOut(t), NoManual, Claiming = {}
        PROVE  \A e \in Events : counter[e] = 0
    <2>1. sem = 0  BY <1>1 DEF TimedOut
    <2>2. Cardinality(Claiming) = 0  BY <1>1, FS_EmptySet
    <2>3. signals = 0  BY <1>1, <2>1, <2>2 DEF Counts, Covered
    <2>4. QED  BY <1>1, <2>3, NoneSet
  <1>2. Counts /\ Settled /\ [Next]_vars =>
          [\A t \in Threads \ Interrupts :
             TimedOut(t) /\ NoManual /\ Claiming = {} => \A e \in Events : counter[e] = 0]_vars
    BY <1>1
  <1>3. QED
    BY <1>2, CountsInit, CountsStep, SettledInit, SettledStep, PTL DEF Spec, TimeOutIsTrue

-----------------------------------------------------------------------------
(* The tree.                                                               *)

\* A set of natural numbers has a least one.
LEMMA LeastNat ==
  ASSUME NEW S \in SUBSET Nat, S # {}
  PROVE  \E n \in S : \A k \in S : n <= k
<1>. DEFINE Less == {ss \in Nat \X Nat : ss[1] < ss[2]}
<1>1. IsWellFoundedOn(Less, Nat)
  BY NatLessThanWellFounded DEF OpToRel
<1>2. PICK n \in S : \A k \in S : ~(<<k, n>> \in Less)
  BY <1>1, WFMin
<1>3. ASSUME NEW k \in S
      PROVE  n <= k
  <2>1. <<k, n>> \in Nat \X Nat
    OBVIOUS
  <2>2. ~(k < n)
    BY <1>2, <2>1
  <2>. QED BY <2>2
<1>. QED BY <1>3

-----------------------------------------------------------------------------
(* Loops.                                                                  *)

\* What a loop has made of x after each number of rounds
Loops(round, x, rounds, after) ==
  after = [k \in 0 .. rounds |-> IF k = 0 THEN x ELSE round[after[k - 1]]]

\* The recursive function of Looped exists.
LEMMA LoopExists ==
  ASSUME NEW round, NEW x, NEW rounds \in Nat
  PROVE  \E after : Loops(round, x, rounds, after)
<1>. DEFINE Bad == {n \in Nat : ~\E after : Loops(round, x, n, after)}
<1>1. SUFFICES ASSUME Bad # {} PROVE FALSE
  OBVIOUS
<1>2. Bad \in SUBSET Nat
  OBVIOUS
<1>3. PICK n \in Bad : \A k \in Bad : n <= k
  BY <1>1, <1>2, LeastNat
<1>4. CASE n = 0
  <2>. DEFINE after == [k \in 0 .. 0 |-> x]
  <2>1. after = [k \in 0 .. 0 |-> IF k = 0 THEN x ELSE round[after[k - 1]]]
    OBVIOUS
  <2>2. Loops(round, x, n, after)
    BY <1>4, <2>1 DEF Loops
  <2>. QED BY <1>3, <2>2
<1>5. CASE n # 0
  <2>1. n - 1 \in Nat /\ n - 1 \notin Bad
    BY <1>3, <1>5
  <2>2. PICK before : Loops(round, x, n - 1, before)
    BY <2>1
  <2>. DEFINE after == [k \in 0 .. n |-> IF k = 0 THEN x ELSE round[before[k - 1]]]
  <2>3. \A k \in 0 .. n - 1 : after[k] = before[k]
    BY <2>1, <2>2 DEF Loops
  <2>4. after = [k \in 0 .. n |-> IF k = 0 THEN x ELSE round[after[k - 1]]]
    BY <2>1, <2>3
  <2>. HIDE DEF after
  <2>. QED BY <1>3, <2>4 DEF Loops
<1>. QED BY <1>4, <1>5

\* A loop ends well that gets one step closer to its end with each round.
LEMMA LoopEnds ==
  ASSUME NEW round, NEW x, NEW rounds \in Nat, NEW Close, x \in Close[rounds],
         \A k \in Nat : \A y \in Close[k + 1] : round[y] \in Close[k]
  PROVE  Looped(round, x, rounds) \in Close[0]
<1>. DEFINE after == CHOOSE f : Loops(round, x, rounds, f)
<1>1. Loops(round, x, rounds, after)
  BY LoopExists
<1>2. Looped(round, x, rounds) = after[rounds]
  BY DEF Looped, Loops
<1>. HIDE DEF after
<1>3. after[0] = x /\ \A k \in 1 .. rounds : after[k] = round[after[k - 1]]
  BY <1>1 DEF Loops
<1>. DEFINE Bad == {k \in 0 .. rounds : after[k] \notin Close[rounds - k]}
<1>4. Bad = {}
  <2>. SUFFICES ASSUME Bad # {} PROVE FALSE
    OBVIOUS
  <2>1. Bad \in SUBSET Nat
    OBVIOUS
  <2>2. PICK k \in Bad : \A j \in Bad : k <= j
    BY <2>1, LeastNat
  <2>3. k # 0
    BY <1>3, <2>2
  <2>. DEFINE j == k - 1
              left == rounds - k
  <2>4. j \in 0 .. rounds /\ j \notin Bad /\ k \in 1 .. rounds /\ left \in Nat /\ rounds - j = left + 1
    BY <2>2, <2>3
  <2>5. after[j] \in Close[left + 1]
    BY <2>4
  <2>6. after[k] = round[after[j]]
    BY <1>3, <2>4
  <2>. HIDE DEF left, j
  <2>7. after[k] \in Close[left]
    BY <2>4, <2>5, <2>6
  <2>. QED BY <2>2, <2>7 DEF left
<1>. QED
  <2>1. rounds \in 0 .. rounds /\ rounds - rounds = 0
    OBVIOUS
  <2>. QED BY <1>2, <1>4, <2>1

-----------------------------------------------------------------------------
(* What the operators that write a tree leave in it.                       *)

Tree(t, N) == Nil \in N /\ N \subseteq Data \cup {Nil} /\ t \in TreesOver(N)

\* There are two sides, each the other of the other.
LEMMA SidesFacts ==
  /\ Sides = {"left", "right"} /\ "left" # "right"
  /\ Other("left") = "right" /\ Other("right") = "left"
  /\ \A s \in Sides : Other(s) \in Sides /\ Other(s) # s /\ Other(Other(s)) = s
  /\ \A s, o \in Sides : o = s \/ o = Other(s)
BY DEF Sides, Other

\* The types of a tree
LEMMA TreeFacts ==
  ASSUME NEW N, NEW t, Tree(t, N)
  PROVE  /\ DOMAIN t.node = N /\ Stored(t) = N \ {Nil} /\ t.root \in N
         /\ Nil \notin Data /\ NoData \notin Data /\ NoData # Nil
         /\ \A n \in N : Parent(t, n) \in Data \cup {NoData} /\ Red(t, n) \in BOOLEAN
         /\ \A n \in N, s \in Sides : Child(t, n, s) \in N
BY RBTreeAssumption DEF Tree, TreesOver, Stored, Parent, Red, Child

\* u is t with another root, another child, another parent
RootIs(N, t, u, m) ==
  /\ Tree(u, N) /\ u.root = m
  /\ \A q \in N : Parent(u, q) = Parent(t, q) /\ Red(u, q) = Red(t, q)
  /\ \A q \in N, c \in Sides : Child(u, q, c) = Child(t, q, c)

ChildIs(N, t, u, n, s, m) ==
  /\ Tree(u, N) /\ u.root = t.root
  /\ \A q \in N : Parent(u, q) = Parent(t, q) /\ Red(u, q) = Red(t, q)
  /\ \A q \in N, c \in Sides : Child(u, q, c) = IF q = n /\ c = s THEN m ELSE Child(t, q, c)

ParentIs(N, t, u, n, p) ==
  /\ Tree(u, N) /\ u.root = t.root
  /\ \A q \in N : Parent(u, q) = (IF q = n THEN p ELSE Parent(t, q)) /\ Red(u, q) = Red(t, q)
  /\ \A q \in N, c \in Sides : Child(u, q, c) = Child(t, q, c)

\* Each write of the model, by what it leaves: the root, ...
LEMMA RootFacts ==
  ASSUME NEW N, NEW t, Tree(t, N), NEW m \in N
  PROVE  RootIs(N, t, [t EXCEPT !.root = m], m)
<1>. DEFINE u == [t EXCEPT !.root = m]
<1>1. u \in TreesOver(N) /\ u.root = m /\ u.node = t.node
  BY DEF Tree, TreesOver
<1>. QED BY <1>1 DEF RootIs, Tree, Parent, Red, Child

\* ... a child, ...
LEMMA ChildFacts ==
  ASSUME NEW N, NEW t, Tree(t, N), NEW n \in N, NEW s \in Sides, NEW m \in N
  PROVE  ChildIs(N, t, [t EXCEPT !.node[n].child[s] = m], n, s, m)
<1>. DEFINE u == [t EXCEPT !.node[n].child[s] = m]
<1>1. u \in TreesOver(N) /\ u.root = t.root
  BY DEF Tree, TreesOver
<1>2. ASSUME NEW q \in N
      PROVE  /\ Parent(u, q) = Parent(t, q) /\ u.node[q].red = t.node[q].red
             /\ \A c \in Sides : Child(u, q, c) = IF q = n /\ c = s THEN m ELSE Child(t, q, c)
  BY DEF Tree, TreesOver, Parent, Child
<1>. QED BY <1>1, <1>2 DEF ChildIs, Tree, Red

\* ... a parent, ...
LEMMA ParentFacts ==
  ASSUME NEW N, NEW t, Tree(t, N), NEW n \in N, NEW p \in Data \cup {NoData}
  PROVE  ParentIs(N, t, SetParent(t, n, p), n, p)
<1>. DEFINE u == SetParent(t, n, p)
<1>1. u \in TreesOver(N) /\ u.root = t.root
  BY DEF Tree, TreesOver, SetParent
<1>2. ASSUME NEW q \in N
      PROVE  /\ Parent(u, q) = (IF q = n THEN p ELSE Parent(t, q)) /\ u.node[q].red = t.node[q].red
             /\ \A c \in Sides : Child(u, q, c) = Child(t, q, c)
  BY DEF Tree, TreesOver, SetParent, Parent, Child
<1>. QED BY <1>1, <1>2 DEF ParentIs, Tree, Red

\* Where n hangs below p
Place(t, p, n) == IF n = Child(t, p, "left") THEN "left" ELSE "right"

\* ... what hung at p as n, ...
LEMMA ReplaceFacts ==
  ASSUME NEW N, NEW t, Tree(t, N), NEW p \in N \cup {NoData}, NEW n, NEW m \in N
  PROVE  IF p = NoData THEN RootIs(N, t, Replace(t, p, n, m), m)
         ELSE ChildIs(N, t, Replace(t, p, n, m), p, Place(t, p, n), m)
<1>1. Place(t, p, n) \in Sides /\ (p # NoData => p \in N)
  BY DEF Place, Sides
<1>2. CASE p = NoData
  BY <1>2, RootFacts DEF Replace
<1>3. CASE p # NoData
  <2>1. Replace(t, p, n, m) = [t EXCEPT !.node[p].child[Place(t, p, n)] = m]
    BY <1>3 DEF Replace, Place
  <2>. QED BY <1>1, <1>3, <2>1, ChildFacts
<1>. QED BY <1>2, <1>3

\* m hangs at side s of n in u.
HangIs(N, t, u, n, s, m) ==
  /\ Tree(u, N) /\ u.root = t.root
  /\ \A q \in N : Red(u, q) = Red(t, q)
  /\ \A q \in N : Parent(u, q) = IF q = m /\ m # Nil THEN n ELSE Parent(t, q)
  /\ \A q \in N, c \in Sides : Child(u, q, c) = IF q = n /\ c = s THEN m ELSE Child(t, q, c)

\* ... and a child with its parent.
LEMMA HangFacts ==
  ASSUME NEW N, NEW t, Tree(t, N), NEW n \in N, n # Nil, NEW s \in Sides, NEW m \in N
  PROVE  HangIs(N, t, Hang(t, n, s, m), n, s, m)
<1>1. PICK t1 : t1 = [t EXCEPT !.node[n].child[s] = m]
  OBVIOUS
<1>2. ChildIs(N, t, t1, n, s, m)
  BY <1>1, ChildFacts
<1>3. PICK p : p = IF m = Nil THEN Parent(t1, m) ELSE n
  OBVIOUS
<1>4. Tree(t1, N) /\ p \in Data \cup {NoData}
  BY <1>2, <1>3, TreeFacts DEF ChildIs, Tree
<1>5. PICK u : u = SetParent(t1, m, p)
  OBVIOUS
<1>6. ParentIs(N, t1, u, m, p)
  BY <1>4, <1>5, ParentFacts
<1>7. Hang(t, n, s, m) = u
  <2>1. Hang(t, n, s, m) = [t1 EXCEPT !.node[m].parent = IF m = Nil THEN @ ELSE n]
    BY <1>1 DEF Hang
  <2>2. [t1 EXCEPT !.node[m].parent = IF m = Nil THEN @ ELSE n] = [t1 EXCEPT !.node[m].parent = p]
    BY <1>3, <1>4 DEF Parent, Tree, TreesOver
  <2>. QED BY <1>5, <2>1, <2>2 DEF SetParent
<1>8. Tree(u, N) /\ u.root = t.root
  BY <1>2, <1>6 DEF ChildIs, ParentIs
<1>9. ASSUME NEW q \in N
      PROVE  /\ Parent(u, q) = IF q = m /\ m # Nil THEN n ELSE Parent(t, q)
             /\ Red(u, q) = Red(t, q)
  BY <1>2, <1>3, <1>6 DEF ChildIs, ParentIs
<1>10. \A q \in N, c \in Sides : Child(u, q, c) = IF q = n /\ c = s THEN m ELSE Child(t, q, c)
  BY <1>2, <1>6 DEF ChildIs, ParentIs
<1>. QED BY <1>7, <1>8, <1>9, <1>10 DEF HangIs

\* u is t after a rotation: r hangs at p in the place of n, n below r, and m, which
\* was between them, below n.
RotateIs(N, t, u, n, s, r, m, p) ==
  /\ Tree(u, N) /\ u.root = (IF p = NoData THEN r ELSE t.root)
  /\ \A q \in N : Red(u, q) = Red(t, q)
  /\ \A q \in N : Parent(u, q) = IF q = n THEN r
                                 ELSE IF q = r THEN p
                                 ELSE IF q = m /\ m # Nil THEN n ELSE Parent(t, q)
  /\ \A q \in N, c \in Sides :
       Child(u, q, c) = IF q = r /\ c = s THEN n
                        ELSE IF q = p /\ c = Place(t, p, n) THEN r
                        ELSE IF q = n /\ c = Other(s) THEN m ELSE Child(t, q, c)

\* A rotation as the code makes it, link by link
LEMMA RotateChain ==
  ASSUME NEW N, NEW t, Tree(t, N), NEW n \in N, n # Nil, NEW s \in Sides,
         NEW r \in N, r # Nil, NEW m \in N, NEW p \in N \cup {NoData}, p # n, p # Nil,
         Rotate(t, n, s) = Hang(Replace(SetParent(Hang(t, n, Other(s), m), r, p), p, n, r), r, s, n)
  PROVE  RotateIs(N, t, Rotate(t, n, s), n, s, r, m, p)
<1>1. Other(s) \in Sides /\ p \in Data \cup {NoData} /\ (p # NoData => p \in N)
      /\ "left" \in Sides /\ NoData \notin N
  BY SidesFacts, RBTreeAssumption DEF Tree
<1>2. PICK t1 : t1 = Hang(t, n, Other(s), m)
  OBVIOUS
<1>3. PICK t2 : t2 = SetParent(t1, r, p)
  OBVIOUS
<1>4. PICK t3 : t3 = Replace(t2, p, n, r)
  OBVIOUS
<1>5. PICK u : u = Hang(t3, r, s, n)
  OBVIOUS
<1>6. Rotate(t, n, s) = u
  BY <1>2, <1>3, <1>4, <1>5
<1>7. HangIs(N, t, t1, n, Other(s), m)
  BY <1>1, <1>2, HangFacts
<1>8. ParentIs(N, t1, t2, r, p)
  BY <1>1, <1>3, <1>7, ParentFacts DEF HangIs
<1>9. IF p = NoData THEN RootIs(N, t2, t3, r) ELSE ChildIs(N, t2, t3, p, Place(t2, p, n), r)
  BY <1>4, <1>8, ReplaceFacts DEF ParentIs
<1>10. p # NoData => Place(t2, p, n) = Place(t, p, n)
  BY <1>1, <1>7, <1>8 DEF HangIs, ParentIs, Place
<1>11. HangIs(N, t3, u, r, s, n)
  <2>1. Tree(t3, N)
    BY <1>9 DEF RootIs, ChildIs
  <2>. QED BY <1>5, <2>1, HangFacts
<1>12. Tree(u, N) /\ u.root = (IF p = NoData THEN r ELSE t.root)
  BY <1>7, <1>8, <1>9, <1>11 DEF HangIs, ParentIs, RootIs, ChildIs
<1>13. ASSUME NEW q \in N
       PROVE  /\ Red(u, q) = Red(t, q)
              /\ Parent(u, q) = IF q = n THEN r ELSE IF q = r THEN p
                                ELSE IF q = m /\ m # Nil THEN n ELSE Parent(t, q)
  BY <1>7, <1>8, <1>9, <1>11 DEF HangIs, ParentIs, RootIs, ChildIs
<1>14. ASSUME NEW q \in N, NEW c \in Sides
       PROVE  Child(u, q, c) = IF q = r /\ c = s THEN n
                               ELSE IF q = p /\ c = Place(t, p, n) THEN r
                               ELSE IF q = n /\ c = Other(s) THEN m ELSE Child(t, q, c)
  <2>1. Child(t3, q, c) = IF q = p /\ c = Place(t, p, n) THEN r ELSE Child(t2, q, c)
    BY <1>1, <1>9, <1>10 DEF RootIs, ChildIs
  <2>2. Child(t2, q, c) = IF q = n /\ c = Other(s) THEN m ELSE Child(t, q, c)
    BY <1>7, <1>8 DEF HangIs, ParentIs
  <2>3. Child(u, q, c) = IF q = r /\ c = s THEN n ELSE Child(t3, q, c)
    BY <1>11 DEF HangIs
  <2>. QED BY <2>1, <2>2, <2>3
<1>. QED BY <1>6, <1>12, <1>13, <1>14 DEF RotateIs

\* Rotate_Left and Rotate_Right leave what RotateIs says.
LEMMA RotateFacts ==
  ASSUME NEW N, NEW t, Tree(t, N), NEW n \in N, n # Nil, NEW s \in Sides,
         Child(t, n, Other(s)) # Nil, Parent(t, n) \in N \cup {NoData},
         Parent(t, n) # n, Parent(t, n) # Nil
  PROVE  RotateIs(N, t, Rotate(t, n, s), n, s, Child(t, n, Other(s)),
                  Child(t, Child(t, n, Other(s)), s), Parent(t, n))
<1>1. PICK r, m, p : r = Child(t, n, Other(s)) /\ m = Child(t, r, s) /\ p = Parent(t, n)
  OBVIOUS
<1>2. r \in N /\ m \in N
  BY <1>1, SidesFacts, TreeFacts
<1>3. Rotate(t, n, s) = Hang(Replace(SetParent(Hang(t, n, Other(s), m), r, p), p, n, r), r, s, n)
  <2>1. Rotate(t, n, s) =
          Hang(Replace(IF r = Nil THEN Hang(t, n, Other(s), m)
                       ELSE SetParent(Hang(t, n, Other(s), m), r, p), p, n, r), r, s, n)
    BY <1>1 DEF Rotate
  <2>. QED BY <1>1, <2>1
<1>4. RotateIs(N, t, Rotate(t, n, s), n, s, r, m, p)
  BY <1>1, <1>2, <1>3, RotateChain
<1>. QED BY <1>1, <1>4

-----------------------------------------------------------------------------
(* The shape of a tree: its links, and the order of its keys.              *)

\* a comes before b on side s.
Before(s, a, b) == IF s = "left" THEN KeyOf[a] < KeyOf[b] ELSE KeyOf[b] < KeyOf[a]

\* The links agree in both directions, and nothing hangs at the sentinel.
Links(t, N) ==
  /\ \A s \in Sides : Child(t, Nil, s) = Nil
  /\ t.root # Nil => Parent(t, t.root) = NoData
  /\ \A n \in N \ {Nil}, s \in Sides : Child(t, n, s) # Nil => Parent(t, Child(t, n, s)) = n
  /\ \A n \in N \ {Nil, t.root} :
       Parent(t, n) \in N \ {Nil} /\ \E s \in Sides : Child(t, Parent(t, n), s) = n

\* sub gives the nodes below each node, itself included: all of them below the root.
Below(t, N, sub) ==
  /\ sub \in [N -> SUBSET (N \ {Nil})] /\ sub[Nil] = {} /\ sub[t.root] = N \ {Nil}
  /\ \A n \in N \ {Nil} : sub[n] = {n} \cup sub[Child(t, n, "left")] \cup sub[Child(t, n, "right")]

\* What is below a node on a side comes before it on that side.
Sorted(t, N, sub) ==
  \A n \in N \ {Nil}, s \in Sides : \A x \in sub[Child(t, n, s)] : Before(s, x, n)

KeysDiffer(N) == \A a, b \in N \ {Nil} : KeyOf[a] = KeyOf[b] => a = b

Shape(t, N, sub) ==
  Tree(t, N) /\ IsFiniteSet(N) /\ Links(t, N) /\ Below(t, N, sub) /\ Sorted(t, N, sub) /\ KeysDiffer(N)

\* The order of the keys is strict.
LEMMA BeforeFacts ==
  ASSUME NEW a \in Data, NEW b \in Data, NEW s \in Sides
  PROVE  /\ ~Before(s, a, a)
         /\ Before(s, a, b) => a # b /\ ~Before(s, b, a) /\ ~Before(Other(s), a, b)
         /\ Before(Other(s), a, b) <=> Before(s, b, a)
         /\ KeyOf[a] # KeyOf[b] => Before(s, a, b) \/ Before(s, b, a)
         /\ \A c \in Data : Before(s, a, b) /\ Before(s, b, c) => Before(s, a, c)
<1>1. KeyOf[a] \in Int /\ KeyOf[b] \in Int /\ \A c \in Data : KeyOf[c] \in Int
  BY RBTreeAssumption
<1>. QED BY <1>1 DEF Before, Other, Sides

\* What is below a node
LEMMA BelowFacts ==
  ASSUME NEW N, NEW t, NEW sub, Shape(t, N, sub), NEW n \in N, n # Nil, NEW s \in Sides
  PROVE  LET c == Child(t, n, s)
             d == Child(t, n, Other(s))
         IN
         /\ c \in N /\ d \in N /\ n \in Data
         /\ n \in sub[n] /\ sub[n] \subseteq N \ {Nil}
         /\ sub[n] = {n} \cup sub[c] \cup sub[d]
         /\ n \notin sub[c] /\ n \notin sub[d] /\ c # n
         /\ c # Nil => c # d /\ c \in sub[c] /\ Parent(t, c) = n /\ c # t.root
         /\ sub[c] \cap sub[d] = {}
<1>. DEFINE c == Child(t, n, s)
            d == Child(t, n, Other(s))
<1>1. c \in N /\ d \in N /\ n \in Data /\ Other(s) \in Sides
  BY SidesFacts, TreeFacts DEF Shape, Tree
<1>2. sub[n] = {n} \cup sub[c] \cup sub[d] /\ sub[n] \subseteq N \ {Nil}
  <2>1. (s = "left" /\ Other(s) = "right") \/ (s = "right" /\ Other(s) = "left")
    BY DEF Sides, Other
  <2>2. sub[n] = {n} \cup sub[Child(t, n, "left")] \cup sub[Child(t, n, "right")]
        /\ sub[n] \in SUBSET (N \ {Nil})
    BY DEF Shape, Below
  <2>. QED BY <2>1, <2>2
<1>3. \A x \in sub[c] : x \in Data /\ Before(s, x, n)
  BY <1>1, <1>2 DEF Shape, Sorted, Tree
<1>4. \A x \in sub[d] : x \in Data /\ Before(Other(s), x, n)
  BY <1>1, <1>2 DEF Shape, Sorted, Tree
<1>5. n \notin sub[c] /\ n \notin sub[d]
  BY <1>1, <1>3, <1>4, BeforeFacts
<1>6. sub[c] \cap sub[d] = {}
  <2>. SUFFICES ASSUME NEW x \in sub[c], x \in sub[d] PROVE FALSE
    OBVIOUS
  <2>. QED BY <1>1, <1>3, <1>4, BeforeFacts
<1>7. c # Nil => c \in sub[c]
  BY <1>1 DEF Shape, Below
<1>8. c # Nil => Parent(t, c) = n
  BY <1>1 DEF Shape, Links
<1>9. c # t.root \/ c = Nil
  BY <1>1, <1>8, RBTreeAssumption DEF Shape, Links
<1>. HIDE DEF c, d
<1>10. c # n /\ (c # Nil => c # d)
  BY <1>5, <1>6, <1>7
<1>. QED BY <1>1, <1>2, <1>5, <1>6, <1>7, <1>8, <1>9, <1>10 DEF c, d

\* Where a node hangs
LEMMA AboveFacts ==
  ASSUME NEW N, NEW t, NEW sub, Shape(t, N, sub), NEW n \in N, n # Nil
  PROVE  LET p == Parent(t, n)
             s == SideOf(t, n)
         IN
         /\ n = t.root => p = NoData
         /\ n # t.root => /\ p \in N /\ p # Nil /\ p # n /\ s \in Sides /\ Child(t, p, s) = n
                          /\ Place(t, p, n) = s /\ p \notin sub[n] /\ sub[n] \subseteq sub[p]
<1>. DEFINE p == Parent(t, n)
            s == SideOf(t, n)
<1>1. n = t.root => p = NoData
  BY DEF Shape, Links
<1>2. ASSUME n # t.root
      PROVE  /\ p \in N /\ p # Nil /\ p # n /\ s \in Sides /\ Child(t, p, s) = n
             /\ Place(t, p, n) = s /\ p \notin sub[n] /\ sub[n] \subseteq sub[p]
  <2>1. p \in N /\ p # Nil /\ \E c \in Sides : Child(t, p, c) = n
    BY <1>2 DEF Shape, Links
  <2>2. s \in Sides /\ Child(t, p, s) = n /\ Place(t, p, n) = s
    BY <2>1 DEF Sides, SideOf, Place
  <2>. HIDE DEF p, s
  <2>3. p \notin sub[n] /\ sub[n] \subseteq sub[p] /\ p # n
    BY <2>1, <2>2, BelowFacts
  <2>. QED BY <2>1, <2>2, <2>3
<1>. QED BY <1>1, <1>2

\* u is t with another colour of n
PaintIs(N, t, u, n, red) ==
  /\ Tree(u, N) /\ u.root = t.root
  /\ \A q \in N : Parent(u, q) = Parent(t, q)
  /\ \A q \in N : Red(u, q) = (IF q = n THEN red ELSE Red(t, q))
  /\ \A q \in N, s \in Sides : Child(u, q, s) = Child(t, q, s)

\* Painting a node changes its colour and nothing else.
LEMMA PaintFacts ==
  ASSUME NEW N, NEW t, Tree(t, N), NEW n \in N, NEW red \in BOOLEAN
  PROVE  PaintIs(N, t, Paint(t, n, red), n, red)
<1>. DEFINE u == Paint(t, n, red)
<1>1. Tree(u, N)
  BY DEF Tree, TreesOver, Paint
<1>2. u.root = t.root
  BY DEF Tree, TreesOver, Paint
<1>3. ASSUME NEW q \in N
      PROVE  /\ Parent(u, q) = Parent(t, q)
             /\ u.node[q].red = (IF q = n THEN red ELSE t.node[q].red)
             /\ \A s \in Sides : Child(u, q, s) = Child(t, q, s)
  BY DEF Tree, TreesOver, Paint, Parent, Child
<1>4. \A q \in N : Red(u, q) = (IF q = n THEN red ELSE Red(t, q))
  BY <1>3 DEF Red
<1>5. PICK v : v = u
  OBVIOUS
<1>6. PaintIs(N, t, v, n, red)
  <2>1. Tree(v, N) /\ v.root = t.root
    BY <1>1, <1>2, <1>5
  <2>2. \A q \in N : Parent(v, q) = Parent(t, q)
    BY <1>3, <1>5
  <2>3. \A q \in N : Red(v, q) = (IF q = n THEN red ELSE Red(t, q))
    BY <1>4, <1>5
  <2>4. \A q \in N, s \in Sides : Child(v, q, s) = Child(t, q, s)
    BY <1>3, <1>5
  <2>. QED BY <2>1, <2>2, <2>3, <2>4 DEF PaintIs
<1>. QED BY <1>5, <1>6

\* Painting a node does not touch the shape.
LEMMA SameShape ==
  ASSUME NEW N, NEW t, NEW u, NEW sub, Shape(t, N, sub), Tree(u, N), u.root = t.root,
         \A q \in N : Parent(u, q) = Parent(t, q),
         \A q \in N, s \in Sides : Child(u, q, s) = Child(t, q, s)
  PROVE  Shape(u, N, sub)
<1>1. t.root \in N /\ \A q \in N, s \in Sides : Child(t, q, s) \in N
  BY TreeFacts DEF Shape
<1>2. "left" \in Sides /\ "right" \in Sides
  BY SidesFacts
<1>3. Links(u, N)
  <2>1. \A s \in Sides : Child(u, Nil, s) = Nil
    BY DEF Shape, Links, Tree
  <2>. QED BY <1>1, <2>1 DEF Shape, Links
<1>4. Below(u, N, sub)
  BY <1>1, <1>2 DEF Shape, Below
<1>5. Sorted(u, N, sub)
  BY <1>1 DEF Shape, Sorted
<1>. QED BY <1>3, <1>4, <1>5 DEF Shape

\* What is below each node after a rotation
Turned(t, sub, n, s) ==
  LET r == Child(t, n, Other(s)) IN
  [sub EXCEPT ![n] = {n} \cup sub[Child(t, n, s)] \cup sub[Child(t, r, s)], ![r] = sub[n]]

\* The nodes of a rotation differ.
LEMMA RotateNodes ==
  ASSUME NEW N, NEW t, NEW sub, Shape(t, N, sub), NEW n \in N, n # Nil, NEW s \in Sides,
         NEW o, o = Other(s), NEW r, r = Child(t, n, o), r # Nil, NEW m, m = Child(t, r, s),
         NEW c, c = Child(t, n, s), NEW e, e = Child(t, r, o), NEW p, p = Parent(t, n)
  PROVE  /\ o \in Sides /\ r \in N /\ m \in N /\ c \in N /\ e \in N /\ o # s
         /\ r # n /\ m # n /\ m # r /\ c # n /\ c # r /\ e # n /\ e # r
         /\ m # Nil => m # c /\ m # e /\ Parent(t, m) = r /\ m # t.root
         /\ c # Nil => Parent(t, c) = n
         /\ e # Nil => Parent(t, e) = r
         /\ Parent(t, r) = n /\ r # t.root
         /\ sub[n] = {n} \cup sub[c] \cup sub[r] /\ sub[r] = {r} \cup sub[m] \cup sub[e]
         /\ p # n /\ p # r /\ p # m /\ p # Nil /\ p \in N \cup {NoData} /\ NoData \notin N
         /\ p = NoData <=> n = t.root
<1>1. o \in Sides /\ s = Other(o) /\ o # s /\ NoData \notin N /\ NoData # Nil
  BY SidesFacts, RBTreeAssumption DEF Shape, Tree
<1>2. /\ r \in N /\ c \in N /\ sub[n] = {n} \cup sub[r] \cup sub[c]
      /\ n \notin sub[r] /\ n \notin sub[c] /\ r # n /\ r # c /\ r \in sub[r]
      /\ Parent(t, r) = n /\ r # t.root
      /\ sub[r] \cap sub[c] = {}
  BY <1>1, BelowFacts
<1>3. /\ c # n
      /\ c # Nil => c \in sub[c] /\ Parent(t, c) = n
  BY BelowFacts
<1>4. /\ m \in N /\ e \in N /\ sub[r] = {r} \cup sub[m] \cup sub[e]
      /\ r \notin sub[m] /\ r \notin sub[e] /\ m # r
      /\ m # Nil => m # e /\ m \in sub[m] /\ Parent(t, m) = r /\ m # t.root
  BY <1>1, <1>2, BelowFacts
<1>5. /\ e # r
      /\ e # Nil => e \in sub[e] /\ Parent(t, e) = r
  BY <1>1, <1>2, BelowFacts
<1>6. m # n /\ e # n /\ (m # Nil => m # c)
  BY <1>2, <1>3, <1>4, <1>5
<1>7. /\ n = t.root => p = NoData
      /\ n # t.root => p \in N /\ p # Nil /\ p # n /\ p \notin sub[n]
  BY AboveFacts
<1>8. p # r /\ p # m
  BY <1>1, <1>2, <1>4, <1>7
<1>9. p # n /\ p # Nil /\ p \in N \cup {NoData} /\ (p = NoData <=> n = t.root)
  BY <1>1, <1>7
<1>. QED BY <1>1, <1>2, <1>3, <1>4, <1>5, <1>6, <1>8, <1>9

\* The links agree after a rotation.
LEMMA RotateLinks ==
  ASSUME NEW N, NEW t, NEW sub, Shape(t, N, sub), NEW n \in N, n # Nil, NEW s \in Sides,
         NEW o, o = Other(s), NEW r, r = Child(t, n, o), r # Nil, NEW m, m = Child(t, r, s),
         NEW p, p = Parent(t, n), NEW u, RotateIs(N, t, u, n, s, r, m, p)
  PROVE  Links(u, N)
<1>1. PICK c, e : c = Child(t, n, s) /\ e = Child(t, r, o)
  OBVIOUS
<1>2. /\ o \in Sides /\ r \in N /\ m \in N /\ c \in N /\ e \in N /\ o # s
      /\ r # n /\ m # n /\ m # r /\ c # n /\ c # r /\ e # n /\ e # r
      /\ m # Nil => m # c /\ m # e /\ Parent(t, m) = r /\ m # t.root
      /\ c # Nil => Parent(t, c) = n
      /\ e # Nil => Parent(t, e) = r
      /\ Parent(t, r) = n /\ r # t.root
      /\ p # n /\ p # r /\ p # m /\ p # Nil /\ p \in N \cup {NoData} /\ NoData \notin N
      /\ p = NoData <=> n = t.root
  BY <1>1, RotateNodes
<1>. DEFINE at == Place(t, p, n)
<1>3. p # NoData => p \in N /\ at \in Sides /\ Child(t, p, at) = n
  BY <1>2, AboveFacts
<1>. HIDE DEF at
<1>4. \A q \in Sides : q = s \/ q = o
  BY SidesFacts
<1>5. /\ u.root = (IF p = NoData THEN r ELSE t.root)
      /\ \A q \in N : Parent(u, q) = IF q = n THEN r
                                     ELSE IF q = r THEN p
                                     ELSE IF q = m /\ m # Nil THEN n ELSE Parent(t, q)
      /\ \A q \in N, d \in Sides :
           Child(u, q, d) = IF q = r /\ d = s THEN n
                            ELSE IF q = p /\ d = at THEN r
                            ELSE IF q = n /\ d = o THEN m ELSE Child(t, q, d)
  BY DEF RotateIs, at
<1>6. /\ t.root \in N /\ (t.root # Nil => Parent(t, t.root) = NoData)
      /\ \A q \in N \ {Nil}, d \in Sides : Child(t, q, d) # Nil => Parent(t, Child(t, q, d)) = q
      /\ \A q \in N \ {Nil, t.root} :
           Parent(t, q) \in N \ {Nil} /\ \E d \in Sides : Child(t, Parent(t, q), d) = q
      /\ \A q \in N, d \in Sides : Child(t, q, d) \in N
  BY TreeFacts DEF Shape, Links
<1>7. u.root # Nil => Parent(u, u.root) = NoData
  BY <1>2, <1>5, <1>6
<1>8. ASSUME NEW q \in N \ {Nil}, NEW d \in Sides, Child(u, q, d) # Nil
      PROVE  Parent(u, Child(u, q, d)) = q
  <2>1. CASE q = r
    BY <1>1, <1>2, <1>4, <1>5, <1>8, <2>1
  <2>2. CASE q = n
    BY <1>1, <1>2, <1>4, <1>5, <1>8, <2>2
  <2>3. CASE q = p /\ d = at
    BY <1>2, <1>5, <1>8, <2>3
  <2>4. CASE q # r /\ q # n /\ ~(q = p /\ d = at)
    <3>1. PICK x : x = Child(t, q, d)
      OBVIOUS
    <3>2. Child(u, q, d) = x /\ x \in N /\ x # Nil /\ Parent(t, x) = q
      BY <1>5, <1>6, <1>8, <2>4, <3>1
    <3>3. x # n
      <4>. SUFFICES ASSUME x = n PROVE FALSE
        OBVIOUS
      <4>1. q = p /\ d = Other(at) /\ p # NoData
        BY <1>2, <1>3, <2>4, <3>2, SidesFacts
      <4>2. Child(t, p, at) # Child(t, p, Other(at))
        BY <1>2, <1>3, <4>1, BelowFacts
      <4>. QED BY <1>3, <3>1, <4>1, <4>2
    <3>4. x # r /\ x # m
      BY <1>2, <2>4, <3>2
    <3>. QED BY <1>5, <3>2, <3>3, <3>4
  <2>. QED BY <2>1, <2>2, <2>3, <2>4
<1>9. ASSUME NEW q \in N \ {Nil, u.root}
      PROVE  Parent(u, q) \in N \ {Nil} /\ \E d \in Sides : Child(u, Parent(u, q), d) = q
  <2>1. CASE q = n
    BY <1>2, <1>5, <2>1
  <2>2. CASE q = r
    BY <1>2, <1>3, <1>5, <2>2
  <2>3. CASE q = m
    BY <1>2, <1>5, <2>3
  <2>4. CASE q # n /\ q # r /\ q # m
    <3>1. q # t.root
      BY <1>2, <1>5, <2>4
    <3>2. PICK y : y = Parent(t, q) /\ y \in N \ {Nil}
      BY <1>6, <3>1
    <3>3. PICK d \in Sides : Child(t, y, d) = q
      BY <1>6, <3>1, <3>2
    <3>4. Parent(u, q) = y
      BY <1>5, <2>4, <3>2
    <3>5. ~(y = p /\ d = at) /\ ~(y = n /\ d = o) /\ ~(y = r /\ d = s)
      BY <1>2, <1>3, <2>4, <3>2, <3>3
    <3>6. Child(u, y, d) = q
      BY <1>5, <3>2, <3>3, <3>5
    <3>. QED BY <3>2, <3>4, <3>6
  <2>. QED BY <2>1, <2>2, <2>3, <2>4
<1>10. \A d \in Sides : Child(u, Nil, d) = Nil
  BY <1>2, <1>5 DEF Shape, Links, Tree
<1>. QED BY <1>7, <1>8, <1>9, <1>10 DEF Links

\* What a node that does not turn sees below it stays.
LEMMA RotateRest ==
  ASSUME NEW N, NEW t, NEW sub, Shape(t, N, sub), NEW n \in N, n # Nil, NEW s \in Sides,
         NEW o, o = Other(s), NEW r, r = Child(t, n, o), r # Nil, NEW m, m = Child(t, r, s),
         NEW p, p = Parent(t, n), NEW u, RotateIs(N, t, u, n, s, r, m, p),
         NEW q \in N, q # Nil, q # n, q # r, NEW d \in Sides
  PROVE  \/ q = p /\ Child(t, q, d) = n /\ Child(u, q, d) = r
         \/ Child(u, q, d) = Child(t, q, d) /\ Child(t, q, d) \notin {n, r}
<1>1. PICK c, e : c = Child(t, n, s) /\ e = Child(t, r, o)
  OBVIOUS
<1>2. /\ r \in N /\ Parent(t, r) = n /\ p \in N \cup {NoData} /\ NoData \notin N
      /\ p = NoData <=> n = t.root
  BY <1>1, RotateNodes
<1>. DEFINE at == Place(t, p, n)
<1>3. p # NoData => p \in N /\ p # Nil /\ at \in Sides /\ Child(t, p, at) = n
  BY <1>2, AboveFacts
<1>. HIDE DEF at
<1>4. Child(u, q, d) = IF q = p /\ d = at THEN r ELSE Child(t, q, d)
  BY DEF RotateIs, at
<1>5. CASE q = p /\ d = at
  BY <1>2, <1>3, <1>4, <1>5
<1>6. CASE ~(q = p /\ d = at)
  <2>1. PICK x : x = Child(t, q, d)
    OBVIOUS
  <2>2. x # Nil => Parent(t, x) = q
    BY <2>1 DEF Shape, Links
  <2>3. x # r
    BY <1>2, <2>2
  <2>4. x # n
    <3>. SUFFICES ASSUME x = n PROVE FALSE
      OBVIOUS
    <3>1. q = p /\ d = Other(at) /\ p # NoData
      BY <1>2, <1>3, <1>6, <2>2, SidesFacts
    <3>2. Child(t, p, at) # Child(t, p, Other(at))
      BY <1>2, <1>3, <3>1, BelowFacts
    <3>. QED BY <1>3, <2>1, <3>1, <3>2
  <2>. QED BY <1>4, <1>6, <2>1, <2>3, <2>4
<1>. QED BY <1>5, <1>6

\* What is below a node from left to right, or from right to left
LEMMA BothSides ==
  ASSUME NEW t, NEW n, NEW sub, NEW s \in Sides,
         sub[n] = {n} \cup sub[Child(t, n, s)] \cup sub[Child(t, n, Other(s))]
  PROVE  sub[n] = {n} \cup sub[Child(t, n, "left")] \cup sub[Child(t, n, "right")]
<1>1. (s = "left" /\ Other(s) = "right") \/ (s = "right" /\ Other(s) = "left")
  BY DEF Sides, Other
<1>. QED BY <1>1

\* A rotation moves two nodes and keeps the order.
LEMMA RotateShape ==
  ASSUME NEW N, NEW t, NEW sub, Shape(t, N, sub), NEW n \in N, n # Nil, NEW s \in Sides,
         NEW o, o = Other(s), NEW r, r = Child(t, n, o), r # Nil, NEW m, m = Child(t, r, s),
         NEW p, p = Parent(t, n), NEW u, RotateIs(N, t, u, n, s, r, m, p)
  PROVE  Shape(u, N, Turned(t, sub, n, s))
<1>1. PICK c, e : c = Child(t, n, s) /\ e = Child(t, r, o)
  OBVIOUS
<1>2. /\ o \in Sides /\ r \in N /\ m \in N /\ c \in N /\ e \in N /\ o # s
      /\ r # n /\ m # n /\ m # r /\ c # n /\ c # r /\ e # n /\ e # r
      /\ sub[n] = {n} \cup sub[c] \cup sub[r] /\ sub[r] = {r} \cup sub[m] \cup sub[e]
      /\ p # n /\ p # r /\ p \in N \cup {NoData} /\ NoData \notin N
      /\ p = NoData <=> n = t.root
      /\ r # t.root
  BY <1>1, RotateNodes
<1>3. PICK v : v = Turned(t, sub, n, s)
  OBVIOUS
<1>4. /\ sub \in [N -> SUBSET (N \ {Nil})] /\ sub[Nil] = {} /\ sub[t.root] = N \ {Nil} /\ t.root \in N
      /\ Nil \in N
  BY TreeFacts DEF Shape, Below, Tree
<1>5. /\ v \in [N -> SUBSET (N \ {Nil})]
      /\ v[n] = {n} \cup sub[c] \cup sub[m] /\ v[r] = sub[n]
      /\ \A q \in N \ {n, r} : v[q] = sub[q]
  <2>1. v = [sub EXCEPT ![n] = {n} \cup sub[c] \cup sub[m], ![r] = sub[n]]
    BY <1>1, <1>3 DEF Turned
  <2>2. {n} \cup sub[c] \cup sub[m] \in SUBSET (N \ {Nil}) /\ sub[n] \in SUBSET (N \ {Nil})
    BY <1>2, <1>4
  <2>. QED BY <1>2, <1>4, <2>1, <2>2
<1>6. Child(u, r, s) = n /\ Child(u, r, o) = e /\ Child(u, n, s) = c /\ Child(u, n, o) = m
  BY <1>1, <1>2 DEF RotateIs
<1>7. ASSUME NEW q \in N, q # Nil, q # n, q # r, NEW d \in Sides
      PROVE  v[Child(u, q, d)] = sub[Child(t, q, d)]
  <2>1. \/ q = p /\ Child(t, q, d) = n /\ Child(u, q, d) = r
        \/ Child(u, q, d) = Child(t, q, d) /\ Child(t, q, d) \notin {n, r}
    BY <1>7, RotateRest
  <2>2. Child(t, q, d) \in N
    BY TreeFacts DEF Shape
  <2>. QED BY <1>5, <2>1, <2>2
<1>8. v[Child(u, n, s)] = sub[c] /\ v[Child(u, n, o)] = sub[m]
      /\ v[Child(u, r, s)] = v[n] /\ v[Child(u, r, o)] = sub[e]
  BY <1>2, <1>5, <1>6
<1>9. Below(u, N, v)
  <2>1. v[Nil] = {}
    BY <1>2, <1>4, <1>5
  <2>2. v[u.root] = N \ {Nil}
    BY <1>2, <1>4, <1>5 DEF RotateIs
  <2>3. ASSUME NEW q \in N \ {Nil}
        PROVE  v[q] = {q} \cup v[Child(u, q, "left")] \cup v[Child(u, q, "right")]
    <3>1. CASE q = n
      <4>1. v[n] = {n} \cup v[Child(u, n, s)] \cup v[Child(u, n, o)]
        BY <1>5, <1>8
      <4>. QED BY <3>1, <4>1, BothSides
    <3>2. CASE q = r
      <4>1. v[r] = {r} \cup v[Child(u, r, s)] \cup v[Child(u, r, o)]
        BY <1>2, <1>5, <1>8
      <4>. QED BY <3>2, <4>1, BothSides
    <3>3. CASE q # n /\ q # r
      <4>1. sub[q] = {q} \cup sub[Child(t, q, "left")] \cup sub[Child(t, q, "right")]
        BY DEF Shape, Below
      <4>2. v[q] = sub[q]
        BY <1>5, <3>3
      <4>. QED BY <1>7, <3>3, <4>1, <4>2, SidesFacts
    <3>. QED BY <3>1, <3>2, <3>3
  <2>. QED BY <1>5, <2>1, <2>2, <2>3 DEF Below
<1>10. /\ \A x \in sub[c] : Before(s, x, n)
       /\ \A x \in sub[r] : Before(o, x, n)
       /\ \A x \in sub[m] : Before(s, x, r)
       /\ \A x \in sub[e] : Before(o, x, r)
  BY <1>1, <1>2 DEF Shape, Sorted
<1>11. Sorted(u, N, v)
  <2>. SUFFICES ASSUME NEW q \in N, q # Nil, NEW d \in Sides, NEW x \in v[Child(u, q, d)]
                PROVE  Before(d, x, q)
    BY DEF Sorted
  <2>1. n \in Data /\ r \in Data /\ \A y \in sub[c] : y \in Data
    BY <1>2, <1>4 DEF Shape, Tree
  <2>2. CASE q = n
    <3>1. d = s \/ d = o
      BY SidesFacts
    <3>. QED BY <1>2, <1>8, <1>10, <2>2, <3>1
  <2>3. CASE q = r /\ d = o
    BY <1>8, <1>10, <2>3
  <2>4. CASE q = r /\ d = s
    <3>1. x \in sub[m] \/ x = n \/ x \in sub[c]
      BY <1>5, <1>8, <2>4
    <3>2. Before(s, n, r)
      <4>1. Before(Other(s), r, n)
        BY <1>2, <1>10
      <4>. QED BY <2>1, <4>1, BeforeFacts
    <3>3. x \in sub[c] => Before(s, x, r)
      <4>. SUFFICES ASSUME x \in sub[c] PROVE Before(s, x, r)
        OBVIOUS
      <4>1. Before(s, x, n) /\ x \in Data
        BY <1>10, <2>1
      <4>. QED BY <2>1, <3>2, <4>1, BeforeFacts
    <3>. QED BY <1>10, <2>4, <3>1, <3>2, <3>3
  <2>5. CASE q # n /\ q # r
    <3>1. x \in sub[Child(t, q, d)]
      BY <1>7, <2>5
    <3>. QED BY <3>1 DEF Shape, Sorted
  <2>6. d = s \/ d = o
    BY SidesFacts
  <2>. QED BY <2>2, <2>3, <2>4, <2>5, <2>6
<1>. QED
  <2>1. Links(u, N)
    BY RotateLinks
  <2>2. Tree(u, N) /\ IsFiniteSet(N) /\ KeysDiffer(N)
    BY DEF Shape, RotateIs
  <2>. QED BY <1>3, <1>9, <1>11, <2>1, <2>2 DEF Shape

-----------------------------------------------------------------------------
(* The colours of a tree.                                                  *)

Black(t, n) == IF Red(t, n) THEN 0 ELSE 1
Lack(n, s, p, side) == IF n = p /\ s = side THEN 1 ELSE 0

\* Every way down from a node meets as many black nodes, but for one that is missing
\* on a side of p; NULL when none is.
Even(t, N, height, p, side) ==
  /\ height \in [N -> Nat] /\ height[Nil] = 0 /\ ~Red(t, Nil)
  /\ \A n \in N \ {Nil}, s \in Sides :
       height[n] = Black(t, n) + height[Child(t, n, s)] + Lack(n, s, p, side)

\* c and n, below which it hangs, are not both red, but for two nodes of a repair.
Apart(t, n, c, lower, upper) == Red(t, n) /\ Red(t, c) => c = lower \/ n = upper

RedsApart(t, N, lower, upper) ==
  \A n \in N \ {Nil}, s \in Sides : Apart(t, n, Child(t, n, s), lower, upper)

Balanced(t, N, height) ==
  Even(t, N, height, NoData, "left") /\ RedsApart(t, N, NoData, NoData) /\ ~Red(t, t.root)

\* A node has fewer below it than its parent.
LEMMA SizeFacts ==
  ASSUME NEW N, NEW t, NEW sub, Shape(t, N, sub)
  PROVE  /\ Cardinality(N \ {Nil}) \in Nat
         /\ \A n \in N : Cardinality(sub[n]) \in Nat
         /\ \A n \in N \ {Nil} : Cardinality(sub[n]) > 0
         /\ \A n \in N \ {Nil}, s \in Sides : Cardinality(sub[Child(t, n, s)]) < Cardinality(sub[n])
         /\ \A n \in N \ {Nil, t.root} : Cardinality(sub[n]) < Cardinality(N \ {Nil})
<1>. DEFINE S == N \ {Nil}
<1>1. IsFiniteSet(S)
  BY FS_Subset DEF Shape
<1>2. ASSUME NEW n \in N
      PROVE  sub[n] \subseteq S /\ IsFiniteSet(sub[n]) /\ Cardinality(sub[n]) \in Nat
  <2>1. sub[n] \subseteq S
    BY DEF Shape, Below
  <2>. QED BY <1>1, <2>1, FS_Subset, FS_CardinalityType
<1>3. ASSUME NEW A, NEW B, IsFiniteSet(B), A \subseteq B, A # B
      PROVE  Cardinality(A) < Cardinality(B)
  BY <1>3, FS_Subset, FS_CardinalityType
<1>4. ASSUME NEW n \in N, n # Nil, NEW s \in Sides
      PROVE  Cardinality(sub[Child(t, n, s)]) < Cardinality(sub[n])
  <2>1. /\ sub[Child(t, n, s)] \subseteq sub[n] /\ n \in sub[n] /\ n \notin sub[Child(t, n, s)]
    BY <1>4, BelowFacts
  <2>2. IsFiniteSet(sub[n])
    BY <1>2
  <2>. HIDE DEF S
  <2>. QED BY <1>3, <2>1, <2>2
<1>5. ASSUME NEW n \in N, n # Nil, n # t.root
      PROVE  Cardinality(sub[n]) < Cardinality(S)
  <2>1. /\ Parent(t, n) \in N /\ Parent(t, n) # Nil /\ SideOf(t, n) \in Sides
        /\ Child(t, Parent(t, n), SideOf(t, n)) = n
    BY <1>5, AboveFacts
  <2>2. Parent(t, n) \in S /\ Parent(t, n) \notin sub[n]
    BY <1>5, <2>1, AboveFacts
  <2>3. sub[n] \subseteq S
    BY <1>2
  <2>. HIDE DEF S
  <2>. QED BY <1>1, <1>3, <2>2, <2>3
<1>6. \A n \in S : Cardinality(sub[n]) > 0
  <2>. SUFFICES ASSUME NEW n \in S PROVE Cardinality(sub[n]) > 0
    OBVIOUS
  <2>1. n \in sub[n] /\ n \in N /\ n # Nil
    BY BelowFacts, SidesFacts
  <2>2. IsFiniteSet(sub[n]) /\ Cardinality(sub[n]) \in Nat
    BY <1>2, <2>1
  <2>3. Cardinality(sub[n]) # 0
    BY <2>1, <2>2, FS_EmptySet
  <2>. QED BY <2>2, <2>3
<1>7. Cardinality(S) \in Nat
  BY <1>1, FS_CardinalityType
<1>. QED BY <1>2, <1>4, <1>5, <1>6, <1>7

\* The heights agree but at n and r.
EvenElsewhere(t, N, height, n, r, p, side) ==
  \A q \in N \ {Nil, n, r}, d \in Sides :
    height[q] = Black(t, q) + height[Child(t, q, d)] + Lack(q, d, p, side)

\* The heights around a rotation: k is that of n when r is above it.
TurnHeights(N, t, height, k, n, s, r, m, c, e, low, side) ==
  /\ height \in [N -> Nat] /\ height[Nil] = 0 /\ ~Red(t, Nil) /\ k \in Nat
  /\ side \in Sides /\ (low \in {n, r} => low = n /\ side = s)
  /\ EvenElsewhere(t, N, height, n, r, low, side)
  /\ k = Black(t, n) + height[c] + Lack(n, s, low, side)
  /\ k = Black(t, n) + height[m]
  /\ height[n] = Black(t, r) + k /\ height[n] = Black(t, r) + height[e]

\* The heights after a rotation, of a tree that was painted before
LEMMA RotateEven ==
  ASSUME NEW N, NEW t, NEW sub, Shape(t, N, sub), NEW n \in N, n # Nil, NEW s \in Sides,
         NEW o, o = Other(s), NEW r, r = Child(t, n, o), r # Nil, NEW m, m = Child(t, r, s),
         NEW c, c = Child(t, n, s), NEW e, e = Child(t, r, o),
         NEW p, p = Parent(t, n), NEW u, RotateIs(N, t, u, n, s, r, m, p),
         NEW height, NEW k, NEW low, NEW side, TurnHeights(N, t, height, k, n, s, r, m, c, e, low, side)
  PROVE  Even(u, N, [height EXCEPT ![n] = k, ![r] = height[n]], low, side)
<1>1. /\ o \in Sides /\ r \in N /\ m \in N /\ c \in N /\ e \in N /\ o # s
      /\ r # n /\ m # n /\ m # r /\ c # n /\ c # r /\ e # n /\ e # r
      /\ p # n /\ p # r /\ p \in N \cup {NoData}
  BY RotateNodes
<1>2. /\ height \in [N -> Nat] /\ height[Nil] = 0 /\ ~Red(t, Nil) /\ k \in Nat
      /\ side \in Sides /\ (low \in {n, r} => low = n /\ side = s)
      /\ EvenElsewhere(t, N, height, n, r, low, side)
      /\ k = Black(t, n) + height[c] + Lack(n, s, low, side)
      /\ k = Black(t, n) + height[m]
      /\ height[n] = Black(t, r) + k /\ height[n] = Black(t, r) + height[e]
  BY DEF TurnHeights
<1>3. PICK h : h = [height EXCEPT ![n] = k, ![r] = height[n]]
  OBVIOUS
<1>4. h \in [N -> Nat] /\ h[n] = k /\ h[r] = height[n] /\ \A q \in N \ {n, r} : h[q] = height[q]
  BY <1>2, <1>1, <1>3
<1>5. Nil \in N /\ h[Nil] = 0 /\ ~Red(u, Nil)
  BY <1>2, <1>4 DEF Shape, Tree, RotateIs
<1>6. \A q \in N : Black(u, q) = Black(t, q)
  BY DEF RotateIs, Black
<1>7. Child(u, r, s) = n /\ Child(u, r, o) = e /\ Child(u, n, s) = c /\ Child(u, n, o) = m
  BY <1>2, <1>1 DEF RotateIs
<1>8. ASSUME NEW q \in N, q # Nil, NEW d \in Sides
      PROVE  h[q] = Black(u, q) + h[Child(u, q, d)] + Lack(q, d, low, side)
  <2>1. d = s \/ d = o
    BY SidesFacts
  <2>2. CASE q = n /\ d = s
    BY <1>2, <1>1, <1>4, <1>6, <1>7, <2>2
  <2>3. CASE q = n /\ d = o
    <3>1. Lack(n, o, low, side) = 0
      BY <1>2, <1>1 DEF Lack
    <3>2. Black(t, n) \in Nat
      BY DEF Black
    <3>. QED BY <1>2, <1>1, <1>4, <1>6, <1>7, <2>3, <3>1, <3>2
  <2>4. CASE q = r
    <3>1. Lack(r, d, low, side) = 0
      BY <1>2, <1>1 DEF Lack
    <3>2. Black(t, r) \in Nat
      BY DEF Black
    <3>. QED BY <1>2, <1>1, <1>4, <1>6, <1>7, <2>1, <2>4, <3>1, <3>2
  <2>5. CASE q # n /\ q # r
    <3>1. \/ q = p /\ Child(t, q, d) = n /\ Child(u, q, d) = r
          \/ Child(u, q, d) = Child(t, q, d) /\ Child(t, q, d) \notin {n, r}
      BY <1>2, <1>8, <2>5, RotateRest
    <3>2. Child(t, q, d) \in N
      BY TreeFacts DEF Shape
    <3>3. h[Child(u, q, d)] = height[Child(t, q, d)]
      BY <1>2, <1>4, <3>1, <3>2
    <3>4. height[q] = Black(t, q) + height[Child(t, q, d)] + Lack(q, d, low, side)
      BY <1>2, <1>8, <2>5 DEF EvenElsewhere
    <3>. QED BY <1>2, <1>4, <1>6, <1>8, <2>5, <3>3, <3>4
  <2>. QED BY <2>1, <2>2, <2>3, <2>4, <2>5
<1>. QED BY <1>2, <1>3, <1>4, <1>5, <1>8 DEF Even

\* The colours after a rotation
LEMMA RotateReds ==
  ASSUME NEW N, NEW t, NEW sub, Shape(t, N, sub), NEW n \in N, n # Nil, NEW s \in Sides,
         NEW o, o = Other(s), NEW r, r = Child(t, n, o), r # Nil, NEW m, m = Child(t, r, s),
         NEW c, c = Child(t, n, s), NEW e, e = Child(t, r, o),
         NEW p, p = Parent(t, n), NEW u, RotateIs(N, t, u, n, s, r, m, p), NEW lower, NEW upper,
         \A q \in N \ {Nil, n, r}, d \in Sides :
           Child(t, q, d) \notin {n, r} => Apart(t, q, Child(t, q, d), lower, upper),
         p # NoData => Apart(t, p, r, lower, upper),
         Apart(t, r, n, lower, upper), Apart(t, r, e, lower, upper),
         Apart(t, n, m, lower, upper), Apart(t, n, c, lower, upper)
  PROVE  RedsApart(u, N, lower, upper)
<1>1. /\ o \in Sides /\ r \in N /\ m \in N /\ c \in N /\ e \in N /\ o # s
      /\ r # n /\ p # n /\ p # r /\ p \in N \cup {NoData} /\ NoData \notin N
  BY RotateNodes
<1>2. Child(u, r, s) = n /\ Child(u, r, o) = e /\ Child(u, n, s) = c /\ Child(u, n, o) = m
  BY <1>1 DEF RotateIs
<1>3. ASSUME NEW q \in N, NEW x \in N
      PROVE  Apart(u, q, x, lower, upper) <=> Apart(t, q, x, lower, upper)
  BY DEF RotateIs, Apart
<1>4. ASSUME NEW q \in N, q # Nil, NEW d \in Sides
      PROVE  Apart(u, q, Child(u, q, d), lower, upper)
  <2>1. d = s \/ d = o
    BY SidesFacts
  <2>2. CASE q = n \/ q = r
    BY <1>1, <1>2, <1>3, <2>1, <2>2
  <2>3. CASE q # n /\ q # r
    <3>1. \/ q = p /\ Child(t, q, d) = n /\ Child(u, q, d) = r
          \/ Child(u, q, d) = Child(t, q, d) /\ Child(t, q, d) \notin {n, r}
      BY <1>4, <2>3, RotateRest
    <3>2. Child(t, q, d) \in N
      BY TreeFacts DEF Shape
    <3>. QED BY <1>1, <1>3, <1>4, <2>3, <3>1, <3>2
  <2>. QED BY <2>2, <2>3
<1>. QED BY <1>4 DEF RedsApart

\* u is t with other colours.
SameLinks(N, t, u) ==
  /\ Tree(u, N) /\ u.root = t.root
  /\ \A q \in N : Parent(u, q) = Parent(t, q)
  /\ \A q \in N, s \in Sides : Child(u, q, s) = Child(t, q, s)

PaintsIs(N, t, u, a, x, b, y, c, z) ==
  /\ SameLinks(N, t, u)
  /\ \A q \in N : Red(u, q) = (IF q = c THEN z ELSE IF q = b THEN y ELSE IF q = a THEN x ELSE Red(t, q))

\* Three nodes painted, one after the other, ...
LEMMA PaintsFacts ==
  ASSUME NEW N, NEW t, Tree(t, N), NEW a \in N, NEW b \in N, NEW c \in N,
         NEW x \in BOOLEAN, NEW y \in BOOLEAN, NEW z \in BOOLEAN
  PROVE  PaintsIs(N, t, Paint(Paint(Paint(t, a, x), b, y), c, z), a, x, b, y, c, z)
<1>1. PICK t1 : t1 = Paint(t, a, x)
  OBVIOUS
<1>2. PICK t2 : t2 = Paint(t1, b, y)
  OBVIOUS
<1>3. PICK u : u = Paint(t2, c, z)
  OBVIOUS
<1>4. PaintIs(N, t, t1, a, x)
  BY <1>1, PaintFacts
<1>5. Tree(t1, N)
  BY <1>4 DEF PaintIs
<1>6. PaintIs(N, t1, t2, b, y)
  BY <1>2, <1>5, PaintFacts
<1>7. Tree(t2, N)
  BY <1>6 DEF PaintIs
<1>8. PaintIs(N, t2, u, c, z)
  BY <1>3, <1>7, PaintFacts
<1>9. SameLinks(N, t, u)
  BY <1>4, <1>6, <1>8 DEF PaintIs, SameLinks
<1>10. ASSUME NEW q \in N
       PROVE  Red(u, q) = (IF q = c THEN z ELSE IF q = b THEN y ELSE IF q = a THEN x ELSE Red(t, q))
  <2>1. /\ Red(u, q) = (IF q = c THEN z ELSE Red(t2, q))
        /\ Red(t2, q) = (IF q = b THEN y ELSE Red(t1, q))
        /\ Red(t1, q) = (IF q = a THEN x ELSE Red(t, q))
    BY <1>4, <1>6, <1>8 DEF PaintIs
  <2>. QED BY <2>1
<1>. QED BY <1>1, <1>2, <1>3, <1>9, <1>10 DEF PaintsIs

\* ... and two
LEMMA PaintTwiceFacts ==
  ASSUME NEW N, NEW t, Tree(t, N), NEW a \in N, NEW b \in N, NEW x \in BOOLEAN, NEW y \in BOOLEAN
  PROVE  PaintsIs(N, t, Paint(Paint(t, a, x), b, y), a, x, a, x, b, y)
<1>1. PICK t1 : t1 = Paint(t, a, x)
  OBVIOUS
<1>2. PICK u : u = Paint(t1, b, y)
  OBVIOUS
<1>3. PaintIs(N, t, t1, a, x)
  BY <1>1, PaintFacts
<1>4. Tree(t1, N)
  BY <1>3 DEF PaintIs
<1>5. PaintIs(N, t1, u, b, y)
  BY <1>2, <1>4, PaintFacts
<1>6. SameLinks(N, t, u)
  BY <1>3, <1>5 DEF PaintIs, SameLinks
<1>7. ASSUME NEW q \in N
      PROVE  Red(u, q) = (IF q = b THEN y ELSE IF q = a THEN x ELSE IF q = a THEN x ELSE Red(t, q))
  <2>1. /\ Red(u, q) = (IF q = b THEN y ELSE Red(t1, q))
        /\ Red(t1, q) = (IF q = a THEN x ELSE Red(t, q))
    BY <1>3, <1>5 DEF PaintIs
  <2>. QED BY <2>1
<1>. QED BY <1>1, <1>2, <1>6, <1>7 DEF PaintsIs

\* Colours do not touch the shape.
LEMMA PaintedShape ==
  ASSUME NEW N, NEW t, NEW u, NEW sub, Shape(t, N, sub), SameLinks(N, t, u)
  PROVE  Shape(u, N, sub)
<1>1. Tree(u, N) /\ u.root = t.root
  BY DEF SameLinks
<1>2. \A q \in N : Parent(u, q) = Parent(t, q)
  BY DEF SameLinks
<1>3. \A q \in N, s \in Sides : Child(u, q, s) = Child(t, q, s)
  BY DEF SameLinks
<1>. QED BY <1>1, <1>2, <1>3, SameShape

-----------------------------------------------------------------------------
(* FixPush.                                                                *)

\* The tree is in order but for n, which is red, and so may be its parent.
Pushing(t, N, sub, height, n) ==
  /\ Shape(t, N, sub) /\ Even(t, N, height, NoData, "left") /\ RedsApart(t, N, n, NoData)
  /\ n \in N /\ n # Nil /\ Red(t, n) /\ (Red(t, t.root) => n = t.root)

\* What there is around n when its parent is red
LEMMA PushFamily ==
  ASSUME NEW N, NEW t, NEW sub, NEW height, NEW n, Pushing(t, N, sub, height, n), n # t.root,
         NEW p, p = Parent(t, n), Red(t, p), NEW g, g = Parent(t, p), NEW s, s = SideOf(t, p)
  PROVE  /\ p \in N /\ p # Nil /\ p # t.root /\ p # n
         /\ g \in N /\ g # Nil /\ g # p /\ g # n /\ ~Red(t, g) /\ s \in Sides /\ Child(t, g, s) = p
         /\ \E c \in Sides : Child(t, p, c) = n
         /\ \A c \in Sides : ~Red(t, Child(t, n, c))
         /\ \A c \in Sides : Child(t, p, c) # n => ~Red(t, Child(t, p, c))
<1>1. Shape(t, N, sub) /\ RedsApart(t, N, n, NoData) /\ n \in N /\ n # Nil /\ Red(t, n)
      /\ (Red(t, t.root) => n = t.root)
  BY DEF Pushing
<1>2. p \in N /\ p # Nil /\ p # n /\ SideOf(t, n) \in Sides /\ Child(t, p, SideOf(t, n)) = n
  BY <1>1, AboveFacts
<1>3. p # t.root
  BY <1>1
<1>4. g \in N /\ g # Nil /\ g # p /\ s \in Sides /\ Child(t, g, s) = p /\ p \notin sub[n]
  BY <1>1, <1>2, <1>3, AboveFacts
<1>5. g # n
  <2>1. g \notin sub[p]
    BY <1>1, <1>2, <1>3, AboveFacts
  <2>2. n \in sub[n] /\ sub[n] \subseteq sub[p]
    BY <1>1, AboveFacts, BelowFacts, SidesFacts
  <2>. QED BY <2>1, <2>2
<1>6. NoData \notin N
  BY <1>1, RBTreeAssumption DEF Shape, Tree
<1>7. ~Red(t, g)
  BY <1>1, <1>2, <1>4, <1>6 DEF RedsApart, Apart
<1>8. ASSUME NEW c \in Sides
      PROVE  ~Red(t, Child(t, n, c))
  <2>1. Child(t, n, c) # n
    BY <1>1, BelowFacts
  <2>. QED BY <1>1, <1>6, <2>1 DEF RedsApart, Apart
<1>9. \A c \in Sides : Child(t, p, c) # n => ~Red(t, Child(t, p, c))
  BY <1>1, <1>2, <1>6 DEF RedsApart, Apart
<1>. QED BY <1>2, <1>3, <1>4, <1>5, <1>7, <1>8, <1>9

\* The uncle is red: the grandparent becomes red in the place of parent and uncle.
LEMMA PushRecolours ==
  ASSUME NEW N, NEW t, NEW sub, NEW height, NEW n, Pushing(t, N, sub, height, n), n # t.root,
         NEW p, p = Parent(t, n), Red(t, p), NEW g, g = Parent(t, p), NEW s, s = SideOf(t, p),
         NEW y, y = Child(t, g, Other(s)), Red(t, y),
         NEW u, u = Paint(Paint(Paint(t, p, FALSE), y, FALSE), g, TRUE)
  PROVE  /\ \E h : Pushing(u, N, sub, h, g)
         /\ u \in TreesOver(N) /\ Cardinality(sub[n]) < Cardinality(sub[g])
<1>1. /\ Shape(t, N, sub) /\ Even(t, N, height, NoData, "left") /\ RedsApart(t, N, n, NoData)
      /\ n \in N /\ n # Nil /\ Red(t, n) /\ Tree(t, N) /\ Nil \in N
  BY DEF Pushing, Shape, Tree
<1>2. /\ p \in N /\ p # Nil /\ p # t.root /\ p # n
      /\ g \in N /\ g # Nil /\ g # p /\ g # n /\ ~Red(t, g) /\ s \in Sides /\ Child(t, g, s) = p
      /\ \E c \in Sides : Child(t, p, c) = n
      /\ \A c \in Sides : ~Red(t, Child(t, n, c))
      /\ \A c \in Sides : Child(t, p, c) # n => ~Red(t, Child(t, p, c))
  BY PushFamily
<1>3. /\ y \in N /\ y # Nil /\ y # p /\ y # g /\ Other(s) \in Sides /\ y # n /\ Parent(t, y) = g
      /\ y # t.root
  <2>1. y \in N /\ Other(s) \in Sides /\ Other(Other(s)) = s
    BY <1>1, <1>2, TreeFacts, SidesFacts
  <2>2. y # Nil
    BY <1>1 DEF Even
  <2>3. y # p /\ y # g /\ Parent(t, y) = g /\ y # t.root
    BY <1>1, <1>2, <2>1, <2>2, BelowFacts
  <2>. QED BY <1>2, <2>1, <2>2, <2>3
<1>4. PaintsIs(N, t, u, p, FALSE, y, FALSE, g, TRUE)
  BY <1>1, <1>2, <1>3, PaintsFacts
<1>5. /\ Tree(u, N) /\ u.root = t.root /\ SameLinks(N, t, u)
      /\ \A q \in N : Parent(u, q) = Parent(t, q)
      /\ \A q \in N, c \in Sides : Child(u, q, c) = Child(t, q, c)
  BY <1>4 DEF PaintsIs, SameLinks
<1>6. \A q \in N : Red(u, q) =
          (IF q = g THEN TRUE ELSE IF q = y THEN FALSE ELSE IF q = p THEN FALSE ELSE Red(t, q))
  BY <1>4 DEF PaintsIs
<1>7. Red(u, g) /\ ~Red(u, p) /\ ~Red(u, y) /\ ~Red(t, g) /\ Red(t, p) /\ Red(t, y)
  BY <1>2, <1>3, <1>6
<1>8. \A q \in N \ {g, p, y} : Red(u, q) = Red(t, q)
  BY <1>6
<1>9. Shape(u, N, sub)
  BY <1>1, <1>5, PaintedShape
<1>10. \A q \in N \ {Nil}, c \in Sides :
         /\ Child(t, q, c) \in N
         /\ (Child(t, q, c) = p \/ Child(t, q, c) = y) => q = g
         /\ Child(t, q, c) = g => q = Parent(t, g)
  <2>1. Parent(t, p) = g /\ Parent(t, y) = g
    BY <1>3
  <2>2. Tree(t, N) /\ \A q \in N \ {Nil}, c \in Sides : Child(t, q, c) # Nil => Parent(t, Child(t, q, c)) = q
    BY <1>1 DEF Pushing, Shape, Links
  <2>3. \A q \in N, c \in Sides : Child(t, q, c) \in N
    BY <2>2, TreeFacts
  <2>4. p # Nil /\ y # Nil /\ g # Nil
    BY <1>2, <1>3
  <2>. QED BY <2>1, <2>2, <2>3, <2>4
<1>11. \A c \in Sides : Child(t, g, c) = p \/ Child(t, g, c) = y
  BY <1>2, SidesFacts
<1>12. PICK h : h = [height EXCEPT ![p] = height[p] + 1, ![y] = height[y] + 1]
  OBVIOUS
<1>13. /\ height \in [N -> Nat] /\ height[Nil] = 0 /\ ~Red(t, Nil)
       /\ \A q \in N \ {Nil}, c \in Sides :
            height[q] = Black(t, q) + height[Child(t, q, c)]
  <2>1. \A q \in N, c \in Sides : Lack(q, c, NoData, "left") = 0
    BY <1>1, RBTreeAssumption DEF Lack, Tree
  <2>2. \A q \in N \ {Nil}, c \in Sides : Child(t, q, c) \in N /\ Black(t, q) \in Nat
    BY <1>1, TreeFacts DEF Black
  <2>3. /\ height \in [N -> Nat] /\ height[Nil] = 0 /\ ~Red(t, Nil)
        /\ \A q \in N \ {Nil}, c \in Sides :
             height[q] = Black(t, q) + height[Child(t, q, c)] + Lack(q, c, NoData, "left")
    BY <1>1 DEF Even
  <2>4. ASSUME NEW q \in N \ {Nil}, NEW c \in Sides
        PROVE  height[q] = Black(t, q) + height[Child(t, q, c)]
    <3>1. height[Child(t, q, c)] \in Nat /\ Black(t, q) \in Nat
      BY <2>2, <2>3
    <3>2. height[q] = Black(t, q) + height[Child(t, q, c)] + 0
      BY <2>1, <2>3
    <3>. QED BY <3>1, <3>2
  <2>. QED BY <2>3, <2>4
<1>14. h \in [N -> Nat] /\ h[p] = height[p] + 1 /\ h[y] = height[y] + 1 /\ h[Nil] = 0
       /\ \A q \in N \ {p, y} : h[q] = height[q]
  BY <1>1, <1>2, <1>3, <1>13, <1>12
<1>15. Even(u, N, h, NoData, "left")
  <2>1. ASSUME NEW q \in N \ {Nil}, NEW c \in Sides
        PROVE  h[q] = Black(u, q) + h[Child(u, q, c)] + Lack(q, c, NoData, "left")
    <3>1. PICK x : x = Child(t, q, c)
      OBVIOUS
    <3>2. Lack(q, c, NoData, "left") = 0 /\ Child(u, q, c) = x
      BY <1>1, <1>5, <3>1, RBTreeAssumption DEF Lack, Tree
    <3>3. height[q] = Black(t, q) + height[x] /\ x \in N /\ height[q] \in Nat /\ height[x] \in Nat
      BY <1>10, <1>13, <3>1
    <3>4. (x = p \/ x = y) <=> q = g
      BY <1>10, <1>11, <3>1
    <3>5. CASE q = g
      <4>1. Black(u, q) = 0 /\ Black(t, q) = 1
        BY <1>7, <3>5 DEF Black
      <4>2. h[x] = height[x] + 1
        BY <1>14, <3>5, <3>4
      <4>3. h[q] = height[q]
        BY <1>2, <1>3, <1>14, <3>5
      <4>4. height[q] = 1 + height[x]
        BY <3>3, <4>1
      <4>5. h[q] = 0 + h[x] + 0
        BY <3>3, <4>2, <4>3, <4>4
      <4>. QED BY <3>2, <4>1, <4>5
    <3>6. CASE q = p \/ q = y
      <4>1. Black(u, q) = 1 /\ Black(t, q) = 0
        BY <1>7, <3>6 DEF Black
      <4>2. h[x] = height[x]
        BY <1>2, <1>3, <1>14, <3>3, <3>6, <3>4
      <4>3. h[q] = height[q] + 1
        BY <1>14, <3>6
      <4>4. height[q] = 0 + height[x]
        BY <3>3, <4>1
      <4>5. h[q] = 1 + h[x] + 0
        BY <3>3, <4>2, <4>3, <4>4
      <4>. QED BY <3>2, <4>1, <4>5
    <3>7. CASE q # g /\ q # p /\ q # y
      <4>1. Black(u, q) = Black(t, q) /\ Black(t, q) \in Nat
        BY <1>8, <3>7 DEF Black
      <4>2. h[x] = height[x]
        BY <1>14, <3>3, <3>7, <3>4
      <4>3. h[q] = height[q]
        BY <1>14, <3>7
      <4>4. PICK b \in Nat : b = Black(t, q)
        BY <4>1
      <4>5. h[q] = b + h[x] + 0
        BY <3>3, <4>2, <4>3, <4>4
      <4>. QED BY <3>2, <4>1, <4>4, <4>5
    <3>. QED BY <3>5, <3>6, <3>7
  <2>2. ~Red(u, Nil)
    BY <1>1, <1>2, <1>3, <1>8, <1>13
  <2>. QED BY <1>14, <2>1, <2>2 DEF Even
<1>16. RedsApart(u, N, g, NoData)
  <2>. SUFFICES ASSUME NEW q \in N \ {Nil}, NEW c \in Sides, Red(u, q),
                       Red(u, Child(u, q, c)), Child(u, q, c) # g
                PROVE  FALSE
    BY DEF RedsApart, Apart
  <2>1. Child(u, q, c) = Child(t, q, c) /\ Child(t, q, c) \in N /\ NoData \notin N
    BY <1>1, <1>5, <1>10, RBTreeAssumption DEF Tree
  <2>2. Red(t, Child(t, q, c)) /\ Child(t, q, c) # p /\ Child(t, q, c) # y
    <3>1. Child(t, q, c) \notin {p, y, g}
      BY <1>7, <2>1
    <3>. QED BY <1>8, <2>1, <3>1
  <2>3. q # g
    BY <1>11, <2>2
  <2>4. Red(t, q) /\ q # p
    <3>1. q \notin {p, y, g}
      BY <1>7, <2>3
    <3>. QED BY <1>8, <3>1
  <2>5. Child(t, q, c) = n
    BY <1>1, <2>1, <2>2, <2>4 DEF RedsApart, Apart
  <2>6. q = p
    BY <1>1, <2>5 DEF Shape, Links
  <2>. QED BY <2>4, <2>6
<1>17. Red(u, g) /\ (Red(u, u.root) => g = u.root)
  <2>1. t.root \in N /\ (Red(t, t.root) => n = t.root)
    BY <1>1, TreeFacts DEF Pushing
  <2>2. t.root # p /\ t.root # y
    BY <1>2, <1>3
  <2>3. t.root # g => ~Red(u, t.root)
    BY <1>1, <1>2, <1>7, <1>8, <2>1, <2>2, PushFamily
  <2>. QED BY <1>7, <1>5, <2>3
<1>18. Cardinality(sub[n]) < Cardinality(sub[g])
  <2>1. PICK c \in Sides : Child(t, p, c) = n
    BY <1>2
  <2>2. Cardinality(sub[n]) < Cardinality(sub[p])
    BY <1>1, <1>2, <2>1, SizeFacts
  <2>3. Cardinality(sub[p]) < Cardinality(sub[g])
    BY <1>1, <1>2, SizeFacts
  <2>4. Cardinality(sub[n]) \in Nat /\ Cardinality(sub[p]) \in Nat /\ Cardinality(sub[g]) \in Nat
    BY <1>1, <1>2, SizeFacts
  <2>. QED BY <2>2, <2>3, <2>4
<1>19. Pushing(u, N, sub, h, g)
  BY <1>2, <1>9, <1>15, <1>16, <1>17 DEF Pushing
<1>. QED BY <1>5, <1>18, <1>19 DEF Tree

\* The nodes of a rotation of n to side s
Turn(N, t, sub, n, s, o, r, m, c, e, p) ==
  /\ Shape(t, N, sub) /\ n \in N /\ n # Nil /\ s \in Sides /\ o = Other(s)
  /\ r = Child(t, n, o) /\ r # Nil /\ m = Child(t, r, s) /\ c = Child(t, n, s) /\ e = Child(t, r, o)
  /\ p = Parent(t, n)

\* The nodes around a rotation are nodes of the tree.
LEMMA TurnNodes ==
  ASSUME NEW N, NEW t, NEW sub, NEW n, NEW s, NEW o, NEW r, NEW m, NEW c, NEW e, NEW p,
         Turn(N, t, sub, n, s, o, r, m, c, e, p)
  PROVE  /\ o \in Sides /\ r \in N /\ m \in N /\ c \in N /\ e \in N /\ o # s
         /\ r # n /\ m # n /\ m # r /\ c # n /\ c # r /\ e # n /\ e # r
         /\ m # Nil => m # c /\ m # e /\ Parent(t, m) = r /\ m # t.root
         /\ c # Nil => Parent(t, c) = n
         /\ e # Nil => Parent(t, e) = r
         /\ Parent(t, r) = n /\ r # t.root
         /\ sub[n] = {n} \cup sub[c] \cup sub[r] /\ sub[r] = {r} \cup sub[m] \cup sub[e]
         /\ p # n /\ p # r /\ p # m /\ p # Nil /\ p \in N \cup {NoData} /\ NoData \notin N
         /\ p = NoData <=> n = t.root
BY RotateNodes DEF Turn

\* A rotation of a painted tree keeps the shape, ...
LEMMA TurnFacts ==
  ASSUME NEW N, NEW t, NEW sub, NEW n, NEW s, NEW o, NEW r, NEW m, NEW c, NEW e, NEW p,
         Turn(N, t, sub, n, s, o, r, m, c, e, p)
  PROVE  /\ RotateIs(N, t, Rotate(t, n, s), n, s, r, m, p)
         /\ Shape(Rotate(t, n, s), N, Turned(t, sub, n, s)) /\ Tree(Rotate(t, n, s), N)
<1>. PICK u : u = Rotate(t, n, s)
  OBVIOUS
<1>1. Tree(t, N) /\ p \in N \cup {NoData} /\ p # n /\ p # Nil
  <2>1. p \in N \cup {NoData} /\ p # n /\ p # Nil
    BY TurnNodes
  <2>. QED BY <2>1 DEF Turn, Shape
<1>2. RotateIs(N, t, u, n, s, r, m, p)
  BY <1>1, RotateFacts DEF Turn
<1>3. Shape(u, N, Turned(t, sub, n, s))
  BY <1>2, RotateShape DEF Turn
<1>. QED BY <1>2, <1>3 DEF Shape

\* ... the heights, ...
LEMMA TurnEven ==
  ASSUME NEW N, NEW t, NEW sub, NEW n, NEW s, NEW o, NEW r, NEW m, NEW c, NEW e, NEW p,
         Turn(N, t, sub, n, s, o, r, m, c, e, p),
         NEW height, NEW k, NEW low, NEW side, TurnHeights(N, t, height, k, n, s, r, m, c, e, low, side)
  PROVE  Even(Rotate(t, n, s), N, [height EXCEPT ![n] = k, ![r] = height[n]], low, side)
<1>. PICK u : u = Rotate(t, n, s)
  OBVIOUS
<1>1. RotateIs(N, t, u, n, s, r, m, p)
  BY TurnFacts
<1>2. /\ Shape(t, N, sub) /\ n \in N /\ n # Nil /\ s \in Sides /\ o = Other(s)
      /\ r = Child(t, n, o) /\ r # Nil /\ m = Child(t, r, s) /\ c = Child(t, n, s) /\ e = Child(t, r, o)
      /\ p = Parent(t, n)
  BY DEF Turn
<1>3. Even(u, N, [height EXCEPT ![n] = k, ![r] = height[n]], low, side)
  BY <1>1, <1>2, RotateEven
<1>. QED BY <1>3

\* ... and the reds apart.
LEMMA TurnReds ==
  ASSUME NEW N, NEW t, NEW sub, NEW n, NEW s, NEW o, NEW r, NEW m, NEW c, NEW e, NEW p,
         Turn(N, t, sub, n, s, o, r, m, c, e, p), NEW lower, NEW upper,
         \A q \in N \ {Nil, n, r}, d \in Sides :
           Child(t, q, d) \notin {n, r} => Apart(t, q, Child(t, q, d), lower, upper),
         p # NoData => Apart(t, p, r, lower, upper),
         Apart(t, r, n, lower, upper), Apart(t, r, e, lower, upper),
         Apart(t, n, m, lower, upper), Apart(t, n, c, lower, upper)
  PROVE  RedsApart(Rotate(t, n, s), N, lower, upper)
<1>. PICK u : u = Rotate(t, n, s)
  OBVIOUS
<1>1. RotateIs(N, t, u, n, s, r, m, p)
  BY TurnFacts
<1>2. RedsApart(u, N, lower, upper)
  BY <1>1, RotateReds DEF Turn
<1>. QED BY <1>2

\* The heights of a tree in which no black node is missing
LEMMA EvenFacts ==
  ASSUME NEW N, NEW t, Tree(t, N), NEW height, Even(t, N, height, NoData, "left")
  PROVE  /\ height \in [N -> Nat] /\ height[Nil] = 0 /\ ~Red(t, Nil)
         /\ \A q \in N, c \in Sides : Lack(q, c, NoData, "left") = 0
         /\ \A q \in N : Black(t, q) \in {0, 1}
         /\ \A q \in N \ {Nil}, c \in Sides : height[q] = Black(t, q) + height[Child(t, q, c)]
<1>1. \A q \in N, c \in Sides : Lack(q, c, NoData, "left") = 0
  BY RBTreeAssumption DEF Lack, Tree
<1>2. /\ height \in [N -> Nat] /\ height[Nil] = 0 /\ ~Red(t, Nil)
      /\ \A q \in N \ {Nil}, c \in Sides :
           height[q] = Black(t, q) + height[Child(t, q, c)] + Lack(q, c, NoData, "left")
  BY DEF Even
<1>3. \A q \in N \ {Nil}, c \in Sides : Child(t, q, c) \in N /\ Black(t, q) \in Nat
  BY TreeFacts DEF Black
<1>4. ASSUME NEW q \in N \ {Nil}, NEW c \in Sides
      PROVE  height[q] = Black(t, q) + height[Child(t, q, c)]
  <2>1. height[Child(t, q, c)] \in Nat /\ Black(t, q) \in Nat
    BY <1>2, <1>3
  <2>2. height[q] = Black(t, q) + height[Child(t, q, c)] + 0
    BY <1>1, <1>2
  <2>. QED BY <2>1, <2>2
<1>. QED BY <1>1, <1>2, <1>4 DEF Black

HangsAt(t, p, s, n) == n = Child(t, p, s)

\* n hangs on the inner side of its parent, and takes its place.
LEMMA PushBends ==
  ASSUME NEW N, NEW t, NEW sub, NEW height, NEW n, Pushing(t, N, sub, height, n), n # t.root,
         NEW p, p = Parent(t, n), Red(t, p), NEW g, g = Parent(t, p), NEW s, s = SideOf(t, p),
         HangsAt(t, p, Other(s), n), NEW u, u = Rotate(t, p, s)
  PROVE  /\ \E w, h : Pushing(u, N, w, h, p)
         /\ p # u.root /\ Parent(u, p) = n /\ Red(u, n) /\ Parent(u, n) = g /\ SideOf(u, n) = s
         /\ Child(u, n, s) = p /\ Child(u, g, Other(s)) = Child(t, g, Other(s))
         /\ \A q \in N : Red(u, q) = Red(t, q)
<1>1. /\ Shape(t, N, sub) /\ Even(t, N, height, NoData, "left") /\ RedsApart(t, N, n, NoData)
      /\ n \in N /\ n # Nil /\ Red(t, n) /\ Tree(t, N) /\ Nil \in N
  BY DEF Pushing, Shape, Tree
<1>2. /\ p \in N /\ p # Nil /\ p # t.root /\ p # n
      /\ g \in N /\ g # Nil /\ g # p /\ g # n /\ ~Red(t, g) /\ s \in Sides /\ Child(t, g, s) = p
      /\ \A c \in Sides : ~Red(t, Child(t, n, c))
      /\ \A c \in Sides : Child(t, p, c) # n => ~Red(t, Child(t, p, c))
  BY PushFamily
<1>3. PICK o, m, c, e : /\ o = Other(s) /\ m = Child(t, n, s) /\ c = Child(t, p, s) /\ e = Child(t, n, o)
                        /\ n = Child(t, p, o)
  BY DEF HangsAt
<1>4. Turn(N, t, sub, p, s, o, n, m, c, e, g)
  BY <1>1, <1>2, <1>3 DEF Turn
<1>5. /\ o \in Sides /\ m \in N /\ c \in N /\ e \in N /\ o # s
      /\ c # n /\ c # p /\ g # Nil /\ g # m /\ NoData \notin N
  BY <1>4, <1>2, TurnNodes
<1>6. RotateIs(N, t, u, p, s, n, m, g) /\ Shape(u, N, Turned(t, sub, p, s))
  BY <1>4, TurnFacts
<1>7. /\ height \in [N -> Nat] /\ height[Nil] = 0 /\ ~Red(t, Nil)
      /\ \A q \in N, d \in Sides : Lack(q, d, NoData, "left") = 0
      /\ \A q \in N \ {Nil}, d \in Sides : height[q] = Black(t, q) + height[Child(t, q, d)]
  BY <1>1, EvenFacts
<1>8. PICK k : k = height[p]
  OBVIOUS
<1>9. /\ k \in Nat /\ k = Black(t, p) + height[c] + Lack(p, s, NoData, "left")
      /\ k = Black(t, p) + height[m] /\ height[p] = Black(t, n) + k
      /\ height[p] = Black(t, n) + height[e]
  <2>1. Black(t, p) = 0 /\ Black(t, n) = 0
    BY <1>1 DEF Black
  <2>2. \A d \in Sides : height[p] = 0 + height[Child(t, p, d)] /\ height[n] = 0 + height[Child(t, n, d)]
    BY <1>1, <1>2, <1>7, <2>1
  <2>3. height[p] = 0 + height[c] /\ height[p] = 0 + height[n]
        /\ height[n] = 0 + height[m] /\ height[n] = 0 + height[e]
    BY <1>2, <1>3, <1>5, <2>2
  <2>4. height[p] \in Nat /\ height[n] \in Nat /\ height[c] \in Nat /\ height[m] \in Nat /\ height[e] \in Nat
    BY <1>1, <1>2, <1>5, <1>7
  <2>5. Lack(p, s, NoData, "left") = 0
    BY <1>2, <1>7
  <2>. QED BY <1>8, <2>1, <2>3, <2>4, <2>5
<1>10. EvenElsewhere(t, N, height, p, n, NoData, "left")
  BY <1>1 DEF Even, EvenElsewhere
<1>11. PICK h : h = [height EXCEPT ![p] = k, ![n] = height[p]]
  OBVIOUS
<1>12. Even(u, N, h, NoData, "left")
  <2>1. NoData \notin {p, n} /\ "left" \in Sides
    BY <1>1, <1>2, <1>5, SidesFacts
  <2>2. TurnHeights(N, t, height, k, p, s, n, m, c, e, NoData, "left")
    BY <1>7, <1>9, <1>10, <2>1 DEF TurnHeights
  <2>. QED BY <1>4, <1>11, <2>2, TurnEven
<1>13. RedsApart(u, N, p, NoData)
  <2>1. \A q \in N \ {Nil, p, n}, d \in Sides :
          Child(t, q, d) \notin {p, n} => Apart(t, q, Child(t, q, d), p, NoData)
    BY <1>1 DEF RedsApart, Apart
  <2>2. /\ Apart(t, g, n, p, NoData) /\ Apart(t, n, p, p, NoData) /\ Apart(t, n, e, p, NoData)
        /\ Apart(t, p, m, p, NoData) /\ Apart(t, p, c, p, NoData)
    BY <1>2, <1>3, <1>5 DEF Apart
  <2>. QED BY <1>4, <2>1, <2>2, TurnReds
<1>14. /\ u.root = t.root /\ Parent(u, p) = n /\ Parent(u, n) = g /\ \A q \in N : Red(u, q) = Red(t, q)
       /\ Child(u, n, s) = p /\ Child(u, g, Other(s)) = Child(t, g, Other(s))
       /\ Child(u, g, s) = n
  <2>1. Place(t, g, p) = s
    BY <1>1, <1>2, AboveFacts
  <2>2. g # NoData /\ n # p /\ p # n /\ g # p /\ g # n
    BY <1>2, <1>5
  <2>. QED BY <1>1, <1>2, <1>3, <1>5, <1>6, <2>1, <2>2 DEF RotateIs
<1>15. SideOf(u, n) = s
  <2>1. n # u.root /\ Shape(u, N, Turned(t, sub, p, s))
    <3>1. Parent(u, n) # NoData
      BY <1>2, <1>5, <1>14
    <3>. QED BY <1>1, <1>6, <3>1 DEF Shape, Links
  <2>2. SideOf(u, n) \in Sides /\ Child(u, g, SideOf(u, n)) = n
    BY <1>1, <1>14, <2>1, AboveFacts
  <2>3. Child(u, g, Other(s)) # n
    BY <1>1, <1>2, <1>14, <2>1, BelowFacts
  <2>. QED BY <1>2, <2>2, <2>3, SidesFacts
<1>16. Pushing(u, N, Turned(t, sub, p, s), h, p)
  <2>1. t.root \in N /\ u.root = t.root
    BY <1>1, <1>14, TreeFacts
  <2>2. Red(u, p) = Red(t, p) /\ Red(u, u.root) = Red(t, t.root)
    BY <1>2, <1>14, <2>1
  <2>3. ~Red(t, t.root)
    BY DEF Pushing
  <2>. QED BY <1>2, <1>6, <1>12, <1>13, <2>2, <2>3 DEF Pushing
<1>17. Red(u, n)
  BY <1>1, <1>14
<1>. QED BY <1>2, <1>14, <1>15, <1>16, <1>17

\* n hangs on the outer side of its parent, whose brother is black: the parent takes
\* the place of its own parent.
LEMMA PushLifts ==
  ASSUME NEW N, NEW t, NEW sub, NEW height, NEW n, Pushing(t, N, sub, height, n), n # t.root,
         NEW p, p = Parent(t, n), Red(t, p), NEW g, g = Parent(t, p), NEW s, s = SideOf(t, p),
         n = Child(t, p, s), ~Red(t, Child(t, g, Other(s))), NEW u, u = Lifted(t, n, s)
  PROVE  /\ \E w, h : Pushing(u, N, w, h, n)
         /\ Parent(u, n) = p /\ ~Red(u, p)
<1>1. /\ Shape(t, N, sub) /\ Even(t, N, height, NoData, "left") /\ RedsApart(t, N, n, NoData)
      /\ n \in N /\ n # Nil /\ Red(t, n) /\ Tree(t, N) /\ Nil \in N
  BY DEF Pushing, Shape, Tree
<1>2. /\ p \in N /\ p # Nil /\ p # t.root /\ p # n
      /\ g \in N /\ g # Nil /\ g # p /\ g # n /\ ~Red(t, g) /\ s \in Sides /\ Child(t, g, s) = p
      /\ \A c \in Sides : ~Red(t, Child(t, n, c))
      /\ \A c \in Sides : Child(t, p, c) # n => ~Red(t, Child(t, p, c))
  BY PushFamily
<1>3. PICK v : v = Paint(Paint(t, p, FALSE), g, TRUE)
  OBVIOUS
<1>4. PaintsIs(N, t, v, p, FALSE, p, FALSE, g, TRUE)
  BY <1>1, <1>2, <1>3, PaintTwiceFacts
<1>5. PICK o, m, c, q0 : o = Other(s) /\ m = Child(t, p, o) /\ c = Child(t, g, o) /\ q0 = Parent(t, g)
  OBVIOUS
<1>6. /\ SameLinks(N, t, v) /\ Tree(v, N) /\ v.root = t.root /\ Shape(v, N, sub)
      /\ \A q \in N : Parent(v, q) = Parent(t, q)
      /\ \A q \in N, d \in Sides : Child(v, q, d) = Child(t, q, d)
  BY <1>1, <1>4, PaintedShape DEF PaintsIs, SameLinks
<1>7. o \in Sides /\ Other(o) = s /\ o # s
  BY <1>2, <1>5, SidesFacts
<1>8. Turn(N, v, sub, g, o, s, p, m, c, n, q0)
  BY <1>1, <1>2, <1>5, <1>6, <1>7 DEF Turn
<1>9. u = Rotate(v, g, o)
  BY <1>3, <1>5 DEF Lifted
<1>10. RotateIs(N, v, u, g, o, p, m, q0) /\ Shape(u, N, Turned(v, sub, g, o))
  BY <1>8, <1>9, TurnFacts
<1>11. /\ m \in N /\ c \in N /\ m # n /\ m # p /\ m # g /\ c # p /\ c # g /\ c # n
       /\ q0 # g /\ q0 # p /\ q0 # Nil /\ q0 \in N \cup {NoData} /\ NoData \notin N
       /\ (q0 = NoData <=> g = t.root)
  <2>1. /\ m \in N /\ c \in N /\ m # p /\ m # g /\ c # p /\ c # g
        /\ q0 # g /\ q0 # p /\ q0 # Nil /\ q0 \in N \cup {NoData} /\ NoData \notin N
        /\ (q0 = NoData <=> g = t.root)
    BY <1>6, <1>8, TurnNodes
  <2>2. m # n
    <3>1. n = Child(t, p, s) /\ n # Nil /\ Other(s) = o
      BY <1>1, <1>5
    <3>2. Child(t, p, s) # Child(t, p, Other(s))
      BY <1>1, <1>2, <3>1, BelowFacts
    <3>. QED BY <1>5, <3>1, <3>2
  <2>3. c # n
    BY <1>1, <1>2, <1>5, <1>7 DEF Shape, Links
  <2>. QED BY <2>1, <2>2, <2>3
<1>12. /\ \A q \in N \ {p, g} : Red(v, q) = Red(t, q)
       /\ ~Red(v, p) /\ Red(v, g)
  <2>1. \A q \in N : Red(v, q) =
            (IF q = g THEN TRUE ELSE IF q = p THEN FALSE ELSE IF q = p THEN FALSE ELSE Red(t, q))
    BY <1>4 DEF PaintsIs
  <2>. QED BY <1>2, <2>1
<1>13. \A q \in N : Red(u, q) = Red(v, q)
  BY <1>10 DEF RotateIs
<1>14. /\ height \in [N -> Nat] /\ height[Nil] = 0 /\ ~Red(t, Nil)
       /\ \A q \in N, d \in Sides : Lack(q, d, NoData, "left") = 0
       /\ \A q \in N \ {Nil}, d \in Sides : height[q] = Black(t, q) + height[Child(t, q, d)]
  BY <1>1, EvenFacts
<1>15. ~Red(v, Nil) /\ ~Red(t, m) /\ ~Red(t, c) /\ ~Red(v, m) /\ ~Red(v, c)
  BY <1>1, <1>2, <1>5, <1>7, <1>11, <1>12, <1>14
<1>16. PICK k : k = height[p]
  OBVIOUS
<1>17. /\ k \in Nat /\ k = Black(v, g) + height[c] + Lack(g, o, NoData, "left")
       /\ k = Black(v, g) + height[m] /\ height[g] = Black(v, p) + k
       /\ height[g] = Black(v, p) + height[n]
  <2>1. Black(t, p) = 0 /\ Black(t, g) = 1 /\ Black(v, p) = 1 /\ Black(v, g) = 0
    BY <1>2, <1>12 DEF Black
  <2>2. \A d \in Sides : height[p] = 0 + height[Child(t, p, d)] /\ height[g] = 1 + height[Child(t, g, d)]
    BY <1>1, <1>2, <1>14, <2>1
  <2>3. height[p] = 0 + height[n] /\ height[p] = 0 + height[m]
        /\ height[g] = 1 + height[p] /\ height[g] = 1 + height[c]
    BY <1>2, <1>5, <1>7, <2>2
  <2>4. height[p] \in Nat /\ height[n] \in Nat /\ height[c] \in Nat /\ height[m] \in Nat /\ height[g] \in Nat
    BY <1>1, <1>2, <1>11, <1>14
  <2>5. Lack(g, o, NoData, "left") = 0
    BY <1>2, <1>7, <1>14
  <2>. QED BY <1>16, <2>1, <2>3, <2>4, <2>5
<1>18. EvenElsewhere(v, N, height, g, p, NoData, "left")
  <2>. SUFFICES ASSUME NEW q \in N \ {Nil, g, p}, NEW d \in Sides
                PROVE  height[q] = Black(v, q) + height[Child(v, q, d)] + Lack(q, d, NoData, "left")
    BY DEF EvenElsewhere
  <2>1. Black(v, q) = Black(t, q) /\ Child(v, q, d) = Child(t, q, d)
    BY <1>6, <1>12 DEF Black
  <2>2. height[q] = Black(t, q) + height[Child(t, q, d)] + Lack(q, d, NoData, "left")
    BY <1>1 DEF Even
  <2>. QED BY <2>1, <2>2
<1>19. PICK h : h = [height EXCEPT ![g] = k, ![p] = height[g]]
  OBVIOUS
<1>20. Even(u, N, h, NoData, "left")
  <2>1. NoData \notin {g, p} /\ "left" \in Sides
    BY <1>2, <1>11, SidesFacts
  <2>2. TurnHeights(N, v, height, k, g, o, p, m, c, n, NoData, "left")
    BY <1>14, <1>15, <1>17, <1>18, <2>1 DEF TurnHeights
  <2>3. Even(Rotate(v, g, o), N, [height EXCEPT ![g] = k, ![p] = height[g]], NoData, "left")
    BY <1>8, <2>2, TurnEven
  <2>. QED BY <1>9, <1>19, <2>3
<1>21. RedsApart(u, N, n, NoData)
  <2>1. ASSUME NEW q \in N \ {Nil, g, p}, NEW d \in Sides, Child(v, q, d) \notin {g, p}
        PROVE  Apart(v, q, Child(v, q, d), n, NoData)
    <3>1. Child(v, q, d) = Child(t, q, d) /\ Child(t, q, d) \in N
      BY <1>1, <1>6, TreeFacts
    <3>2. Red(v, q) = Red(t, q) /\ Red(v, Child(v, q, d)) = Red(t, Child(t, q, d))
      BY <1>12, <2>1, <3>1
    <3>. QED BY <1>1, <3>1, <3>2 DEF RedsApart, Apart
  <2>2. /\ Apart(v, q0, p, n, NoData) /\ Apart(v, p, g, n, NoData) /\ Apart(v, p, n, n, NoData)
        /\ Apart(v, g, m, n, NoData) /\ Apart(v, g, c, n, NoData)
    BY <1>12, <1>15 DEF Apart
  <2>3. RedsApart(Rotate(v, g, o), N, n, NoData)
    BY <1>8, <2>1, <2>2, TurnReds
  <2>. QED BY <1>9, <2>3
<1>22. Parent(u, n) = p /\ ~Red(u, p)
  <2>1. Parent(u, n) = Parent(v, n)
    BY <1>1, <1>2, <1>10, <1>11 DEF RotateIs
  <2>. QED BY <1>1, <1>2, <1>6, <1>12, <1>13, <2>1
<1>23. Red(u, n) /\ ~Red(u, u.root)
  <2>1. Red(v, n) = Red(t, n)
    BY <1>1, <1>2, <1>12
  <2>2. CASE q0 = NoData
    <3>1. u.root = p
      BY <1>10, <2>2 DEF RotateIs
    <3>. QED BY <1>1, <1>13, <1>22, <2>1, <3>1
  <2>3. CASE q0 # NoData
    <3>1. u.root = t.root /\ t.root \in N /\ t.root # g /\ t.root # p
      BY <1>1, <1>2, <1>6, <1>10, <1>11, <2>3, TreeFacts DEF RotateIs
    <3>2. ~Red(t, t.root)
      BY DEF Pushing
    <3>3. Red(u, t.root) = Red(t, t.root)
      BY <1>12, <1>13, <3>1
    <3>. QED BY <1>1, <1>13, <2>1, <3>1, <3>2, <3>3
  <2>. QED BY <2>2, <2>3
<1>24. Pushing(u, N, Turned(v, sub, g, o), h, n)
  BY <1>1, <1>10, <1>20, <1>21, <1>23 DEF Pushing
<1>. QED BY <1>22, <1>24

PushDone(t, n) == n = t.root \/ ~Red(t, Parent(t, n))

\* A round of FixPush ends the loop, or moves up.
LEMMA PushRounds ==
  ASSUME NEW N, NEW t, NEW sub, NEW height, NEW n, Pushing(t, N, sub, height, n)
  PROVE  \E u, m, w, h : /\ PushRound(t, n) = Repair(u, m) /\ Pushing(u, N, w, h, m)
                         /\ PushDone(u, m) \/ Cardinality(sub[n]) < Cardinality(w[m])
<1>1. CASE PushDone(t, n)
  <2>1. PushRound(t, n) = Repair(t, n)
    BY <1>1 DEF PushRound, PushDone
  <2>. QED BY <1>1, <2>1
<1>2. CASE ~PushDone(t, n)
  <2>1. PICK p : p = Parent(t, n)
    OBVIOUS
  <2>2. PICK g, s : g = Parent(t, p) /\ s = SideOf(t, p)
    OBVIOUS
  <2>3. PICK y : y = Child(t, g, Other(s))
    OBVIOUS
  <2>4. n # t.root /\ Red(t, p)
    BY <1>2, <2>1 DEF PushDone
  <2>5. CASE Red(t, y)
    <3>1. PushRound(t, n) = Repair(Paint(Paint(Paint(t, p, FALSE), y, FALSE), g, TRUE), g)
      BY <2>1, <2>2, <2>3, <2>4, <2>5 DEF PushRound
    <3>2. PICK u : u = Paint(Paint(Paint(t, p, FALSE), y, FALSE), g, TRUE)
      OBVIOUS
    <3>3. /\ \E h : Pushing(u, N, sub, h, g)
          /\ Cardinality(sub[n]) < Cardinality(sub[g])
      BY <2>1, <2>2, <2>3, <2>4, <2>5, <3>2, PushRecolours
    <3>. QED BY <3>1, <3>2, <3>3
  <2>6. CASE ~Red(t, y) /\ n = Child(t, p, Other(s))
    <3>1. PushRound(t, n) = Repair(Lifted(Rotate(t, p, s), p, s), p)
      BY <2>1, <2>2, <2>3, <2>4, <2>6 DEF PushRound
    <3>2. PICK v : v = Rotate(t, p, s)
      OBVIOUS
    <3>3. /\ \E w, h : Pushing(v, N, w, h, p)
          /\ p # v.root /\ Parent(v, p) = n /\ Red(v, n) /\ Parent(v, n) = g /\ SideOf(v, n) = s
          /\ Child(v, n, s) = p /\ Child(v, g, Other(s)) = Child(t, g, Other(s))
          /\ \A q \in N : Red(v, q) = Red(t, q)
      <4>1. HangsAt(t, p, Other(s), n)
        BY <2>6 DEF HangsAt
      <4>. QED BY <2>1, <2>2, <2>4, <3>2, <4>1, PushBends
    <3>4. PICK w, h : Pushing(v, N, w, h, p)
      BY <3>3
    <3>5. ~Red(v, Child(v, g, Other(s)))
      <4>1. y \in N
        <5>1. Tree(t, N) /\ g \in N /\ s \in Sides
          BY <2>1, <2>2, <2>4, PushFamily DEF Pushing, Shape
        <5>. QED BY <2>3, <5>1, SidesFacts, TreeFacts
      <4>. QED BY <2>3, <2>6, <3>3, <4>1
    <3>6. PICK u : u = Lifted(v, p, s)
      OBVIOUS
    <3>7. (\E w2, h2 : Pushing(u, N, w2, h2, p)) /\ Parent(u, p) = n /\ ~Red(u, n)
      <4>1. n = Parent(v, p) /\ g = Parent(v, n) /\ s = SideOf(v, n) /\ p = Child(v, n, s)
        BY <3>3
      <4>. QED BY <3>3, <3>4, <3>5, <3>6, <4>1, PushLifts
    <3>8. PushDone(u, p)
      BY <3>7 DEF PushDone
    <3>. QED BY <3>1, <3>2, <3>6, <3>7, <3>8
  <2>7. CASE ~Red(t, y) /\ n # Child(t, p, Other(s))
    <3>1. PushRound(t, n) = Repair(Lifted(t, n, s), n)
      BY <2>1, <2>2, <2>3, <2>4, <2>7 DEF PushRound
    <3>2. PICK u : u = Lifted(t, n, s)
      OBVIOUS
    <3>3. n = Child(t, p, s)
      <4>1. s \in Sides /\ \E c \in Sides : Child(t, p, c) = n
        BY <2>1, <2>2, <2>4, PushFamily
      <4>. QED BY <2>7, <4>1, SidesFacts
    <3>4. (\E w, h : Pushing(u, N, w, h, n)) /\ Parent(u, n) = p /\ ~Red(u, p)
      BY <2>1, <2>2, <2>3, <2>4, <2>7, <3>2, <3>3, PushLifts
    <3>5. PushDone(u, n)
      BY <3>4 DEF PushDone
    <3>. QED BY <3>1, <3>2, <3>4, <3>5
  <2>. QED BY <2>5, <2>6, <2>7
<1>. QED BY <1>1, <1>2

\* The trees that FixPush needs at most k more rounds for
PushClose(N, k) ==
  {a \in [tree : TreesOver(N), node : N] :
     \E sub, h : /\ Pushing(a.tree, N, sub, h, a.node)
                 /\ PushDone(a.tree, a.node) \/ Cardinality(sub[a.node]) + k >= Cardinality(N \ {Nil})}

\* A tree that is balanced but for its root
LEMMA RootPainted ==
  ASSUME NEW N, NEW t, NEW sub, NEW height, NEW n, Pushing(t, N, sub, height, n), PushDone(t, n),
         NEW u, u = Paint(t, t.root, FALSE)
  PROVE  Shape(u, N, sub) /\ \E h : Balanced(u, N, h)
<1>1. /\ Shape(t, N, sub) /\ Even(t, N, height, NoData, "left") /\ RedsApart(t, N, n, NoData)
      /\ n \in N /\ n # Nil /\ Red(t, n) /\ Tree(t, N) /\ Nil \in N /\ t.root \in N
  BY TreeFacts DEF Pushing, Shape, Tree
<1>2. PICK r : r = t.root
  OBVIOUS
<1>3. PaintIs(N, t, u, r, FALSE)
  BY <1>1, <1>2, PaintFacts
<1>4. /\ u.root = r /\ ~Red(u, r) /\ Tree(u, N) /\ \A q \in N \ {r} : Red(u, q) = Red(t, q)
      /\ \A q \in N : Parent(u, q) = Parent(t, q)
      /\ \A q \in N, d \in Sides : Child(u, q, d) = Child(t, q, d)
  BY <1>1, <1>2, <1>3 DEF PaintIs
<1>5. Shape(u, N, sub)
  <2>1. SameLinks(N, t, u)
    BY <1>2, <1>4 DEF SameLinks
  <2>. QED BY <1>1, <2>1, PaintedShape
<1>6. r # Nil
  <2>1. n # r => Parent(t, n) \in N
    BY <1>1, <1>2 DEF Shape, Links
  <2>2. n \in sub[n] /\ sub[n] \subseteq N \ {Nil} /\ sub[t.root] = N \ {Nil} /\ sub[Nil] = {}
    BY <1>1, BelowFacts, SidesFacts DEF Shape, Below
  <2>. QED BY <1>1, <1>2, <2>2
<1>7. \A q \in N \ {Nil}, d \in Sides : Child(t, q, d) \in N /\ Child(t, q, d) # r
  <2>1. \A q \in N \ {Nil}, d \in Sides : Child(t, q, d) \in N
    BY <1>1, TreeFacts
  <2>2. \A q \in N \ {Nil}, d \in Sides : Child(t, q, d) # Nil => Child(t, q, d) # r
    BY <1>1, <1>2, BelowFacts
  <2>. QED BY <1>6, <2>1, <2>2
<1>8. RedsApart(u, N, NoData, NoData)
  <2>. SUFFICES ASSUME NEW q \in N \ {Nil}, NEW d \in Sides, Red(u, q), Red(u, Child(u, q, d))
                PROVE  FALSE
    BY DEF RedsApart, Apart
  <2>1. /\ Child(u, q, d) = Child(t, q, d) /\ Child(t, q, d) \in N /\ Child(t, q, d) # r /\ q # r
    BY <1>4, <1>7
  <2>2. Red(t, q) /\ Red(t, Child(t, q, d)) /\ NoData \notin N
    BY <1>1, <1>4, <2>1, RBTreeAssumption DEF Tree
  <2>3. Child(t, q, d) = n
    BY <1>1, <2>1, <2>2 DEF RedsApart, Apart
  <2>4. q = Parent(t, n)
    BY <1>1, <2>3 DEF Shape, Links
  <2>. QED BY <1>2, <2>1, <2>2, <2>3, <2>4 DEF PushDone
<1>9. /\ height \in [N -> Nat] /\ height[Nil] = 0 /\ ~Red(t, Nil)
      /\ \A q \in N, d \in Sides : Lack(q, d, NoData, "left") = 0
      /\ \A q \in N \ {Nil}, d \in Sides : height[q] = Black(t, q) + height[Child(t, q, d)]
  BY <1>1, EvenFacts
<1>10. PICK h : h = [height EXCEPT ![r] = height[Child(t, r, "left")] + 1]
  OBVIOUS
<1>11. "left" \in Sides /\ h \in [N -> Nat] /\ h[r] = height[Child(t, r, "left")] + 1 /\ h[Nil] = 0
       /\ \A q \in N \ {r} : h[q] = height[q]
  <2>1. height[Child(t, r, "left")] \in Nat
    BY <1>1, <1>2, <1>6, <1>7, <1>9, SidesFacts
  <2>. QED BY <1>1, <1>2, <1>6, <1>9, <1>10, <2>1, SidesFacts
<1>12. Even(u, N, h, NoData, "left")
  <2>1. ASSUME NEW q \in N \ {Nil}, NEW d \in Sides
        PROVE  h[q] = Black(u, q) + h[Child(u, q, d)] + Lack(q, d, NoData, "left")
    <3>1. PICK x : x = Child(t, q, d)
      OBVIOUS
    <3>2. x \in N /\ x # r /\ Child(u, q, d) = x /\ h[x] = height[x] /\ h[x] \in Nat
      BY <1>4, <1>7, <1>9, <1>11, <3>1
    <3>3. Lack(q, d, NoData, "left") = 0
      BY <1>9
    <3>4. CASE q = r
      <4>1. Black(u, q) = 1
        BY <1>4, <3>4 DEF Black
      <4>2. height[x] = height[Child(t, r, "left")]
        <5>1. PICK l : l = Child(t, r, "left")
          OBVIOUS
        <5>2. l \in N /\ height[r] = Black(t, r) + height[l] /\ height[r] = Black(t, r) + height[x]
          BY <1>7, <1>9, <1>11, <3>1, <3>4, <5>1
        <5>3. Black(t, r) \in Nat /\ height[l] \in Nat /\ height[x] \in Nat
          BY <1>9, <3>2, <5>2 DEF Black
        <5>. QED BY <5>1, <5>2, <5>3
      <4>3. h[q] = 1 + h[x] + 0
        BY <1>11, <3>2, <3>4, <4>2
      <4>. QED BY <3>2, <3>3, <4>1, <4>3
    <3>5. CASE q # r
      <4>1. Black(u, q) = Black(t, q)
        BY <1>4, <3>5 DEF Black
      <4>2. PICK b \in Nat : b = Black(t, q)
        BY DEF Black
      <4>3. height[q] = b + height[x] /\ h[q] = height[q]
        BY <1>9, <1>11, <3>1, <3>5, <4>2
      <4>4. h[q] = b + h[x] + 0
        BY <3>2, <4>2, <4>3
      <4>. QED BY <3>2, <3>3, <4>1, <4>2, <4>4
    <3>. QED BY <3>4, <3>5
  <2>2. ~Red(u, Nil)
    BY <1>1, <1>4, <1>6, <1>9
  <2>. QED BY <1>11, <2>1, <2>2 DEF Even
<1>13. Balanced(u, N, h)
  BY <1>4, <1>8, <1>12 DEF Balanced
<1>. QED BY <1>5, <1>13

\* FixPush leaves a balanced tree of the same nodes.
LEMMA PushBalances ==
  ASSUME NEW N, NEW t, NEW sub, NEW height, NEW n, Pushing(t, N, sub, height, n)
  PROVE  \E w, h : Shape(FixPush(t, n), N, w) /\ Balanced(FixPush(t, n), N, h)
<1>1. Tree(t, N) /\ n \in N /\ DOMAIN t.node = N /\ Stored(t) = N \ {Nil} /\ t \in TreesOver(N)
      /\ Cardinality(N \ {Nil}) \in Nat /\ Rounds(t) = Cardinality(N \ {Nil})
      /\ Cardinality(sub[n]) \in Nat
  <2>1. Tree(t, N) /\ n \in N /\ Shape(t, N, sub)
    BY DEF Pushing, Shape
  <2>. QED BY <2>1, TreeFacts, SizeFacts DEF Tree, Rounds
<1>2. PICK rounds, round :
        rounds = Rounds(t) /\ round = [a \in RepairsOf(t) |-> PushRound(a.tree, a.node)]
  OBVIOUS
<1>3. PICK Close : Close = [k \in Nat |-> PushClose(N, k)]
  OBVIOUS
<1>4. Repair(t, n) \in Close[rounds]
  <2>1. Repair(t, n) \in [tree : TreesOver(N), node : N]
    BY <1>1 DEF Repair
  <2>2. Repair(t, n).tree = t /\ Repair(t, n).node = n
    BY DEF Repair
  <2>3. Cardinality(sub[n]) + rounds >= Cardinality(N \ {Nil})
    BY <1>1, <1>2
  <2>4. Repair(t, n) \in PushClose(N, rounds)
    BY <2>1, <2>2, <2>3 DEF PushClose
  <2>. QED BY <1>1, <1>2, <1>3, <2>4
<1>5. ASSUME NEW k \in Nat, NEW a \in Close[k + 1]
      PROVE  round[a] \in Close[k]
  <2>1. a \in PushClose(N, k + 1)
    BY <1>3, <1>5
  <2>2. /\ a \in [tree : TreesOver(N), node : N]
        /\ \E w, h : /\ Pushing(a.tree, N, w, h, a.node)
                     /\ \/ PushDone(a.tree, a.node)
                        \/ Cardinality(w[a.node]) + (k + 1) >= Cardinality(N \ {Nil})
    BY <2>1 DEF PushClose
  <2>3. PICK w1, h1 : /\ Pushing(a.tree, N, w1, h1, a.node)
                      /\ \/ PushDone(a.tree, a.node)
                         \/ Cardinality(w1[a.node]) + (k + 1) >= Cardinality(N \ {Nil})
    BY <2>2
  <2>4. round[a] = PushRound(a.tree, a.node)
    BY <1>1, <1>2, <2>2 DEF RepairsOf
  <2>5. PICK u, m, w, h : /\ PushRound(a.tree, a.node) = Repair(u, m) /\ Pushing(u, N, w, h, m)
                          /\ PushDone(u, m) \/ Cardinality(w1[a.node]) < Cardinality(w[m])
    BY <2>3, PushRounds
  <2>6. PushDone(u, m) \/ Cardinality(w[m]) + k >= Cardinality(N \ {Nil})
    <3>1. CASE PushDone(a.tree, a.node)
      <4>1. PushRound(a.tree, a.node) = Repair(a.tree, a.node)
        BY <3>1 DEF PushRound, PushDone
      <4>2. u = a.tree /\ m = a.node
        BY <2>5, <4>1 DEF Repair
      <4>. QED BY <3>1, <4>2
    <3>2. CASE ~PushDone(a.tree, a.node)
      <4>1. Cardinality(w1[a.node]) \in Nat /\ Cardinality(w[m]) \in Nat
        <5>1. Shape(a.tree, N, w1) /\ a.node \in N /\ Shape(u, N, w) /\ m \in N
          BY <2>3, <2>5 DEF Pushing
        <5>. QED BY <5>1, SizeFacts
      <4>. QED BY <1>1, <2>3, <2>5, <3>2, <4>1
    <3>. QED BY <3>1, <3>2
  <2>7. Repair(u, m) \in [tree : TreesOver(N), node : N] /\ Repair(u, m).tree = u /\ Repair(u, m).node = m
    BY <2>5 DEF Repair, Pushing, Shape, Tree
  <2>8. Repair(u, m) \in PushClose(N, k)
    BY <2>5, <2>6, <2>7 DEF PushClose
  <2>. QED BY <1>3, <2>4, <2>5, <2>8
<1>6. PICK end : end = Looped(round, Repair(t, n), rounds)
  OBVIOUS
<1>7. end \in Close[0]
  BY <1>1, <1>2, <1>4, <1>5, <1>6, LoopEnds
<1>8. FixPush(t, n) = Paint(end.tree, end.tree.root, FALSE)
  BY <1>2, <1>6 DEF FixPush
<1>9. PICK w, h : /\ Pushing(end.tree, N, w, h, end.node)
                  /\ PushDone(end.tree, end.node) \/ Cardinality(w[end.node]) + 0 >= Cardinality(N \ {Nil})
  <2>1. end \in PushClose(N, 0)
    BY <1>3, <1>7
  <2>. QED BY <2>1 DEF PushClose
<1>10. PushDone(end.tree, end.node)
  <2>1. Shape(end.tree, N, w) /\ end.node \in N /\ end.node # Nil
    BY <1>9 DEF Pushing
  <2>2. Cardinality(w[end.node]) \in Nat
        /\ (end.node # end.tree.root => Cardinality(w[end.node]) < Cardinality(N \ {Nil}))
    BY <2>1, SizeFacts
  <2>. QED BY <1>1, <1>9, <2>2 DEF PushDone
<1>. QED BY <1>8, <1>9, <1>10, RootPainted

-----------------------------------------------------------------------------
(* FixDel.                                                                 *)

\* The tree is in order but for x, on side s of p: one black node is missing below it.
\* The parent and the children of x may be as red as x.
Deleting(t, N, sub, height, x, p, s) ==
  /\ Shape(t, N, sub) /\ x \in N /\ s \in Sides
  /\ x = t.root => p = NoData
  /\ x # t.root => p \in N \ {Nil} /\ Child(t, p, s) = x /\ Parent(t, x) = p
  /\ Even(t, N, height, p, s) /\ RedsApart(t, N, x, x)
  /\ Red(t, t.root) => x = t.root

DelDone(t, x) == x = t.root \/ Red(t, x)

NoReds(t, N) == \A q \in N \ {Nil}, d \in Sides : ~(Red(t, q) /\ Red(t, Child(t, q, d)))

\* What there is around x when the loop goes on
Brothers(t, N, sub, height, x, p, s, o, b) ==
  /\ Shape(t, N, sub) /\ Tree(t, N) /\ Nil \in N /\ NoData \notin N
  /\ x \in N /\ s \in Sides /\ o \in Sides /\ o = Other(s) /\ s = Other(o) /\ o # s
  /\ p \in N /\ p # Nil /\ Child(t, p, s) = x /\ Parent(t, x) = p /\ SideOf(t, x) = s
  /\ b = Child(t, p, o) /\ b \in N /\ b # Nil /\ b # p /\ b # x /\ x # p
  /\ Parent(t, b) = p /\ b # t.root /\ x # t.root
  /\ ~Red(t, x) /\ ~Red(t, Nil) /\ ~Red(t, t.root) /\ NoReds(t, N)
  /\ height \in [N -> Nat] /\ height[Nil] = 0
  /\ height[b] = height[x] + 1 /\ height[p] = Black(t, p) + height[b]
  /\ \A q \in N : Black(t, q) \in Nat
  /\ \A q \in N \ {Nil, p}, d \in Sides : height[q] = Black(t, q) + height[Child(t, q, d)]

\* While the loop goes on, x has a brother, and he is no leaf.
LEMMA DelFamily ==
  ASSUME NEW N, NEW t, NEW sub, NEW height, NEW x, NEW p, NEW s,
         Deleting(t, N, sub, height, x, p, s), ~DelDone(t, x)
  PROVE  Brothers(t, N, sub, height, x, p, s, Other(s), Child(t, p, Other(s)))
<1>1. PICK o : o = Other(s)
  OBVIOUS
<1>2. PICK b : b = Child(t, p, o)
  OBVIOUS
<1>3. /\ Shape(t, N, sub) /\ x \in N /\ s \in Sides /\ x # t.root /\ ~Red(t, x)
      /\ p \in N \ {Nil} /\ Child(t, p, s) = x /\ Parent(t, x) = p
      /\ Even(t, N, height, p, s) /\ RedsApart(t, N, x, x) /\ ~Red(t, t.root)
  BY DEF Deleting, DelDone
<1>4. Tree(t, N) /\ Nil \in N /\ NoData \notin N
  BY <1>3, RBTreeAssumption DEF Shape, Tree
<1>5. o \in Sides /\ o # s /\ s = Other(o)
  BY <1>1, <1>3, SidesFacts
<1>6. /\ b \in N /\ \A q \in N, d \in Sides : Child(t, q, d) \in N
      /\ \A q \in N : Black(t, q) \in Nat
  BY <1>2, <1>3, <1>4, <1>5, TreeFacts DEF Black
<1>7. /\ height \in [N -> Nat] /\ height[Nil] = 0 /\ ~Red(t, Nil)
      /\ \A q \in N \ {Nil}, d \in Sides :
           height[q] = Black(t, q) + height[Child(t, q, d)] + Lack(q, d, p, s)
  BY <1>3 DEF Even
<1>8. ASSUME NEW q \in N \ {Nil, p}, NEW d \in Sides
      PROVE  height[q] = Black(t, q) + height[Child(t, q, d)]
  <2>1. Lack(q, d, p, s) = 0
    BY DEF Lack
  <2>2. PICK y : y = Child(t, q, d)
    OBVIOUS
  <2>3. height[q] = Black(t, q) + height[y] + 0 /\ height[y] \in Nat /\ Black(t, q) \in Nat
    BY <1>6, <1>7, <2>1, <2>2
  <2>. QED BY <2>2, <2>3
<1>9. height[b] = height[x] + 1 /\ height[p] = Black(t, p) + height[b]
  <2>1. Lack(p, s, p, s) = 1 /\ Lack(p, o, p, s) = 0
    BY <1>5 DEF Lack
  <2>2. height[p] = Black(t, p) + height[x] + 1 /\ height[p] = Black(t, p) + height[b] + 0
    BY <1>2, <1>3, <1>5, <1>7, <2>1
  <2>3. height[p] \in Nat /\ height[b] \in Nat /\ height[x] \in Nat /\ Black(t, p) \in Nat
    BY <1>3, <1>6, <1>7
  <2>. QED BY <2>2, <2>3
<1>10. b # Nil /\ b # x
  <2>1. height[b] # 0 /\ height[b] # height[x]
    BY <1>3, <1>6, <1>7, <1>9
  <2>. QED BY <1>7, <2>1
<1>11. b # p /\ Parent(t, b) = p /\ b # t.root
  BY <1>2, <1>3, <1>5, <1>10, BelowFacts
<1>12. SideOf(t, x) = s
  BY <1>2, <1>3, <1>5, <1>10, SidesFacts DEF SideOf
<1>13. NoReds(t, N)
  BY <1>3, <1>6 DEF NoReds, RedsApart, Apart
<1>14. x # p
  <2>1. x # Nil => x \in sub[p] /\ p \notin sub[x] /\ x \in sub[x]
    BY <1>3, BelowFacts, SidesFacts
  <2>. QED BY <1>3, <2>1
<1>. QED
  BY <1>1, <1>2, <1>3, <1>4, <1>5, <1>6, <1>7, <1>8, <1>9, <1>10, <1>11, <1>12, <1>13, <1>14 DEF Brothers

\* A tree around a hole on side s of p is as far.
LEMMA StillDeleting ==
  ASSUME NEW N, NEW t, NEW sub, NEW height, NEW x \in N, NEW p \in N, NEW s \in Sides,
         Shape(t, N, sub), p # Nil, Child(t, p, s) = x, Parent(t, x) = p, ~Red(t, x),
         Even(t, N, height, p, s), RedsApart(t, N, x, x), ~Red(t, t.root), x # t.root
  PROVE  Deleting(t, N, sub, height, x, p, s) /\ ~DelDone(t, x)
BY DEF Deleting, DelDone

\* The brother is red: he takes the place of p, and one of his children is the brother.
LEMMA DelBrotherRed ==
  ASSUME NEW N, NEW t, NEW sub, NEW height, NEW x, NEW p, NEW s, NEW o, NEW b,
         Brothers(t, N, sub, height, x, p, s, o, b), Red(t, b),
         NEW u, u = BrotherBlack(t, p, s)
  PROVE  /\ \E w, h : Deleting(u, N, w, h, x, p, s) /\ ~DelDone(u, x)
         /\ Red(u, p) /\ ~Red(u, Child(u, p, o))
<1>1. /\ Shape(t, N, sub) /\ Tree(t, N) /\ Nil \in N /\ NoData \notin N
      /\ x \in N /\ s \in Sides /\ o \in Sides /\ o = Other(s) /\ s = Other(o) /\ o # s
      /\ p \in N /\ p # Nil /\ Child(t, p, s) = x /\ Parent(t, x) = p
      /\ b = Child(t, p, o) /\ b \in N /\ b # Nil /\ b # p /\ b # x /\ x # p
      /\ Parent(t, b) = p /\ b # t.root /\ x # t.root
      /\ ~Red(t, x) /\ ~Red(t, Nil) /\ ~Red(t, t.root) /\ NoReds(t, N)
  BY DEF Brothers
<1>2. /\ height \in [N -> Nat] /\ height[Nil] = 0
      /\ height[b] = height[x] + 1 /\ height[p] = Black(t, p) + height[b]
      /\ \A q \in N \ {Nil, p}, d \in Sides : height[q] = Black(t, q) + height[Child(t, q, d)]
  BY DEF Brothers
<1>3. PICK v : v = Paint(Paint(t, b, FALSE), p, TRUE)
  OBVIOUS
<1>4. PaintsIs(N, t, v, b, FALSE, b, FALSE, p, TRUE)
  BY <1>1, <1>3, PaintTwiceFacts
<1>5. PICK m, e, q0 : m = Child(t, b, s) /\ e = Child(t, b, o) /\ q0 = Parent(t, p)
  OBVIOUS
<1>6. /\ Tree(v, N) /\ v.root = t.root /\ Shape(v, N, sub)
      /\ \A q \in N : Parent(v, q) = Parent(t, q)
      /\ \A q \in N, d \in Sides : Child(v, q, d) = Child(t, q, d)
  BY <1>1, <1>4, PaintedShape DEF PaintsIs, SameLinks
<1>7. Turn(N, v, sub, p, s, o, b, m, x, e, q0)
  BY <1>1, <1>5, <1>6 DEF Turn
<1>8. u = Rotate(v, p, s)
  BY <1>1, <1>3 DEF BrotherBlack
<1>9. RotateIs(N, v, u, p, s, b, m, q0) /\ Shape(u, N, Turned(v, sub, p, s))
  BY <1>7, <1>8, TurnFacts
<1>10. /\ m \in N /\ e \in N /\ m # p /\ m # b /\ e # b /\ e # p
       /\ q0 # p /\ q0 # b /\ q0 # Nil /\ q0 \in N \cup {NoData} /\ (q0 = NoData <=> p = t.root)
  BY <1>6, <1>7, TurnNodes
<1>11. /\ \A q \in N \ {p, b} : Red(v, q) = Red(t, q)
       /\ ~Red(v, b) /\ Red(v, p)
  <2>1. \A q \in N : Red(v, q) =
            (IF q = p THEN TRUE ELSE IF q = b THEN FALSE ELSE IF q = b THEN FALSE ELSE Red(t, q))
    BY <1>4 DEF PaintsIs
  <2>. QED BY <1>1, <2>1
<1>12. \A q \in N : Red(u, q) = Red(v, q)
  BY <1>9 DEF RotateIs
<1>13. ~Red(t, p) /\ ~Red(t, m) /\ ~Red(t, e)
  BY <1>1, <1>5 DEF NoReds
<1>14. ~Red(v, Nil) /\ ~Red(v, m) /\ ~Red(v, e) /\ ~Red(v, x)
  BY <1>1, <1>10, <1>11, <1>13
<1>15. PICK k : k = height[b]
  OBVIOUS
<1>16. /\ k \in Nat /\ k = Black(v, p) + height[x] + Lack(p, s, p, s)
       /\ k = Black(v, p) + height[m] /\ height[p] = Black(v, b) + k
       /\ height[p] = Black(v, b) + height[e] /\ height[m] # 0
  <2>1. Black(t, p) = 1 /\ Black(t, b) = 0 /\ Black(v, b) = 1 /\ Black(v, p) = 0 /\ Lack(p, s, p, s) = 1
    BY <1>11, <1>13 DEF Black, Lack
  <2>2. \A d \in Sides : height[b] = 0 + height[Child(t, b, d)]
    BY <1>1, <1>2, <2>1
  <2>3. height[b] = 0 + height[m] /\ height[b] = 0 + height[e]
    BY <1>1, <1>5, <2>2
  <2>4. height[p] = 1 + height[b]
    BY <1>2, <2>1
  <2>5. height[p] \in Nat /\ height[b] \in Nat /\ height[x] \in Nat /\ height[m] \in Nat /\ height[e] \in Nat
    BY <1>1, <1>2, <1>10
  <2>. QED BY <1>2, <1>15, <2>1, <2>3, <2>4, <2>5
<1>17. EvenElsewhere(v, N, height, p, b, p, s)
  <2>. SUFFICES ASSUME NEW q \in N \ {Nil, p, b}, NEW d \in Sides
                PROVE  height[q] = Black(v, q) + height[Child(v, q, d)] + Lack(q, d, p, s)
    BY DEF EvenElsewhere
  <2>1. Black(v, q) = Black(t, q) /\ Child(v, q, d) = Child(t, q, d) /\ Lack(q, d, p, s) = 0
    BY <1>6, <1>11 DEF Black, Lack
  <2>2. PICK y, c : y = Child(t, q, d) /\ c = Black(t, q)
    OBVIOUS
  <2>3. y \in N /\ c \in Nat /\ height[y] \in Nat /\ height[q] = c + height[y]
    BY <1>1, <1>2, <2>2, TreeFacts DEF Black
  <2>4. height[q] = c + height[y] + 0
    BY <2>3
  <2>. QED BY <2>1, <2>2, <2>4
<1>18. PICK h : h = [height EXCEPT ![p] = k, ![b] = height[p]]
  OBVIOUS
<1>19. Even(u, N, h, p, s)
  <2>1. TurnHeights(N, v, height, k, p, s, b, m, x, e, p, s)
    BY <1>1, <1>2, <1>14, <1>16, <1>17 DEF TurnHeights
  <2>2. Even(Rotate(v, p, s), N, [height EXCEPT ![p] = k, ![b] = height[p]], p, s)
    BY <1>7, <2>1, TurnEven
  <2>. QED BY <1>8, <1>18, <2>2
<1>20. RedsApart(u, N, x, x)
  <2>1. ASSUME NEW q \in N \ {Nil, p, b}, NEW d \in Sides, Child(v, q, d) \notin {p, b}
        PROVE  Apart(v, q, Child(v, q, d), x, x)
    <3>1. Child(v, q, d) = Child(t, q, d) /\ Child(t, q, d) \in N
      BY <1>1, <1>6, TreeFacts
    <3>2. Red(v, q) = Red(t, q) /\ Red(v, Child(v, q, d)) = Red(t, Child(t, q, d))
      BY <1>11, <2>1, <3>1
    <3>. QED BY <1>1, <3>1, <3>2 DEF NoReds, Apart
  <2>2. /\ Apart(v, q0, b, x, x) /\ Apart(v, b, p, x, x) /\ Apart(v, b, e, x, x)
        /\ Apart(v, p, m, x, x) /\ Apart(v, p, x, x, x)
    BY <1>11, <1>14 DEF Apart
  <2>3. RedsApart(Rotate(v, p, s), N, x, x)
    BY <1>7, <2>1, <2>2, TurnReds
  <2>. QED BY <1>8, <2>3
<1>21. m # Nil
  BY <1>2, <1>16
<1>22. Child(u, p, s) = x /\ Child(u, p, o) = m /\ Parent(u, x) = p
  <2>1. Child(u, p, s) = Child(v, p, s)
    BY <1>1, <1>9, <1>10 DEF RotateIs
  <2>2. Child(u, p, o) = m
    BY <1>1, <1>9, <1>10 DEF RotateIs
  <2>3. Parent(u, x) = p
    BY <1>1, <1>6, <1>9 DEF RotateIs
  <2>. QED BY <1>1, <1>6, <2>1, <2>2, <2>3
<1>23. u.root # x /\ ~Red(u, u.root)
  <2>1. CASE q0 = NoData
    <3>1. u.root = b
      BY <1>9, <2>1 DEF RotateIs
    <3>. QED BY <1>1, <1>11, <1>12, <3>1
  <2>2. CASE q0 # NoData
    <3>1. u.root = t.root /\ t.root \in N /\ t.root # p /\ t.root # b
      BY <1>1, <1>6, <1>9, <1>10, <2>2, TreeFacts DEF RotateIs
    <3>2. Red(u, t.root) = Red(t, t.root)
      BY <1>11, <1>12, <3>1
    <3>. QED BY <1>1, <3>1, <3>2
  <2>. QED BY <2>1, <2>2
<1>24. ~Red(u, x) /\ Red(u, p) /\ ~Red(u, m)
  BY <1>1, <1>10, <1>11, <1>12, <1>14
<1>25. Deleting(u, N, Turned(v, sub, p, s), h, x, p, s) /\ ~DelDone(u, x)
  BY <1>1, <1>9, <1>19, <1>20, <1>22, <1>23, <1>24, StillDeleting
<1>. QED BY <1>22, <1>24, <1>25

\* The heights of such a tree, with the black node that is missing
LEMMA BrothersEven ==
  ASSUME NEW N, NEW t, NEW sub, NEW height, NEW x, NEW p, NEW s, NEW o, NEW b,
         Brothers(t, N, sub, height, x, p, s, o, b)
  PROVE  \A q \in N \ {Nil}, d \in Sides :
           height[q] = Black(t, q) + height[Child(t, q, d)] + Lack(q, d, p, s)
<1>1. /\ Tree(t, N) /\ x \in N /\ s \in Sides /\ o = Other(s) /\ o # s
      /\ p \in N /\ p # Nil /\ Child(t, p, s) = x /\ b = Child(t, p, o) /\ b \in N
  BY DEF Brothers
<1>2. /\ height \in [N -> Nat]
      /\ height[b] = height[x] + 1 /\ height[p] = Black(t, p) + height[b]
      /\ \A q \in N \ {Nil, p}, d \in Sides : height[q] = Black(t, q) + height[Child(t, q, d)]
  BY DEF Brothers
<1>3. ASSUME NEW q \in N \ {Nil}, NEW d \in Sides
      PROVE  height[q] = Black(t, q) + height[Child(t, q, d)] + Lack(q, d, p, s)
  <2>1. PICK y, c : y = Child(t, q, d) /\ c = Black(t, q)
    OBVIOUS
  <2>2. y \in N /\ c \in Nat /\ height[y] \in Nat /\ height[x] \in Nat /\ height[b] \in Nat
    BY <1>1, <1>2, <2>1, TreeFacts DEF Black
  <2>3. CASE q # p
    <3>1. Lack(q, d, p, s) = 0
      BY <2>3 DEF Lack
    <3>2. height[q] = c + height[y]
      BY <1>2, <2>1, <2>3
    <3>3. height[q] = c + height[y] + 0
      BY <2>2, <3>2
    <3>. QED BY <2>1, <3>1, <3>3
  <2>4. CASE q = p /\ d = s
    <3>1. Lack(q, d, p, s) = 1
      BY <2>4 DEF Lack
    <3>2. height[q] = c + height[b] /\ y = x
      BY <1>1, <1>2, <2>1, <2>4
    <3>3. height[q] = c + height[y] + 1
      BY <1>2, <2>2, <3>2
    <3>. QED BY <2>1, <3>1, <3>3
  <2>5. CASE q = p /\ d = o
    <3>1. Lack(q, d, p, s) = 0
      BY <1>1, <2>5 DEF Lack
    <3>2. height[q] = c + height[b] /\ y = b
      BY <1>1, <1>2, <2>1, <2>5
    <3>3. height[q] = c + height[y] + 0
      BY <2>2, <3>2
    <3>. QED BY <2>1, <3>1, <3>3
  <2>. QED BY <1>1, <2>3, <2>4, <2>5, SidesFacts
<1>. QED BY <1>3

Reddened(t, n) == Paint(t, n, TRUE)

\* The brother and his children are black: the brother becomes red, and a black node
\* is missing below p.
LEMMA DelRecolours ==
  ASSUME NEW N, NEW t, NEW sub, NEW height, NEW x, NEW p, NEW s, NEW o, NEW b,
         Brothers(t, N, sub, height, x, p, s, o, b), ~Red(t, b),
         \A d \in Sides : ~Red(t, Child(t, b, d)),
         NEW u, u = Reddened(t, b)
  PROVE  /\ \E h, q0, side : Deleting(u, N, sub, h, p, q0, side)
         /\ Red(u, p) = Red(t, p) /\ Cardinality(sub[x]) < Cardinality(sub[p])
<1>1. /\ Shape(t, N, sub) /\ Tree(t, N) /\ Nil \in N /\ NoData \notin N
      /\ x \in N /\ s \in Sides /\ o \in Sides /\ o = Other(s) /\ s = Other(o) /\ o # s
      /\ p \in N /\ p # Nil /\ Child(t, p, s) = x /\ Parent(t, x) = p
      /\ b = Child(t, p, o) /\ b \in N /\ b # Nil /\ b # p /\ b # x /\ x # p
      /\ Parent(t, b) = p /\ b # t.root /\ x # t.root
      /\ ~Red(t, x) /\ ~Red(t, Nil) /\ ~Red(t, t.root) /\ NoReds(t, N)
  BY DEF Brothers
<1>2. /\ height \in [N -> Nat] /\ height[Nil] = 0
      /\ height[b] = height[x] + 1 /\ height[p] = Black(t, p) + height[b]
      /\ \A q \in N \ {Nil, p}, d \in Sides : height[q] = Black(t, q) + height[Child(t, q, d)]
  BY DEF Brothers
<1>3. PaintIs(N, t, u, b, TRUE)
  BY <1>1, PaintFacts DEF Reddened
<1>4. /\ Tree(u, N) /\ u.root = t.root /\ SameLinks(N, t, u)
      /\ \A q \in N : Parent(u, q) = Parent(t, q)
      /\ \A q \in N, d \in Sides : Child(u, q, d) = Child(t, q, d)
      /\ Red(u, b) /\ \A q \in N \ {b} : Red(u, q) = Red(t, q)
  BY <1>1, <1>3 DEF PaintIs, SameLinks
<1>5. Shape(u, N, sub)
  BY <1>1, <1>4, PaintedShape
<1>6. PICK q0, side : /\ side \in Sides
                      /\ p = t.root => q0 = NoData
                      /\ p # t.root => /\ q0 \in N \ {Nil} /\ Child(t, q0, side) = p /\ Parent(t, p) = q0
                                       /\ q0 # p
  <2>1. CASE p = t.root
    BY <1>1, <2>1
  <2>2. CASE p # t.root
    <3>1. PICK q1, d : q1 = Parent(t, p) /\ d = SideOf(t, p)
      OBVIOUS
    <3>2. q1 \in N \ {Nil} /\ d \in Sides /\ Child(t, q1, d) = p /\ q1 # p
      BY <1>1, <2>2, <3>1, AboveFacts
    <3>. QED BY <2>2, <3>1, <3>2
  <2>. QED BY <2>1, <2>2
<1>7. \A q \in N \ {Nil}, d \in Sides :
        /\ Child(t, q, d) \in N
        /\ Child(t, q, d) = b => q = p /\ d = o
        /\ Child(t, q, d) = p => q = q0 /\ d = side
  <2>1. \A q \in N \ {Nil}, d \in Sides : Child(t, q, d) \in N
    BY <1>1, TreeFacts
  <2>2. ASSUME NEW q \in N \ {Nil}, NEW d \in Sides, Child(t, q, d) = b
        PROVE  q = p /\ d = o
    <3>1. q = p
      BY <1>1, <2>2 DEF Shape, Links
    <3>. QED BY <1>1, <2>2, <3>1, SidesFacts
  <2>3. ASSUME NEW q \in N \ {Nil}, NEW d \in Sides, Child(t, q, d) = p
        PROVE  q = q0 /\ d = side
    <3>1. q = Parent(t, p) /\ p # t.root
      BY <1>1, <2>3, BelowFacts
    <3>2. q = q0
      BY <1>6, <3>1
    <3>3. Child(t, q0, side) = p /\ side \in Sides
      BY <1>6, <3>1
    <3>4. Child(t, q, d) # Child(t, q, Other(d))
      BY <1>1, <2>3, BelowFacts
    <3>. QED BY <2>3, <3>2, <3>3, <3>4, SidesFacts
  <2>. QED BY <2>1, <2>2, <2>3
<1>8. PICK h : h = [height EXCEPT ![p] = height[p] - 1, ![b] = height[b] - 1]
  OBVIOUS
<1>9. /\ height[x] \in Nat /\ height[b] \in Nat /\ height[p] \in Nat /\ Black(t, p) \in Nat
      /\ height[p] = Black(t, p) + height[x] + 1
  BY <1>1, <1>2 DEF Black
<1>10. /\ h \in [N -> Nat] /\ h[p] = Black(t, p) + height[x] /\ h[b] = height[x] /\ h[Nil] = 0
       /\ \A q \in N \ {p, b} : h[q] = height[q]
  <2>1. height[p] - 1 = Black(t, p) + height[x] /\ height[b] - 1 = height[x]
        /\ height[p] - 1 \in Nat /\ height[b] - 1 \in Nat
    BY <1>2, <1>9
  <2>. QED BY <1>1, <1>2, <1>8, <2>1
<1>11. Even(u, N, h, q0, side)
  <2>1. ASSUME NEW q \in N \ {Nil}, NEW d \in Sides
        PROVE  h[q] = Black(u, q) + h[Child(u, q, d)] + Lack(q, d, q0, side)
    <3>1. PICK y : y = Child(t, q, d)
      OBVIOUS
    <3>2. y \in N /\ Child(u, q, d) = y /\ height[y] \in Nat /\ (y = b => q = p /\ d = o)
          /\ (y = p => q = q0 /\ d = side)
      BY <1>2, <1>4, <1>7, <3>1
    <3>3. CASE q = p
      <4>1. Black(u, p) = Black(t, p) /\ Lack(q, d, q0, side) = 0
        BY <1>1, <1>4, <1>6, <3>3 DEF Black, Lack
      <4>2. h[y] = height[x]
        <5>1. y = x \/ y = b
          BY <1>1, <3>1, <3>3, SidesFacts
        <5>. QED BY <1>1, <1>10, <5>1
      <4>3. h[p] = Black(t, p) + h[y] + 0
        BY <1>9, <1>10, <4>2
      <4>. QED BY <3>2, <3>3, <4>1, <4>3
    <3>4. CASE q = b
      <4>1. Black(u, b) = 0 /\ Black(t, b) = 1
        BY <1>4 DEF Black
      <4>2. b # q0
        <5>1. p # t.root => q0 \notin sub[p]
          BY <1>1, <1>6, AboveFacts
        <5>2. b \in sub[b]
          BY <1>1, BelowFacts
        <5>3. sub[b] \subseteq sub[p]
          BY <1>1, AboveFacts
        <5>. QED BY <1>1, <1>6, <5>1, <5>2, <5>3
      <4>3. Lack(b, d, q0, side) = 0
        BY <4>2 DEF Lack
      <4>4. y # b /\ y # p
        BY <1>1, <3>2, <3>4, <4>2
      <4>5. height[b] = 1 + height[y]
        BY <1>1, <1>2, <3>1, <3>4, <4>1
      <4>6. h[b] = 0 + h[y] + 0
        BY <1>2, <1>9, <1>10, <3>2, <4>4, <4>5
      <4>. QED BY <3>2, <3>4, <4>1, <4>3, <4>6
    <3>5. CASE q # p /\ q # b
      <4>1. Black(u, q) = Black(t, q) /\ y # b
        BY <1>4, <3>2, <3>5 DEF Black
      <4>2. PICK c \in Nat : c = Black(t, q)
        BY DEF Black
      <4>3. height[q] = c + height[y] /\ h[q] = height[q]
        BY <1>2, <1>10, <3>1, <3>5, <4>2
      <4>4. CASE y = p
        <5>1. Lack(q, d, q0, side) = 1
          BY <3>2, <4>4 DEF Lack
        <5>2. h[q] = c + h[y] + 1
          BY <1>9, <1>10, <4>2, <4>3, <4>4
        <5>. QED BY <3>2, <4>1, <4>2, <5>1, <5>2
      <4>5. CASE y # p
        <5>1. Lack(q, d, q0, side) = 0
          <6>1. ~(q = q0 /\ d = side)
            BY <1>1, <1>6, <3>1, <4>5
          <6>. QED BY <6>1 DEF Lack
        <5>2. h[q] = c + h[y] + 0
          BY <1>10, <3>2, <4>1, <4>2, <4>3, <4>5
        <5>. QED BY <3>2, <4>1, <4>2, <5>1, <5>2
      <4>. QED BY <4>4, <4>5
    <3>. QED BY <3>3, <3>4, <3>5
  <2>2. ~Red(u, Nil)
    BY <1>1, <1>4
  <2>. QED BY <1>10, <2>1, <2>2 DEF Even
<1>12. RedsApart(u, N, p, p)
  <2>. SUFFICES ASSUME NEW q \in N \ {Nil}, NEW d \in Sides, Red(u, q), Red(u, Child(u, q, d)), q # p
                PROVE  FALSE
    BY DEF RedsApart, Apart
  <2>1. Child(u, q, d) = Child(t, q, d) /\ Child(t, q, d) \in N /\ Child(t, q, d) # b
    BY <1>4, <1>7
  <2>2. Red(t, Child(t, q, d))
    BY <1>4, <2>1
  <2>3. q # b
    BY <2>2
  <2>4. Red(t, q)
    BY <1>4, <2>3
  <2>. QED BY <1>1, <2>2, <2>4 DEF NoReds
<1>13. ~Red(u, u.root)
  BY <1>1, <1>4, TreeFacts
<1>14. Deleting(u, N, sub, h, p, q0, side)
  BY <1>1, <1>4, <1>5, <1>6, <1>11, <1>12, <1>13 DEF Deleting
<1>15. Cardinality(sub[x]) < Cardinality(sub[p])
  BY <1>1, SizeFacts
<1>. QED BY <1>1, <1>4, <1>14, <1>15

\* The brother's child on the far side becomes red, when only the other one is.
LEMMA DelNephewRed ==
  ASSUME NEW N, NEW t, NEW sub, NEW height, NEW x, NEW p, NEW s, NEW o, NEW b,
         Brothers(t, N, sub, height, x, p, s, o, b), ~Red(t, b),
         ~Red(t, Child(t, b, o)), NEW r, r = Child(t, b, s), Red(t, r),
         NEW u, u = NephewRed(t, p, s)
  PROVE  /\ \E w, h : Deleting(u, N, w, h, x, p, s) /\ ~DelDone(u, x)
         /\ Child(u, p, o) = r /\ ~Red(u, r) /\ Red(u, Child(u, r, o))
<1>1. /\ Shape(t, N, sub) /\ Tree(t, N) /\ Nil \in N /\ NoData \notin N
      /\ x \in N /\ s \in Sides /\ o \in Sides /\ o = Other(s) /\ s = Other(o) /\ o # s
      /\ p \in N /\ p # Nil /\ Child(t, p, s) = x /\ Parent(t, x) = p
      /\ b = Child(t, p, o) /\ b \in N /\ b # Nil /\ b # p /\ b # x /\ x # p
      /\ Parent(t, b) = p /\ b # t.root /\ x # t.root
      /\ ~Red(t, x) /\ ~Red(t, Nil) /\ ~Red(t, t.root) /\ NoReds(t, N)
  BY DEF Brothers
<1>2. /\ height \in [N -> Nat] /\ height[Nil] = 0
      /\ height[b] = height[x] + 1 /\ height[p] = Black(t, p) + height[b]
      /\ \A q \in N \ {Nil, p}, d \in Sides : height[q] = Black(t, q) + height[Child(t, q, d)]
  BY DEF Brothers
<1>3. PICK v : v = Paint(Paint(t, r, FALSE), b, TRUE)
  OBVIOUS
<1>4. r \in N /\ r # Nil /\ r # b /\ Parent(t, r) = b /\ r # t.root
  <2>1. r \in N /\ r # Nil
    BY <1>1, TreeFacts
  <2>. QED BY <1>1, <2>1, BelowFacts
<1>5. PaintsIs(N, t, v, r, FALSE, r, FALSE, b, TRUE)
  BY <1>1, <1>3, <1>4, PaintTwiceFacts
<1>6. PICK m, c, e : m = Child(t, r, o) /\ c = Child(t, b, o) /\ e = Child(t, r, s)
  OBVIOUS
<1>7. /\ Tree(v, N) /\ v.root = t.root /\ Shape(v, N, sub)
      /\ \A q \in N : Parent(v, q) = Parent(t, q)
      /\ \A q \in N, d \in Sides : Child(v, q, d) = Child(t, q, d)
  BY <1>1, <1>5, PaintedShape DEF PaintsIs, SameLinks
<1>8. Turn(N, v, sub, b, o, s, r, m, c, e, p)
  BY <1>1, <1>4, <1>6, <1>7 DEF Turn
<1>9. u = Rotate(v, b, o)
  BY <1>1, <1>3 DEF NephewRed
<1>10. RotateIs(N, v, u, b, o, r, m, p) /\ Shape(u, N, Turned(v, sub, b, o))
  BY <1>8, <1>9, TurnFacts
<1>11. /\ m \in N /\ e \in N /\ c \in N /\ m # b /\ m # r /\ e # b /\ e # r /\ c # b /\ c # r
       /\ p # r /\ p # b
  BY <1>8, TurnNodes
<1>12. /\ \A q \in N \ {b, r} : Red(v, q) = Red(t, q)
       /\ ~Red(v, r) /\ Red(v, b)
  <2>1. \A q \in N : Red(v, q) =
            (IF q = b THEN TRUE ELSE IF q = r THEN FALSE ELSE IF q = r THEN FALSE ELSE Red(t, q))
    BY <1>5 DEF PaintsIs
  <2>. QED BY <1>1, <1>4, <2>1
<1>13. \A q \in N : Red(u, q) = Red(v, q)
  BY <1>10 DEF RotateIs
<1>14. ~Red(t, m) /\ ~Red(t, e) /\ ~Red(t, c)
  BY <1>1, <1>4, <1>6 DEF NoReds
<1>15. x # r
  BY <1>1
<1>16. ~Red(v, Nil) /\ ~Red(v, m) /\ ~Red(v, e) /\ ~Red(v, c) /\ ~Red(v, x)
  BY <1>1, <1>4, <1>11, <1>12, <1>14, <1>15
<1>17. PICK k : k = height[r]
  OBVIOUS
<1>18. /\ k \in Nat /\ k = Black(v, b) + height[c] + Lack(b, o, p, s)
       /\ k = Black(v, b) + height[m] /\ height[b] = Black(v, r) + k
       /\ height[b] = Black(v, r) + height[e]
  <2>1. Black(t, b) = 1 /\ Black(t, r) = 0 /\ Black(v, r) = 1 /\ Black(v, b) = 0 /\ Lack(b, o, p, s) = 0
    BY <1>1, <1>12 DEF Black, Lack
  <2>2. \A d \in Sides : height[b] = 1 + height[Child(t, b, d)] /\ height[r] = 0 + height[Child(t, r, d)]
    BY <1>1, <1>2, <1>4, <1>11, <2>1
  <2>3. height[b] = 1 + height[r] /\ height[b] = 1 + height[c]
        /\ height[r] = 0 + height[m] /\ height[r] = 0 + height[e]
    BY <1>1, <1>6, <2>2
  <2>4. height[b] \in Nat /\ height[r] \in Nat /\ height[c] \in Nat /\ height[m] \in Nat /\ height[e] \in Nat
    BY <1>1, <1>2, <1>4, <1>11
  <2>. QED BY <1>17, <2>1, <2>3, <2>4
<1>19. EvenElsewhere(v, N, height, b, r, p, s)
  <2>. SUFFICES ASSUME NEW q \in N \ {Nil, b, r}, NEW d \in Sides
                PROVE  height[q] = Black(v, q) + height[Child(v, q, d)] + Lack(q, d, p, s)
    BY DEF EvenElsewhere
  <2>1. Black(v, q) = Black(t, q) /\ Child(v, q, d) = Child(t, q, d)
    BY <1>7, <1>12 DEF Black
  <2>2. height[q] = Black(t, q) + height[Child(t, q, d)] + Lack(q, d, p, s)
    BY BrothersEven DEF EvenElsewhere
  <2>. QED BY <2>1, <2>2
<1>20. PICK h : h = [height EXCEPT ![b] = k, ![r] = height[b]]
  OBVIOUS
<1>21. Even(u, N, h, p, s)
  <2>1. TurnHeights(N, v, height, k, b, o, r, m, c, e, p, s)
    BY <1>1, <1>2, <1>11, <1>16, <1>18, <1>19 DEF TurnHeights
  <2>2. Even(Rotate(v, b, o), N, [height EXCEPT ![b] = k, ![r] = height[b]], p, s)
    BY <1>8, <2>1, TurnEven
  <2>. QED BY <1>9, <1>20, <2>2
<1>22. RedsApart(u, N, x, x)
  <2>1. ASSUME NEW q \in N \ {Nil, b, r}, NEW d \in Sides, Child(v, q, d) \notin {b, r}
        PROVE  Apart(v, q, Child(v, q, d), x, x)
    <3>1. Child(v, q, d) = Child(t, q, d) /\ Child(t, q, d) \in N
      BY <1>1, <1>7, TreeFacts
    <3>2. Red(v, q) = Red(t, q) /\ Red(v, Child(v, q, d)) = Red(t, Child(t, q, d))
      BY <1>12, <2>1, <3>1
    <3>. QED BY <1>1, <3>1, <3>2 DEF NoReds, Apart
  <2>2. /\ Apart(v, p, r, x, x) /\ Apart(v, r, b, x, x) /\ Apart(v, r, e, x, x)
        /\ Apart(v, b, m, x, x) /\ Apart(v, b, c, x, x)
    BY <1>12, <1>16 DEF Apart
  <2>3. RedsApart(Rotate(v, b, o), N, x, x)
    BY <1>8, <2>1, <2>2, TurnReds
  <2>. QED BY <1>9, <2>3
<1>23. Place(v, p, b) = o
  <2>1. "left" \in Sides /\ "right" \in Sides /\ "left" # "right"
    BY SidesFacts
  <2>2. Child(v, p, o) = b /\ Child(v, p, s) = x
    BY <1>1, <1>7
  <2>3. (o = "left" /\ s = "right") \/ (o = "right" /\ s = "left")
    BY <1>1 DEF Sides
  <2>. QED BY <1>1, <2>1, <2>2, <2>3 DEF Place
<1>24. Child(u, p, s) = x /\ Child(u, p, o) = r /\ Parent(u, x) = p /\ Child(u, r, o) = b
  <2>1. Child(u, p, s) = Child(v, p, s)
    BY <1>1, <1>10, <1>11, <1>23 DEF RotateIs
  <2>2. Child(u, p, o) = r /\ Child(u, r, o) = b
    BY <1>1, <1>4, <1>10, <1>11, <1>23 DEF RotateIs
  <2>3. Parent(u, x) = p
    <3>1. m # Nil => Parent(v, m) = r
      BY <1>8, TurnNodes
    <3>2. m # Nil => Parent(t, m) = r
      BY <1>7, <1>11, <3>1
    <3>3. ~(x = m /\ m # Nil)
      BY <1>1, <1>11, <3>2
    <3>4. Parent(u, x) = Parent(v, x)
      BY <1>1, <1>10, <1>15, <3>3 DEF RotateIs
    <3>. QED BY <1>1, <1>7, <3>4
  <2>. QED BY <1>1, <1>7, <2>1, <2>2, <2>3
<1>25. u.root = t.root /\ ~Red(u, u.root)
  <2>1. p # NoData
    BY <1>1
  <2>2. u.root = t.root /\ t.root \in N /\ t.root # b /\ t.root # r
    BY <1>1, <1>4, <1>7, <1>10, <2>1, TreeFacts DEF RotateIs
  <2>3. Red(u, t.root) = Red(t, t.root)
    BY <1>12, <1>13, <2>2
  <2>. QED BY <1>1, <2>2, <2>3
<1>26. ~Red(u, x) /\ Red(u, b) /\ ~Red(u, r)
  BY <1>1, <1>4, <1>12, <1>13, <1>16
<1>27. Deleting(u, N, Turned(v, sub, b, o), h, x, p, s) /\ ~DelDone(u, x)
  BY <1>1, <1>10, <1>21, <1>22, <1>24, <1>25, <1>26, StillDeleting
<1>. QED BY <1>24, <1>26, <1>27

\* The brother, whose child on the far side is red, takes the place of p: nothing is
\* missing then.
LEMMA DelLifts ==
  ASSUME NEW N, NEW t, NEW sub, NEW height, NEW x, NEW p, NEW s, NEW o, NEW b,
         Brothers(t, N, sub, height, x, p, s, o, b), ~Red(t, b),
         NEW e, e = Child(t, b, o), Red(t, e),
         NEW u, u = BrotherLifted(t, p, s)
  PROVE  \E w, h : Deleting(u, N, w, h, u.root, NoData, "left")
<1>1. /\ Shape(t, N, sub) /\ Tree(t, N) /\ Nil \in N /\ NoData \notin N
      /\ x \in N /\ s \in Sides /\ o \in Sides /\ o = Other(s) /\ s = Other(o) /\ o # s
      /\ p \in N /\ p # Nil /\ Child(t, p, s) = x /\ Parent(t, x) = p
      /\ b = Child(t, p, o) /\ b \in N /\ b # Nil /\ b # p /\ b # x /\ x # p
      /\ Parent(t, b) = p /\ b # t.root /\ x # t.root
      /\ ~Red(t, x) /\ ~Red(t, Nil) /\ ~Red(t, t.root) /\ NoReds(t, N)
  BY DEF Brothers
<1>2. /\ height \in [N -> Nat] /\ height[Nil] = 0
      /\ height[b] = height[x] + 1 /\ height[p] = Black(t, p) + height[b]
      /\ \A q \in N \ {Nil, p}, d \in Sides : height[q] = Black(t, q) + height[Child(t, q, d)]
  BY DEF Brothers
<1>3. PICK red : red = Red(t, p)
  OBVIOUS
<1>4. PICK v : v = Paint(Paint(Paint(t, b, red), p, FALSE), e, FALSE)
  OBVIOUS
<1>5. e \in N /\ e # Nil /\ e # b /\ e # p /\ Red(t, p) \in BOOLEAN
  <2>1. e \in N /\ e # Nil /\ Red(t, p) \in BOOLEAN
    BY <1>1, TreeFacts
  <2>2. e # b /\ Parent(t, e) = b
    BY <1>1, <2>1, BelowFacts
  <2>3. e # p
    <3>1. p \in sub[p] /\ p \notin sub[b]
      BY <1>1, BelowFacts
    <3>2. e \in sub[b]
      <4>1. e \in sub[e] /\ sub[e] \subseteq sub[b]
        BY <1>1, <2>1, BelowFacts
      <4>. QED BY <4>1
    <3>. QED BY <3>1, <3>2
  <2>. QED BY <2>1, <2>2, <2>3
<1>6. PaintsIs(N, t, v, b, red, p, FALSE, e, FALSE)
  <2>1. red \in BOOLEAN
    BY <1>3, <1>5
  <2>2. Tree(t, N) /\ b \in N /\ p \in N /\ e \in N /\ FALSE \in BOOLEAN
    BY <1>1, <1>5
  <2>3. PaintsIs(N, t, Paint(Paint(Paint(t, b, red), p, FALSE), e, FALSE), b, red, p, FALSE, e, FALSE)
    BY ONLY <2>1, <2>2, PaintsFacts, Zenon
  <2>. QED BY <1>4, <2>3
<1>7. PICK m, q0 : m = Child(t, b, s) /\ q0 = Parent(t, p)
  OBVIOUS
<1>8. /\ Tree(v, N) /\ v.root = t.root /\ Shape(v, N, sub)
      /\ \A q \in N : Parent(v, q) = Parent(t, q)
      /\ \A q \in N, d \in Sides : Child(v, q, d) = Child(t, q, d)
  BY <1>1, <1>6, PaintedShape DEF PaintsIs, SameLinks
<1>9. Turn(N, v, sub, p, s, o, b, m, x, e, q0)
  BY <1>1, <1>7, <1>8 DEF Turn
<1>10. u = Rotate(v, p, s)
  BY <1>3, <1>1, <1>4 DEF BrotherLifted
<1>11. RotateIs(N, v, u, p, s, b, m, q0) /\ Shape(u, N, Turned(v, sub, p, s)) /\ Tree(u, N)
  BY <1>9, <1>10, TurnFacts
<1>12. /\ m \in N /\ m # p /\ m # b /\ x # b /\ (m # Nil => m # e)
       /\ q0 # p /\ q0 # b /\ q0 # Nil /\ q0 \in N \cup {NoData} /\ (q0 = NoData <=> p = t.root)
  BY <1>8, <1>9, TurnNodes
<1>13. x # e
  BY <1>1
<1>14. /\ \A q \in N \ {b, p, e} : Red(v, q) = Red(t, q)
       /\ ~Red(v, p) /\ ~Red(v, e) /\ Red(v, b) = Red(t, p)
  <2>1. \A q \in N : Red(v, q) =
            (IF q = e THEN FALSE ELSE IF q = p THEN FALSE ELSE IF q = b THEN red ELSE Red(t, q))
    BY <1>6 DEF PaintsIs
  <2>. QED BY <1>3, <1>1, <1>5, <2>1
<1>15. \A q \in N : Red(u, q) = Red(v, q)
  BY <1>11 DEF RotateIs
<1>16. ~Red(v, Nil)
  BY <1>1, <1>5, <1>14
<1>17. PICK k : k = height[x] + 1
  OBVIOUS
<1>18. PICK h1 : h1 = [height EXCEPT ![e] = height[e] + 1]
  OBVIOUS
<1>19. h1 \in [N -> Nat] /\ h1[e] = height[e] + 1 /\ \A q \in N \ {e} : h1[q] = height[q]
  BY <1>2, <1>5, <1>18
<1>20. m # e
  BY <1>5, <1>12
<1>21. /\ height[m] \in Nat /\ height[e] \in Nat /\ height[b] = 1 + height[m] /\ height[b] = 1 + height[e]
       /\ height[x] \in Nat /\ height[b] \in Nat /\ height[p] \in Nat
  <2>1. Black(t, b) = 1
    BY DEF Black
  <2>2. \A d \in Sides : height[b] = 1 + height[Child(t, b, d)]
    BY <1>1, <1>2, <2>1
  <2>. QED BY <1>1, <1>2, <1>5, <1>7, <1>12, <2>2
<1>22. /\ k \in Nat /\ k = Black(v, p) + h1[x] + Lack(p, s, NoData, "left")
       /\ k = Black(v, p) + h1[m] /\ h1[p] = Black(v, b) + k
       /\ h1[p] = Black(v, b) + h1[e]
  <2>1. Black(v, p) = 1 /\ Black(v, b) = Black(t, p) /\ Lack(p, s, NoData, "left") = 0
    BY <1>1, <1>14 DEF Black, Lack
  <2>2. PICK c \in Nat : c = Black(t, p)
    BY DEF Black
  <2>3. h1[x] = height[x] /\ h1[m] = height[m] /\ h1[p] = height[p] /\ h1[e] = height[e] + 1
    BY <1>1, <1>5, <1>12, <1>13, <1>19, <1>20
  <2>4. k \in Nat /\ k = 1 + height[x] + 0 /\ k = 1 + height[m]
    BY <1>2, <1>17, <1>21
  <2>5. height[p] = c + k /\ height[p] = c + (height[e] + 1)
    BY <1>2, <1>17, <1>21, <2>2
  <2>. QED BY <2>1, <2>2, <2>3, <2>4, <2>5
<1>23. EvenElsewhere(v, N, h1, p, b, NoData, "left")
  <2>. SUFFICES ASSUME NEW q \in N \ {Nil, p, b}, NEW d \in Sides
                PROVE  h1[q] = Black(v, q) + h1[Child(v, q, d)] + Lack(q, d, NoData, "left")
    BY DEF EvenElsewhere
  <2>1. Child(v, q, d) = Child(t, q, d) /\ Lack(q, d, NoData, "left") = 0
    BY <1>1, <1>8 DEF Lack
  <2>2. PICK y, c : y = Child(t, q, d) /\ c = Black(t, q)
    OBVIOUS
  <2>3. y \in N /\ c \in Nat /\ height[y] \in Nat /\ height[q] = c + height[y]
    BY <1>1, <1>2, <2>2, TreeFacts DEF Black
  <2>4. y # e
    <3>1. Parent(v, e) = b
      BY <1>5, <1>9, TurnNodes
    <3>2. y # Nil => Parent(t, y) = q
      BY <1>1, <2>2, BelowFacts
    <3>. QED BY <1>5, <1>8, <3>1, <3>2
  <2>5. h1[y] = height[y]
    BY <1>19, <2>3, <2>4
  <2>6. CASE q = e
    <3>1. c = 0 /\ Black(v, q) = 1
      BY <1>14, <2>2, <2>6 DEF Black
    <3>2. h1[q] = height[y] + 1
      BY <1>19, <2>3, <2>6, <3>1
    <3>3. h1[q] = 1 + h1[y] + 0
      BY <2>3, <2>5, <3>2
    <3>. QED BY <2>1, <2>2, <3>1, <3>3
  <2>7. CASE q # e
    <3>1. Black(v, q) = c
      BY <1>14, <2>2, <2>7 DEF Black
    <3>2. h1[q] = c + h1[y] + 0
      BY <1>19, <2>3, <2>5, <2>7
    <3>. QED BY <2>1, <2>2, <3>1, <3>2
  <2>. QED BY <2>6, <2>7
<1>24. PICK h : h = [h1 EXCEPT ![p] = k, ![b] = h1[p]]
  OBVIOUS
<1>25. Even(u, N, h, NoData, "left")
  <2>1. "left" \in Sides /\ NoData \notin {p, b} /\ h1[Nil] = 0
    BY <1>1, <1>2, <1>5, <1>19, SidesFacts
  <2>2. TurnHeights(N, v, h1, k, p, s, b, m, x, e, NoData, "left")
    BY <1>16, <1>19, <1>22, <1>23, <2>1 DEF TurnHeights
  <2>3. Even(Rotate(v, p, s), N, [h1 EXCEPT ![p] = k, ![b] = h1[p]], NoData, "left")
    BY <1>9, <2>2, TurnEven
  <2>. QED BY <1>10, <1>24, <2>3
<1>26. RedsApart(u, N, u.root, u.root)
  <2>1. ASSUME NEW q \in N \ {Nil, p, b}, NEW d \in Sides, Child(v, q, d) \notin {p, b}
        PROVE  Apart(v, q, Child(v, q, d), u.root, u.root)
    <3>1. PICK y : y = Child(t, q, d)
      OBVIOUS
    <3>2. y = Child(v, q, d) /\ y \in N /\ y \notin {p, b}
      BY <1>1, <1>8, <2>1, <3>1, TreeFacts
    <3>3. (Red(v, q) => Red(t, q)) /\ (Red(v, y) => Red(t, y))
      BY <1>14, <3>2
    <3>4. ~(Red(t, q) /\ Red(t, y))
      BY <1>1, <3>1 DEF NoReds
    <3>. QED BY <3>2, <3>3, <3>4 DEF Apart
  <2>2. q0 # NoData => Apart(v, q0, b, u.root, u.root)
    <3>. SUFFICES ASSUME q0 # NoData, Red(v, q0), Red(v, b)
                  PROVE  FALSE
      BY DEF Apart
    <3>1. q0 \in N \ {Nil} /\ SideOf(t, p) \in Sides /\ Child(t, q0, SideOf(t, p)) = p
      BY <1>1, <1>7, <1>12, AboveFacts
    <3>2. Red(t, p)
      BY <1>14
    <3>3. Red(t, q0)
      BY <1>12, <1>14, <3>1
    <3>. QED BY <1>1, <3>1, <3>2, <3>3 DEF NoReds
  <2>3. /\ Apart(v, b, p, u.root, u.root) /\ Apart(v, b, e, u.root, u.root)
        /\ Apart(v, p, m, u.root, u.root) /\ Apart(v, p, x, u.root, u.root)
    BY <1>14 DEF Apart
  <2>4. RedsApart(Rotate(v, p, s), N, u.root, u.root)
    BY <1>9, <2>1, <2>2, <2>3, TurnReds
  <2>. QED BY <1>10, <2>4
<1>27. u.root \in N /\ "left" \in Sides
  BY <1>11, SidesFacts, TreeFacts
<1>28. Deleting(u, N, Turned(v, sub, p, s), h, u.root, NoData, "left")
  BY <1>11, <1>25, <1>26, <1>27 DEF Deleting
<1>. QED BY <1>28

\* A round of FixDel ends the loop, or moves up.
LEMMA DelRounds ==
  ASSUME NEW N, NEW t, NEW sub, NEW height, NEW x, NEW p, NEW s,
         Deleting(t, N, sub, height, x, p, s)
  PROVE  \E u, m, w, h, q, side :
           /\ DelRound(t, x) = Repair(u, m) /\ Deleting(u, N, w, h, m, q, side)
           /\ IF DelDone(t, x) THEN u = t /\ m = x
              ELSE DelDone(u, m) \/ Cardinality(sub[x]) < Cardinality(w[m])
<1>1. CASE DelDone(t, x)
  <2>1. DelRound(t, x) = Repair(t, x)
    BY <1>1 DEF DelRound, DelDone
  <2>. QED BY <1>1, <2>1
<1>2. CASE ~DelDone(t, x)
  <2>1. PICK o : o = Other(s)
    OBVIOUS
  <2>2. PICK b : b = Child(t, p, o)
    OBVIOUS
  <2>3. Brothers(t, N, sub, height, x, p, s, o, b)
    BY <1>2, <2>1, <2>2, DelFamily
  <2>4. p = Parent(t, x) /\ s = SideOf(t, x) /\ x # t.root /\ ~Red(t, x)
    BY <2>3 DEF Brothers
  <2>5. PICK u : u = BrotherBlack(t, p, s)
    OBVIOUS
  <2>6. PICK w, h : /\ Deleting(u, N, w, h, x, p, s) /\ ~DelDone(u, x)
                    /\ ~Red(u, Child(u, p, o))
                    /\ Red(u, p) \/ (u = t /\ w = sub)
    <3>1. CASE Red(t, b)
      <4>1. /\ \E w, h : Deleting(u, N, w, h, x, p, s) /\ ~DelDone(u, x)
            /\ Red(u, p) /\ ~Red(u, Child(u, p, o))
        BY <2>3, <2>5, <3>1, DelBrotherRed
      <4>. QED BY <4>1
    <3>2. CASE ~Red(t, b)
      <4>1. u = t
        BY <2>1, <2>2, <2>5, <3>2 DEF BrotherBlack
      <4>. QED BY <1>2, <2>2, <3>2, <4>1
    <3>. QED BY <3>1, <3>2
  <2>7. PICK c : c = Child(u, p, o)
    OBVIOUS
  <2>8. Brothers(u, N, w, h, x, p, s, o, c)
    BY <2>1, <2>6, <2>7, DelFamily
  <2>9. PICK end : end = BrotherLifted(NephewRed(u, p, s), p, s)
    OBVIOUS
  <2>10. DelRound(t, x) = IF \A d \in Sides : ~Red(u, Child(u, c, d)) THEN Repair(Paint(u, c, TRUE), p)
                          ELSE Repair(end, end.root)
    BY <2>1, <2>4, <2>5, <2>7, <2>9 DEF DelRound
  <2>11. ~Red(u, c)
    BY <2>6, <2>7
  <2>12. CASE \A d \in Sides : ~Red(u, Child(u, c, d))
    <3>1. PICK v : v = Reddened(u, c)
      OBVIOUS
    <3>2. /\ \E h2, q, side : Deleting(v, N, w, h2, p, q, side)
          /\ Red(v, p) = Red(u, p) /\ Cardinality(w[x]) < Cardinality(w[p])
      BY <2>8, <2>11, <2>12, <3>1, DelRecolours
    <3>3. DelDone(v, p) \/ Cardinality(sub[x]) < Cardinality(w[p])
      BY <2>6, <3>2 DEF DelDone
    <3>4. DelRound(t, x) = Repair(v, p)
      BY <2>10, <2>12, <3>1 DEF Reddened
    <3>. QED BY <1>2, <3>2, <3>3, <3>4
  <2>13. CASE ~\A d \in Sides : ~Red(u, Child(u, c, d))
    <3>1. PICK v : v = NephewRed(u, p, s)
      OBVIOUS
    <3>2. s \in Sides /\ o \in Sides /\ c \in N /\ Tree(u, N) /\ Other(o) = s
      BY <2>8 DEF Brothers
    <3>3. PICK w2, h2 : /\ Deleting(v, N, w2, h2, x, p, s) /\ ~DelDone(v, x)
                        /\ ~Red(v, Child(v, p, o)) /\ Red(v, Child(v, Child(v, p, o), o))
      <4>1. CASE Red(u, Child(u, c, o))
        <5>1. v = u
          BY <2>1, <2>7, <3>1, <4>1 DEF NephewRed
        <5>. QED BY <2>6, <2>7, <4>1, <5>1
      <4>2. CASE ~Red(u, Child(u, c, o))
        <5>1. PICK r : r = Child(u, c, s)
          OBVIOUS
        <5>2. Red(u, r)
          BY <2>1, <2>13, <3>2, <4>2, <5>1, SidesFacts
        <5>3. /\ \E w2, h2 : Deleting(v, N, w2, h2, x, p, s) /\ ~DelDone(v, x)
              /\ Child(v, p, o) = r /\ ~Red(v, r) /\ Red(v, Child(v, r, o))
          BY <2>8, <2>11, <3>1, <4>2, <5>1, <5>2, DelNephewRed
        <5>. QED BY <5>3
      <4>. QED BY <4>1, <4>2
    <3>4. PICK f, e : f = Child(v, p, o) /\ e = Child(v, f, o)
      OBVIOUS
    <3>5. Brothers(v, N, w2, h2, x, p, s, o, f)
      BY <2>1, <3>3, <3>4, DelFamily
    <3>6. end = BrotherLifted(v, p, s)
      BY <2>9, <3>1
    <3>7. \E w3, h3 : Deleting(end, N, w3, h3, end.root, NoData, "left")
      BY <3>3, <3>4, <3>5, <3>6, DelLifts
    <3>8. DelDone(end, end.root) /\ DelRound(t, x) = Repair(end, end.root)
      BY <2>10, <2>13 DEF DelDone
    <3>. QED BY <1>2, <3>7, <3>8
  <2>. QED BY <2>12, <2>13
<1>. QED BY <1>1, <1>2

Blackened(t, n) == Paint(t, n, FALSE)

\* What FixDel leaves when it paints the node it ended at
LEMMA DelPainted ==
  ASSUME NEW N, NEW t, NEW sub, NEW height, NEW x, NEW p, NEW s,
         Deleting(t, N, sub, height, x, p, s), DelDone(t, x), NEW u, u = Blackened(t, x)
  PROVE  Shape(u, N, sub) /\ \E h : Balanced(u, N, h)
<1>1. /\ Shape(t, N, sub) /\ x \in N /\ s \in Sides /\ Tree(t, N) /\ Nil \in N /\ NoData \notin N
      /\ x = t.root => p = NoData
      /\ x # t.root => p \in N \ {Nil} /\ Child(t, p, s) = x /\ Parent(t, x) = p /\ Red(t, x)
      /\ Even(t, N, height, p, s) /\ RedsApart(t, N, x, x)
      /\ Red(t, t.root) => x = t.root
  BY RBTreeAssumption DEF Deleting, DelDone, Shape, Tree
<1>2. PaintIs(N, t, u, x, FALSE)
  BY <1>1, PaintFacts DEF Blackened
<1>3. /\ u.root = t.root /\ ~Red(u, x) /\ Tree(u, N) /\ \A q \in N \ {x} : Red(u, q) = Red(t, q)
      /\ \A q \in N : Parent(u, q) = Parent(t, q)
      /\ \A q \in N, d \in Sides : Child(u, q, d) = Child(t, q, d)
  BY <1>1, <1>2 DEF PaintIs
<1>4. Shape(u, N, sub)
  <2>1. SameLinks(N, t, u)
    BY <1>3 DEF SameLinks
  <2>. QED BY <1>1, <2>1, PaintedShape
<1>5. /\ height \in [N -> Nat] /\ height[Nil] = 0 /\ ~Red(t, Nil)
      /\ \A q \in N \ {Nil}, d \in Sides :
           height[q] = Black(t, q) + height[Child(t, q, d)] + Lack(q, d, p, s)
  BY <1>1 DEF Even
<1>6. \A q \in N \ {Nil}, d \in Sides :
        /\ Child(t, q, d) \in N
        /\ Child(t, q, d) = x /\ x # Nil => x # t.root /\ q = p /\ d = s
  <2>1. ASSUME NEW q \in N \ {Nil}, NEW d \in Sides
        PROVE  Child(t, q, d) \in N
    BY <1>1, TreeFacts
  <2>2. ASSUME NEW q \in N \ {Nil}, NEW d \in Sides, Child(t, q, d) = x, x # Nil
        PROVE  x # t.root /\ q = p /\ d = s
    <3>1. x # t.root /\ Parent(t, x) = q /\ Child(t, q, Other(d)) # x
      BY <1>1, <2>2, BelowFacts
    <3>2. q = p
      BY <1>1, <3>1
    <3>. QED BY <1>1, <2>2, <3>1, <3>2, SidesFacts
  <2>. QED BY <2>1, <2>2
<1>7. RedsApart(u, N, NoData, NoData)
  <2>. SUFFICES ASSUME NEW q \in N \ {Nil}, NEW d \in Sides, Red(u, q), Red(u, Child(u, q, d))
                PROVE  FALSE
    BY DEF RedsApart, Apart
  <2>1. Child(u, q, d) = Child(t, q, d) /\ Child(t, q, d) \in N
    BY <1>3, <1>6
  <2>2. q # x /\ Child(t, q, d) # x
    BY <1>3, <2>1
  <2>3. Red(t, q) /\ Red(t, Child(t, q, d))
    BY <1>3, <2>1, <2>2
  <2>. QED BY <1>1, <2>2, <2>3 DEF RedsApart, Apart
<1>8. CASE x = Nil
  <2>1. x = t.root
    BY <1>1, <1>5, <1>8
  <2>2. p = NoData
    BY <1>1, <2>1
  <2>3. ASSUME NEW q \in N \ {Nil}, NEW d \in Sides
        PROVE  height[q] = Black(u, q) + height[Child(u, q, d)] + Lack(q, d, NoData, "left")
    <3>1. Black(u, q) = Black(t, q) /\ Child(u, q, d) = Child(t, q, d)
      BY <1>3, <1>8 DEF Black
    <3>2. Lack(q, d, NoData, "left") = 0 /\ Lack(q, d, p, s) = 0
      BY <1>1, <2>2 DEF Lack
    <3>3. height[q] = Black(t, q) + height[Child(t, q, d)] + Lack(q, d, p, s)
      BY <1>5
    <3>. QED BY <3>1, <3>2, <3>3
  <2>4. Even(u, N, height, NoData, "left")
    BY <1>3, <1>5, <1>8, <2>3 DEF Even
  <2>5. Balanced(u, N, height)
    BY <1>3, <1>7, <2>1, <2>4 DEF Balanced
  <2>. QED BY <1>4, <2>5
<1>9. CASE x # Nil
  <2>1. PICK k : k = IF Red(t, x) THEN height[x] + 1 ELSE height[x]
    OBVIOUS
  <2>2. PICK h : h = [height EXCEPT ![x] = k]
    OBVIOUS
  <2>3. k \in Nat /\ h \in [N -> Nat] /\ h[x] = k /\ h[Nil] = 0 /\ \A q \in N \ {x} : h[q] = height[q]
    BY <1>1, <1>5, <1>9, <2>1, <2>2
  <2>4. ASSUME NEW q \in N \ {Nil}, NEW d \in Sides
        PROVE  h[q] = Black(u, q) + h[Child(u, q, d)] + Lack(q, d, NoData, "left")
    <3>1. PICK y : y = Child(t, q, d)
      OBVIOUS
    <3>2. Child(u, q, d) = y /\ y \in N /\ height[y] \in Nat /\ Lack(q, d, NoData, "left") = 0
      BY <1>1, <1>3, <1>5, <1>6, <3>1 DEF Lack
    <3>3. height[q] = Black(t, q) + height[y] + Lack(q, d, p, s)
      BY <1>5, <3>1
    <3>4. CASE q = x
      <4>1. y # x /\ Black(u, q) = 1
        BY <1>1, <1>3, <1>9, <3>1, <3>4, BelowFacts DEF Black
      <4>2. Lack(q, d, p, s) = 0
        <5>1. x # p
          <6>1. x # t.root => Parent(t, x) # x
            BY <1>1, <1>9, AboveFacts
          <6>. QED BY <1>1, <6>1
        <5>. QED BY <3>4, <5>1 DEF Lack
      <4>3. h[x] = 1 + height[y]
        <5>1. CASE Red(t, x)
          <6>1. Black(t, q) = 0
            BY <3>4, <5>1 DEF Black
          <6>. QED BY <1>1, <1>5, <2>1, <2>3, <3>2, <3>3, <3>4, <4>2, <5>1, <6>1
        <5>2. CASE ~Red(t, x)
          <6>1. Black(t, q) = 1
            BY <3>4, <5>2 DEF Black
          <6>. QED BY <2>1, <2>3, <3>2, <3>3, <3>4, <4>2, <5>2, <6>1
        <5>. QED BY <5>1, <5>2
      <4>4. h[q] = 1 + h[y] + 0
        BY <2>3, <3>2, <3>4, <4>1, <4>3
      <4>. QED BY <3>2, <4>1, <4>4
    <3>5. CASE q # x
      <4>1. Black(u, q) = Black(t, q) /\ h[q] = height[q]
        BY <1>3, <2>3, <3>5 DEF Black
      <4>2. PICK c \in Nat : c = Black(t, q)
        BY DEF Black
      <4>3. CASE y = x
        <5>1. Lack(q, d, p, s) = 1 /\ x # t.root
          BY <1>6, <1>9, <3>1, <4>3 DEF Lack
        <5>2. h[y] = height[y] + 1
          BY <1>1, <2>1, <2>3, <4>3, <5>1
        <5>3. height[q] = c + height[y] + 1
          BY <3>3, <4>2, <5>1
        <5>4. h[q] = c + h[y] + 0
          BY <3>2, <4>1, <4>2, <5>2, <5>3
        <5>. QED BY <3>2, <4>1, <4>2, <5>4
      <4>4. CASE y # x
        <5>1. Lack(q, d, p, s) = 0
          <6>1. ~(q = p /\ d = s)
            BY <1>1, <3>1, <4>4
          <6>. QED BY <6>1 DEF Lack
        <5>2. height[q] = c + height[y] + 0
          BY <3>3, <4>2, <5>1
        <5>3. h[y] = height[y]
          BY <2>3, <3>2, <4>4
        <5>4. h[q] = c + h[y] + 0
          BY <4>1, <5>2, <5>3
        <5>. QED BY <3>2, <4>1, <4>2, <5>4
      <4>. QED BY <4>3, <4>4
    <3>. QED BY <3>4, <3>5
  <2>5. ~Red(u, Nil)
    BY <1>1, <1>3, <1>5, <1>9
  <2>6. Even(u, N, h, NoData, "left")
    BY <2>3, <2>4, <2>5 DEF Even
  <2>7. ~Red(u, u.root)
    <3>1. t.root \in N
      BY <1>1, TreeFacts
    <3>. QED BY <1>1, <1>3, <3>1
  <2>8. Balanced(u, N, h)
    BY <1>7, <2>6, <2>7 DEF Balanced
  <2>. QED BY <1>4, <2>8
<1>. QED BY <1>8, <1>9

\* The trees that FixDel needs at most k more rounds for
DelClose(N, k) ==
  {a \in [tree : TreesOver(N), node : N] :
     \E sub, h, p, s : /\ Deleting(a.tree, N, sub, h, a.node, p, s)
                       /\ DelDone(a.tree, a.node) \/ Cardinality(sub[a.node]) + k >= Cardinality(N \ {Nil})}

\* FixDel leaves a balanced tree of the same nodes.
LEMMA DelBalances ==
  ASSUME NEW N, NEW t, NEW sub, NEW height, NEW x, NEW p, NEW s,
         Deleting(t, N, sub, height, x, p, s)
  PROVE  \E w, h : Shape(FixDel(t, x), N, w) /\ Balanced(FixDel(t, x), N, h)
<1>1. Tree(t, N) /\ x \in N /\ DOMAIN t.node = N /\ Stored(t) = N \ {Nil} /\ t \in TreesOver(N)
      /\ Cardinality(N \ {Nil}) \in Nat /\ Rounds(t) = Cardinality(N \ {Nil})
      /\ Cardinality(sub[x]) \in Nat
  <2>1. Tree(t, N) /\ x \in N /\ Shape(t, N, sub)
    BY DEF Deleting, Shape
  <2>. QED BY <2>1, TreeFacts, SizeFacts DEF Tree, Rounds
<1>2. PICK rounds, round :
        rounds = Rounds(t) /\ round = [a \in RepairsOf(t) |-> DelRound(a.tree, a.node)]
  OBVIOUS
<1>3. PICK Close : Close = [k \in Nat |-> DelClose(N, k)]
  OBVIOUS
<1>4. Repair(t, x) \in Close[rounds]
  <2>1. Repair(t, x) \in [tree : TreesOver(N), node : N]
    BY <1>1 DEF Repair
  <2>2. Repair(t, x).tree = t /\ Repair(t, x).node = x
    BY DEF Repair
  <2>3. Cardinality(sub[x]) + rounds >= Cardinality(N \ {Nil})
    BY <1>1, <1>2
  <2>4. Repair(t, x) \in DelClose(N, rounds)
    BY <2>1, <2>2, <2>3 DEF DelClose
  <2>. QED BY <1>1, <1>2, <1>3, <2>4
<1>5. ASSUME NEW k \in Nat, NEW a \in Close[k + 1]
      PROVE  round[a] \in Close[k]
  <2>1. a \in DelClose(N, k + 1)
    BY <1>3, <1>5
  <2>2. a \in [tree : TreesOver(N), node : N]
    BY <2>1 DEF DelClose
  <2>3. PICK w1, h1, p1, s1 : /\ Deleting(a.tree, N, w1, h1, a.node, p1, s1)
                              /\ \/ DelDone(a.tree, a.node)
                                 \/ Cardinality(w1[a.node]) + (k + 1) >= Cardinality(N \ {Nil})
    BY <2>1 DEF DelClose
  <2>4. round[a] = DelRound(a.tree, a.node)
    BY <1>1, <1>2, <2>2 DEF RepairsOf
  <2>5. PICK u, m, w, h, q, side :
          /\ DelRound(a.tree, a.node) = Repair(u, m) /\ Deleting(u, N, w, h, m, q, side)
          /\ IF DelDone(a.tree, a.node) THEN u = a.tree /\ m = a.node
             ELSE DelDone(u, m) \/ Cardinality(w1[a.node]) < Cardinality(w[m])
    BY <2>3, DelRounds
  <2>6. DelDone(u, m) \/ Cardinality(w[m]) + k >= Cardinality(N \ {Nil})
    <3>1. CASE DelDone(a.tree, a.node)
      BY <2>5, <3>1
    <3>2. CASE ~DelDone(a.tree, a.node)
      <4>1. Cardinality(w1[a.node]) \in Nat /\ Cardinality(w[m]) \in Nat
        <5>1. Shape(a.tree, N, w1) /\ a.node \in N /\ Shape(u, N, w) /\ m \in N
          BY <2>3, <2>5 DEF Deleting
        <5>. QED BY <5>1, SizeFacts
      <4>. QED BY <1>1, <2>3, <2>5, <3>2, <4>1
    <3>. QED BY <3>1, <3>2
  <2>7. Repair(u, m) \in [tree : TreesOver(N), node : N] /\ Repair(u, m).tree = u /\ Repair(u, m).node = m
    BY <2>5 DEF Repair, Deleting, Shape, Tree
  <2>8. Repair(u, m) \in DelClose(N, k)
    BY <2>5, <2>6, <2>7 DEF DelClose
  <2>. QED BY <1>3, <2>4, <2>5, <2>8
<1>6. PICK end : end = Looped(round, Repair(t, x), rounds)
  OBVIOUS
<1>7. end \in Close[0]
  BY <1>1, <1>2, <1>4, <1>5, <1>6, LoopEnds
<1>8. FixDel(t, x) = Blackened(end.tree, end.node)
  BY <1>2, <1>6 DEF FixDel, Blackened
<1>9. PICK w, h, q, side : /\ Deleting(end.tree, N, w, h, end.node, q, side)
                           /\ \/ DelDone(end.tree, end.node)
                              \/ Cardinality(w[end.node]) + 0 >= Cardinality(N \ {Nil})
  <2>1. end \in DelClose(N, 0)
    BY <1>3, <1>7
  <2>. QED BY <2>1 DEF DelClose
<1>10. DelDone(end.tree, end.node)
  <2>1. PICK e, y : e = end.tree /\ y = end.node
    OBVIOUS
  <2>. SUFFICES ASSUME ~DelDone(e, y) PROVE FALSE
    BY <2>1
  <2>2. y # e.root
    BY DEF DelDone
  <2>3. Shape(e, N, w) /\ y \in N /\ q \in N \ {Nil} /\ Child(e, q, side) = y /\ side \in Sides
    BY <1>9, <2>1, <2>2 DEF Deleting
  <2>4. Cardinality(w[y]) < Cardinality(w[q]) /\ Cardinality(w[y]) \in Nat /\ Cardinality(w[q]) \in Nat
    BY <2>3, SizeFacts
  <2>5. w[q] \subseteq N \ {Nil} /\ IsFiniteSet(N \ {Nil})
    BY <2>3, BelowFacts, FS_Subset DEF Shape
  <2>6. Cardinality(w[q]) <= Cardinality(N \ {Nil})
    BY <2>5, FS_Subset
  <2>7. ~(Cardinality(w[y]) + 0 >= Cardinality(N \ {Nil}))
    BY <1>1, <2>4, <2>6
  <2>. QED BY <1>9, <2>1, <2>7
<1>. QED BY <1>8, <1>9, <1>10, DelPainted

-----------------------------------------------------------------------------
(* The walks.                                                              *)

\* What is below a node has all that is below it there, and its parent.
LEMMA InsideFacts ==
  ASSUME NEW N, NEW t, NEW sub, Shape(t, N, sub), NEW q \in N, q # Nil, NEW c \in sub[q]
  PROVE  c \in N /\ c # Nil /\ sub[c] \subseteq sub[q] /\ (c # q => c # t.root /\ Parent(t, c) \in sub[q])
<1>. DEFINE Fine(p, e) == e \in N /\ e # Nil /\ sub[e] \subseteq sub[p]
                          /\ (e # p => e # t.root /\ Parent(t, e) \in sub[p])
            Bad == {k \in Nat : \E p \in N \ {Nil} : k = Cardinality(sub[p]) /\ \E e \in sub[p] : ~Fine(p, e)}
<1>1. Bad = {}
  <2>. SUFFICES ASSUME Bad # {} PROVE FALSE
    OBVIOUS
  <2>1. Bad \in SUBSET Nat
    OBVIOUS
  <2>2. PICK k \in Bad : \A j \in Bad : k <= j
    BY <2>1, LeastNat
  <2>3. PICK p \in N \ {Nil} : k = Cardinality(sub[p]) /\ \E e \in sub[p] : ~Fine(p, e)
    BY <2>2
  <2>4. PICK e \in sub[p] : ~Fine(p, e)
    BY <2>3
  <2>5. ASSUME NEW s \in Sides, e \in sub[Child(t, p, s)]
        PROVE  FALSE
    <3>1. PICK l : l = Child(t, p, s)
      OBVIOUS
    <3>2. l \in N /\ l # t.root /\ l # Nil /\ Parent(t, l) = p /\ sub[l] \subseteq sub[p] /\ p \in sub[p]
          /\ l \in sub[l]
      <4>1. sub[Nil] = {}
        BY DEF Shape, Below
      <4>2. l # Nil
        BY <2>5, <3>1, <4>1
      <4>. QED BY <3>1, <4>2, BelowFacts
    <3>3. Cardinality(sub[l]) \in Nat /\ Cardinality(sub[l]) < k
      BY <2>3, <3>1, <3>2, SizeFacts
    <3>4. Cardinality(sub[l]) \notin Bad
      BY <2>1, <2>2, <3>3
    <3>5. Fine(l, e)
      BY <2>5, <3>1, <3>2, <3>3, <3>4
    <3>6. Fine(p, e)
      <4>1. e \in N /\ e # Nil /\ sub[e] \subseteq sub[p]
        BY <3>2, <3>5
      <4>2. e # t.root /\ Parent(t, e) \in sub[p]
        BY <3>2, <3>5
      <4>. QED BY <4>1, <4>2
    <3>. QED BY <2>4, <3>6
  <2>6. e = p
    <3>1. sub[p] = {p} \cup sub[Child(t, p, "left")] \cup sub[Child(t, p, "right")]
      BY DEF Shape, Below
    <3>. QED BY <2>5, <3>1, SidesFacts
  <2>. QED BY <2>4, <2>6
<1>2. Fine(q, c)
  <2>1. Cardinality(sub[q]) \in Nat
    BY SizeFacts
  <2>. QED BY <1>1, <2>1
<1>. QED BY <1>2

\* Key k belongs before b on side s.
KeyBefore(s, k, b) == IF s = "left" THEN k < KeyOf[b] ELSE KeyOf[b] < k

\* A search for k is at a node n below p: all that has key k is below n, and k belongs
\* where the search went.
Searching(t, N, sub, k, n, p) ==
  /\ n \in N /\ p \in (N \ {Nil}) \cup {NoData}
  /\ p = NoData => n = t.root
  /\ p # NoData => KeyOf[p] # k /\ Child(t, p, Toward(k, p)) = n
  /\ \A x \in N \ {Nil} : KeyOf[x] = k => x \in sub[n]
  /\ \A q \in N \ {Nil}, s \in Sides :
       p \in sub[Child(t, q, s)] \/ (q = p /\ s = Toward(k, p)) => KeyBefore(s, k, q)

Step(n, p) == [node |-> n, parent |-> p]

\* A search begins at the root ...
LEMMA SearchStarts ==
  ASSUME NEW N, NEW t, NEW sub, Shape(t, N, sub), NEW k \in Int
  PROVE  Searching(t, N, sub, k, t.root, NoData)
<1>1. t.root \in N /\ NoData \notin N /\ sub[t.root] = N \ {Nil} /\ sub \in [N -> SUBSET (N \ {Nil})]
  BY TreeFacts, RBTreeAssumption DEF Shape, Tree, Below
<1>2. \A q \in N, s \in Sides : Child(t, q, s) \in N
  BY TreeFacts DEF Shape
<1>3. \A q \in N \ {Nil}, s \in Sides : NoData \notin sub[Child(t, q, s)] /\ q # NoData
  BY <1>1, <1>2
<1>. QED BY <1>1, <1>3 DEF Searching

\* ... and takes the side where its key belongs.
LEMMA SearchGoesOn ==
  ASSUME NEW N, NEW t, NEW sub, Shape(t, N, sub), NEW k \in Int, NEW n, NEW p,
         Searching(t, N, sub, k, n, p), n # Nil, KeyOf[n] # k
  PROVE  Searching(t, N, sub, k, Child(t, n, Toward(k, n)), n)
<1>1. PICK s, m : s = Toward(k, n) /\ m = Child(t, n, s)
  OBVIOUS
<1>2. /\ n \in N /\ p \in (N \ {Nil}) \cup {NoData} /\ s \in Sides /\ m \in N
      /\ p = NoData => n = t.root
      /\ p # NoData => KeyOf[p] # k /\ Child(t, p, Toward(k, p)) = n
      /\ \A x \in N \ {Nil} : KeyOf[x] = k => x \in sub[n]
      /\ \A q \in N \ {Nil}, c \in Sides :
           p \in sub[Child(t, q, c)] \/ (q = p /\ c = Toward(k, p)) => KeyBefore(c, k, q)
      /\ N \subseteq Data \cup {Nil} /\ NoData \notin N
  <2>1. s \in Sides
    BY <1>1 DEF Toward, Sides
  <2>2. n \in N /\ Tree(t, N)
    BY DEF Searching, Shape
  <2>3. m \in N
    BY <1>1, <2>1, <2>2, TreeFacts
  <2>. QED BY <2>1, <2>2, <2>3, RBTreeAssumption DEF Searching, Tree
<1>3. KeyOf[n] \in Int /\ n \in Data /\ n # NoData
  BY <1>2, RBTreeAssumption
<1>4. KeyBefore(s, k, n)
  BY <1>1, <1>3 DEF KeyBefore, Toward
<1>5. ASSUME NEW x \in N \ {Nil}, KeyOf[x] = k
      PROVE  x \in sub[m]
  <2>1. x \in sub[n] /\ x # n /\ KeyOf[x] \in Int
    BY <1>2, <1>5, RBTreeAssumption
  <2>2. PICK c \in Sides : x \in sub[Child(t, n, c)]
    <3>1. sub[n] = {n} \cup sub[Child(t, n, "left")] \cup sub[Child(t, n, "right")]
      BY <1>2 DEF Shape, Below
    <3>. QED BY <2>1, <3>1, SidesFacts
  <2>3. Before(c, x, n)
    BY <1>2, <2>2 DEF Shape, Sorted
  <2>4. c = s
    BY <1>1, <1>3, <1>5, <2>1, <2>3 DEF Before, Toward, Sides
  <2>. QED BY <1>1, <2>2, <2>4
<1>6. ASSUME NEW q \in N \ {Nil}, NEW c \in Sides, n \in sub[Child(t, q, c)]
      PROVE  KeyBefore(c, k, q)
  <2>1. PICK l : l = Child(t, q, c)
    OBVIOUS
  <2>2. l \in N /\ l # Nil /\ Parent(t, l) = q /\ l # t.root
    <3>1. sub[Nil] = {}
      BY DEF Shape, Below
    <3>2. l # Nil
      BY <1>6, <2>1, <3>1
    <3>. QED BY <2>1, <3>2, BelowFacts
  <2>3. n # t.root /\ p # NoData /\ p \in N \ {Nil} /\ Toward(k, p) \in Sides /\ Parent(t, n) = p
    <3>1. n # t.root
      BY <1>6, <2>1, <2>2, InsideFacts
    <3>2. p \in N \ {Nil} /\ Toward(k, p) \in Sides /\ Child(t, p, Toward(k, p)) = n
      BY <1>2, <3>1 DEF Toward, Sides
    <3>. QED BY <1>2, <3>1, <3>2, BelowFacts
  <2>4. CASE n = l
    <3>1. q = p
      BY <2>2, <2>3, <2>4
    <3>2. c = Toward(k, p)
      <4>1. Child(t, q, c) # Child(t, q, Other(c))
        BY <2>1, <2>2, BelowFacts
      <4>. QED BY <1>2, <2>1, <2>3, <2>4, <3>1, <4>1, SidesFacts
    <3>. QED BY <1>2, <3>1, <3>2
  <2>5. CASE n # l
    <3>1. p \in sub[Child(t, q, c)]
      BY <1>6, <2>1, <2>2, <2>3, <2>5, InsideFacts
    <3>. QED BY <1>2, <3>1
  <2>. QED BY <2>4, <2>5
<1>. QED BY <1>1, <1>2, <1>3, <1>4, <1>5, <1>6 DEF Searching

\* The searches for k that need at most j more steps
SearchClose(t, N, sub, k, j) ==
  {at \in [node : N, parent : N \cup {NoData}] :
     /\ Searching(t, N, sub, k, at.node, at.parent)
     /\ at.node = Nil \/ KeyOf[at.node] = k \/ Cardinality(sub[at.node]) <= j}

\* Find ends at the node of the key, or at the sentinel where it belongs.
LEMMA DescendFacts ==
  ASSUME NEW N, NEW t, NEW sub, Shape(t, N, sub), NEW k \in Int
  PROVE  \E n, p : /\ Descend(t, k) = Step(n, p) /\ Searching(t, N, sub, k, n, p)
                   /\ n = Nil \/ KeyOf[n] = k
<1>1. /\ DOMAIN t.node = N /\ Stored(t) = N \ {Nil} /\ t.root \in N /\ Nil \in N
      /\ Rounds(t) = Cardinality(N \ {Nil}) /\ Cardinality(N \ {Nil}) \in Nat
      /\ sub[t.root] = N \ {Nil}
  BY TreeFacts, SizeFacts DEF Shape, Tree, Rounds, Below
<1>2. PICK round, rounds :
        /\ rounds = Rounds(t)
        /\ round = [at \in [node : N, parent : N \cup {NoData}] |->
                      IF at.node = Nil \/ KeyOf[at.node] = k THEN at
                      ELSE Step(Child(t, at.node, Toward(k, at.node)), at.node)]
  OBVIOUS
<1>3. PICK end : end = Looped(round, Step(t.root, NoData), rounds)
  OBVIOUS
<1>4. Descend(t, k) = end
  BY <1>1, <1>2, <1>3 DEF Descend, Step
<1>5. PICK Close : Close = [j \in Nat |-> SearchClose(t, N, sub, k, j)]
  OBVIOUS
<1>6. Step(t.root, NoData) \in Close[rounds]
  <2>1. Step(t.root, NoData) \in [node : N, parent : N \cup {NoData}]
        /\ Step(t.root, NoData).node = t.root /\ Step(t.root, NoData).parent = NoData
    BY <1>1 DEF Step
  <2>2. Cardinality(sub[t.root]) <= rounds
    BY <1>1, <1>2
  <2>3. Step(t.root, NoData) \in SearchClose(t, N, sub, k, rounds)
    BY <2>1, <2>2, SearchStarts DEF SearchClose
  <2>. QED BY <1>1, <1>2, <1>5, <2>3
<1>7. ASSUME NEW j \in Nat, NEW at \in Close[j + 1]
      PROVE  round[at] \in Close[j]
  <2>1. at \in SearchClose(t, N, sub, k, j + 1)
    BY <1>5, <1>7
  <2>2. /\ at \in [node : N, parent : N \cup {NoData}]
        /\ Searching(t, N, sub, k, at.node, at.parent)
        /\ at.node = Nil \/ KeyOf[at.node] = k \/ Cardinality(sub[at.node]) <= j + 1
    BY <2>1 DEF SearchClose
  <2>3. CASE at.node = Nil \/ KeyOf[at.node] = k
    <3>1. round[at] = at
      BY <1>2, <2>2, <2>3
    <3>2. at \in SearchClose(t, N, sub, k, j)
      BY <2>2, <2>3 DEF SearchClose
    <3>. QED BY <1>5, <3>1, <3>2
  <2>4. CASE at.node # Nil /\ KeyOf[at.node] # k
    <3>1. PICK n, m : n = at.node /\ m = Child(t, n, Toward(k, n))
      OBVIOUS
    <3>2. round[at] = Step(m, n)
      BY <1>2, <2>2, <2>4, <3>1
    <3>3. n \in N /\ n # Nil /\ Toward(k, n) \in Sides /\ m \in N
      <4>1. n \in N /\ n # Nil /\ Toward(k, n) \in Sides
        BY <2>2, <2>4, <3>1 DEF Toward, Sides
      <4>. QED BY <3>1, <4>1, TreeFacts DEF Shape
    <3>4. Searching(t, N, sub, k, m, n)
      BY <2>2, <2>4, <3>1, SearchGoesOn
    <3>5. Cardinality(sub[m]) <= j
      <4>1. Cardinality(sub[m]) < Cardinality(sub[n]) /\ Cardinality(sub[m]) \in Nat
            /\ Cardinality(sub[n]) \in Nat
        BY <3>1, <3>3, SizeFacts
      <4>. QED BY <2>2, <2>4, <3>1, <4>1
    <3>6. Step(m, n) \in [node : N, parent : N \cup {NoData}] /\ Step(m, n).node = m /\ Step(m, n).parent = n
      BY <3>3 DEF Step
    <3>7. Step(m, n) \in SearchClose(t, N, sub, k, j)
      BY <3>4, <3>5, <3>6 DEF SearchClose
    <3>. QED BY <1>5, <3>2, <3>7
  <2>. QED BY <2>3, <2>4
<1>8. end \in Close[0]
  BY <1>1, <1>2, <1>3, <1>6, <1>7, LoopEnds
<1>9. /\ end \in [node : N, parent : N \cup {NoData}]
      /\ Searching(t, N, sub, k, end.node, end.parent)
      /\ end.node = Nil \/ KeyOf[end.node] = k \/ Cardinality(sub[end.node]) <= 0
  BY <1>5, <1>8 DEF SearchClose
<1>10. end.node = Nil \/ KeyOf[end.node] = k
  <2>1. end.node # Nil => Cardinality(sub[end.node]) > 0 /\ Cardinality(sub[end.node]) \in Nat
    BY <1>9, SizeFacts
  <2>. QED BY <1>9, <2>1
<1>11. end = Step(end.node, end.parent)
  BY <1>9 DEF Step
<1>. QED BY <1>4, <1>9, <1>10, <1>11

-----------------------------------------------------------------------------
(* Push.                                                                   *)

\* u is t with a red node d at side s of p.
HungIs(N, t, u, d, p, s) ==
  /\ Tree(u, N \cup {d}) /\ u.root = (IF p = NoData THEN d ELSE t.root)
  /\ \A q \in N : Parent(u, q) = Parent(t, q)
  /\ Parent(u, d) = p /\ Red(u, d)
  /\ \A q \in N : Red(u, q) = Red(t, q)
  /\ \A c \in Sides : Child(u, d, c) = Nil
  /\ \A q \in N, c \in Sides : Child(u, q, c) = IF q = p /\ c = s THEN d ELSE Child(t, q, c)

\* Hung leaves what HungIs says.
LEMMA HungFacts ==
  ASSUME NEW N, NEW t, Tree(t, N), NEW d \in Data, d \notin N, NEW p \in (N \ {Nil}) \cup {NoData}
  PROVE  HungIs(N, t, Hung(t, d, p), d, p, Toward(KeyOf[d], p))
<1>1. PICK M, s : M = N \cup {d} /\ s = Toward(KeyOf[d], p)
  OBVIOUS
<1>2. /\ Nil \in M /\ M \subseteq Data \cup {Nil} /\ d \in M /\ d # Nil /\ s \in Sides /\ NoData \notin M
      /\ p \in Data \cup {NoData} /\ (p # NoData => p \in M) /\ p # d /\ DOMAIN t.node = N
  BY <1>1, TreeFacts, RBTreeAssumption DEF Tree, Toward, Sides
<1>3. PICK v : v = [t EXCEPT !.node = [n \in DOMAIN t.node \cup {d} |->
                                        IF n = d THEN NewNode(p, TRUE) ELSE t.node[n]]]
  OBVIOUS
<1>4. v.root = t.root /\ v.node = [n \in M |-> IF n = d THEN NewNode(p, TRUE) ELSE t.node[n]]
      /\ v = [root |-> v.root, node |-> v.node]
  BY <1>1, <1>2, <1>3 DEF Tree, TreesOver
<1>5. Tree(v, M)
  <2>1. NewNode(p, TRUE) \in [child : [Sides -> M], parent : Data \cup {NoData}, red : BOOLEAN]
    BY <1>2 DEF NewNode
  <2>2. t.root \in N /\ t.node \in [N -> [child : [Sides -> N], parent : Data \cup {NoData}, red : BOOLEAN]]
    BY DEF Tree, TreesOver
  <2>3. \A n \in N : t.node[n] \in [child : [Sides -> M], parent : Data \cup {NoData}, red : BOOLEAN]
    <3>1. [Sides -> N] \subseteq [Sides -> M]
      BY <1>1
    <3>. QED BY <2>2, <3>1
  <2>4. v.node \in [M -> [child : [Sides -> M], parent : Data \cup {NoData}, red : BOOLEAN]]
    BY <1>1, <1>4, <2>1, <2>3
  <2>5. v \in TreesOver(M)
    <3>1. v.root \in M
      BY <1>1, <1>4, <2>2
    <3>2. [root |-> v.root, node |-> v.node] \in TreesOver(M)
      BY <2>4, <3>1 DEF TreesOver
    <3>. QED BY <1>4, <3>2
  <2>. QED BY <1>2, <2>5 DEF Tree
<1>6. /\ \A q \in N : Parent(v, q) = Parent(t, q)
      /\ Parent(v, d) = p /\ Red(v, d)
      /\ \A q \in N : Red(v, q) = Red(t, q)
      /\ \A c \in Sides : Child(v, d, c) = Nil
      /\ \A q \in N, c \in Sides : Child(v, q, c) = Child(t, q, c)
  <2>1. \A q \in N : v.node[q] = t.node[q]
    BY <1>1, <1>4
  <2>2. v.node[d] = NewNode(p, TRUE)
    BY <1>2, <1>4
  <2>. QED BY <2>1, <2>2 DEF Parent, Red, Child, NewNode
<1>7. PICK u : u = Hung(t, d, p)
  OBVIOUS
<1>8. HungIs(N, t, u, d, p, s)
  <2>1. CASE p = NoData
    <3>1. u = [v EXCEPT !.root = d]
      BY <1>3, <1>7, <2>1 DEF Hung
    <3>2. RootIs(M, v, u, d)
      BY <1>2, <1>5, <3>1, RootFacts
    <3>. QED BY <1>1, <1>2, <1>6, <2>1, <3>2 DEF RootIs, HungIs
  <2>2. CASE p # NoData
    <3>1. u = [v EXCEPT !.node[p].child[s] = d]
      BY <1>1, <1>3, <1>7, <2>2 DEF Hung
    <3>2. ChildIs(M, v, u, p, s, d)
      BY <1>2, <1>5, <2>2, <3>1, ChildFacts
    <3>3. u.root = t.root
      BY <1>4, <3>2 DEF ChildIs
    <3>4. /\ \A q \in M : Parent(u, q) = Parent(v, q) /\ Red(u, q) = Red(v, q)
          /\ \A q \in M, c \in Sides : Child(u, q, c) = IF q = p /\ c = s THEN d ELSE Child(v, q, c)
          /\ Tree(u, M)
      BY <3>2 DEF ChildIs
    <3>5. \A q \in N : Parent(u, q) = Parent(t, q)
      BY <1>1, <1>6, <3>4
    <3>6. Parent(u, d) = p /\ Red(u, d)
      BY <1>2, <1>6, <3>4
    <3>7. \A q \in N : Red(u, q) = Red(t, q)
      BY <1>1, <1>6, <3>4
    <3>8. \A c \in Sides : Child(u, d, c) = Nil
      BY <1>2, <1>6, <3>4
    <3>9. \A q \in N, c \in Sides : Child(u, q, c) = IF q = p /\ c = s THEN d ELSE Child(t, q, c)
      BY <1>1, <1>6, <3>4
    <3>. QED BY <1>1, <2>2, <3>3, <3>4, <3>5, <3>6, <3>7, <3>8, <3>9 DEF HungIs
  <2>. QED BY <2>1, <2>2
<1>. QED BY <1>1, <1>7, <1>8

\* The nodes below each node with d
HungBelow(N, sub, d, p) ==
  [q \in N \cup {d} |-> IF q = d THEN {d} ELSE IF p \in sub[q] THEN sub[q] \cup {d} ELSE sub[q]]

\* A new node where the search ended keeps the order.
LEMMA HungShape ==
  ASSUME NEW N, NEW t, NEW sub, Shape(t, N, sub), NEW d \in Data, d \notin N, NEW p, NEW s,
         s = Toward(KeyOf[d], p), Searching(t, N, sub, KeyOf[d], Nil, p),
         NEW u, HungIs(N, t, u, d, p, s)
  PROVE  Shape(u, N \cup {d}, HungBelow(N, sub, d, p))
<1>1. PICK M, w : M = N \cup {d} /\ w = HungBelow(N, sub, d, p)
  OBVIOUS
<1>2. /\ Nil \in N /\ NoData \notin M /\ d # Nil /\ s \in Sides /\ t.root \in N /\ Tree(u, M)
      /\ KeyOf[d] \in Int
      /\ \A q \in N, c \in Sides : Child(t, q, c) \in N
      /\ p \in (N \ {Nil}) \cup {NoData} /\ p # d /\ N \subseteq Data \cup {Nil}
  BY <1>1, TreeFacts, RBTreeAssumption DEF Shape, Tree, Toward, Sides, Searching, HungIs
<1>3. /\ sub \in [N -> SUBSET (N \ {Nil})] /\ sub[Nil] = {} /\ sub[t.root] = N \ {Nil}
      /\ \A n \in N \ {Nil} : sub[n] = {n} \cup sub[Child(t, n, "left")] \cup sub[Child(t, n, "right")]
  BY DEF Shape, Below
<1>4. /\ u.root = (IF p = NoData THEN d ELSE t.root)
      /\ \A q \in N : Parent(u, q) = Parent(t, q)
      /\ Parent(u, d) = p
      /\ \A c \in Sides : Child(u, d, c) = Nil
      /\ \A q \in N, c \in Sides : Child(u, q, c) = IF q = p /\ c = s THEN d ELSE Child(t, q, c)
  BY DEF HungIs
<1>5. /\ p = NoData => t.root = Nil /\ N = {Nil}
      /\ p # NoData => Child(t, p, s) = Nil
  BY <1>2, <1>3 DEF Searching
<1>6. \A x \in N \ {Nil} : KeyOf[x] # KeyOf[d]
  BY <1>3 DEF Searching
<1>7. /\ w[d] = {d} /\ w[Nil] = {}
      /\ \A q \in N : w[q] = IF p \in sub[q] THEN sub[q] \cup {d} ELSE sub[q]
      /\ w \in [M -> SUBSET (M \ {Nil})]
  BY <1>1, <1>2, <1>3 DEF HungBelow
<1>8. IsFiniteSet(M)
  BY <1>1, FS_AddElement DEF Shape
<1>9. Links(u, M)
  <2>1. u.root # Nil => Parent(u, u.root) = NoData
    <3>1. CASE p = NoData
      BY <1>4, <3>1
    <3>2. CASE p # NoData
      BY <1>2, <1>4, <3>2 DEF Shape, Links
    <3>. QED BY <3>1, <3>2
  <2>2. ASSUME NEW q \in M \ {Nil}, NEW c \in Sides, Child(u, q, c) # Nil
        PROVE  Parent(u, Child(u, q, c)) = q
    <3>1. q \in N
      BY <1>1, <1>4, <2>2
    <3>2. CASE q = p /\ c = s
      BY <1>4, <3>1, <3>2
    <3>3. CASE ~(q = p /\ c = s)
      <4>1. Child(u, q, c) = Child(t, q, c) /\ Child(t, q, c) \in N
        BY <1>2, <1>4, <3>1, <3>3
      <4>2. Parent(t, Child(t, q, c)) = q
        BY <2>2, <3>1, <4>1 DEF Shape, Links
      <4>. QED BY <1>4, <4>1, <4>2
    <3>. QED BY <3>2, <3>3
  <2>3. ASSUME NEW q \in M \ {Nil, u.root}
        PROVE  Parent(u, q) \in M \ {Nil} /\ \E c \in Sides : Child(u, Parent(u, q), c) = q
    <3>1. CASE q = d
      <4>1. p \in N \ {Nil}
        BY <1>2, <1>4, <3>1
      <4>. QED BY <1>1, <1>2, <1>4, <3>1, <4>1
    <3>2. CASE q # d
      <4>1. q \in N \ {Nil, t.root}
        BY <1>1, <1>4, <1>5, <3>2
      <4>2. PICK r : r = Parent(t, q)
        OBVIOUS
      <4>3. PICK c \in Sides : Child(t, r, c) = q
        BY <4>1, <4>2 DEF Shape, Links
      <4>4. r \in N \ {Nil} /\ Parent(u, q) = r
        BY <1>4, <4>1, <4>2 DEF Shape, Links
      <4>5. ~(r = p /\ c = s)
        BY <1>2, <1>5, <4>1, <4>3, <4>4
      <4>6. Child(u, r, c) = q
        BY <1>4, <4>3, <4>4, <4>5
      <4>. QED BY <1>1, <4>4, <4>6
    <3>. QED BY <3>1, <3>2
  <2>4. \A c \in Sides : Child(u, Nil, c) = Nil
    <3>1. p # Nil
      BY <1>1, <1>2
    <3>. QED BY <1>2, <1>4, <3>1 DEF Shape, Links
  <2>. QED BY <2>1, <2>2, <2>3, <2>4 DEF Links
<1>10. \A q \in N \ {Nil}, c \in Sides :
         w[Child(u, q, c)] = IF (q = p /\ c = s) \/ p \in sub[Child(t, q, c)]
                             THEN sub[Child(t, q, c)] \cup {d} ELSE sub[Child(t, q, c)]
  <2>1. ASSUME NEW q \in N \ {Nil}, NEW c \in Sides, q = p, c = s
        PROVE  w[Child(u, q, c)] = {d} /\ sub[Child(t, q, c)] = {}
    BY <1>2, <1>3, <1>4, <1>5, <1>7, <2>1
  <2>2. ASSUME NEW q \in N \ {Nil}, NEW c \in Sides, ~(q = p /\ c = s)
        PROVE  w[Child(u, q, c)] = IF p \in sub[Child(t, q, c)]
                                   THEN sub[Child(t, q, c)] \cup {d} ELSE sub[Child(t, q, c)]
    BY <1>2, <1>4, <1>7, <2>2
  <2>. QED BY <2>1, <2>2
<1>11. ASSUME NEW q \in N \ {Nil}
       PROVE  w[q] = {q} \cup w[Child(u, q, "left")] \cup w[Child(u, q, "right")]
  <2>1. PICK l, r : l = sub[Child(t, q, "left")] /\ r = sub[Child(t, q, "right")]
    OBVIOUS
  <2>2. sub[q] = {q} \cup l \cup r /\ "left" \in Sides /\ "right" \in Sides
    BY <1>3, <2>1, SidesFacts
  <2>3. /\ w[Child(u, q, "left")] = IF (q = p /\ "left" = s) \/ p \in l THEN l \cup {d} ELSE l
        /\ w[Child(u, q, "right")] = IF (q = p /\ "right" = s) \/ p \in r THEN r \cup {d} ELSE r
    BY <1>10, <2>1, <2>2
  <2>4. w[q] = IF p \in sub[q] THEN sub[q] \cup {d} ELSE sub[q]
    BY <1>7
  <2>5. s = "left" \/ s = "right"
    BY <1>2 DEF Sides
  <2>. QED BY <2>2, <2>3, <2>4, <2>5
<1>12. Below(u, M, w)
  <2>1. w[u.root] = M \ {Nil}
    <3>1. CASE p = NoData
      BY <1>1, <1>2, <1>4, <1>5, <1>7, <3>1
    <3>2. CASE p # NoData
      BY <1>1, <1>2, <1>3, <1>4, <1>7, <3>2
    <3>. QED BY <3>1, <3>2
  <2>2. w[d] = {d} \cup w[Child(u, d, "left")] \cup w[Child(u, d, "right")]
    BY <1>4, <1>7, SidesFacts
  <2>. QED BY <1>1, <1>7, <1>11, <2>1, <2>2 DEF Below
<1>13. Sorted(u, M, w)
  <2>. SUFFICES ASSUME NEW q \in M \ {Nil}, NEW c \in Sides, NEW x \in w[Child(u, q, c)]
                PROVE  Before(c, x, q)
    BY DEF Sorted
  <2>1. q \in N \ {Nil}
    BY <1>1, <1>4, <1>7
  <2>2. CASE x = d
    <3>1. (q = p /\ c = s) \/ p \in sub[Child(t, q, c)]
      <4>1. Child(t, q, c) \in N
        BY <1>2, <2>1
      <4>2. d \notin sub[Child(t, q, c)]
        BY <1>3, <4>1
      <4>. QED BY <1>10, <2>1, <2>2, <4>2
    <3>2. KeyBefore(c, KeyOf[d], q)
      BY <2>1, <3>1 DEF Searching
    <3>. QED BY <2>2, <3>2 DEF KeyBefore, Before
  <2>3. CASE x # d
    <3>1. x \in sub[Child(t, q, c)]
      BY <1>10, <2>1, <2>3
    <3>. QED BY <2>1, <3>1 DEF Shape, Sorted
  <2>. QED BY <2>2, <2>3
<1>14. KeysDiffer(M)
  BY <1>1, <1>6 DEF Shape, KeysDiffer
<1>. QED BY <1>1, <1>2, <1>8, <1>9, <1>12, <1>13, <1>14 DEF Shape

\* It is all that may be wrong then: it is red, and so may be its parent.
LEMMA HungPushing ==
  ASSUME NEW N, NEW t, NEW sub, NEW height, Shape(t, N, sub), Balanced(t, N, height),
         NEW d \in Data, d \notin N, NEW p, Searching(t, N, sub, KeyOf[d], Nil, p)
  PROVE  \E w, h : Pushing(Hung(t, d, p), N \cup {d}, w, h, d)
<1>1. PICK M, s, u : M = N \cup {d} /\ s = Toward(KeyOf[d], p) /\ u = Hung(t, d, p)
  OBVIOUS
<1>2. /\ Tree(t, N) /\ Nil \in N /\ NoData \notin M /\ d # Nil /\ t.root \in N
      /\ \A q \in N, c \in Sides : Child(t, q, c) \in N
      /\ p \in (N \ {Nil}) \cup {NoData} /\ p # d
      /\ p # NoData => Child(t, p, s) = Nil
  BY <1>1, TreeFacts, RBTreeAssumption DEF Shape, Tree, Searching
<1>3. HungIs(N, t, u, d, p, s)
  BY <1>1, <1>2, HungFacts
<1>4. Shape(u, M, HungBelow(N, sub, d, p))
  BY <1>1, <1>3, HungShape
<1>5. /\ u.root = (IF p = NoData THEN d ELSE t.root)
      /\ Red(u, d)
      /\ \A q \in N : Red(u, q) = Red(t, q)
      /\ \A c \in Sides : Child(u, d, c) = Nil
      /\ \A q \in N, c \in Sides : Child(u, q, c) = IF q = p /\ c = s THEN d ELSE Child(t, q, c)
  BY <1>3 DEF HungIs
<1>6. /\ height \in [N -> Nat] /\ height[Nil] = 0 /\ ~Red(t, Nil)
      /\ \A q \in N, c \in Sides : Lack(q, c, NoData, "left") = 0
      /\ \A q \in N : Black(t, q) \in {0, 1}
      /\ \A q \in N \ {Nil}, c \in Sides : height[q] = Black(t, q) + height[Child(t, q, c)]
  BY <1>2, EvenFacts DEF Balanced
<1>7. PICK h : h = [q \in M |-> IF q = d THEN 0 ELSE height[q]]
  OBVIOUS
<1>8. h \in [M -> Nat] /\ h[d] = 0 /\ h[Nil] = 0 /\ \A q \in N : h[q] = height[q]
  BY <1>1, <1>2, <1>6, <1>7
<1>9. Even(u, M, h, NoData, "left")
  <2>1. ASSUME NEW q \in M \ {Nil}, NEW c \in Sides
        PROVE  h[q] = Black(u, q) + h[Child(u, q, c)] + Lack(q, c, NoData, "left")
    <3>1. Lack(q, c, NoData, "left") = 0
      BY <1>2 DEF Lack
    <3>2. CASE q = d
      <4>1. Black(u, q) = 0 /\ h[Child(u, q, c)] = 0 /\ h[q] = 0
        BY <1>5, <1>8, <3>2 DEF Black
      <4>. QED BY <3>1, <4>1
    <3>3. CASE q # d
      <4>1. PICK y : y = Child(t, q, c)
        OBVIOUS
      <4>2. q \in N /\ y \in N /\ height[q] = Black(t, q) + height[y] /\ Black(u, q) = Black(t, q)
        BY <1>1, <1>2, <1>5, <1>6, <3>3, <4>1 DEF Black
      <4>3. h[Child(u, q, c)] = height[y]
        <5>1. CASE q = p /\ c = s
          <6>1. Child(u, q, c) = d /\ y = Nil
            BY <1>2, <1>5, <4>1, <4>2, <5>1
          <6>. QED BY <1>6, <1>8, <6>1
        <5>2. CASE ~(q = p /\ c = s)
          BY <1>5, <1>8, <4>1, <4>2, <5>2
        <5>. QED BY <5>1, <5>2
      <4>4. PICK b \in Nat : b = Black(t, q)
        BY DEF Black
      <4>5. h[q] = b + height[y] + 0
        BY <1>6, <1>8, <4>2, <4>4
      <4>. QED BY <3>1, <4>2, <4>3, <4>4, <4>5
    <3>. QED BY <3>2, <3>3
  <2>2. ~Red(u, Nil)
    BY <1>2, <1>5, <1>6
  <2>. QED BY <1>8, <2>1, <2>2 DEF Even
<1>10. RedsApart(u, M, d, NoData)
  <2>. SUFFICES ASSUME NEW q \in M \ {Nil}, NEW c \in Sides, Red(u, q),
                       Red(u, Child(u, q, c)), Child(u, q, c) # d
                PROVE  FALSE
    BY DEF RedsApart, Apart
  <2>1. q # d
    BY <1>2, <1>5, <1>6
  <2>2. q \in N /\ Child(u, q, c) = Child(t, q, c) /\ Child(t, q, c) \in N
    BY <1>1, <1>2, <1>5, <2>1
  <2>3. Red(t, q) /\ Red(t, Child(t, q, c))
    BY <1>5, <2>2
  <2>4. Child(t, q, c) = NoData \/ q = NoData
    BY <2>2, <2>3 DEF Balanced, RedsApart, Apart
  <2>. QED BY <1>1, <1>2, <2>2, <2>4
<1>11. Red(u, u.root) => d = u.root
  BY <1>2, <1>5 DEF Balanced
<1>12. Pushing(u, M, HungBelow(N, sub, d, p), h, d)
  BY <1>1, <1>2, <1>4, <1>5, <1>9, <1>10, <1>11 DEF Pushing
<1>. QED BY <1>1, <1>12

\* Push leaves a balanced tree with its datum.
LEMMA PushedFacts ==
  ASSUME NEW N, NEW t, NEW sub, NEW height, Shape(t, N, sub), Balanced(t, N, height),
         NEW d \in Data, NEW p, Descend(t, KeyOf[d]) = Step(Nil, p)
  PROVE  /\ d \notin N
         /\ \A x \in N \ {Nil} : KeyOf[x] # KeyOf[d]
         /\ \E w, h : /\ Shape(FixPush(Hung(t, d, p), d), N \cup {d}, w)
                      /\ Balanced(FixPush(Hung(t, d, p), d), N \cup {d}, h)
<1>1. KeyOf[d] \in Int /\ d # Nil
  BY RBTreeAssumption
<1>2. Searching(t, N, sub, KeyOf[d], Nil, p)
  <2>1. PICK n, q : Descend(t, KeyOf[d]) = Step(n, q) /\ Searching(t, N, sub, KeyOf[d], n, q)
    BY <1>1, DescendFacts
  <2>2. n = Nil /\ q = p
    BY <2>1 DEF Step
  <2>. QED BY <2>1, <2>2
<1>3. \A x \in N \ {Nil} : KeyOf[x] # KeyOf[d]
  BY <1>2 DEF Searching, Shape, Below
<1>4. d \notin N
  BY <1>1, <1>3
<1>5. PICK w, h : Pushing(Hung(t, d, p), N \cup {d}, w, h, d)
  BY <1>2, <1>4, HungPushing
<1>. QED BY <1>3, <1>4, <1>5, PushBalances

-----------------------------------------------------------------------------
(* Del: the node that is unlinked.                                         *)

\* m is below n, and comes before all that is below n and not below m.
Foremost(sub, n, m) == m \in sub[n] /\ \A z \in sub[n] : z \in sub[m] \/ KeyOf[m] < KeyOf[z]

\* The nodes from which the first below n is at most j steps away
FirstClose(t, sub, n, j) ==
  {m \in sub[n] : Foremost(sub, n, m) /\ (Child(t, m, "left") = Nil \/ Cardinality(sub[m]) <= j)}

\* The search for the successor ends at the first datum below n.
LEMMA LeftmostFacts ==
  ASSUME NEW N, NEW t, NEW sub, Shape(t, N, sub), NEW n \in N, n # Nil
  PROVE  LET m == Leftmost(t, n) IN
         m \in sub[n] /\ Child(t, m, "left") = Nil /\ \A z \in sub[n] \ {m} : KeyOf[m] < KeyOf[z]
<1>1. /\ Stored(t) = N \ {Nil} /\ Rounds(t) = Cardinality(N \ {Nil}) /\ Cardinality(N \ {Nil}) \in Nat
      /\ "left" \in Sides /\ Other("left") = "right" /\ N \subseteq Data \cup {Nil}
      /\ sub \in [N -> SUBSET (N \ {Nil})]
      /\ \A q \in N \ {Nil} : KeyOf[q] \in Int
  BY TreeFacts, SizeFacts, SidesFacts, RBTreeAssumption DEF Shape, Tree, Rounds, Below
<1>2. PICK round, rounds :
        /\ rounds = Rounds(t)
        /\ round = [m \in N \ {Nil} |-> IF Child(t, m, "left") = Nil THEN m ELSE Child(t, m, "left")]
  OBVIOUS
<1>3. PICK end : end = Looped(round, n, rounds)
  OBVIOUS
<1>4. Leftmost(t, n) = end
  BY <1>1, <1>2, <1>3 DEF Leftmost
<1>5. PICK Close : Close = [j \in Nat |-> FirstClose(t, sub, n, j)]
  OBVIOUS
<1>6. n \in Close[rounds]
  <2>1. n \in sub[n] /\ sub[n] \subseteq N \ {Nil}
    BY <1>1, BelowFacts
  <2>2. Foremost(sub, n, n)
    BY <2>1 DEF Foremost
  <2>3. Cardinality(sub[n]) <= rounds
    BY <1>1, <1>2, <2>1, FS_Subset DEF Shape
  <2>. QED BY <1>1, <1>2, <1>5, <2>1, <2>2, <2>3 DEF FirstClose
<1>7. ASSUME NEW j \in Nat, NEW m \in Close[j + 1]
      PROVE  round[m] \in Close[j]
  <2>1. m \in FirstClose(t, sub, n, j + 1)
    BY <1>5, <1>7
  <2>2. /\ m \in sub[n] /\ Foremost(sub, n, m) /\ m \in N /\ m # Nil
        /\ Child(t, m, "left") = Nil \/ Cardinality(sub[m]) <= j + 1
    BY <1>1, <2>1 DEF FirstClose
  <2>3. CASE Child(t, m, "left") = Nil
    <3>1. round[m] = m
      BY <1>2, <2>2, <2>3
    <3>2. m \in FirstClose(t, sub, n, j)
      BY <2>2, <2>3 DEF FirstClose
    <3>. QED BY <1>5, <3>1, <3>2
  <2>4. CASE Child(t, m, "left") # Nil
    <3>1. PICK l, r : l = Child(t, m, "left") /\ r = Child(t, m, "right")
      OBVIOUS
    <3>2. round[m] = l
      BY <1>2, <2>2, <2>4, <3>1
    <3>3. l \in N /\ l # Nil /\ l \in sub[l]
          /\ sub[m] = {m} \cup sub[l] \cup sub[r] /\ r \in N /\ "right" \in Sides
      BY <1>1, <2>2, <2>4, <3>1, BelowFacts, SidesFacts
    <3>4. l \in sub[n]
      <4>1. sub[m] \subseteq sub[n]
        BY <2>2, InsideFacts
      <4>. QED BY <3>3, <4>1
    <3>5. KeyOf[l] < KeyOf[m]
      <4>1. Before("left", l, m)
        BY <1>1, <2>2, <3>1, <3>3 DEF Shape, Sorted
      <4>. QED BY <4>1 DEF Before
    <3>6. \A z \in sub[r] : KeyOf[m] < KeyOf[z]
      <4>1. \A z \in sub[r] : Before("right", z, m)
        BY <1>1, <2>2, <3>1, <3>3 DEF Shape, Sorted
      <4>. QED BY <4>1 DEF Before
    <3>7. ASSUME NEW z \in sub[n]
          PROVE  z \in sub[l] \/ KeyOf[l] < KeyOf[z]
      <4>1. z \in sub[m] \/ KeyOf[m] < KeyOf[z]
        BY <2>2 DEF Foremost
      <4>2. KeyOf[z] \in Int /\ KeyOf[l] \in Int /\ KeyOf[m] \in Int
        BY <1>1, <2>2, <3>3
      <4>3. z \in sub[l] \/ KeyOf[m] < KeyOf[z] \/ z = m
        BY <3>3, <3>6, <4>1
      <4>. QED BY <3>5, <4>2, <4>3
    <3>8. Foremost(sub, n, l)
      BY <3>4, <3>7 DEF Foremost
    <3>9. Cardinality(sub[l]) <= j
      <4>1. Cardinality(sub[l]) < Cardinality(sub[m]) /\ Cardinality(sub[l]) \in Nat
            /\ Cardinality(sub[m]) \in Nat
        BY <1>1, <2>2, <3>1, <3>3, SizeFacts
      <4>. QED BY <2>2, <2>4, <4>1
    <3>10. l \in FirstClose(t, sub, n, j)
      BY <3>4, <3>8, <3>9 DEF FirstClose
    <3>. QED BY <1>5, <3>2, <3>10
  <2>. QED BY <2>3, <2>4
<1>8. end \in Close[0]
  BY <1>1, <1>2, <1>3, <1>6, <1>7, LoopEnds
<1>9. /\ end \in sub[n] /\ Foremost(sub, n, end) /\ end \in N /\ end # Nil
      /\ Child(t, end, "left") = Nil \/ Cardinality(sub[end]) <= 0
  <2>1. end \in FirstClose(t, sub, n, 0)
    BY <1>5, <1>8
  <2>. QED BY <1>1, <2>1 DEF FirstClose
<1>10. Child(t, end, "left") = Nil
  <2>1. Cardinality(sub[end]) > 0 /\ Cardinality(sub[end]) \in Nat
    BY <1>9, SizeFacts
  <2>. QED BY <1>9, <2>1
<1>11. ASSUME NEW z \in sub[n] \ {end}
       PROVE  KeyOf[end] < KeyOf[z]
  <2>1. PICK r : r = Child(t, end, "right")
    OBVIOUS
  <2>2. sub[end] = {end} \cup sub[r] /\ "right" \in Sides
    <3>1. sub[end] = {end} \cup sub[Child(t, end, "left")] \cup sub[r] /\ sub[Nil] = {}
      BY <1>9, <2>1 DEF Shape, Below
    <3>. QED BY <1>10, <3>1, SidesFacts
  <2>3. z \in sub[r] => Before("right", z, end)
    BY <1>9, <2>1, <2>2 DEF Shape, Sorted
  <2>. QED BY <1>9, <2>2, <2>3 DEF Foremost, Before
<1>. QED BY <1>4, <1>9, <1>10, <1>11

\* The node that Del unlinks: that of d, or of the next datum, and never one with two
\* children
Unlinking(t, sub, d, y) ==
  /\ y \in sub[d] /\ \E c \in Sides : Child(t, y, c) = Nil
  /\ y # d => /\ y \in sub[Child(t, d, "right")]
              /\ \A z \in sub[Child(t, d, "right")] \ {y} : KeyOf[y] < KeyOf[z]

\* Del finds such a node.
LEMMA UnlinkedFacts ==
  ASSUME NEW N, NEW t, NEW sub, Shape(t, N, sub), NEW d \in N, d # Nil
  PROVE  Unlinking(t, sub, d, Unlinked(t, d))
<1>1. PICK y : y = Unlinked(t, d)
  OBVIOUS
<1>2. d \in sub[d] /\ "right" \in Sides /\ "left" \in Sides
  BY BelowFacts, SidesFacts
<1>3. CASE \E s \in Sides : Child(t, d, s) = Nil
  <2>1. y = d
    BY <1>1, <1>3 DEF Unlinked
  <2>2. Unlinking(t, sub, d, y)
    BY <1>2, <1>3, <2>1 DEF Unlinking
  <2>. QED BY <1>1, <2>2
<1>4. CASE ~\E s \in Sides : Child(t, d, s) = Nil
  <2>1. PICK n : n = Child(t, d, "right")
    OBVIOUS
  <2>2. n \in N /\ n # Nil /\ sub[n] \subseteq sub[d] /\ y = Leftmost(t, n)
    BY <1>1, <1>2, <1>4, <2>1, BelowFacts DEF Unlinked
  <2>3. y \in sub[n] /\ Child(t, y, "left") = Nil /\ \A z \in sub[n] \ {y} : KeyOf[y] < KeyOf[z]
    BY <2>2, LeftmostFacts
  <2>4. Unlinking(t, sub, d, y)
    BY <1>2, <2>1, <2>2, <2>3 DEF Unlinking
  <2>. QED BY <1>1, <2>4
<1>. QED BY <1>3, <1>4

-----------------------------------------------------------------------------
(* Del: the node of y is free, and that of d holds y.                      *)

Now(d, y, n) == IF n = d THEN y ELSE n

\* Now renames d to y, and back.
LEMMA NowFacts ==
  ASSUME NEW N, N \subseteq Data \cup {Nil}, NEW d \in N, d # Nil, NEW y \in N, y # Nil
  PROVE  /\ Now(d, y, Nil) = Nil /\ Now(d, y, NoData) = NoData
         /\ \A q \in N \ {y} : /\ Now(d, y, q) \in N \ {d} /\ Now(y, d, Now(d, y, q)) = q
                               /\ Now(d, y, q) = Nil <=> q = Nil
         /\ \A n \in N \ {d} : Now(y, d, n) \in N \ {y} /\ Now(d, y, Now(y, d, n)) = n
BY RBTreeAssumption DEF Now

\* v is t without the node of y, d being y now.
MovedIs(N, t, v, d, y) ==
  /\ Tree(v, N \ {d}) /\ v.root = Now(d, y, t.root)
  /\ \A q \in N \ {y} : Parent(v, Now(d, y, q)) = Now(d, y, Parent(t, q))
  /\ \A q \in N \ {y} : Red(v, Now(d, y, q)) = Red(t, q)
  /\ \A q \in N \ {y}, s \in Sides : Child(v, Now(d, y, q), s) = Now(d, y, Child(t, q, s))

\* Moved leaves what MovedIs says.
LEMMA MovedFacts ==
  ASSUME NEW N, NEW t, Tree(t, N), NEW d \in N, d # Nil, NEW y \in N, y # Nil, t.root # y,
         \A q \in N \ {y}, s \in Sides : Child(t, q, s) # y
  PROVE  MovedIs(N, t, Moved(t, d, y), d, y)
<1>1. PICK K, v : K = N \ {d} /\ v = Moved(t, d, y)
  OBVIOUS
<1>2. /\ DOMAIN t.node = N /\ t.root \in N /\ N \subseteq Data \cup {Nil} /\ Nil \in K
      /\ \A n \in N : Parent(t, n) \in Data \cup {NoData} /\ Red(t, n) \in BOOLEAN
      /\ \A n \in N, s \in Sides : Child(t, n, s) \in N
      /\ y \in Data
  BY <1>1, TreeFacts DEF Tree
<1>3. /\ \A q \in N \ {y} : Now(d, y, q) \in K /\ Now(y, d, Now(d, y, q)) = q
      /\ \A n \in K : Now(y, d, n) \in N \ {y}
  BY <1>1, <1>2, NowFacts
<1>4. v = [root |-> Now(d, y, t.root),
           node |-> [n \in K |-> [child  |-> [s \in Sides |-> Now(d, y, Child(t, Now(y, d, n), s))],
                                  parent |-> Now(d, y, Parent(t, Now(y, d, n))),
                                  red    |-> Red(t, Now(y, d, n))]]]
  BY <1>1, <1>2 DEF Moved, Now
<1>5. Now(d, y, t.root) \in K
  BY <1>2, <1>3
<1>6. ASSUME NEW n \in K
      PROVE  [child  |-> [s \in Sides |-> Now(d, y, Child(t, Now(y, d, n), s))],
              parent |-> Now(d, y, Parent(t, Now(y, d, n))),
              red    |-> Red(t, Now(y, d, n))]
                \in [child : [Sides -> K], parent : Data \cup {NoData}, red : BOOLEAN]
  <2>1. PICK m : m = Now(y, d, n)
    OBVIOUS
  <2>2. m \in N \ {y}
    BY <1>3, <2>1
  <2>3. [s \in Sides |-> Now(d, y, Child(t, m, s))] \in [Sides -> K]
    BY <1>2, <1>3, <2>2
  <2>4. Now(d, y, Parent(t, m)) \in Data \cup {NoData}
    BY <1>2, <2>2 DEF Now
  <2>. QED BY <1>2, <2>1, <2>2, <2>3, <2>4
<1>7. Tree(v, K)
  <2>1. v \in TreesOver(K)
    BY <1>4, <1>5, <1>6 DEF TreesOver
  <2>. QED BY <1>1, <1>2, <2>1 DEF Tree
<1>8. ASSUME NEW q \in N \ {y}
      PROVE  /\ Parent(v, Now(d, y, q)) = Now(d, y, Parent(t, q))
             /\ Red(v, Now(d, y, q)) = Red(t, q)
             /\ \A s \in Sides : Child(v, Now(d, y, q), s) = Now(d, y, Child(t, q, s))
  <2>1. PICK n : n = Now(d, y, q)
    OBVIOUS
  <2>2. n \in K /\ Now(y, d, n) = q
    BY <1>3, <2>1
  <2>3. v.node[n] = [child  |-> [s \in Sides |-> Now(d, y, Child(t, q, s))],
                     parent |-> Now(d, y, Parent(t, q)),
                     red    |-> Red(t, q)]
    BY <1>4, <2>2
  <2>4. v.node[n].parent = Now(d, y, Parent(t, q)) /\ v.node[n].red = Red(t, q)
        /\ \A s \in Sides : v.node[n].child[s] = Now(d, y, Child(t, q, s))
    BY <2>3
  <2>. QED BY <2>1, <2>4 DEF Parent, Red, Child
<1>9. v.root = Now(d, y, t.root)
  BY <1>4
<1>10. \A q \in N \ {y} : Red(v, Now(d, y, q)) = Red(t, q)
  BY <1>8
<1>11. MovedIs(N, t, v, d, y)
  BY <1>1, <1>7, <1>8, <1>9, <1>10 DEF MovedIs
<1>. QED BY <1>1, <1>11

\* u is t with x, the only child of y, in the place of y.
CutIs(N, t, u, y, x, p, s) ==
  /\ Tree(u, N \ {y}) /\ u.root = (IF p = NoData THEN x ELSE t.root)
  /\ \A q \in N \ {y} : Parent(u, q) = IF q = x THEN p ELSE Parent(t, q)
  /\ \A q \in N \ {y} : Red(u, q) = Red(t, q)
  /\ \A q \in N \ {y}, c \in Sides : Child(u, q, c) = IF q = p /\ c = s THEN x ELSE Child(t, q, c)

\* Where the node to unlink is: it has no child but x.
Loose(N, t, sub, y, x, p, s, o) ==
  /\ Shape(t, N, sub) /\ y \in N /\ y # Nil /\ o \in Sides /\ s \in Sides
  /\ x = Child(t, y, o) /\ Child(t, y, Other(o)) = Nil
  /\ p = Parent(t, y) /\ s = Place(t, p, y)

\* The tree with x in the place of y, while y is there still
Cut(t, y, x, p) == Replace(SetParent(t, x, p), p, y, x)

\* What there is around the node to unlink
LEMMA LooseFacts ==
  ASSUME NEW N, NEW t, NEW sub, NEW y, NEW x, NEW p, NEW s, NEW o, Loose(N, t, sub, y, x, p, s, o)
  PROVE  /\ Tree(t, N) /\ Nil \in N /\ NoData \notin N /\ N \subseteq Data \cup {Nil} /\ t.root \in N \ {Nil}
         /\ x \in N /\ x # y /\ x # t.root /\ sub[y] = {y} \cup sub[x] /\ y \notin sub[x] /\ y \in sub[y]
         /\ p = NoData <=> y = t.root
         /\ p # NoData => p \in N \ {Nil} /\ p # y /\ p # x /\ Child(t, p, s) = y
         /\ p \in Data \cup {NoData}
         /\ x # Nil => Parent(t, x) = y
         /\ \A q \in N, c \in Sides : Child(t, q, c) \in N
         /\ \A q \in N, c \in Sides : Child(t, q, c) = y => q = p /\ c = s
         /\ \A c \in Sides : Child(t, Nil, c) = Nil
         /\ \A q \in N \ {Nil, y}, c \in Sides : Child(t, q, c) = x => x = Nil
<1>1. /\ Shape(t, N, sub) /\ y \in N /\ y # Nil /\ o \in Sides /\ s \in Sides
      /\ x = Child(t, y, o) /\ Child(t, y, Other(o)) = Nil
      /\ p = Parent(t, y) /\ s = Place(t, p, y)
  BY DEF Loose
<1>2. /\ Tree(t, N) /\ Nil \in N /\ NoData \notin N /\ N \subseteq Data \cup {Nil} /\ t.root \in N
      /\ \A q \in N, c \in Sides : Child(t, q, c) \in N
      /\ p \in Data \cup {NoData} /\ NoData # Nil
  BY <1>1, TreeFacts, RBTreeAssumption DEF Shape, Tree
<1>3. sub[Nil] = {} /\ sub[t.root] = N \ {Nil}
  BY <1>1 DEF Shape, Below
<1>4. /\ x \in N /\ x # y /\ sub[y] = {y} \cup sub[x] /\ y \notin sub[x] /\ y \in sub[y]
      /\ x # Nil => Parent(t, x) = y /\ x # t.root
  BY <1>1, <1>3, BelowFacts
<1>5. t.root # Nil
  BY <1>1, <1>3
<1>6. /\ y = t.root => p = NoData
      /\ y # t.root => p \in N \ {Nil} /\ p # y /\ Child(t, p, s) = y /\ p \notin sub[y]
  <2>1. y = t.root => Parent(t, y) = NoData
    BY <1>1 DEF Shape, Links
  <2>2. y # t.root => /\ Parent(t, y) \in N /\ Parent(t, y) # Nil /\ Parent(t, y) # y
                      /\ Child(t, Parent(t, y), SideOf(t, y)) = y
                      /\ Place(t, Parent(t, y), y) = SideOf(t, y) /\ Parent(t, y) \notin sub[y]
    BY <1>1, AboveFacts
  <2>. QED BY <1>1, <2>1, <2>2
<1>7. p # NoData => p # x
  BY <1>2, <1>3, <1>4, <1>6, <1>1, BelowFacts
<1>8. \A c \in Sides : Child(t, Nil, c) = Nil
  BY <1>1 DEF Shape, Links
<1>9. ASSUME NEW q \in N, NEW c \in Sides, Child(t, q, c) = y
      PROVE  q = p /\ c = s
  <2>1. q # Nil
    BY <1>1, <1>9, <1>8
  <2>2. Parent(t, y) = q /\ y # t.root /\ Child(t, q, c) # Child(t, q, Other(c))
    BY <1>1, <1>9, <2>1, BelowFacts
  <2>3. q = p /\ Child(t, q, s) = y
    BY <1>1, <1>6, <2>2
  <2>. QED BY <1>1, <1>9, <2>2, <2>3, SidesFacts
<1>10. ASSUME NEW q \in N \ {Nil, y}, NEW c \in Sides, Child(t, q, c) = x
      PROVE  x = Nil
  <2>1. x # Nil => Parent(t, x) = q
    BY <1>1, <1>10 DEF Shape, Links
  <2>. QED BY <1>4, <2>1
<1>11. p = NoData <=> y = t.root
  BY <1>2, <1>6
<1>. QED BY <1>2, <1>4, <1>5, <1>6, <1>7, <1>9, <1>10, <1>11, <1>8

\* The tree without y: Moved with y for both
LEMMA CutFacts ==
  ASSUME NEW N, NEW t, NEW sub, NEW y, NEW x, NEW p, NEW s, NEW o, Loose(N, t, sub, y, x, p, s, o)
  PROVE  /\ CutIs(N, t, Moved(Cut(t, y, x, p), y, y), y, x, p, s)
         /\ \A d \in N \ {Nil, y} :
              MovedIs(N, Moved(Cut(t, y, x, p), y, y), Moved(Cut(t, y, x, p), d, y), d, y)
<1>1. PICK c : c = Cut(t, y, x, p)
  OBVIOUS
<1>2. /\ Tree(t, N) /\ Nil \in N /\ NoData \notin N /\ N \subseteq Data \cup {Nil} /\ t.root \in N \ {Nil}
      /\ x \in N /\ x # y /\ x # t.root /\ y \in N /\ y # Nil /\ s \in Sides /\ "left" \in Sides
      /\ p = NoData <=> y = t.root
      /\ p # NoData => p \in N \ {Nil} /\ p # y /\ p # x /\ Child(t, p, s) = y
      /\ p \in Data \cup {NoData} /\ p \in N \cup {NoData}
      /\ \A q \in N, e \in Sides : Child(t, q, e) = y => q = p /\ e = s
      /\ s = Place(t, p, y)
  <2>1. y \in N /\ y # Nil /\ s \in Sides /\ s = Place(t, p, y)
    BY DEF Loose
  <2>2. /\ p = NoData <=> y = t.root
        /\ p # NoData => p \in N \ {Nil} /\ p # y /\ p # x /\ Child(t, p, s) = y
        /\ p \in Data \cup {NoData}
        /\ \A q \in N, e \in Sides : Child(t, q, e) = y => q = p /\ e = s
    BY LooseFacts
  <2>3. /\ Tree(t, N) /\ Nil \in N /\ NoData \notin N /\ N \subseteq Data \cup {Nil} /\ t.root \in N \ {Nil}
        /\ x \in N /\ x # y /\ x # t.root
    BY LooseFacts
  <2>. QED BY <2>1, <2>2, <2>3, SidesFacts
<1>3. PICK t1 : t1 = SetParent(t, x, p)
  OBVIOUS
<1>4. ParentIs(N, t, t1, x, p)
  BY <1>2, <1>3, ParentFacts
<1>5. IF p = NoData THEN RootIs(N, t1, c, x) ELSE ChildIs(N, t1, c, p, Place(t1, p, y), x)
  BY <1>1, <1>2, <1>3, <1>4, ReplaceFacts DEF ParentIs, Cut
<1>6. p # NoData => Place(t1, p, y) = s
  BY <1>2, <1>4 DEF ParentIs, Place
<1>7. /\ Tree(c, N) /\ c.root = (IF p = NoData THEN x ELSE t.root)
      /\ \A q \in N : Parent(c, q) = IF q = x THEN p ELSE Parent(t, q)
      /\ \A q \in N : Red(c, q) = Red(t, q)
      /\ \A q \in N, e \in Sides : Child(c, q, e) = IF q = p /\ e = s THEN x ELSE Child(t, q, e)
  <2>1. CASE p = NoData
    BY <1>2, <1>4, <1>5, <2>1 DEF ParentIs, RootIs
  <2>2. CASE p # NoData
    <3>1. ChildIs(N, t1, c, p, s, x)
      BY <1>5, <1>6, <2>2
    <3>2. Tree(c, N) /\ c.root = t.root
      BY <1>4, <3>1 DEF ParentIs, ChildIs
    <3>3. \A q \in N : Parent(c, q) = IF q = x THEN p ELSE Parent(t, q)
      BY <1>4, <3>1 DEF ParentIs, ChildIs
    <3>4. \A q \in N : Red(c, q) = Red(t, q)
      BY <1>4, <3>1 DEF ParentIs, ChildIs
    <3>5. \A q \in N, e \in Sides : Child(c, q, e) = IF q = p /\ e = s THEN x ELSE Child(t, q, e)
      BY <1>4, <3>1 DEF ParentIs, ChildIs
    <3>. QED BY <2>2, <3>2, <3>3, <3>4, <3>5
  <2>. QED BY <2>1, <2>2
<1>8. c.root # y
  BY <1>2, <1>7
<1>9. ASSUME NEW q \in N \ {y}, NEW e \in Sides
      PROVE  Child(c, q, e) # y
  BY <1>2, <1>7
<1>10. PICK u : u = Moved(c, y, y)
  OBVIOUS
<1>11. /\ Tree(u, N \ {y}) /\ u.root = c.root
       /\ \A q \in N \ {y} : Parent(u, q) = Parent(c, q)
       /\ \A q \in N \ {y} : Red(u, q) = Red(c, q)
       /\ \A q \in N \ {y}, e \in Sides : Child(u, q, e) = Child(c, q, e)
  <2>1. MovedIs(N, c, u, y, y)
    BY <1>2, <1>7, <1>8, <1>9, <1>10, MovedFacts
  <2>2. \A n : Now(y, y, n) = n
    BY DEF Now
  <2>3. /\ Tree(u, N \ {y}) /\ u.root = c.root
        /\ \A q \in N \ {y} : Parent(u, q) = Parent(c, q)
    BY <2>1, <2>2 DEF MovedIs
  <2>4. \A q \in N \ {y} : Red(u, q) = Red(c, q)
    BY <2>1, <2>2 DEF MovedIs
  <2>5. \A q \in N \ {y}, e \in Sides : Child(u, q, e) = Child(c, q, e)
    BY <2>1, <2>2 DEF MovedIs
  <2>. QED BY <2>3, <2>4, <2>5
<1>12. CutIs(N, t, u, y, x, p, s)
  <2>1. \A q \in N \ {y} : Red(u, q) = Red(t, q)
    BY <1>7, <1>11
  <2>. QED BY <1>7, <1>11, <2>1 DEF CutIs
<1>13. ASSUME NEW d \in N \ {Nil, y}
       PROVE  MovedIs(N, u, Moved(c, d, y), d, y)
  <2>1. PICK v : v = Moved(c, d, y)
    OBVIOUS
  <2>2. MovedIs(N, c, v, d, y)
    BY <1>2, <1>7, <1>8, <1>9, <2>1, MovedFacts
  <2>3. /\ Tree(v, N \ {d}) /\ v.root = Now(d, y, u.root)
        /\ \A q \in N \ {y} : Parent(v, Now(d, y, q)) = Now(d, y, Parent(u, q))
    BY <1>11, <2>2 DEF MovedIs
  <2>4. \A q \in N \ {y} : Red(v, Now(d, y, q)) = Red(u, q)
    BY <1>11, <2>2 DEF MovedIs
  <2>5. \A q \in N \ {y}, e \in Sides : Child(v, Now(d, y, q), e) = Now(d, y, Child(u, q, e))
    BY <1>11, <2>2 DEF MovedIs
  <2>6. MovedIs(N, u, v, d, y)
    BY <2>3, <2>4, <2>5 DEF MovedIs
  <2>. QED BY <2>1, <2>6
<1>. QED BY <1>1, <1>10, <1>12, <1>13

-----------------------------------------------------------------------------
(* Del: the tree without the node of y.                                    *)

\* The nodes below each node without y
CutBelow(N, sub, y) == [q \in N \ {y} |-> sub[q] \ {y}]

\* Without y the tree keeps its links and its order.
LEMMA CutShape ==
  ASSUME NEW N, NEW t, NEW sub, NEW y, NEW x, NEW p, NEW s, NEW o, Loose(N, t, sub, y, x, p, s, o),
         NEW u, CutIs(N, t, u, y, x, p, s)
  PROVE  /\ Shape(u, N \ {y}, CutBelow(N, sub, y))
         /\ \A q \in N \ {Nil, y}, c \in Sides : sub[Child(u, q, c)] \subseteq sub[Child(t, q, c)]
<1>1. PICK M, w : M = N \ {y} /\ w = CutBelow(N, sub, y)
  OBVIOUS
<1>2. /\ Tree(t, N) /\ Nil \in N /\ NoData \notin N /\ N \subseteq Data \cup {Nil} /\ t.root \in N \ {Nil}
      /\ x \in N /\ x # y /\ x # t.root /\ sub[y] = {y} \cup sub[x] /\ y \notin sub[x] /\ y \in sub[y]
      /\ p = NoData <=> y = t.root
      /\ p # NoData => p \in N \ {Nil} /\ p # y /\ p # x /\ Child(t, p, s) = y
      /\ x # Nil => Parent(t, x) = y
      /\ \A q \in N, c \in Sides : Child(t, q, c) \in N
      /\ \A q \in N, c \in Sides : Child(t, q, c) = y => q = p /\ c = s
      /\ \A c \in Sides : Child(t, Nil, c) = Nil
  BY LooseFacts
<1>3. /\ Shape(t, N, sub) /\ y \in N /\ y # Nil /\ o \in Sides /\ s \in Sides
      /\ x = Child(t, y, o) /\ Child(t, y, Other(o)) = Nil
  BY DEF Loose
<1>4. /\ Tree(u, M) /\ u.root = (IF p = NoData THEN x ELSE t.root)
      /\ \A q \in M : Parent(u, q) = IF q = x THEN p ELSE Parent(t, q)
      /\ \A q \in M, c \in Sides : Child(u, q, c) = IF q = p /\ c = s THEN x ELSE Child(t, q, c)
  BY <1>1 DEF CutIs
<1>5. /\ sub \in [N -> SUBSET (N \ {Nil})] /\ sub[Nil] = {} /\ sub[t.root] = N \ {Nil}
      /\ \A n \in N \ {Nil} : sub[n] = {n} \cup sub[Child(t, n, "left")] \cup sub[Child(t, n, "right")]
  BY <1>3 DEF Shape, Below
<1>6. /\ w \in [M -> SUBSET (M \ {Nil})]
      /\ \A q \in M : w[q] = sub[q] \ {y}
      /\ Nil \in M /\ x \in M
  BY <1>1, <1>2, <1>3, <1>5 DEF CutBelow
<1>7. IsFiniteSet(M)
  BY <1>1, <1>3, FS_Subset DEF Shape
<1>8. /\ t.root # Nil => Parent(t, t.root) = NoData
      /\ \A n \in N \ {Nil}, c \in Sides : Child(t, n, c) # Nil => Parent(t, Child(t, n, c)) = n
      /\ \A n \in N \ {Nil, t.root} :
           Parent(t, n) \in N \ {Nil} /\ \E c \in Sides : Child(t, Parent(t, n), c) = n
  BY <1>3 DEF Shape, Links
<1>9. Links(u, M)
  <2>1. u.root # Nil => Parent(u, u.root) = NoData
    BY <1>1, <1>2, <1>4, <1>6, <1>8
  <2>2. ASSUME NEW q \in M \ {Nil}, NEW c \in Sides, Child(u, q, c) # Nil
        PROVE  Parent(u, Child(u, q, c)) = q
    <3>1. CASE q = p /\ c = s
      BY <1>4, <1>6, <3>1
    <3>2. CASE ~(q = p /\ c = s)
      <4>1. PICK e : e = Child(t, q, c)
        OBVIOUS
      <4>2. Child(u, q, c) = e /\ e \in M /\ Parent(t, e) = q /\ e # Nil /\ q # y
        BY <1>1, <1>2, <1>4, <1>8, <2>2, <3>2, <4>1
      <4>3. e # x
        BY <1>2, <4>2
      <4>. QED BY <1>4, <4>2, <4>3
    <3>. QED BY <3>1, <3>2
  <2>3. ASSUME NEW q \in M \ {Nil, u.root}
        PROVE  Parent(u, q) \in M \ {Nil} /\ \E c \in Sides : Child(u, Parent(u, q), c) = q
    <3>1. CASE q = x
      BY <1>1, <1>2, <1>3, <1>4, <3>1
    <3>2. CASE q # x
      <4>1. q \in N \ {Nil, t.root} /\ q # y
        BY <1>1, <1>2, <1>4
      <4>2. PICK r : r = Parent(t, q)
        OBVIOUS
      <4>3. PICK c \in Sides : Child(t, r, c) = q
        BY <1>8, <4>1, <4>2
      <4>4. r \in N \ {Nil} /\ Parent(u, q) = r
        BY <1>4, <1>8, <3>2, <4>1, <4>2
      <4>5. ~(r = p /\ c = s)
        BY <1>2, <4>1, <4>3, <4>4
      <4>6. r # y
        BY <1>3, <3>2, <4>1, <4>3, SidesFacts
      <4>7. Child(u, r, c) = q
        BY <1>1, <1>4, <4>3, <4>4, <4>5, <4>6
      <4>. QED BY <1>1, <4>4, <4>6, <4>7
    <3>. QED BY <3>1, <3>2
  <2>4. \A c \in Sides : Child(u, Nil, c) = Nil
    <3>1. p # Nil
      BY <1>2
    <3>. QED BY <1>2, <1>4, <1>6, <3>1
  <2>. QED BY <2>1, <2>2, <2>3, <2>4 DEF Links
<1>10. ASSUME NEW q \in N \ {Nil, y}, NEW c \in Sides
       PROVE  /\ w[Child(u, q, c)] = sub[Child(t, q, c)] \ {y} /\ Child(u, q, c) \in M
              /\ sub[Child(u, q, c)] \subseteq sub[Child(t, q, c)]
  <2>1. CASE q = p /\ c = s
    <3>1. Child(u, q, c) = x /\ Child(t, q, c) = y
      BY <1>1, <1>2, <1>4, <2>1
    <3>. QED BY <1>2, <1>6, <3>1
  <2>2. CASE ~(q = p /\ c = s)
    <3>1. Child(u, q, c) = Child(t, q, c) /\ Child(t, q, c) \in M
      BY <1>1, <1>2, <1>4, <2>2
    <3>. QED BY <1>6, <3>1
  <2>. QED BY <2>1, <2>2
<1>11. Below(u, M, w)
  <2>1. w[Nil] = {}
    BY <1>5, <1>6
  <2>2. w[u.root] = M \ {Nil}
    <3>1. CASE p = NoData
      BY <1>1, <1>2, <1>4, <1>5, <1>6, <3>1
    <3>2. CASE p # NoData
      <4>1. u.root = t.root /\ t.root \in M
        BY <1>1, <1>2, <1>4, <3>2
      <4>. QED BY <1>1, <1>5, <1>6, <4>1
    <3>. QED BY <3>1, <3>2
  <2>3. ASSUME NEW q \in M \ {Nil}
        PROVE  w[q] = {q} \cup w[Child(u, q, "left")] \cup w[Child(u, q, "right")]
    <3>1. "left" \in Sides /\ "right" \in Sides /\ q \in N \ {Nil, y}
      BY <1>1, SidesFacts
    <3>2. /\ w[Child(u, q, "left")] = sub[Child(t, q, "left")] \ {y}
          /\ w[Child(u, q, "right")] = sub[Child(t, q, "right")] \ {y}
      BY <1>10, <3>1
    <3>. QED BY <1>5, <1>6, <3>1, <3>2
  <2>. QED BY <1>6, <2>1, <2>2, <2>3 DEF Below
<1>12. Sorted(u, M, w)
  <2>. SUFFICES ASSUME NEW q \in M \ {Nil}, NEW c \in Sides, NEW e \in w[Child(u, q, c)]
                PROVE  Before(c, e, q)
    BY DEF Sorted
  <2>1. q \in N \ {Nil, y}
    BY <1>1
  <2>2. e \in sub[Child(t, q, c)]
    BY <1>10, <2>1
  <2>. QED BY <1>3, <2>1, <2>2 DEF Shape, Sorted
<1>13. KeysDiffer(M)
  BY <1>1, <1>3 DEF Shape, KeysDiffer
<1>14. Shape(u, M, w)
  BY <1>4, <1>7, <1>9, <1>11, <1>12, <1>13 DEF Shape
<1>. QED BY <1>1, <1>10, <1>14

\* One black node is missing below x when y was black.
LEMMA CutColours ==
  ASSUME NEW N, NEW t, NEW sub, NEW height, NEW y, NEW x, NEW p, NEW s, NEW o,
         Loose(N, t, sub, y, x, p, s, o), Balanced(t, N, height),
         NEW u, CutIs(N, t, u, y, x, p, s), NEW h, h = [q \in N \ {y} |-> height[q]]
  PROVE  /\ Red(t, y) => Balanced(u, N \ {y}, h)
         /\ ~Red(t, y) => Deleting(u, N \ {y}, CutBelow(N, sub, y), h, x, p, s)
<1>1. PICK M : M = N \ {y}
  OBVIOUS
<1>2. /\ Tree(t, N) /\ Nil \in N /\ NoData \notin N /\ t.root \in N \ {Nil}
      /\ x \in N /\ x # y /\ x # t.root
      /\ p = NoData <=> y = t.root
      /\ p # NoData => p \in N \ {Nil} /\ p # y /\ p # x /\ Child(t, p, s) = y
      /\ \A q \in N, c \in Sides : Child(t, q, c) \in N
      /\ \A q \in N, c \in Sides : Child(t, q, c) = y => q = p /\ c = s
  BY LooseFacts
<1>3. /\ y \in N /\ y # Nil /\ o \in Sides /\ s \in Sides /\ x = Child(t, y, o)
  BY DEF Loose
<1>4. /\ u.root = (IF p = NoData THEN x ELSE t.root)
      /\ \A q \in M : Parent(u, q) = IF q = x THEN p ELSE Parent(t, q)
      /\ \A q \in M, c \in Sides : Child(u, q, c) = IF q = p /\ c = s THEN x ELSE Child(t, q, c)
      /\ Tree(u, M)
  BY <1>1 DEF CutIs
<1>5. \A q \in M : Red(u, q) = Red(t, q)
  BY <1>1 DEF CutIs
<1>6. /\ height \in [N -> Nat] /\ height[Nil] = 0 /\ ~Red(t, Nil)
      /\ \A q \in N : Black(t, q) \in {0, 1}
      /\ \A q \in N \ {Nil}, c \in Sides : height[q] = Black(t, q) + height[Child(t, q, c)]
  BY <1>2, EvenFacts DEF Balanced
<1>7. ~Red(t, t.root) /\ RedsApart(t, N, NoData, NoData)
  BY DEF Balanced
<1>8. /\ h \in [M -> Nat] /\ h[Nil] = 0 /\ Nil \in M /\ x \in M /\ ~Red(u, Nil)
      /\ \A q \in M : h[q] = height[q] /\ Black(u, q) = Black(t, q)
  BY <1>1, <1>2, <1>3, <1>5, <1>6 DEF Black
<1>9. ASSUME NEW q \in N \ {Nil}, NEW c \in Sides, Red(t, q)
      PROVE  ~Red(t, Child(t, q, c))
  BY <1>2, <1>7, <1>9 DEF RedsApart, Apart
<1>10. ASSUME NEW q \in M \ {Nil}, NEW c \in Sides, ~(q = p /\ c = s)
       PROVE  h[q] = Black(u, q) + h[Child(u, q, c)]
  <2>1. PICK e : e = Child(t, q, c)
    OBVIOUS
  <2>2. Child(u, q, c) = e /\ e \in M /\ h[q] = height[q] /\ h[e] = height[e] /\ Black(u, q) = Black(t, q)
    BY <1>1, <1>2, <1>4, <1>8, <1>10, <2>1
  <2>3. height[q] = Black(t, q) + height[e]
    BY <1>1, <1>6, <2>1
  <2>. QED BY <2>2, <2>3
<1>11. height[y] = Black(t, y) + height[x]
  BY <1>3, <1>6
<1>12. p # NoData => /\ p \in M \ {Nil} /\ Child(u, p, s) = x /\ Black(u, p) = Black(t, p)
                     /\ h[p] = Black(t, p) + height[y] /\ h[x] = height[x]
  <2>. SUFFICES ASSUME p # NoData
                PROVE  /\ p \in M \ {Nil} /\ Child(u, p, s) = x /\ Black(u, p) = Black(t, p)
                       /\ h[p] = Black(t, p) + height[y] /\ h[x] = height[x]
    OBVIOUS
  <2>1. p \in M \ {Nil} /\ Child(u, p, s) = x /\ Child(t, p, s) = y
    BY <1>1, <1>2, <1>3, <1>4
  <2>2. height[p] = Black(t, p) + height[y]
    BY <1>1, <1>3, <1>6, <2>1
  <2>. QED BY <1>8, <2>1, <2>2
<1>13. ASSUME Red(t, y)
       PROVE  Balanced(u, M, h)
  <2>1. p # NoData /\ ~Red(t, p) /\ u.root = t.root /\ t.root \in M
    <3>1. y # t.root
      BY <1>7, <1>13
    <3>2. Red(t, p) => ~Red(t, y)
      BY <1>2, <1>3, <1>9, <3>1
    <3>. QED BY <1>1, <1>2, <1>4, <1>13, <3>1, <3>2
  <2>2. Even(u, M, h, NoData, "left")
    <3>1. ASSUME NEW q \in M \ {Nil}, NEW c \in Sides
          PROVE  h[q] = Black(u, q) + h[Child(u, q, c)] + Lack(q, c, NoData, "left")
      <4>1. Lack(q, c, NoData, "left") = 0
        BY <1>1, <1>2 DEF Lack
      <4>2. PICK b \in Nat : b = Black(u, q)
        BY DEF Black
      <4>3. PICK e : e = Child(u, q, c)
        OBVIOUS
      <4>4. h[q] = b + h[e] /\ h[e] \in Nat
        <5>1. CASE q = p /\ c = s
          <6>1. Black(t, y) = 0
            BY <1>13 DEF Black
          <6>2. e = x /\ h[q] = Black(t, p) + height[y] /\ Black(t, p) = b /\ height[y] = 0 + height[x]
            BY <1>11, <1>12, <2>1, <4>2, <4>3, <5>1, <6>1
          <6>3. height[x] \in Nat /\ h[x] = height[x]
            BY <1>2, <1>6, <1>8
          <6>. QED BY <6>2, <6>3
        <5>2. CASE ~(q = p /\ c = s)
          <6>1. e \in M
            BY <1>4, <4>3, TreeFacts
          <6>2. h[q] = Black(u, q) + h[Child(u, q, c)]
            BY <1>10, <5>2
          <6>. QED BY <1>8, <4>2, <4>3, <6>1, <6>2
        <5>. QED BY <5>1, <5>2
      <4>5. h[q] = b + h[e] + 0
        BY <4>4
      <4>. QED BY <4>1, <4>2, <4>3, <4>5
    <3>. QED BY <1>8, <3>1 DEF Even
  <2>3. RedsApart(u, M, NoData, NoData)
    <3>. SUFFICES ASSUME NEW q \in M \ {Nil}, NEW c \in Sides, Red(u, q), Red(u, Child(u, q, c))
                  PROVE  FALSE
      BY DEF RedsApart, Apart
    <3>1. Red(t, q) /\ ~(q = p /\ c = s)
      BY <1>5, <2>1
    <3>2. Child(u, q, c) = Child(t, q, c) /\ Child(t, q, c) \in M
      BY <1>1, <1>2, <1>4, <3>1
    <3>3. Red(t, Child(t, q, c))
      BY <1>5, <3>2
    <3>. QED BY <1>1, <1>9, <3>1, <3>3
  <2>4. ~Red(u, u.root)
    BY <1>5, <1>7, <2>1
  <2>. QED BY <2>2, <2>3, <2>4 DEF Balanced
<1>14. ASSUME ~Red(t, y)
       PROVE  Deleting(u, M, CutBelow(N, sub, y), h, x, p, s)
  <2>1. Shape(u, M, CutBelow(N, sub, y))
    BY <1>1, CutShape
  <2>2. x = u.root => p = NoData
    BY <1>2, <1>4
  <2>3. x # u.root => p \in M \ {Nil} /\ Child(u, p, s) = x /\ Parent(u, x) = p
    BY <1>4, <1>8, <1>12
  <2>4. Even(u, M, h, p, s)
    <3>1. ASSUME NEW q \in M \ {Nil}, NEW c \in Sides
          PROVE  h[q] = Black(u, q) + h[Child(u, q, c)] + Lack(q, c, p, s)
      <4>1. PICK b \in Nat : b = Black(u, q)
        BY DEF Black
      <4>2. PICK e : e = Child(u, q, c)
        OBVIOUS
      <4>3. e \in M /\ h[e] \in Nat
        BY <1>4, <1>8, <4>2, TreeFacts
      <4>4. CASE q = p /\ c = s
        <5>1. Black(t, y) = 1 /\ Lack(q, c, p, s) = 1 /\ p # NoData
          BY <1>1, <1>2, <1>14, <4>4 DEF Black, Lack
        <5>2. e = x /\ h[q] = Black(t, p) + height[y] /\ Black(t, p) = b /\ height[y] = 1 + height[x]
              /\ h[x] = height[x]
          BY <1>11, <1>12, <4>1, <4>2, <4>4, <5>1
        <5>3. h[q] = b + h[e] + 1
          BY <4>3, <5>2
        <5>. QED BY <4>1, <4>2, <5>1, <5>3
      <4>5. CASE ~(q = p /\ c = s)
        <5>1. Lack(q, c, p, s) = 0
          BY <4>5 DEF Lack
        <5>2. h[q] = b + h[e]
          BY <1>10, <4>1, <4>2, <4>5
        <5>3. h[q] = b + h[e] + 0
          BY <4>3, <5>2
        <5>. QED BY <4>1, <4>2, <5>1, <5>3
      <4>. QED BY <4>4, <4>5
    <3>. QED BY <1>8, <3>1 DEF Even
  <2>5. RedsApart(u, M, x, x)
    <3>. SUFFICES ASSUME NEW q \in M \ {Nil}, NEW c \in Sides, Red(u, q), Red(u, Child(u, q, c)),
                         Child(u, q, c) # x
                  PROVE  FALSE
      BY DEF RedsApart, Apart
    <3>1. Child(u, q, c) = Child(t, q, c) /\ Child(t, q, c) \in M
      BY <1>1, <1>2, <1>4
    <3>2. Red(t, q) /\ Red(t, Child(t, q, c))
      BY <1>5, <3>1
    <3>. QED BY <1>1, <1>9, <3>2
  <2>6. Red(u, u.root) => x = u.root
    <3>1. CASE p = NoData
      BY <1>4, <3>1
    <3>2. CASE p # NoData
      <4>1. u.root = t.root /\ t.root \in M
        BY <1>1, <1>2, <1>4, <3>2
      <4>2. ~Red(u, u.root)
        BY <1>5, <1>7, <4>1
      <4>. QED BY <4>2
    <3>. QED BY <3>1, <3>2
  <2>. QED BY <1>3, <1>8, <2>1, <2>2, <2>3, <2>4, <2>5, <2>6 DEF Deleting
<1>. QED BY <1>1, <1>13, <1>14

-----------------------------------------------------------------------------
(* Del: y takes the place of d.                                            *)

RenamedBelow(N, w, d, y) == [k \in N \ {d} |-> {Now(d, y, e) : e \in w[Now(y, d, k)]}]

\* v is u, a tree without y, with y for d.
Renamed(N, u, v, w, d, y) ==
  /\ N \subseteq Data \cup {Nil} /\ IsFiniteSet(N) /\ KeysDiffer(N)
  /\ d \in N \ {Nil} /\ y \in N \ {Nil} /\ d # y
  /\ Shape(u, N \ {y}, w) /\ MovedIs(N, u, v, d, y)

\* What v has of u, M being the nodes of u and K those of v
RenamedIs(M, K, u, v, d, y) ==
  /\ Tree(v, K) /\ v.root = Now(d, y, u.root) /\ u.root \in M
  /\ \A q \in M : Parent(v, Now(d, y, q)) = Now(d, y, Parent(u, q))
  /\ \A q \in M : Red(v, Now(d, y, q)) = Red(u, q)
  /\ \A q \in M, s \in Sides : Child(v, Now(d, y, q), s) = Now(d, y, Child(u, q, s))
  /\ \A q \in M, s \in Sides : Child(u, q, s) \in M
  /\ Now(d, y, Nil) = Nil /\ Now(d, y, NoData) = NoData
  /\ \A q \in M : /\ Now(d, y, q) \in K /\ Now(y, d, Now(d, y, q)) = q
                  /\ Now(d, y, q) = Nil <=> q = Nil
  /\ \A a, b \in M \cup {NoData} : Now(d, y, a) = Now(d, y, b) => a = b
  /\ \A k \in K : \E q \in M : k = Now(d, y, q)

\* A renamed tree is as its original.
LEMMA RenamedFacts ==
  ASSUME NEW N, NEW u, NEW v, NEW w, NEW d, NEW y, Renamed(N, u, v, w, d, y)
  PROVE  RenamedIs(N \ {y}, N \ {d}, u, v, d, y)
<1>1. /\ N \subseteq Data \cup {Nil} /\ d \in N \ {Nil} /\ y \in N \ {Nil} /\ d # y
      /\ Shape(u, N \ {y}, w) /\ MovedIs(N, u, v, d, y)
  BY DEF Renamed
<1>2. /\ Now(d, y, Nil) = Nil /\ Now(d, y, NoData) = NoData
      /\ \A q \in N \ {y} : /\ Now(d, y, q) \in N \ {d} /\ Now(y, d, Now(d, y, q)) = q
                            /\ Now(d, y, q) = Nil <=> q = Nil
      /\ \A k \in N \ {d} : Now(y, d, k) \in N \ {y} /\ Now(d, y, Now(y, d, k)) = k
  BY <1>1, NowFacts
<1>3. u.root \in N \ {y} /\ \A q \in N \ {y}, s \in Sides : Child(u, q, s) \in N \ {y}
  <2>1. PICK M : M = N \ {y}
    OBVIOUS
  <2>2. Tree(u, M)
    BY <1>1, <2>1 DEF Shape
  <2>. QED BY <2>1, <2>2, TreeFacts
<1>4. \A k \in N \ {d} : \E q \in N \ {y} : k = Now(d, y, q)
  BY <1>2
<1>5. ASSUME NEW a \in (N \ {y}) \cup {NoData}, NEW b \in (N \ {y}) \cup {NoData}, Now(d, y, a) = Now(d, y, b)
      PROVE  a = b
  BY <1>1, <1>5, RBTreeAssumption DEF Now
<1>6. /\ Tree(v, N \ {d}) /\ v.root = Now(d, y, u.root)
      /\ \A q \in N \ {y} : Parent(v, Now(d, y, q)) = Now(d, y, Parent(u, q))
  BY <1>1 DEF MovedIs
<1>7. \A q \in N \ {y} : Red(v, Now(d, y, q)) = Red(u, q)
  BY <1>1 DEF MovedIs
<1>8. \A q \in N \ {y}, s \in Sides : Child(v, Now(d, y, q), s) = Now(d, y, Child(u, q, s))
  BY <1>1 DEF MovedIs
<1>. QED BY <1>2, <1>3, <1>4, <1>5, <1>6, <1>7, <1>8 DEF RenamedIs

\* The links agree under the new name, ...
LEMMA RenameLinks ==
  ASSUME NEW N, NEW u, NEW v, NEW w, NEW d, NEW y, Renamed(N, u, v, w, d, y)
  PROVE  Links(v, N \ {d})
<1>1. PICK M, K : M = N \ {y} /\ K = N \ {d}
  OBVIOUS
<1>2. /\ v.root = Now(d, y, u.root) /\ u.root \in M
      /\ \A q \in M : Parent(v, Now(d, y, q)) = Now(d, y, Parent(u, q))
      /\ \A q \in M, s \in Sides : Child(v, Now(d, y, q), s) = Now(d, y, Child(u, q, s))
      /\ \A q \in M, s \in Sides : Child(u, q, s) \in M
      /\ Now(d, y, Nil) = Nil /\ Now(d, y, NoData) = NoData
      /\ \A q \in M : Now(d, y, q) \in K /\ (Now(d, y, q) = Nil <=> q = Nil)
      /\ \A k \in K : \E q \in M : k = Now(d, y, q)
  <2>1. RenamedIs(M, K, u, v, d, y)
    BY <1>1, RenamedFacts
  <2>. QED BY <2>1 DEF RenamedIs
<1>3. /\ Nil \in M
      /\ \A s \in Sides : Child(u, Nil, s) = Nil
      /\ u.root # Nil => Parent(u, u.root) = NoData
      /\ \A n \in M \ {Nil}, s \in Sides : Child(u, n, s) # Nil => Parent(u, Child(u, n, s)) = n
      /\ \A n \in M \ {Nil, u.root} :
           Parent(u, n) \in M \ {Nil} /\ \E s \in Sides : Child(u, Parent(u, n), s) = n
  BY <1>1 DEF Renamed, Shape, Links, Tree
<1>4. \A s \in Sides : Child(v, Nil, s) = Nil
  BY <1>2, <1>3
<1>5. v.root # Nil => Parent(v, v.root) = NoData
  BY <1>2, <1>3
<1>6. ASSUME NEW k \in K \ {Nil}, NEW s \in Sides, Child(v, k, s) # Nil
      PROVE  Parent(v, Child(v, k, s)) = k
  <2>1. PICK q \in M : k = Now(d, y, q)
    BY <1>2
  <2>2. PICK e \in M : e = Child(u, q, s)
    BY <1>2
  <2>3. q # Nil /\ Child(v, k, s) = Now(d, y, e) /\ e # Nil
    BY <1>2, <1>6, <2>1, <2>2
  <2>4. Parent(u, e) = q
    BY <1>3, <2>2, <2>3
  <2>. QED BY <1>2, <2>1, <2>3, <2>4
<1>7. ASSUME NEW k \in K \ {Nil, v.root}
      PROVE  Parent(v, k) \in K \ {Nil} /\ \E s \in Sides : Child(v, Parent(v, k), s) = k
  <2>1. PICK q \in M : k = Now(d, y, q)
    BY <1>2
  <2>2. q \in M \ {Nil, u.root}
    BY <1>2, <2>1
  <2>3. PICK r : r = Parent(u, q)
    OBVIOUS
  <2>4. r \in M /\ r # Nil /\ \E s \in Sides : Child(u, r, s) = q
    BY <1>3, <2>2, <2>3
  <2>5. Parent(v, k) = Now(d, y, r) /\ Now(d, y, r) \in K /\ Now(d, y, r) # Nil
    BY <1>2, <2>1, <2>3, <2>4
  <2>6. \E s \in Sides : Child(v, Now(d, y, r), s) = k
    BY <1>2, <2>1, <2>4
  <2>. QED BY <2>5, <2>6
<1>. QED BY <1>1, <1>4, <1>5, <1>6, <1>7 DEF Links

\* y may take the place of d.
Fits(N, u, w, d, y) ==
  \A q \in N \ {Nil, y}, s \in Sides : \A e \in w[Child(u, q, s)] : Before(s, Now(d, y, e), Now(d, y, q))

\* ... the order is kept, ...
LEMMA RenameShape ==
  ASSUME NEW N, NEW u, NEW v, NEW w, NEW d, NEW y, Renamed(N, u, v, w, d, y), Fits(N, u, w, d, y)
  PROVE  Shape(v, N \ {d}, RenamedBelow(N, w, d, y))
<1>1. PICK M, K, z : M = N \ {y} /\ K = N \ {d} /\ z = RenamedBelow(N, w, d, y)
  OBVIOUS
<1>2. /\ Tree(v, K) /\ v.root = Now(d, y, u.root) /\ u.root \in M
      /\ \A q \in M, s \in Sides : Child(v, Now(d, y, q), s) = Now(d, y, Child(u, q, s))
      /\ \A q \in M, s \in Sides : Child(u, q, s) \in M
      /\ Now(d, y, Nil) = Nil
      /\ \A q \in M : /\ Now(d, y, q) \in K /\ Now(y, d, Now(d, y, q)) = q
                      /\ Now(d, y, q) = Nil <=> q = Nil
      /\ \A k \in K : \E q \in M : k = Now(d, y, q)
  <2>1. RenamedIs(M, K, u, v, d, y)
    BY <1>1, RenamedFacts
  <2>. QED BY <2>1 DEF RenamedIs
<1>3. /\ Nil \in M /\ w \in [M -> SUBSET (M \ {Nil})] /\ w[Nil] = {} /\ w[u.root] = M \ {Nil}
      /\ \A n \in M \ {Nil} : w[n] = {n} \cup w[Child(u, n, "left")] \cup w[Child(u, n, "right")]
  BY <1>1 DEF Renamed, Shape, Below, Tree
<1>4. \A q \in M : z[Now(d, y, q)] = {Now(d, y, e) : e \in w[q]}
  BY <1>1, <1>2 DEF RenamedBelow
<1>5. z \in [K -> SUBSET (K \ {Nil})]
  <2>1. ASSUME NEW k \in K
        PROVE  {Now(d, y, e) : e \in w[Now(y, d, k)]} \in SUBSET (K \ {Nil})
    <3>1. PICK q \in M : k = Now(d, y, q)
      BY <1>2
    <3>2. Now(y, d, k) = q
      BY <1>2, <3>1
    <3>. QED BY <1>2, <1>3, <3>2
  <2>2. z = [k \in K |-> {Now(d, y, e) : e \in w[Now(y, d, k)]}]
    BY <1>1 DEF RenamedBelow
  <2>. QED BY <2>1, <2>2
<1>6. Below(v, K, z)
  <2>1. z[Nil] = {}
    BY <1>2, <1>3, <1>4
  <2>2. z[v.root] = K \ {Nil}
    <3>1. z[v.root] = {Now(d, y, e) : e \in M \ {Nil}}
      BY <1>2, <1>3, <1>4
    <3>2. \A k \in K \ {Nil} : \E e \in M \ {Nil} : k = Now(d, y, e)
      BY <1>2
    <3>. QED BY <1>2, <3>1, <3>2
  <2>3. ASSUME NEW k \in K \ {Nil}
        PROVE  z[k] = {k} \cup z[Child(v, k, "left")] \cup z[Child(v, k, "right")]
    <3>1. PICK q \in M : k = Now(d, y, q)
      BY <1>2
    <3>2. PICK l, r : l = Child(u, q, "left") /\ r = Child(u, q, "right")
      OBVIOUS
    <3>3. q # Nil /\ l \in M /\ r \in M /\ "left" \in Sides /\ "right" \in Sides
      BY <1>2, <3>1, <3>2, SidesFacts
    <3>4. w[q] = {q} \cup w[l] \cup w[r]
      BY <1>3, <3>2, <3>3
    <3>5. Child(v, k, "left") = Now(d, y, l) /\ Child(v, k, "right") = Now(d, y, r)
      BY <1>2, <3>1, <3>2, <3>3
    <3>6. /\ z[k] = {Now(d, y, e) : e \in w[q]}
          /\ z[Now(d, y, l)] = {Now(d, y, e) : e \in w[l]}
          /\ z[Now(d, y, r)] = {Now(d, y, e) : e \in w[r]}
      BY <1>4, <3>1, <3>3
    <3>. QED BY <3>1, <3>4, <3>5, <3>6
  <2>. QED BY <1>5, <2>1, <2>2, <2>3 DEF Below
<1>7. Sorted(v, K, z)
  <2>. SUFFICES ASSUME NEW k \in K \ {Nil}, NEW s \in Sides, NEW f \in z[Child(v, k, s)]
                PROVE  Before(s, f, k)
    BY DEF Sorted
  <2>1. PICK q \in M : k = Now(d, y, q)
    BY <1>2
  <2>2. q # Nil /\ Child(u, q, s) \in M /\ Child(v, k, s) = Now(d, y, Child(u, q, s))
    BY <1>2, <2>1
  <2>3. PICK e \in w[Child(u, q, s)] : f = Now(d, y, e)
    BY <1>4, <2>2
  <2>. QED BY <1>1, <2>1, <2>2, <2>3 DEF Fits
<1>8. IsFiniteSet(K) /\ KeysDiffer(K)
  BY <1>1, FS_Subset DEF Renamed, KeysDiffer
<1>9. Links(v, K)
  BY <1>1, RenameLinks
<1>. QED BY <1>1, <1>2, <1>6, <1>7, <1>8, <1>9 DEF Shape

\* v has the colours of u, and g is h for it.
SameColours(M, K, u, v, h, g, p, s, d, y) ==
  /\ Even(v, K, g, Now(d, y, p), s)
  /\ \A a, b \in M \cup {NoData} : RedsApart(u, M, a, b) => RedsApart(v, K, Now(d, y, a), Now(d, y, b))
  /\ Red(v, v.root) <=> Red(u, u.root)

\* ... the colours are the same, ...
LEMMA RenameColours ==
  ASSUME NEW N, NEW u, NEW v, NEW w, NEW d, NEW y, Renamed(N, u, v, w, d, y),
         NEW h, NEW p \in (N \ {y}) \cup {NoData}, NEW s, Even(u, N \ {y}, h, p, s),
         NEW g, g = [k \in N \ {d} |-> h[Now(y, d, k)]]
  PROVE  SameColours(N \ {y}, N \ {d}, u, v, h, g, p, s, d, y)
<1>1. PICK M, K : M = N \ {y} /\ K = N \ {d}
  OBVIOUS
<1>2. /\ v.root = Now(d, y, u.root) /\ u.root \in M
      /\ \A q \in M, c \in Sides : Child(v, Now(d, y, q), c) = Now(d, y, Child(u, q, c))
      /\ \A q \in M, c \in Sides : Child(u, q, c) \in M
      /\ Now(d, y, Nil) = Nil
      /\ \A q \in M : /\ Now(d, y, q) \in K /\ Now(y, d, Now(d, y, q)) = q
                      /\ Now(d, y, q) = Nil <=> q = Nil
      /\ \A a, b \in M \cup {NoData} : Now(d, y, a) = Now(d, y, b) => a = b
      /\ \A k \in K : \E q \in M : k = Now(d, y, q)
  <2>1. RenamedIs(M, K, u, v, d, y)
    BY <1>1, RenamedFacts
  <2>. QED BY <2>1 DEF RenamedIs
<1>3. \A q \in M : Red(v, Now(d, y, q)) = Red(u, q)
  <2>1. RenamedIs(M, K, u, v, d, y)
    BY <1>1, RenamedFacts
  <2>. QED BY <2>1 DEF RenamedIs
<1>4. Nil \in M
  BY <1>1 DEF Renamed, Shape, Tree
<1>5. /\ h \in [M -> Nat] /\ h[Nil] = 0 /\ ~Red(u, Nil)
      /\ \A q \in M \ {Nil}, c \in Sides : h[q] = Black(u, q) + h[Child(u, q, c)] + Lack(q, c, p, s)
  BY <1>1 DEF Even
<1>6. \A q \in M : g[Now(d, y, q)] = h[q] /\ Black(v, Now(d, y, q)) = Black(u, q)
  BY <1>1, <1>2, <1>3 DEF Black
<1>7. g \in [K -> Nat]
  <2>1. \A k \in K : Now(y, d, k) \in M
    BY <1>2
  <2>. QED BY <1>1, <1>5, <2>1
<1>8. ASSUME NEW k \in K \ {Nil}, NEW c \in Sides
      PROVE  g[k] = Black(v, k) + g[Child(v, k, c)] + Lack(k, c, Now(d, y, p), s)
  <2>1. PICK q \in M : k = Now(d, y, q)
    BY <1>2
  <2>2. PICK e \in M : e = Child(u, q, c)
    BY <1>2
  <2>3. q # Nil /\ Child(v, k, c) = Now(d, y, e)
    BY <1>2, <2>1, <2>2
  <2>4. g[k] = h[q] /\ Black(v, k) = Black(u, q) /\ g[Child(v, k, c)] = h[e]
    BY <1>6, <2>1, <2>3
  <2>5. Lack(k, c, Now(d, y, p), s) = Lack(q, c, p, s)
    BY <1>1, <1>2, <2>1 DEF Lack
  <2>6. h[q] = Black(u, q) + h[e] + Lack(q, c, p, s)
    BY <1>5, <2>2, <2>3
  <2>. QED BY <2>4, <2>5, <2>6
<1>9. g[Nil] = 0 /\ ~Red(v, Nil)
  <2>1. g[Nil] = 0
    BY <1>2, <1>4, <1>5, <1>6
  <2>2. ~Red(v, Nil)
    BY <1>2, <1>3, <1>4, <1>5
  <2>. QED BY <2>1, <2>2
<1>10. Even(v, K, g, Now(d, y, p), s)
  BY <1>7, <1>8, <1>9 DEF Even
<1>11. ASSUME NEW a \in M \cup {NoData}, NEW b \in M \cup {NoData}, RedsApart(u, M, a, b)
       PROVE  RedsApart(v, K, Now(d, y, a), Now(d, y, b))
  <2>. SUFFICES ASSUME NEW k \in K \ {Nil}, NEW c \in Sides, Red(v, k), Red(v, Child(v, k, c))
                PROVE  Child(v, k, c) = Now(d, y, a) \/ k = Now(d, y, b)
    BY DEF RedsApart, Apart
  <2>1. PICK q \in M : k = Now(d, y, q)
    BY <1>2
  <2>2. PICK e \in M : e = Child(u, q, c)
    BY <1>2
  <2>3. q # Nil /\ Child(v, k, c) = Now(d, y, e)
    BY <1>2, <2>1, <2>2
  <2>4. Red(u, q) /\ Red(u, Child(u, q, c))
    BY <1>3, <2>1, <2>2, <2>3
  <2>5. e = a \/ q = b
    BY <1>11, <2>2, <2>3, <2>4 DEF RedsApart, Apart
  <2>. QED BY <2>1, <2>3, <2>5
<1>12. Red(v, v.root) <=> Red(u, u.root)
  BY <1>2, <1>3
<1>. QED BY <1>1, <1>10, <1>11, <1>12 DEF SameColours

\* ... and what is wrong below x remains what is wrong.
LEMMA RenameDeleting ==
  ASSUME NEW N, NEW u, NEW v, NEW w, NEW d, NEW y, Renamed(N, u, v, w, d, y), Fits(N, u, w, d, y),
         NEW h, NEW x, NEW p, NEW s, Deleting(u, N \ {y}, w, h, x, p, s),
         NEW g, g = [k \in N \ {d} |-> h[Now(y, d, k)]]
  PROVE  Deleting(v, N \ {d}, RenamedBelow(N, w, d, y), g, Now(d, y, x), Now(d, y, p), s)
<1>1. PICK M, K : M = N \ {y} /\ K = N \ {d}
  OBVIOUS
<1>2. /\ x \in M /\ s \in Sides
      /\ x = u.root => p = NoData
      /\ x # u.root => p \in M \ {Nil} /\ Child(u, p, s) = x /\ Parent(u, x) = p
      /\ Even(u, M, h, p, s) /\ RedsApart(u, M, x, x)
      /\ Red(u, u.root) => x = u.root
  BY <1>1 DEF Deleting
<1>3. p \in M \cup {NoData}
  BY <1>2
<1>4. /\ Even(v, K, g, Now(d, y, p), s)
      /\ RedsApart(u, M, x, x) => RedsApart(v, K, Now(d, y, x), Now(d, y, x))
      /\ (Red(v, v.root) <=> Red(u, u.root))
  <2>1. Even(u, N \ {y}, h, p, s) /\ p \in (N \ {y}) \cup {NoData}
    BY <1>1, <1>2, <1>3
  <2>2. SameColours(M, K, u, v, h, g, p, s, d, y)
    BY <1>1, <2>1, RenameColours
  <2>. QED BY <1>2, <2>2 DEF SameColours
<1>5. Shape(v, K, RenamedBelow(N, w, d, y))
  BY <1>1, RenameShape
<1>6. /\ v.root = Now(d, y, u.root) /\ u.root \in M
      /\ \A q \in M : Parent(v, Now(d, y, q)) = Now(d, y, Parent(u, q))
      /\ \A q \in M, c \in Sides : Child(v, Now(d, y, q), c) = Now(d, y, Child(u, q, c))
      /\ Now(d, y, NoData) = NoData
      /\ \A q \in M : Now(d, y, q) \in K /\ (Now(d, y, q) = Nil <=> q = Nil)
      /\ \A a, b \in M \cup {NoData} : Now(d, y, a) = Now(d, y, b) => a = b
  <2>1. RenamedIs(M, K, u, v, d, y)
    BY <1>1, RenamedFacts
  <2>. QED BY <2>1 DEF RenamedIs
<1>7. Now(d, y, x) \in K /\ (Now(d, y, x) = v.root <=> x = u.root)
  BY <1>2, <1>6
<1>8. x # u.root => /\ Now(d, y, p) \in K \ {Nil} /\ Child(v, Now(d, y, p), s) = Now(d, y, x)
                    /\ Parent(v, Now(d, y, x)) = Now(d, y, p)
  BY <1>2, <1>6
<1>9. Red(v, v.root) => Now(d, y, x) = v.root
  BY <1>2, <1>4, <1>7
<1>. QED BY <1>1, <1>2, <1>4, <1>5, <1>6, <1>7, <1>8, <1>9 DEF Deleting

-----------------------------------------------------------------------------
(* Del leaves a balanced tree without its datum.                           *)

\* The next datum keeps the order in the place of d.
LEMMA NextFits ==
  ASSUME NEW N, NEW t, NEW sub, NEW d \in N, d # Nil, NEW y, y # d, Unlinking(t, sub, d, y),
         NEW x, NEW p, NEW s, NEW o, Loose(N, t, sub, y, x, p, s, o), NEW u, CutIs(N, t, u, y, x, p, s)
  PROVE  Fits(N, u, CutBelow(N, sub, y), d, y)
<1>1. /\ Shape(t, N, sub) /\ y \in N /\ y # Nil /\ Tree(t, N) /\ N \subseteq Data \cup {Nil}
      /\ y \in sub[d] /\ y \in sub[Child(t, d, "right")]
      /\ \A z \in sub[Child(t, d, "right")] \ {y} : KeyOf[y] < KeyOf[z]
      /\ "right" \in Sides /\ "left" \in Sides
  BY SidesFacts DEF Unlinking, Loose, Shape, Tree
<1>2. /\ Shape(u, N \ {y}, CutBelow(N, sub, y))
      /\ \A q \in N \ {Nil, y}, c \in Sides : sub[Child(u, q, c)] \subseteq sub[Child(t, q, c)]
  BY CutShape
<1>3. \A q \in N \ {y}, c \in Sides : Child(u, q, c) \in N \ {y}
  BY <1>2, TreeFacts DEF Shape
<1>4. \A q \in N \ {Nil}, c \in Sides : \A z \in sub[Child(t, q, c)] : Before(c, z, q)
  BY <1>1 DEF Shape, Sorted
<1>5. \A z \in N \ {Nil} : KeyOf[z] \in Int
  BY <1>1, RBTreeAssumption
<1>6. KeyOf[d] < KeyOf[y]
  BY <1>1, <1>4 DEF Before
<1>. SUFFICES ASSUME NEW q \in N \ {Nil, y}, NEW c \in Sides, NEW e \in CutBelow(N, sub, y)[Child(u, q, c)]
              PROVE  Before(c, Now(d, y, e), Now(d, y, q))
  BY DEF Fits
<1>7. e \in sub[Child(t, q, c)] /\ e # y
  <2>1. PICK f : f = Child(u, q, c)
    OBVIOUS
  <2>2. f \in N \ {y} /\ e \in CutBelow(N, sub, y)[f]
    BY <1>3, <2>1
  <2>3. e \in sub[f] \ {y}
    BY <2>2 DEF CutBelow
  <2>. QED BY <1>2, <2>1, <2>3
<1>8. Child(t, q, c) \in N /\ Child(t, q, c) # Nil /\ e \in N /\ e # Nil
  <2>1. Child(t, q, c) \in N /\ sub[Nil] = {} /\ sub \in [N -> SUBSET (N \ {Nil})]
    BY <1>1, TreeFacts DEF Shape, Below
  <2>. QED BY <1>7, <2>1
<1>9. CASE q = d
  <2>1. e # d
    BY <1>1, <1>7, <1>9, BelowFacts
  <2>2. Before(c, e, y)
    <3>1. CASE c = "left"
      <4>1. KeyOf[e] < KeyOf[d]
        BY <1>4, <1>7, <1>9, <3>1 DEF Before
      <4>2. KeyOf[e] < KeyOf[y]
        BY <1>1, <1>5, <1>6, <1>8, <4>1
      <4>. QED BY <3>1, <4>2 DEF Before
    <3>2. CASE c = "right"
      <4>1. KeyOf[y] < KeyOf[e]
        BY <1>1, <1>7, <1>9, <3>2
      <4>. QED BY <3>2, <4>1 DEF Before
    <3>. QED BY <3>1, <3>2 DEF Sides
  <2>. QED BY <1>9, <2>1, <2>2 DEF Now
<1>10. CASE q # d /\ e = d
  <2>1. y \in sub[Child(t, q, c)]
    BY <1>1, <1>7, <1>8, <1>10, InsideFacts
  <2>2. Before(c, y, q)
    BY <1>4, <2>1
  <2>. QED BY <1>10, <2>2 DEF Now
<1>11. CASE q # d /\ e # d
  <2>1. Before(c, e, q)
    BY <1>4, <1>7
  <2>. QED BY <1>11, <2>1 DEF Now
<1>. QED BY <1>9, <1>10, <1>11

\* A tree in order over some nodes
Sound(t, N) == \E sub, height : Shape(t, N, sub) /\ Balanced(t, N, height)

\* Del leaves a tree in order without its datum.
LEMMA RemovedFacts ==
  ASSUME NEW N, NEW t, NEW sub, NEW height, Shape(t, N, sub), Balanced(t, N, height),
         NEW d \in N, d # Nil
  PROVE  Sound(Removed(t, d), N \ {d})
<1>1. PICK y : y = Unlinked(t, d)
  OBVIOUS
<1>2. Unlinking(t, sub, d, y)
  BY <1>1, UnlinkedFacts
<1>3. PICK o : o = IF Child(t, y, "left") # Nil THEN "left" ELSE "right"
  OBVIOUS
<1>4. PICK x, p, s : x = Child(t, y, o) /\ p = Parent(t, y) /\ s = Place(t, p, y)
  OBVIOUS
<1>5. PICK u, v : u = Moved(Cut(t, y, x, p), y, y) /\ v = Moved(Cut(t, y, x, p), d, y)
  OBVIOUS
<1>6. Removed(t, d) = IF Red(t, y) THEN v ELSE FixDel(v, x)
  BY <1>1, <1>3, <1>4, <1>5 DEF Removed, Cut
<1>7. /\ N \subseteq Data \cup {Nil} /\ IsFiniteSet(N) /\ KeysDiffer(N) /\ Nil \in N
      /\ sub \in [N -> SUBSET (N \ {Nil})]
  BY DEF Shape, Tree, Below
<1>8. y \in N /\ y # Nil
  BY <1>2, <1>7 DEF Unlinking
<1>9. Loose(N, t, sub, y, x, p, s, o)
  <2>1. \E c \in Sides : Child(t, y, c) = Nil
    BY <1>2 DEF Unlinking
  <2>2. o \in Sides /\ Child(t, y, Other(o)) = Nil
    BY <1>3, <2>1 DEF Sides, Other
  <2>3. s \in Sides
    BY <1>4, SidesFacts DEF Place
  <2>. QED BY <1>4, <1>8, <2>2, <2>3 DEF Loose
<1>10. PICK h : h = [q \in N \ {y} |-> height[q]]
  OBVIOUS
<1>11. CutIs(N, t, u, y, x, p, s)
  BY <1>5, <1>9, CutFacts
<1>12. Shape(u, N \ {y}, CutBelow(N, sub, y))
  BY <1>9, <1>11, CutShape
<1>13. /\ Red(t, y) => Balanced(u, N \ {y}, h)
       /\ ~Red(t, y) => Deleting(u, N \ {y}, CutBelow(N, sub, y), h, x, p, s)
  BY <1>9, <1>10, <1>11, CutColours
<1>14. CASE y = d
  <2>1. v = u
    BY <1>5, <1>14
  <2>2. CASE Red(t, y)
    BY <1>6, <1>12, <1>13, <1>14, <2>1, <2>2 DEF Sound
  <2>3. CASE ~Red(t, y)
    <3>1. \E w, g : Shape(FixDel(u, x), N \ {y}, w) /\ Balanced(FixDel(u, x), N \ {y}, g)
      BY <1>13, <2>3, DelBalances
    <3>. QED BY <1>6, <1>14, <2>1, <2>3, <3>1 DEF Sound
  <2>. QED BY <2>2, <2>3
<1>15. CASE y # d
  <2>1. PICK w, z, g : /\ w = CutBelow(N, sub, y) /\ z = RenamedBelow(N, w, d, y)
                       /\ g = [k \in N \ {d} |-> h[Now(y, d, k)]]
    OBVIOUS
  <2>2. MovedIs(N, u, v, d, y)
    BY <1>5, <1>9, <1>15, CutFacts
  <2>3. Renamed(N, u, v, w, d, y)
    BY <1>7, <1>8, <1>12, <1>15, <2>1, <2>2 DEF Renamed
  <2>4. Fits(N, u, w, d, y)
    BY <1>2, <1>9, <1>11, <1>15, <2>1, NextFits
  <2>5. CASE Red(t, y)
    <3>1. Shape(v, N \ {d}, z)
      BY <2>1, <2>3, <2>4, RenameShape
    <3>2. Balanced(u, N \ {y}, h)
      BY <1>13, <2>5
    <3>3. Even(u, N \ {y}, h, NoData, "left") /\ NoData \in (N \ {y}) \cup {NoData}
      BY <3>2 DEF Balanced
    <3>4. SameColours(N \ {y}, N \ {d}, u, v, h, g, NoData, "left", d, y)
      BY <2>1, <2>3, <3>3, RenameColours
    <3>5. Now(d, y, NoData) = NoData
      BY <1>7, RBTreeAssumption DEF Now
    <3>6. Even(v, N \ {d}, g, NoData, "left") /\ RedsApart(v, N \ {d}, NoData, NoData)
      BY <3>2, <3>4, <3>5 DEF SameColours, Balanced
    <3>7. ~Red(v, v.root)
      BY <3>2, <3>4 DEF SameColours, Balanced
    <3>8. Balanced(v, N \ {d}, g)
      BY <3>6, <3>7 DEF Balanced
    <3>. QED BY <1>6, <2>5, <3>1, <3>8 DEF Sound
  <2>6. CASE ~Red(t, y)
    <3>1. Deleting(u, N \ {y}, w, h, x, p, s)
      BY <1>13, <2>1, <2>6
    <3>2. Deleting(v, N \ {d}, z, g, Now(d, y, x), Now(d, y, p), s)
      BY <2>1, <2>3, <2>4, <3>1, RenameDeleting
    <3>3. Now(d, y, x) = x
      <4>1. x # d
        <5>. SUFFICES ASSUME x = d PROVE FALSE
          OBVIOUS
        <5>1. y \notin sub[x]
          BY <1>9, LooseFacts
        <5>. QED BY <1>2, <5>1 DEF Unlinking
      <4>. QED BY <4>1 DEF Now
    <3>4. \E f, e : Shape(FixDel(v, x), N \ {d}, f) /\ Balanced(FixDel(v, x), N \ {d}, e)
      BY <3>2, <3>3, DelBalances
    <3>. QED BY <1>6, <2>6, <3>4 DEF Sound
  <2>. QED BY <2>5, <2>6
<1>. QED BY <1>14, <1>15

-----------------------------------------------------------------------------
(* The walk over the whole tree.                                           *)

VisitsOver(N) == [node : N, depth : Nat, blacks : Nat]

\* The visits that follow one
Under(t, v) ==
  [node : {Child(t, v.node, s) : s \in Sides}, depth : {v.depth + 1},
   blacks : {v.blacks + (IF Red(t, v.node) THEN 0 ELSE 1)}]

\* The blacks above a node and its height make the height of the root, and at least
\* every second node above it is black, every second one if it is red.
FineVisit(t, N, height, v) ==
  /\ v \in VisitsOver(N) /\ v.blacks + height[v.node] = height[t.root]
  /\ v.blacks + 1 <= v.depth /\ v.depth <= 2 * v.blacks + 1
  /\ Red(t, v.node) => v.depth <= 2 * v.blacks

\* All is visited that hangs at a node with more than k below it.
VisitClose(t, N, sub, height, k) ==
  {seen \in SUBSET VisitsOver(N) :
     /\ \A v \in seen : FineVisit(t, N, height, v)
     /\ \E v \in seen : v.node = t.root
     /\ \A q \in N \ {Nil}, c \in Sides : Cardinality(sub[q]) > k => \E v \in seen : v.node = Child(t, q, c)}

\* The children of a node are as deep as they may be.
LEMMA VisitGoesOn ==
  ASSUME NEW N, NEW t, NEW sub, NEW height, Shape(t, N, sub), Balanced(t, N, height),
         NEW v, FineVisit(t, N, height, v), v.node # Nil, NEW w \in Under(t, v)
  PROVE  FineVisit(t, N, height, w)
<1>1. PICK n, d, b : n = v.node /\ d = v.depth /\ b = v.blacks
  OBVIOUS
<1>2. /\ n \in N /\ n # Nil /\ d \in Nat /\ b \in Nat /\ Tree(t, N)
      /\ b + height[n] = height[t.root] /\ b + 1 <= d /\ d <= 2 * b + 1
      /\ Red(t, n) => d <= 2 * b
  BY <1>1 DEF FineVisit, VisitsOver, Shape
<1>3. PICK c \in Sides : w.node = Child(t, n, c)
  BY <1>1 DEF Under
<1>4. PICK m : m = Child(t, n, c)
  OBVIOUS
<1>5. m \in N /\ w.node = m /\ w.depth = d + 1 /\ w.blacks = b + Black(t, n) /\ Black(t, n) \in {0, 1}
      /\ w = [node |-> m, depth |-> d + 1, blacks |-> b + Black(t, n)]
  BY <1>1, <1>2, <1>3, <1>4, TreeFacts DEF Under, Black
<1>6. PICK e \in {0, 1} : e = Black(t, n)
  BY <1>5
<1>7. height[n] = e + height[m] /\ height[m] \in Nat
  BY <1>2, <1>4, <1>5, <1>6, EvenFacts DEF Balanced
<1>8. Red(t, n) <=> e = 0
  BY <1>6 DEF Black
<1>9. Red(t, n) => ~Red(t, m)
  BY <1>2, <1>4, <1>5, RBTreeAssumption DEF Balanced, RedsApart, Apart, Tree
<1>10. PICK a : a = b + e
  OBVIOUS
<1>11. a \in Nat /\ d + 1 \in Nat /\ a + height[m] = height[t.root] /\ a + 1 <= d + 1 /\ d + 1 <= 2 * a + 1
       /\ (e = 1 => d + 1 <= 2 * a)
  <2>1. height[t.root] \in Nat
    BY <1>2, EvenFacts, TreeFacts DEF Balanced
  <2>2. CASE e = 0
    BY <1>2, <1>7, <1>8, <1>10, <2>1, <2>2
  <2>3. CASE e = 1
    BY <1>2, <1>7, <1>10, <2>1, <2>3
  <2>. QED BY <2>2, <2>3
<1>12. w \in VisitsOver(N)
  BY <1>5, <1>6, <1>10, <1>11 DEF VisitsOver
<1>13. Red(t, m) => d + 1 <= 2 * a
  BY <1>6, <1>8, <1>9, <1>11
<1>14. w.node = m /\ w.depth = d + 1 /\ w.blacks = a
  BY <1>5, <1>6, <1>10
<1>. QED BY <1>11, <1>12, <1>13, <1>14 DEF FineVisit

\* The walk visits each node and the sentinel.
LEMMA VisitsFacts ==
  ASSUME NEW N, NEW t, NEW sub, NEW height, Shape(t, N, sub), Balanced(t, N, height)
  PROVE  /\ \A v \in Visits(t) : FineVisit(t, N, height, v)
         /\ \A n \in N : \E v \in Visits(t) : v.node = n
<1>1. /\ DOMAIN t.node = N /\ t.root \in N /\ Nil \in N /\ Tree(t, N)
      /\ Rounds(t) = Cardinality(N \ {Nil}) /\ Cardinality(N \ {Nil}) \in Nat
  BY TreeFacts, SizeFacts DEF Shape, Tree, Rounds
<1>2. PICK round, rounds :
        /\ rounds = Rounds(t)
        /\ round = [seen \in SUBSET VisitsOver(N) |->
                      seen \cup UNION {Under(t, v) : v \in {w \in seen : w.node # Nil}}]
  OBVIOUS
<1>3. PICK start : start = [node |-> t.root, depth |-> 1, blacks |-> 0]
  OBVIOUS
<1>4. PICK end : end = Looped(round, {start}, rounds)
  OBVIOUS
<1>5. Visits(t) = end
  BY <1>1, <1>2, <1>3, <1>4 DEF Visits, VisitsOver, Under
<1>6. PICK Close : Close = [k \in Nat |-> VisitClose(t, N, sub, height, k)]
  OBVIOUS
<1>7. {start} \in Close[rounds]
  <2>1. FineVisit(t, N, height, start)
    <3>1. start \in VisitsOver(N) /\ start.node = t.root /\ start.depth = 1 /\ start.blacks = 0
      BY <1>1, <1>3 DEF VisitsOver
    <3>2. height[t.root] \in Nat /\ ~Red(t, t.root)
      BY <1>1, EvenFacts DEF Balanced
    <3>. QED BY <3>1, <3>2 DEF FineVisit
  <2>2. ASSUME NEW q \in N \ {Nil}
        PROVE  ~(Cardinality(sub[q]) > rounds)
    <3>1. sub[q] \subseteq N \ {Nil} /\ IsFiniteSet(N \ {Nil})
      BY FS_Subset DEF Shape, Below
    <3>2. Cardinality(sub[q]) <= Cardinality(N \ {Nil}) /\ Cardinality(sub[q]) \in Nat
      BY <3>1, FS_Subset, FS_CardinalityType
    <3>. QED BY <1>1, <1>2, <3>2
  <2>3. start \in VisitsOver(N) /\ start.node = t.root
    BY <1>3, <2>1 DEF FineVisit
  <2>4. {start} \in VisitClose(t, N, sub, height, rounds)
    BY <2>1, <2>2, <2>3 DEF VisitClose
  <2>. QED BY <1>1, <1>2, <1>6, <2>4
<1>8. ASSUME NEW k \in Nat, NEW seen \in Close[k + 1]
      PROVE  round[seen] \in Close[k]
  <2>1. seen \in VisitClose(t, N, sub, height, k + 1)
    BY <1>6, <1>8
  <2>2. /\ seen \in SUBSET VisitsOver(N)
        /\ \A v \in seen : FineVisit(t, N, height, v)
        /\ \E v \in seen : v.node = t.root
        /\ \A q \in N \ {Nil}, c \in Sides :
             Cardinality(sub[q]) > k + 1 => \E v \in seen : v.node = Child(t, q, c)
    BY <2>1 DEF VisitClose
  <2>3. PICK next : next = round[seen]
    OBVIOUS
  <2>4. next = seen \cup UNION {Under(t, v) : v \in {w \in seen : w.node # Nil}}
    BY <1>2, <2>2, <2>3
  <2>5. seen \subseteq next /\ \A v \in seen : v.node # Nil => Under(t, v) \subseteq next
    BY <2>4
  <2>6. ASSUME NEW w \in next
        PROVE  FineVisit(t, N, height, w)
    <3>1. CASE w \in seen
      BY <2>2, <3>1
    <3>2. CASE w \notin seen
      <4>1. PICK v \in seen : v.node # Nil /\ w \in Under(t, v)
        BY <2>4, <3>2
      <4>. QED BY <2>2, <4>1, VisitGoesOn
    <3>. QED BY <3>1, <3>2
  <2>7. next \in SUBSET VisitsOver(N)
    BY <2>6 DEF FineVisit
  <2>8. ASSUME NEW q \in N \ {Nil}, NEW c \in Sides, Cardinality(sub[q]) > k
        PROVE  \E v \in next : v.node = Child(t, q, c)
    <3>1. CASE Cardinality(sub[q]) > k + 1
      BY <2>2, <2>5, <3>1
    <3>2. CASE ~(Cardinality(sub[q]) > k + 1)
      <4>1. PICK v \in seen : v.node = q
        <5>1. CASE q = t.root
          BY <2>2, <5>1
        <5>2. CASE q # t.root
          <6>1. PICK p, s : p = Parent(t, q) /\ s = SideOf(t, q)
            OBVIOUS
          <6>2. p \in N /\ p # Nil /\ s \in Sides /\ Child(t, p, s) = q
            BY <5>2, <6>1, AboveFacts
          <6>3. Cardinality(sub[q]) < Cardinality(sub[p]) /\ Cardinality(sub[p]) \in Nat
                /\ Cardinality(sub[q]) \in Nat
            BY <6>2, SizeFacts
          <6>4. Cardinality(sub[p]) > k + 1
            BY <2>8, <6>3
          <6>. QED BY <2>2, <6>2, <6>4
        <5>. QED BY <5>1, <5>2
      <4>2. PICK w : w = [node |-> Child(t, q, c), depth |-> v.depth + 1,
                          blacks |-> v.blacks + (IF Red(t, v.node) THEN 0 ELSE 1)]
        OBVIOUS
      <4>3. w \in Under(t, v) /\ w.node = Child(t, q, c)
        BY <4>1, <4>2 DEF Under
      <4>. QED BY <2>5, <4>1, <4>3
    <3>. QED BY <3>1, <3>2
  <2>9. next \in VisitClose(t, N, sub, height, k)
    BY <2>2, <2>5, <2>6, <2>7, <2>8 DEF VisitClose
  <2>. QED BY <1>6, <2>3, <2>9
<1>9. end \in Close[0]
  BY <1>1, <1>2, <1>4, <1>7, <1>8, LoopEnds
<1>10. /\ \A v \in end : FineVisit(t, N, height, v)
       /\ \E v \in end : v.node = t.root
       /\ \A q \in N \ {Nil}, c \in Sides :
            Cardinality(sub[q]) > 0 => \E v \in end : v.node = Child(t, q, c)
  <2>1. end \in VisitClose(t, N, sub, height, 0)
    BY <1>6, <1>9
  <2>. QED BY <2>1 DEF VisitClose
<1>11. \A q \in N \ {Nil}, c \in Sides : \E v \in end : v.node = Child(t, q, c)
  BY <1>10, SizeFacts
<1>12. ASSUME NEW n \in N
       PROVE  \E v \in end : v.node = n
  <2>1. CASE n = t.root
    BY <1>10, <2>1
  <2>2. CASE n # t.root /\ n # Nil
    <3>1. PICK p, s : p = Parent(t, n) /\ s = SideOf(t, n)
      OBVIOUS
    <3>2. p \in N /\ p # Nil /\ s \in Sides /\ Child(t, p, s) = n
      BY <2>2, <3>1, AboveFacts
    <3>. QED BY <1>11, <3>2
  <2>3. CASE n # t.root /\ n = Nil
    <3>1. PICK m : m = Leftmost(t, t.root)
      OBVIOUS
    <3>2. m \in sub[t.root] /\ Child(t, m, "left") = Nil
      BY <1>1, <2>3, <3>1, LeftmostFacts
    <3>3. m \in N \ {Nil} /\ "left" \in Sides
      BY <1>1, <3>2, SidesFacts DEF Shape, Below
    <3>. QED BY <1>11, <2>3, <3>2, <3>3
  <2>. QED BY <2>1, <2>2, <2>3
<1>. QED BY <1>5, <1>10, <1>12

-----------------------------------------------------------------------------
(* What a tree in order is.                                                *)

\* A tree in order is reached as a whole, and no leaf is twice as deep as another.
LEMMA ReachedFacts ==
  ASSUME NEW N, NEW t, Sound(t, N)
  PROVE  /\ Reached(t) = N \ {Nil} /\ Stored(t) = N \ {Nil}
         /\ Cardinality(BlackHeights(t)) = 1
         /\ \A a, b \in LeafDepths(t) : b <= 2 * a
<1>1. PICK sub, height : Shape(t, N, sub) /\ Balanced(t, N, height)
  BY DEF Sound
<1>2. /\ \A v \in Visits(t) : FineVisit(t, N, height, v)
      /\ \A n \in N : \E v \in Visits(t) : v.node = n
  BY <1>1, VisitsFacts
<1>3. Tree(t, N) /\ Nil \in N
  BY <1>1 DEF Shape, Tree
<1>4. PICK high : high = height[t.root]
  OBVIOUS
<1>5. /\ high \in Nat /\ height[Nil] = 0 /\ height \in [N -> Nat]
      /\ \A q \in N \ {Nil}, c \in Sides : height[q] = Black(t, q) + height[Child(t, q, c)]
  <2>1. t.root \in N
    BY <1>3, TreeFacts
  <2>. QED BY <1>1, <1>3, <1>4, <2>1, EvenFacts DEF Balanced
<1>6. Stored(t) = N \ {Nil}
  BY <1>3, TreeFacts
<1>7. Reached(t) = N \ {Nil}
  BY <1>2 DEF Reached, FineVisit, VisitsOver
<1>8. BlackHeights(t) = {high}
  <2>1. \A v \in Visits(t) : v.node = Nil => v.blacks = high
    BY <1>2, <1>4, <1>5 DEF FineVisit, VisitsOver
  <2>2. \E v \in Visits(t) : v.node = Nil
    BY <1>2, <1>3
  <2>. QED BY <2>1, <2>2 DEF BlackHeights
<1>9. Cardinality(BlackHeights(t)) = 1
  BY <1>8, FS_Singleton
<1>10. ASSUME NEW a \in LeafDepths(t)
       PROVE  a \in Nat /\ high <= a /\ a <= 2 * high
  <2>1. PICK v \in Visits(t) : v.node # Nil /\ v.depth = a /\ \A s \in Sides : Child(t, v.node, s) = Nil
    BY <1>10 DEF LeafDepths
  <2>2. PICK n, b : n = v.node /\ b = v.blacks
    OBVIOUS
  <2>3. /\ n \in N \ {Nil} /\ a \in Nat /\ b \in Nat /\ b + height[n] = high
        /\ b + 1 <= a /\ a <= 2 * b + 1 /\ (Red(t, n) => a <= 2 * b)
    BY <1>2, <1>4, <2>1, <2>2 DEF FineVisit, VisitsOver
  <2>4. height[n] = Black(t, n) + 0
    <3>1. "left" \in Sides /\ Child(t, n, "left") = Nil
      BY <2>1, <2>2, SidesFacts
    <3>. QED BY <1>5, <2>3, <3>1
  <2>5. CASE Red(t, n)
    BY <2>3, <2>4, <2>5 DEF Black
  <2>6. CASE ~Red(t, n)
    BY <2>3, <2>4, <2>6 DEF Black
  <2>. QED BY <2>5, <2>6
<1>11. ASSUME NEW a \in LeafDepths(t), NEW b \in LeafDepths(t)
       PROVE  b <= 2 * a
  BY <1>5, <1>10
<1>. QED BY <1>6, <1>7, <1>9, <1>11

-----------------------------------------------------------------------------
(* The tree and its pool.                                                  *)

TreeNodes == DOMAIN tree.node

TreeIInv ==
  /\ Sound(tree, TreeNodes)
  /\ spareNodes \in Nat /\ nodeSegments \in Nat
  /\ NodesAreConserved

\* The invariant has all that makes the tree sound.
LEMMA TreeIInvSound == TreeIInv => TreeIsSound
<1>. SUFFICES ASSUME TreeIInv PROVE TreeIsSound
  OBVIOUS
<1>1. PICK N, sub, height : N = TreeNodes /\ Shape(tree, N, sub) /\ Balanced(tree, N, height)
  BY DEF TreeIInv, Sound
<1>2. /\ Reached(tree) = N \ {Nil} /\ Stored(tree) = N \ {Nil}
      /\ Cardinality(BlackHeights(tree)) = 1
      /\ \A a, b \in LeafDepths(tree) : b <= 2 * a
  <2>1. Sound(tree, N)
    BY <1>1 DEF Sound
  <2>. QED BY <2>1, ReachedFacts
<1>3. LinksAgree
  BY <1>1, <1>2 DEF LinksAgree, Shape, Links
<1>4. ~Red(tree, tree.root) /\ ~Red(tree, Nil)
  BY <1>1 DEF Balanced, Even
<1>5. ASSUME NEW n \in Stored(tree), NEW s \in Sides, Red(tree, n)
      PROVE  ~Red(tree, Child(tree, n, s))
  <2>1. n \in N \ {Nil} /\ Tree(tree, N)
    BY <1>1, <1>2 DEF Shape
  <2>2. Child(tree, n, s) # NoData /\ n # NoData
    BY <2>1, TreeFacts, RBTreeAssumption DEF Tree
  <2>. QED BY <1>1, <1>5, <2>1, <2>2 DEF Balanced, RedsApart, Apart
<1>6. ColoursBalance
  BY <1>2, <1>4, <1>5 DEF ColoursBalance
<1>7. DepthsAreClose
  BY <1>2 DEF DepthsAreClose
<1>. QED BY <1>3, <1>6, <1>7 DEF TreeIsSound, TreeIInv

\* A tree of nothing but the sentinel
LEMMA EmptySound ==
  ASSUME NEW t, Tree(t, {Nil}), ~Red(t, Nil), \A s \in Sides : Child(t, Nil, s) = Nil
  PROVE  Sound(t, {Nil})
<1>1. PICK N, sub, height : N = {Nil} /\ sub = [q \in N |-> {}] /\ height = [q \in N |-> 0]
  OBVIOUS
<1>2. t.root = Nil
  BY TreeFacts
<1>3. Shape(t, N, sub)
  <2>1. IsFiniteSet(N)
    BY <1>1, FS_Singleton
  <2>2. Links(t, N)
    BY <1>1, <1>2 DEF Links
  <2>3. Below(t, N, sub)
    BY <1>1, <1>2 DEF Below
  <2>. QED BY <1>1, <2>1, <2>2, <2>3 DEF Shape, Sorted, KeysDiffer
<1>4. Balanced(t, N, height)
  <2>1. Even(t, N, height, NoData, "left")
    BY <1>1 DEF Even
  <2>. QED BY <1>1, <1>2, <2>1 DEF Balanced, RedsApart
<1>. QED BY <1>1, <1>3, <1>4 DEF Sound

\* The tree is in order at first, ...
LEMMA TreeInitIInv == TreeInit => TreeIInv
<1>. SUFFICES ASSUME TreeInit PROVE TreeIInv
  OBVIOUS
<1>1. tree = [root |-> Nil, node |-> [n \in {Nil} |-> NewNode(NoData, FALSE)]]
  BY DEF TreeInit
<1>2. tree.root = Nil /\ tree.node = [n \in {Nil} |-> NewNode(NoData, FALSE)]
  BY <1>1
<1>3. NewNode(NoData, FALSE) \in [child : [Sides -> {Nil}], parent : Data \cup {NoData}, red : BOOLEAN]
  BY DEF NewNode
<1>4. Tree(tree, {Nil})
  BY <1>1, <1>3 DEF Tree, TreesOver
<1>5. ~Red(tree, Nil) /\ \A s \in Sides : Child(tree, Nil, s) = Nil
  BY <1>2 DEF Red, Child, NewNode
<1>6. TreeNodes = {Nil}
  BY <1>2 DEF TreeNodes
<1>7. Sound(tree, TreeNodes)
  BY <1>4, <1>5, <1>6, EmptySound
<1>8. Cardinality(Stored(tree)) = 0
  <2>1. Stored(tree) = {}
    BY <1>6 DEF Stored, TreeNodes
  <2>. QED BY <2>1, FS_EmptySet
<1>9. NodesAreConserved
  BY <1>8, RBTreeAssumption DEF TreeInit, NodesAreConserved
<1>. QED BY <1>7, <1>9 DEF TreeInit, TreeIInv

\* What is stored and how much of it
LEMMA SoundFacts ==
  ASSUME NEW t, NEW N, Sound(t, N)
  PROVE  /\ Tree(t, N) /\ IsFiniteSet(N) /\ DOMAIN t.node = N /\ Stored(t) = N \ {Nil} /\ KeysDiffer(N)
         /\ Nil \in N /\ N \subseteq Data \cup {Nil}
         /\ Reached(t) = Stored(t) /\ IsFiniteSet(Stored(t)) /\ Cardinality(Stored(t)) \in Nat
<1>1. PICK sub, height : Shape(t, N, sub) /\ Balanced(t, N, height)
  BY DEF Sound
<1>2. Tree(t, N) /\ IsFiniteSet(N) /\ KeysDiffer(N) /\ Nil \in N /\ N \subseteq Data \cup {Nil}
  BY <1>1 DEF Shape, Tree
<1>3. DOMAIN t.node = N /\ Stored(t) = N \ {Nil}
  BY <1>2, TreeFacts
<1>4. IsFiniteSet(Stored(t)) /\ Cardinality(Stored(t)) \in Nat
  BY <1>2, <1>3, FS_Subset, FS_CardinalityType
<1>. QED BY <1>2, <1>3, <1>4, ReachedFacts

\* What the operations do to a sound tree

\* What the operations do to a tree in order: Push, ...
LEMMA PushFacts ==
  ASSUME NEW t, NEW N, Sound(t, N), NEW d \in Data
  PROVE  LET end == Descend(t, KeyOf[d])
             u == FixPush(Hung(t, d, end.parent), d)
         IN
         /\ end.node # Nil => end.node \in N \ {Nil} /\ KeyOf[end.node] = KeyOf[d]
         /\ end.node = Nil => /\ d \notin N /\ d # Nil /\ \A x \in N \ {Nil} : KeyOf[x] # KeyOf[d]
                              /\ Sound(u, N \cup {d})
<1>1. PICK sub, height : Shape(t, N, sub) /\ Balanced(t, N, height)
  BY DEF Sound
<1>2. KeyOf[d] \in Int /\ d # Nil
  BY RBTreeAssumption
<1>3. PICK n, p : Descend(t, KeyOf[d]) = Step(n, p) /\ Searching(t, N, sub, KeyOf[d], n, p)
                  /\ (n = Nil \/ KeyOf[n] = KeyOf[d])
  BY <1>1, <1>2, DescendFacts
<1>4. PICK end : end = Descend(t, KeyOf[d])
  OBVIOUS
<1>5. end.node = n /\ end.parent = p /\ n \in N
  BY <1>3, <1>4 DEF Step, Searching
<1>6. ASSUME n = Nil
      PROVE  /\ d \notin N /\ (\A x \in N \ {Nil} : KeyOf[x] # KeyOf[d])
             /\ Sound(FixPush(Hung(t, d, p), d), N \cup {d})
  <2>1. Descend(t, KeyOf[d]) = Step(Nil, p)
    BY <1>3, <1>6
  <2>2. d \notin N /\ (\A x \in N \ {Nil} : KeyOf[x] # KeyOf[d])
    BY <1>1, <2>1, PushedFacts
  <2>3. \E w, h : /\ Shape(FixPush(Hung(t, d, p), d), N \cup {d}, w)
                  /\ Balanced(FixPush(Hung(t, d, p), d), N \cup {d}, h)
    BY <1>1, <2>1, PushedFacts
  <2>. QED BY <2>2, <2>3 DEF Sound
<1>. QED BY <1>2, <1>3, <1>4, <1>5, <1>6

\* ... Find, ...
LEMMA FindFacts ==
  ASSUME NEW t, NEW N, Sound(t, N), NEW k \in Int
  PROVE  LET n == Descend(t, k).node IN
         /\ n # Nil => n \in N \ {Nil} /\ KeyOf[n] = k
         /\ n = Nil => \A x \in N \ {Nil} : KeyOf[x] # k
<1>1. PICK sub, height : Shape(t, N, sub) /\ Balanced(t, N, height)
  BY DEF Sound
<1>2. PICK n, p : Descend(t, k) = Step(n, p) /\ Searching(t, N, sub, k, n, p) /\ (n = Nil \/ KeyOf[n] = k)
  BY <1>1, DescendFacts
<1>3. Descend(t, k).node = n
  BY <1>2 DEF Step
<1>4. n \in N /\ sub[Nil] = {} /\ \A x \in N \ {Nil} : KeyOf[x] = k => x \in sub[n]
  BY <1>1, <1>2 DEF Searching, Shape, Below
<1>. QED BY <1>2, <1>3, <1>4

\* ... Del, ...
LEMMA RemovedSound ==
  ASSUME NEW t, NEW N, Sound(t, N), NEW d \in N \ {Nil}
  PROVE  Sound(Removed(t, d), N \ {d})
<1>1. PICK sub, height : Shape(t, N, sub) /\ Balanced(t, N, height)
  BY DEF Sound
<1>. QED BY <1>1, RemovedFacts

Cleared(t) == [root |-> Nil, node |-> [n \in {Nil} |-> t.node[Nil]]]

\* ... and Clear
LEMMA ClearedSound ==
  ASSUME NEW t, NEW N, Sound(t, N)
  PROVE  Sound(Cleared(t), {Nil})
<1>1. PICK sub, height : Shape(t, N, sub) /\ Balanced(t, N, height)
  BY DEF Sound
<1>2. Tree(t, N) /\ Nil \in N /\ (\A s \in Sides : Child(t, Nil, s) = Nil)
  BY <1>1 DEF Shape, Tree, Links
<1>3. ~Red(t, Nil)
  BY <1>1 DEF Balanced, Even
<1>4. PICK u : u = Cleared(t)
  OBVIOUS
<1>5. u.root = Nil /\ u.node = [n \in {Nil} |-> t.node[Nil]]
      /\ u = [root |-> Nil, node |-> [n \in {Nil} |-> t.node[Nil]]]
  BY <1>4 DEF Cleared
<1>6. t.node[Nil] \in [child : [Sides -> N], parent : Data \cup {NoData}, red : BOOLEAN]
  BY <1>2 DEF Tree, TreesOver
<1>7. t.node[Nil].child \in [Sides -> {Nil}]
  BY <1>2, <1>6 DEF Child
<1>8. t.node[Nil] \in [child : [Sides -> {Nil}], parent : Data \cup {NoData}, red : BOOLEAN]
  BY <1>6, <1>7
<1>9. Tree(u, {Nil})
  BY <1>5, <1>8 DEF Tree, TreesOver
<1>10. \A s \in Sides : Child(u, Nil, s) = Nil
  BY <1>2, <1>5 DEF Child
<1>11. ~Red(u, Nil)
  BY <1>3, <1>5 DEF Red
<1>. QED BY <1>4, <1>9, <1>10, <1>11, EmptySound

\* Each action keeps the tree in order and its nodes counted.
LEMMA SoundStep ==
  ASSUME TreeIInv, NEW M, Sound(tree', M), spareNodes' \in Nat, nodeSegments' \in Nat,
         spareNodes' + Cardinality(M \ {Nil}) = nodeSegments' * NodeSegment
  PROVE  TreeIInv'
<1>1. PICK t : t = tree'
  OBVIOUS
<1>2. DOMAIN t.node = M /\ Stored(t) = M \ {Nil}
  BY <1>1, SoundFacts
<1>3. TreeNodes' = M
  BY <1>1, <1>2 DEF TreeNodes
<1>4. Sound(tree, TreeNodes)'
  BY <1>3
<1>5. NodesAreConserved'
  BY <1>1, <1>2 DEF NodesAreConserved
<1>. QED BY <1>4, <1>5 DEF TreeIInv

\* ... after Push, ...
LEMMA PushStep ==
  ASSUME TreeIInv, NEW d \in Data, Push(d)
  PROVE  TreeIInv'
<1>1. PICK N, t : N = TreeNodes /\ t = tree
  OBVIOUS
<1>2. Sound(t, N) /\ IsFiniteSet(N \ {Nil}) /\ Cardinality(N \ {Nil}) \in Nat
      /\ spareNodes \in Nat /\ nodeSegments \in Nat
      /\ spareNodes + Cardinality(N \ {Nil}) = nodeSegments * NodeSegment
      /\ NodeSegment \in Nat \ {0}
  <2>1. Sound(t, N)
    BY <1>1 DEF TreeIInv
  <2>2. Stored(t) = N \ {Nil} /\ IsFiniteSet(Stored(t)) /\ Cardinality(Stored(t)) \in Nat
    BY <2>1, SoundFacts
  <2>. QED BY <1>1, <2>1, <2>2, RBTreeAssumption DEF TreeIInv, NodesAreConserved
<1>3. CASE UNCHANGED <<tree, spareNodes, nodeSegments>>
  BY <1>1, <1>2, <1>3, SoundStep
<1>4. CASE ~UNCHANGED <<tree, spareNodes, nodeSegments>>
  <2>1. PICK end : end = Descend(t, KeyOf[d])
    OBVIOUS
  <2>2. end.node = Nil /\ NodeAllocate /\ tree' = FixPush(Hung(t, d, end.parent), d)
    BY <1>1, <1>4, <2>1 DEF Push
  <2>3. d \notin N /\ d # Nil /\ Sound(tree', N \cup {d})
    BY <1>2, <2>1, <2>2, PushFacts
  <2>4. Cardinality((N \cup {d}) \ {Nil}) = Cardinality(N \ {Nil}) + 1
    <3>1. (N \cup {d}) \ {Nil} = (N \ {Nil}) \cup {d}
      BY <2>3
    <3>. QED BY <1>2, <2>3, <3>1, FS_AddElement
  <2>5. /\ spareNodes' \in Nat /\ nodeSegments' \in Nat
        /\ spareNodes' + Cardinality((N \cup {d}) \ {Nil}) = nodeSegments' * NodeSegment
    <3>1. CASE spareNodes > 0 /\ spareNodes' = spareNodes - 1 /\ UNCHANGED nodeSegments
      BY <1>2, <2>4, <3>1
    <3>2. CASE spareNodes = 0 /\ nodeSegments' = nodeSegments + 1 /\ spareNodes' = NodeSegment - 1
      <4>1. (nodeSegments + 1) * NodeSegment = nodeSegments * NodeSegment + NodeSegment
        BY <1>2
      <4>. QED BY <1>2, <2>4, <3>2, <4>1
    <3>. QED BY <2>2, <3>1, <3>2 DEF NodeAllocate, PoolSegmentCreate
  <2>. QED BY <1>1, <2>3, <2>5, SoundStep
<1>. QED BY <1>3, <1>4

\* ... after Del, ...
LEMMA DelStep ==
  ASSUME TreeIInv, NEW d \in Data, Del(d)
  PROVE  TreeIInv'
<1>1. PICK N, t : N = TreeNodes /\ t = tree
  OBVIOUS
<1>2. Sound(t, N) /\ Stored(t) = N \ {Nil} /\ IsFiniteSet(N \ {Nil}) /\ Cardinality(N \ {Nil}) \in Nat
      /\ spareNodes \in Nat /\ nodeSegments \in Nat
      /\ spareNodes + Cardinality(N \ {Nil}) = nodeSegments * NodeSegment
  <2>1. Sound(t, N)
    BY <1>1 DEF TreeIInv
  <2>2. Stored(t) = N \ {Nil} /\ IsFiniteSet(Stored(t)) /\ Cardinality(Stored(t)) \in Nat
    BY <2>1, SoundFacts
  <2>. QED BY <1>1, <2>1, <2>2 DEF TreeIInv, NodesAreConserved
<1>3. d \in N \ {Nil} /\ tree' = Removed(t, d) /\ spareNodes' = spareNodes + 1 /\ nodeSegments' = nodeSegments
  BY <1>1, <1>2 DEF Del, NodeFree
<1>4. Sound(tree', N \ {d})
  BY <1>2, <1>3, RemovedSound
<1>5. Cardinality((N \ {d}) \ {Nil}) = Cardinality(N \ {Nil}) - 1
  <2>1. (N \ {d}) \ {Nil} = (N \ {Nil}) \ {d}
    OBVIOUS
  <2>. QED BY <1>2, <1>3, <2>1, FS_RemoveElement
<1>6. spareNodes' \in Nat /\ nodeSegments' \in Nat
      /\ spareNodes' + Cardinality((N \ {d}) \ {Nil}) = nodeSegments' * NodeSegment
  BY <1>2, <1>3, <1>5
<1>. QED BY <1>1, <1>4, <1>6, SoundStep

\* ... after Clear, ...
LEMMA ClearStep ==
  ASSUME TreeIInv, TreeClear
  PROVE  TreeIInv'
<1>1. PICK N, t : N = TreeNodes /\ t = tree
  OBVIOUS
<1>2. Sound(t, N) /\ Cardinality(Reached(t)) \in Nat
      /\ spareNodes \in Nat /\ nodeSegments \in Nat
      /\ spareNodes + Cardinality(Reached(t)) = nodeSegments * NodeSegment
  <2>1. Sound(t, N)
    BY <1>1 DEF TreeIInv
  <2>2. Stored(t) = Reached(t) /\ Cardinality(Stored(t)) \in Nat
    BY <2>1, SoundFacts
  <2>. QED BY <1>1, <2>1, <2>2 DEF TreeIInv, NodesAreConserved
<1>3. tree' = Cleared(t) /\ spareNodes' = spareNodes + Cardinality(Reached(t)) /\ nodeSegments' = nodeSegments
  BY <1>1 DEF TreeClear, NodeFree, Cleared
<1>4. Sound(tree', {Nil})
  BY <1>2, <1>3, ClearedSound
<1>5. Cardinality({Nil} \ {Nil}) = 0
  <2>1. {Nil} \ {Nil} = {}
    OBVIOUS
  <2>. QED BY <2>1, FS_EmptySet
<1>6. spareNodes' \in Nat /\ nodeSegments' \in Nat
      /\ spareNodes' + Cardinality({Nil} \ {Nil}) = nodeSegments' * NodeSegment
  BY <1>2, <1>3, <1>5
<1>. QED BY <1>1, <1>4, <1>6, SoundStep

\* ... and after each step.
LEMMA TreeStep == TreeIInv /\ [TreeNext]_treeVars => TreeIInv'
<1>. SUFFICES ASSUME TreeIInv, [TreeNext]_treeVars PROVE TreeIInv'
  OBVIOUS
<1>1. ASSUME NEW d \in Data, Push(d) PROVE TreeIInv'
  BY <1>1, PushStep
<1>2. ASSUME NEW d \in Data, Del(d) PROVE TreeIInv'
  BY <1>2, DelStep
<1>3. ASSUME UNCHANGED <<tree, spareNodes, nodeSegments>> PROVE TreeIInv'
  BY <1>3 DEF TreeIInv, TreeNodes, NodesAreConserved
<1>4. ASSUME NEW k \in Keys, Find(k) PROVE TreeIInv'
  BY <1>3, <1>4 DEF Find
<1>5. ASSUME TreeClear PROVE TreeIInv'
  BY <1>5, ClearStep
<1>6. ASSUME UNCHANGED treeVars PROVE TreeIInv'
  BY <1>3, <1>6 DEF treeVars
<1>. QED BY <1>1, <1>2, <1>4, <1>5, <1>6 DEF TreeNext

\* It is always in order.
LEMMA TreeInvariant == TreeSpec => []TreeIInv
BY TreeInitIInv, TreeStep, PTL DEF TreeSpec

\* Whatever is stored and deleted, in whatever order and however much: the links of the
\* tree agree both ways and reach each node, the tree is balanced, no leaf is twice as
\* deep as another, and each node of the pool is in the tree or spare.
THEOREM TreeStaysSound == TreeSpec => []TreeIsSound
BY TreeInvariant, TreeIInvSound, PTL

-----------------------------------------------------------------------------
(* The dictionary.                                                         *)

\* f gives the datum of each key among nodes.
Holding(f, N) ==
  /\ f = [k \in Keys |-> f[k]]
  /\ \A d \in N \ {Nil} : f[KeyOf[d]] = d
  /\ \A k \in Keys : (\A d \in N \ {Nil} : KeyOf[d] # k) => f[k] = NoData

\* There is one such function for a set of nodes.
LEMMA HoldingSame ==
  ASSUME NEW N, NEW f, NEW g, Holding(f, N), Holding(g, N)
  PROVE  f = g
<1>1. \A k \in Keys : f[k] = g[k]
  BY DEF Holding
<1>. QED BY <1>1 DEF Holding

\* The tree holds what its nodes are.
LEMMA HeldFacts ==
  ASSUME NEW t, NEW N, Sound(t, N)
  PROVE  Holding(Held(t), N)
<1>1. Stored(t) = N \ {Nil} /\ KeysDiffer(N) /\ N \subseteq Data \cup {Nil}
  BY SoundFacts
<1>2. Held(t) = [k \in Keys |-> IF \E d \in Stored(t) : KeyOf[d] = k
                               THEN CHOOSE d \in Stored(t) : KeyOf[d] = k ELSE NoData]
  BY DEF Held
<1>3. ASSUME NEW d \in N \ {Nil}
      PROVE  Held(t)[KeyOf[d]] = d
  <2>1. KeyOf[d] \in Keys
    BY <1>1 DEF Keys
  <2>2. Held(t)[KeyOf[d]] = CHOOSE e \in Stored(t) : KeyOf[e] = KeyOf[d]
    BY <1>1, <1>2, <2>1
  <2>3. PICK e : e = CHOOSE a \in Stored(t) : KeyOf[a] = KeyOf[d]
    OBVIOUS
  <2>4. e \in Stored(t) /\ KeyOf[e] = KeyOf[d]
    BY <1>1, <2>3
  <2>5. e = d
    BY <1>1, <2>4 DEF KeysDiffer
  <2>. QED BY <2>2, <2>3, <2>5
<1>4. \A k \in Keys : (\A d \in N \ {Nil} : KeyOf[d] # k) => Held(t)[k] = NoData
  BY <1>1, <1>2
<1>5. Held(t) = [k \in Keys |-> Held(t)[k]]
  BY <1>2
<1>. QED BY <1>3, <1>4, <1>5 DEF Holding

\* The empty tree is the empty dictionary.
LEMMA DictionaryInit == TreeInit => AsDictionary!Init
<1>. SUFFICES ASSUME TreeInit PROVE AsDictionary!Init
  OBVIOUS
<1>1. Stored(tree) = {} /\ found = NoData
  BY DEF TreeInit, Stored
<1>2. Held(tree) = [k \in Keys |-> NoData]
  BY <1>1 DEF Held
<1>. QED BY <1>1, <1>2 DEF AsDictionary!Init, AsDictionary!Keys, Keys

\* Push is that of the dictionary, ...
LEMMA DictionaryPush ==
  ASSUME TreeIInv, NEW d \in Data, Push(d)
  PROVE  AsDictionary!Push(d)
<1>1. PICK N, t, f, g, k : N = TreeNodes /\ t = tree /\ f = Held(t) /\ g = Held(tree') /\ k = KeyOf[d]
  OBVIOUS
<1>2. Sound(t, N) /\ Holding(f, N) /\ NoData \notin N /\ k \in Keys /\ k \in Int
  <2>1. Sound(t, N)
    BY <1>1 DEF TreeIInv
  <2>2. N \subseteq Data \cup {Nil}
    BY <2>1, SoundFacts
  <2>. QED BY <1>1, <2>1, <2>2, HeldFacts, RBTreeAssumption DEF Keys
<1>3. PICK end : end = Descend(t, k)
  OBVIOUS
<1>4. /\ end.node # Nil => end.node \in N \ {Nil} /\ KeyOf[end.node] = k
      /\ end.node = Nil => /\ d \notin N /\ d # Nil /\ \A x \in N \ {Nil} : KeyOf[x] # k
                           /\ Sound(FixPush(Hung(t, d, end.parent), d), N \cup {d})
  <2>1. end = Descend(t, KeyOf[d])
    BY <1>1, <1>3
  <2>2. /\ end.node # Nil => end.node \in N \ {Nil} /\ KeyOf[end.node] = KeyOf[d]
        /\ end.node = Nil => /\ d \notin N /\ d # Nil /\ \A x \in N \ {Nil} : KeyOf[x] # KeyOf[d]
                             /\ Sound(FixPush(Hung(t, d, end.parent), d), N \cup {d})
    BY <1>2, <2>1, PushFacts
  <2>3. k = KeyOf[d]
    BY <1>1
  <2>. QED BY <2>2, <2>3
<1>5. end.node # Nil => f[k] = end.node /\ f[k] # NoData
  BY <1>2, <1>4 DEF Holding
<1>6. end.node = Nil => f[k] = NoData
  BY <1>2, <1>4 DEF Holding
<1>7. CASE end.node # Nil
  <2>1. found' = Answer(k, f[k]) /\ g = f
    BY <1>1, <1>3, <1>5, <1>7 DEF Push
  <2>. QED BY <1>1, <1>5, <1>7, <2>1 DEF AsDictionary!Push, AsDictionary!Answer, Answer
<1>8. CASE end.node = Nil
  <2>1. CASE tree' = tree /\ found' = Answer(k, NoData)
    BY <1>1, <1>6, <1>8, <2>1 DEF AsDictionary!Push, AsDictionary!Answer, Answer
  <2>2. CASE tree' = FixPush(Hung(t, d, end.parent), d) /\ found' = Answer(k, d)
    <3>1. Sound(tree', N \cup {d})
      BY <1>4, <1>8, <2>2
    <3>2. Holding(g, N \cup {d})
      BY <1>1, <3>1, HeldFacts
    <3>3. PICK e : e = [f EXCEPT ![k] = d]
      OBVIOUS
    <3>4. /\ f = [i \in Keys |-> f[i]]
          /\ \A a \in N \ {Nil} : f[KeyOf[a]] = a
          /\ \A i \in Keys : (\A a \in N \ {Nil} : KeyOf[a] # i) => f[i] = NoData
      BY <1>2 DEF Holding
    <3>5. e = [i \in Keys |-> e[i]] /\ \A i \in Keys : e[i] = IF i = k THEN d ELSE f[i]
      BY <1>2, <3>3, <3>4
    <3>6. \A a \in N \ {Nil} : KeyOf[a] \in Keys /\ KeyOf[a] # k
      <4>1. N \subseteq Data \cup {Nil}
        BY <1>2, SoundFacts
      <4>. QED BY <1>4, <1>8, <4>1 DEF Keys
    <3>7. Holding(e, N \cup {d})
      <4>1. \A a \in (N \cup {d}) \ {Nil} : e[KeyOf[a]] = a
        BY <1>1, <1>2, <3>4, <3>5, <3>6
      <4>2. ASSUME NEW i \in Keys, \A a \in (N \cup {d}) \ {Nil} : KeyOf[a] # i
            PROVE  e[i] = NoData
        <5>1. i # k
          BY <1>1, <1>4, <1>8, <4>2
        <5>. QED BY <3>4, <3>5, <4>2, <5>1
      <4>. QED BY <3>5, <4>1, <4>2 DEF Holding
    <3>8. g = e
      BY <3>2, <3>7, HoldingSame
    <3>. QED BY <1>1, <1>6, <1>8, <2>2, <3>3, <3>8 DEF AsDictionary!Push, AsDictionary!Answer, Answer
  <2>. QED BY <1>1, <1>3, <1>8, <2>1, <2>2 DEF Push
<1>. QED BY <1>7, <1>8

\* ... Find is, ...
LEMMA DictionaryFind ==
  ASSUME TreeIInv, NEW k \in Keys, Find(k)
  PROVE  AsDictionary!Find(k)
<1>1. PICK N, t, f : N = TreeNodes /\ t = tree /\ f = Held(t)
  OBVIOUS
<1>2. Sound(t, N) /\ Holding(f, N) /\ k \in Int
  <2>1. Sound(t, N)
    BY <1>1 DEF TreeIInv
  <2>. QED BY <1>1, <2>1, HeldFacts, RBTreeAssumption DEF Keys
<1>3. PICK n : n = Descend(t, k).node
  OBVIOUS
<1>4. /\ n # Nil => n \in N \ {Nil} /\ KeyOf[n] = k
      /\ n = Nil => \A x \in N \ {Nil} : KeyOf[x] # k
  BY <1>2, <1>3, FindFacts
<1>5. f[k] = IF n = Nil THEN NoData ELSE n
  BY <1>2, <1>4 DEF Holding
<1>6. found' = Answer(k, IF n = Nil THEN NoData ELSE n) /\ tree' = tree
  BY <1>1, <1>3 DEF Find
<1>. QED BY <1>1, <1>5, <1>6 DEF AsDictionary!Find, AsDictionary!Answer, Answer

\* ... Del of a datum is that of its key, ...
LEMMA DictionaryDel ==
  ASSUME TreeIInv, NEW d \in Data, Del(d)
  PROVE  KeyOf[d] \in Keys /\ AsDictionary!Del(KeyOf[d])
<1>1. PICK N, t, f, g, k : N = TreeNodes /\ t = tree /\ f = Held(t) /\ g = Held(tree') /\ k = KeyOf[d]
  OBVIOUS
<1>2. /\ Sound(t, N) /\ Holding(f, N) /\ NoData \notin N /\ k \in Keys /\ d \in N \ {Nil}
      /\ KeysDiffer(N) /\ N \subseteq Data \cup {Nil}
  <2>1. Sound(t, N)
    BY <1>1 DEF TreeIInv
  <2>2. N \subseteq Data \cup {Nil} /\ Stored(t) = N \ {Nil} /\ KeysDiffer(N)
    BY <2>1, SoundFacts
  <2>. QED BY <1>1, <2>1, <2>2, HeldFacts, RBTreeAssumption DEF Keys, Del
<1>3. tree' = Removed(t, d) /\ found' = NoData
  BY <1>1 DEF Del
<1>4. Holding(g, N \ {d})
  <2>1. Sound(tree', N \ {d})
    BY <1>2, <1>3, RemovedSound
  <2>. QED BY <1>1, <2>1, HeldFacts
<1>5. PICK e : e = [f EXCEPT ![k] = NoData]
  OBVIOUS
<1>6. /\ f = [i \in Keys |-> f[i]]
      /\ \A a \in N \ {Nil} : f[KeyOf[a]] = a
      /\ \A i \in Keys : (\A a \in N \ {Nil} : KeyOf[a] # i) => f[i] = NoData
  BY <1>2 DEF Holding
<1>7. e = [i \in Keys |-> e[i]] /\ \A i \in Keys : e[i] = IF i = k THEN NoData ELSE f[i]
  BY <1>2, <1>5, <1>6
<1>8. \A a \in (N \ {d}) \ {Nil} : KeyOf[a] \in Keys /\ KeyOf[a] # k
  BY <1>1, <1>2 DEF Keys, KeysDiffer
<1>9. Holding(e, N \ {d})
  <2>1. \A a \in (N \ {d}) \ {Nil} : e[KeyOf[a]] = a
    BY <1>6, <1>7, <1>8
  <2>2. ASSUME NEW i \in Keys, \A a \in (N \ {d}) \ {Nil} : KeyOf[a] # i
        PROVE  e[i] = NoData
    <3>1. CASE i = k
      BY <1>7, <3>1
    <3>2. CASE i # k
      BY <1>1, <1>6, <1>7, <2>2, <3>2
    <3>. QED BY <3>1, <3>2
  <2>. QED BY <1>7, <2>1, <2>2 DEF Holding
<1>10. g = e
  BY <1>4, <1>9, HoldingSame
<1>11. f[k] # NoData
  BY <1>1, <1>2, <1>6
<1>. QED BY <1>1, <1>2, <1>3, <1>5, <1>10, <1>11 DEF AsDictionary!Del

\* ... and Clear is.
LEMMA DictionaryClear ==
  ASSUME TreeIInv, TreeClear
  PROVE  AsDictionary!Clear
<1>1. PICK u : u = tree'
  OBVIOUS
<1>2. Stored(u) = {} /\ found' = NoData
  BY <1>1 DEF TreeClear, Stored
<1>3. Held(u) = [k \in Keys |-> NoData]
  BY <1>2 DEF Held
<1>. QED BY <1>1, <1>2, <1>3 DEF AsDictionary!Clear, AsDictionary!Keys, Keys

\* Each step of the tree is one of the dictionary.
LEMMA DictionaryStep == TreeIInv /\ [TreeNext]_treeVars => [AsDictionary!Next]_(AsDictionary!vars)
<1>. SUFFICES ASSUME TreeIInv, [TreeNext]_treeVars PROVE [AsDictionary!Next]_(AsDictionary!vars)
  OBVIOUS
<1>1. ASSUME NEW d \in Data, Push(d) PROVE AsDictionary!Next
  BY <1>1, DictionaryPush DEF AsDictionary!Next
<1>2. ASSUME NEW d \in Data, Del(d) PROVE AsDictionary!Next
  <2>1. KeyOf[d] \in Keys /\ AsDictionary!Del(KeyOf[d])
    BY <1>2, DictionaryDel
  <2>. QED BY <2>1 DEF AsDictionary!Next, AsDictionary!Keys, Keys
<1>3. ASSUME NEW k \in Keys, Find(k) PROVE AsDictionary!Next
  <2>1. AsDictionary!Find(k)
    BY <1>3, DictionaryFind
  <2>. QED BY <2>1 DEF AsDictionary!Next, AsDictionary!Keys, Keys
<1>4. ASSUME TreeClear PROVE AsDictionary!Next
  BY <1>4, DictionaryClear DEF AsDictionary!Next
<1>5. ASSUME UNCHANGED treeVars PROVE UNCHANGED AsDictionary!vars
  BY <1>5 DEF treeVars, AsDictionary!vars
<1>. QED BY <1>1, <1>2, <1>3, <1>4, <1>5 DEF TreeNext

\* Each operation of the tree is one of the dictionary: whatever the shape of the tree,
\* the search finds the datum of the key and nothing else.
THEOREM TreeIsADictionary == TreeSpec => TreeIsDictionary
<1>1. TreeSpec => []TreeIInv
  BY TreeInvariant
<1>. QED BY <1>1, DictionaryInit, DictionaryStep, PTL DEF TreeSpec, TreeIsDictionary, AsDictionary!Spec
=============================================================================
