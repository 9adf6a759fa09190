---------------------------- MODULE LoopTheorems ----------------------------
(***************************************************************************)
(* What the proofs about the loops of the program rest on: induction over  *)
(* the turns of a loop, and that the function a recursive definition means *)
(* exists.  Both are stated with sets and functions in place of operators, *)
(* and follow from the least member of a finite set of numbers.            *)
(***************************************************************************)
EXTENDS Integers, FiniteSetTheorems, TLAPS

\* Of finitely many numbers one is the least: it is the one below which there
\* is the least set of others.
LEMMA LeastNumber ==
    ASSUME NEW n \in Nat, NEW S \in SUBSET (0 .. n), S # {}
    PROVE  \E i \in S : \A j \in S : i <= j
<1> DEFINE Below(i) == {j \in S : j < i}
           Belows == {Below(i) : i \in S}
<1>1. IsWellFoundedOn(StrictSubsetOrdering(S), SUBSET S)
  <2>1. IsFiniteSet(0 .. n)
    BY FS_Interval
  <2>2. IsFiniteSet(S)
    BY <2>1, FS_Subset
  <2> QED
    BY <2>2, FS_StrictSubsetOrderingWellFounded, FS_FiniteSubsetsOfFinite
<1>2. PICK A \in Belows : \A B \in Belows : <<B, A>> \notin StrictSubsetOrdering(S)
  <2>1. Belows \subseteq SUBSET S /\ Belows # {}
    OBVIOUS
  <2> QED
    BY <1>1, <2>1, WFMin
<1>3. PICK i \in S : A = Below(i)
  OBVIOUS
<1>4. ASSUME NEW j \in S, j < i
      PROVE  FALSE
  <2>1. S \subseteq Int
    OBVIOUS
  <2>2. Below(j) \subseteq Below(i) /\ j \in Below(i) /\ j \notin Below(j)
    <3>1. \A k \in S : k < j => k < i
      BY <1>4, <2>1
    <3>2. ~(j < j)
      BY <2>1
    <3> QED
      BY <1>4, <3>1, <3>2
  <2>3. <<Below(j), Below(i)>> \in StrictSubsetOrdering(S)
    BY <2>2 DEF StrictSubsetOrdering
  <2> QED
    BY <1>2, <1>3, <2>3
<1> QED
  BY <1>4

\* What holds before a loop and is kept by every turn holds after each of its
\* n turns: S is the set of the turns after which it holds.
LEMMA TurnsInduction ==
    ASSUME NEW n \in Nat, NEW S,
           0 \in S,
           \A i \in 1 .. n : i - 1 \in S => i \in S
    PROVE  \A i \in 0 .. n : i \in S
<1> DEFINE Others == {i \in 0 .. n : i \notin S}
<1>1. SUFFICES ASSUME Others # {} PROVE FALSE
  OBVIOUS
<1>2. PICK i \in Others : \A j \in Others : i <= j
  BY <1>1, LeastNumber
<1>3. i \in 1 .. n /\ i - 1 \in 0 .. n /\ ~(i <= i - 1)
  BY <1>2
<1>4. i - 1 \in S
  BY <1>2, <1>3
<1> QED
  BY <1>2, <1>3, <1>4

\* The values f that a loop goes through, of which turn[i] is the i-th turn.
IsRun(f, n, begin, turn) ==
    f[0] = begin /\ \A i \in 1 .. n : f[i] = turn[i][f[i - 1]]

\* A loop of n turns goes through some values: a function defined by recursion
\* over the turns exists.
LEMMA TurnsExist ==
    ASSUME NEW n \in Nat, NEW W, NEW begin \in W, NEW turn \in [1 .. n -> [W -> W]]
    PROVE  \E f \in [0 .. n -> W] : IsRun(f, n, begin, turn)
<1> DEFINE Runs(k, f) == f[0] = begin /\ \A i \in 1 .. k : f[i] = turn[i][f[i - 1]]
           S == {k \in 0 .. n : \E f \in [0 .. k -> W] : Runs(k, f)}
<1>1. 0 \in S
  <2> DEFINE g == [i \in 0 .. 0 |-> begin]
  <2>1. g \in [0 .. 0 -> W] /\ Runs(0, g) /\ 0 \in 0 .. n
    OBVIOUS
  <2> HIDE DEF g
  <2> QED
    BY <2>1
<1>2. ASSUME NEW k \in 1 .. n, k - 1 \in S
      PROVE  k \in S
  <2>1. PICK f \in [0 .. k - 1 -> W] : Runs(k - 1, f)
    BY <1>2
  <2> DEFINE g == [i \in 0 .. k |-> IF i = k THEN turn[k][f[k - 1]] ELSE f[i]]
  <2>2. turn[k][f[k - 1]] \in W
    BY <2>1
  <2>3. g \in [0 .. k -> W]
    BY <2>1, <2>2
  <2>4. \A i \in 0 .. k - 1 : g[i] = f[i]
    OBVIOUS
  <2>5. g[k] = turn[k][f[k - 1]]
    OBVIOUS
  <2> HIDE DEF g
  <2>6. Runs(k, g)
    <3>1. 0 \in 0 .. k - 1 /\ k - 1 \in 0 .. k - 1
      OBVIOUS
    <3>2. g[0] = begin /\ g[k] = turn[k][g[k - 1]]
      BY <2>1, <2>4, <2>5, <3>1
    <3>3. ASSUME NEW i \in 1 .. k - 1
          PROVE  g[i] = turn[i][g[i - 1]]
      <4>1. i \in 0 .. k - 1 /\ i - 1 \in 0 .. k - 1
        OBVIOUS
      <4> QED
        BY <2>1, <2>4, <4>1
    <3> QED
      BY <3>2, <3>3
  <2> QED
    BY <2>3, <2>6
<1>3. n \in S
  <2> HIDE DEF S
  <2>1. \A k \in 0 .. n : k \in S
    BY <1>1, <1>2, TurnsInduction
  <2> QED
    BY <2>1
<1> QED
  BY <1>3 DEF IsRun
=============================================================================
