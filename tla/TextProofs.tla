----------------------------- MODULE TextProofs -----------------------------
(***************************************************************************)
(* What Text's runs check on texts up to a length, proved for every text   *)
(* and every limit.                                                        *)
(***************************************************************************)
EXTENDS Text, LoopTheorems, SequenceTheorems, TLAPS
LOCAL INSTANCE FiniteSetsExt

(***************************************************************************)
(* Sets of positions.                                                      *)
(***************************************************************************)

\* Min is the least of a set of numbers that is not empty.
LEMMA MinIsLeast ==
    ASSUME NEW S \in SUBSET Nat, S # {}
    PROVE  Min(S) \in S /\ \A j \in S : Min(S) <= j
<1>1. PICK n \in S : TRUE
  OBVIOUS
<1> DEFINE T == {i \in S : i <= n}
<1>2. n \in Nat /\ n \in T /\ T \in SUBSET (0 .. n)
  <2>1. n \in Nat
    OBVIOUS
  <2>2. n <= n
    BY <2>1
  <2>3. ASSUME NEW i \in T
        PROVE  i \in 0 .. n
    <3>1. i \in Nat /\ i <= n
      OBVIOUS
    <3> QED
      BY <2>1, <3>1
  <2> QED
    BY <2>1, <2>2, <2>3
<1> HIDE DEF T
<1>3. PICK i \in T : \A j \in T : i <= j
  BY <1>2, LeastNumber
<1>4. i \in S /\ i <= n /\ i \in Nat
  BY <1>3 DEF T
<1>5. \A j \in S : i <= j
  <2>1. SUFFICES ASSUME NEW j \in S PROVE i <= j
    OBVIOUS
  <2>2. CASE j <= n
    BY <1>3, <2>2 DEF T
  <2>3. CASE ~(j <= n)
    BY <1>2, <1>4, <2>3
  <2> QED
    BY <2>2, <2>3
<1>6. \E x \in S : \A y \in S : x =< y
  BY <1>4, <1>5
<1> QED
  BY <1>6 DEF Min

LEMMA MinIs ==
    ASSUME NEW S \in SUBSET Nat, NEW m \in S, \A j \in S : m <= j
    PROVE  Min(S) = m
<1>1. Min(S) \in S /\ Min(S) <= m /\ m <= Min(S)
  BY MinIsLeast
<1>2. Min(S) \in Nat /\ m \in Nat
  BY <1>1
<1> QED
  BY <1>1, <1>2

\* What Before returns: the greatest of the numbers before i, or zero.
LEMMA BeforeIsLast ==
    ASSUME NEW S \in SUBSET Nat, NEW i \in Nat
    PROVE  /\ Before(S, i) \in {0} \union {j \in S : j < i}
           /\ \A j \in S : j < i => j <= Before(S, i)
<1> DEFINE B == {0} \union {j \in S : j < i}
           D == {n \in 0 .. i : i - n \in B}
<1>1. B \in SUBSET Nat /\ \A b \in B : b <= i
  <2>1. SUFFICES ASSUME NEW b \in B PROVE b \in Nat /\ b <= i
    OBVIOUS
  <2>2. CASE b = 0
    BY <2>2
  <2>3. CASE b \in S /\ b < i
    <3>1. b \in Nat
      BY <2>3
    <3> QED
      BY <2>3, <3>1
  <2> QED
    BY <2>2, <2>3
<1>2. i \in D
  OBVIOUS
<1>3. PICK n \in D : \A k \in D : n <= k
  <2>1. D \in SUBSET (0 .. i) /\ D # {}
    BY <1>2
  <2> HIDE DEF D
  <2> QED
    BY <2>1, LeastNumber
<1>4. i - n \in B /\ n \in 0 .. i
  BY <1>3
<1>5. \A b \in B : b <= i - n
  <2>1. SUFFICES ASSUME NEW b \in B PROVE b <= i - n
    OBVIOUS
  <2>2. b \in 0 .. i /\ i - b \in 0 .. i /\ i - (i - b) = b
    BY <1>1
  <2>3. i - b \in D
    BY <2>2
  <2>4. n <= i - b
    BY <1>3, <2>3
  <2> QED
    BY <1>4, <2>2, <2>4
<1>6. \E x \in B : \A y \in B : x >= y
  <2> HIDE DEF B, D
  <2>1. \A y \in B : i - n >= y
    BY <1>1, <1>4, <1>5
  <2> QED
    BY <1>4, <2>1
<1>7. Max(B) \in B /\ \A y \in B : Max(B) >= y
  BY <1>6 DEF Max
<1>8. Before(S, i) = Max(B)
  BY DEF Before
<1> QED
  BY <1>1, <1>7, <1>8

LEMMA BeforeIs ==
    ASSUME NEW S \in SUBSET Nat, NEW i \in Nat,
           NEW b \in {0} \union {j \in S : j < i}, \A j \in S : j < i => j <= b
    PROVE  Before(S, i) = b
<1>1. /\ Before(S, i) \in {0} \union {j \in S : j < i}
      /\ \A j \in S : j < i => j <= Before(S, i)
  BY BeforeIsLast
<1>2. Before(S, i) \in Nat /\ b \in Nat
  <2>1. \A x \in {0} \union {j \in S : j < i} : x \in Nat
    OBVIOUS
  <2> QED
    BY <1>1, <2>1
<1>3. Before(S, i) <= b
  BY <1>1, <1>2
<1>4. b <= Before(S, i)
  BY <1>1, <1>2
<1> QED
  BY <1>2, <1>3, <1>4

\* Later numbers do not change what is before i.
LEMMA BeforeStays ==
    ASSUME NEW S \in SUBSET Nat, NEW T \in SUBSET Nat, NEW i \in Nat,
           \A j \in Nat : j < i => (j \in S <=> j \in T)
    PROVE  Before(S, i) = Before(T, i)
<1>1. {j \in S : j < i} = {j \in T : j < i}
  OBVIOUS
<1> QED
  BY <1>1 DEF Before

\* The numbers up to i among S, which Ascending counts.
UpTo(S, i) == {j \in S : j <= i}

AtLeast(S, n) == {i \in S : Cardinality(UpTo(S, i)) >= n}

LEMMA AscendingIs ==
    ASSUME NEW S, NEW n \in 1 .. Cardinality(S)
    PROVE  Ascending(S)[n] = Min(AtLeast(S, n))
BY DEF Ascending, AtLeast, UpTo

LEMMA FinitePositions ==
    ASSUME NEW k \in Nat, NEW S \in SUBSET (0 .. k)
    PROVE  /\ IsFiniteSet(S) /\ Cardinality(S) \in Nat
           /\ \A i : IsFiniteSet(UpTo(S, i)) /\ Cardinality(UpTo(S, i)) \in 0 .. Cardinality(S)
<1>1. IsFiniteSet(0 .. k)
  BY FS_Interval
<1>2. IsFiniteSet(S)
  BY <1>1, FS_Subset
<1>3. Cardinality(S) \in Nat
  BY <1>2, FS_CardinalityType
<1>4. ASSUME NEW i
      PROVE  IsFiniteSet(UpTo(S, i)) /\ Cardinality(UpTo(S, i)) \in 0 .. Cardinality(S)
  <2>1. UpTo(S, i) \in SUBSET S
    BY DEF UpTo
  <2>2. IsFiniteSet(UpTo(S, i)) /\ Cardinality(UpTo(S, i)) <= Cardinality(S)
    BY <1>2, <2>1, FS_Subset
  <2>3. Cardinality(UpTo(S, i)) \in Nat
    BY <2>2, FS_CardinalityType
  <2> QED
    BY <1>3, <2>2, <2>3
<1> QED
  BY <1>2, <1>3, <1>4

\* Every number that Ascending lists is one of the set.
LEMMA AtLeastIsThere ==
    ASSUME NEW k \in Nat, NEW S \in SUBSET (0 .. k), NEW n \in 1 .. Cardinality(S)
    PROVE  AtLeast(S, n) # {} /\ AtLeast(S, n) \in SUBSET Nat /\ Ascending(S)[n] \in S
<1> DEFINE m == Before(S, k + 1)
<1>1. Cardinality(S) \in Nat
  BY FinitePositions
<1>2. S # {} /\ S \in SUBSET Nat
  <2>1. S # {}
    BY FS_EmptySet
  <2>2. \A i \in S : i \in Nat
    OBVIOUS
  <2> QED
    BY <2>1, <2>2
<1>3. \A i \in S : i <= m
  <2>1. \A i \in S : i < k + 1
    OBVIOUS
  <2>2. \A i \in S : i < k + 1 => i <= m
    BY <1>2, BeforeIsLast
  <2> HIDE DEF m
  <2> QED
    BY <2>1, <2>2
<1>4. m \in S
  <2>1. m \in {0} \union {j \in S : j < k + 1}
    BY <1>2, BeforeIsLast
  <2> HIDE DEF m
  <2>2. CASE m \in S
    BY <2>2
  <2>3. CASE m = 0
    <3>1. PICK i \in S : TRUE
      BY <1>2
    <3>2. i \in Nat /\ i <= 0
      BY <1>3, <2>3, <3>1
    <3>3. i = 0
      BY <3>2
    <3> QED
      BY <2>3, <3>3
  <2> QED
    BY <2>1, <2>2, <2>3
<1> HIDE DEF m
<1>5. UpTo(S, m) = S
  BY <1>3 DEF UpTo
<1>6. m \in AtLeast(S, n)
  BY <1>1, <1>4, <1>5 DEF AtLeast
<1>7. AtLeast(S, n) \in SUBSET Nat /\ AtLeast(S, n) \in SUBSET S
  BY <1>2 DEF AtLeast
<1>8. Min(AtLeast(S, n)) \in AtLeast(S, n)
  BY <1>6, <1>7, MinIsLeast
<1> QED
  BY <1>6, <1>7, <1>8, AscendingIs

\* A number greater than all others comes last.
LEMMA AscendingGrows ==
    ASSUME NEW k \in Nat, NEW S \in SUBSET (0 .. k), NEW m \in Nat, \A i \in S : i < m
    PROVE  /\ Cardinality(S \union {m}) = Cardinality(S) + 1
           /\ \A n \in 1 .. Cardinality(S) : Ascending(S \union {m})[n] = Ascending(S)[n]
           /\ Ascending(S \union {m})[Cardinality(S) + 1] = m
<1> DEFINE T == S \union {m}
           N == Cardinality(S)
<1>1. IsFiniteSet(S) /\ N \in Nat
  BY FinitePositions
<1>2. m \notin S
  OBVIOUS
<1>3. Cardinality(T) = N + 1
  BY <1>1, <1>2, FS_AddElement
<1>4. \A i \in S : UpTo(T, i) = UpTo(S, i) /\ i \in Nat
  BY DEF UpTo
<1>5. UpTo(T, m) = T
  <2>1. \A i \in T : i <= m
    BY <1>4
  <2> HIDE DEF T
  <2> QED
    BY <2>1 DEF UpTo
<1>6. \A i \in S : Cardinality(UpTo(T, i)) = Cardinality(UpTo(S, i))
  BY <1>4
<1>7. Cardinality(UpTo(T, m)) = N + 1
  BY <1>3, <1>5
<1> HIDE DEF N
<1>8. ASSUME NEW n \in 1 .. N
      PROVE  Ascending(T)[n] = Ascending(S)[n]
  <2>1. AtLeast(T, n) = AtLeast(S, n) \union {m}
    <3>1. N + 1 >= n
      BY <1>1
    <3>2. m \in AtLeast(T, n)
      BY <1>7, <3>1 DEF AtLeast
    <3>3. \A i \in S : i \in AtLeast(T, n) <=> i \in AtLeast(S, n)
      BY <1>6 DEF AtLeast
    <3> QED
      BY <3>2, <3>3 DEF AtLeast
  <2>2. AtLeast(S, n) # {} /\ AtLeast(S, n) \in SUBSET Nat
    BY AtLeastIsThere DEF N
  <2>3. Min(AtLeast(S, n)) \in AtLeast(S, n) /\ \A j \in AtLeast(S, n) : Min(AtLeast(S, n)) <= j
    BY <2>2, MinIsLeast
  <2>4. Min(AtLeast(S, n)) < m
    BY <2>3 DEF AtLeast
  <2> HIDE DEF T
  <2>5. Min(AtLeast(T, n)) = Min(AtLeast(S, n))
    <3> DEFINE a == Min(AtLeast(S, n))
    <3>1. a \in Nat /\ a \in AtLeast(T, n)
      BY <2>1, <2>2, <2>3
    <3>2. AtLeast(T, n) \in SUBSET Nat
      BY <2>1, <2>2
    <3>3. \A j \in AtLeast(T, n) : a <= j
      <4> HIDE DEF a
      <4>1. a < m /\ \A j \in AtLeast(S, n) : a <= j
        BY <2>3, <2>4 DEF a
      <4> QED
        BY <2>1, <3>1, <4>1
    <3> HIDE DEF a
    <3>4. Min(AtLeast(T, n)) = a
      BY <3>1, <3>2, <3>3, MinIs
    <3> QED
      BY <3>4 DEF a
  <2>6. n \in 1 .. Cardinality(T) /\ n \in 1 .. Cardinality(S)
    BY <1>1, <1>3 DEF N
  <2> QED
    BY <2>5, <2>6, AscendingIs
<1>9. Ascending(T)[N + 1] = m
  <2>1. ASSUME NEW i \in S
        PROVE  i \notin AtLeast(T, N + 1)
    <3>1. Cardinality(UpTo(S, i)) \in 0 .. N
      BY FinitePositions DEF N
    <3> QED
      BY <1>1, <1>6, <3>1 DEF AtLeast
  <2>2. m \in AtLeast(T, N + 1)
    BY <1>1, <1>7 DEF AtLeast
  <2>3. AtLeast(T, N + 1) = {m}
    BY <2>1, <2>2 DEF AtLeast
  <2>4. Min({m}) = m
    BY MinIs
  <2>5. N + 1 \in 1 .. Cardinality(T)
    BY <1>1, <1>3
  <2>6. Ascending(T)[N + 1] = Min(AtLeast(T, N + 1))
    BY <2>5, AscendingIs
  <2> QED
    BY <2>3, <2>4, <2>6
<1> QED
  BY <1>3, <1>8, <1>9 DEF N

Below(S, m) == \A i \in S : i < m

Gives(f, S, T) == \A i \in S : f[i] \in T

Agree(f, g, S) == \A i \in S : f[i] = g[i]

Lists(v, f, S, T) ==
    /\ v \in Seq(T)
    /\ Len(v) = Cardinality(S)
    /\ \A n \in 1 .. Cardinality(S) : v[n] = f[Ascending(S)[n]]

\* What ValuesAt returns: a sequence as long as the set is large.
LEMMA ValuesAreSequence ==
    ASSUME NEW k \in Nat, NEW S \in SUBSET (0 .. k), NEW T, NEW f, Gives(f, S, T)
    PROVE  Lists(ValuesAt(S, f), f, S, T)
<1> DEFINE N == Cardinality(S)
           v == [n \in 1 .. N |-> f[Ascending(S)[n]]]
<1>1. N \in Nat
  BY FinitePositions
<1>2. \A n \in 1 .. N : Ascending(S)[n] \in S
  BY AtLeastIsThere
<1>3. ValuesAt(S, f) = v
  BY DEF ValuesAt
<1> HIDE DEF N
<1>4. v \in [1 .. N -> T]
  BY <1>2 DEF Gives
<1>5. v \in Seq(T)
  BY <1>1, <1>4, SeqDef
<1>6. DOMAIN v = 1 .. N /\ \A n \in 1 .. N : v[n] = f[Ascending(S)[n]]
  OBVIOUS
<1> HIDE DEF v
<1>7. Len(v) \in Nat /\ 1 .. Len(v) = 1 .. N
  BY <1>5, <1>6, LenProperties
<1>8. Len(v) = N
  BY <1>1, <1>7
<1> QED
  BY <1>3, <1>5, <1>6, <1>8 DEF N, Lists

LEMMA ValuesSame ==
    ASSUME NEW k \in Nat, NEW S \in SUBSET (0 .. k), NEW f, NEW g, Agree(f, g, S)
    PROVE  ValuesAt(S, f) = ValuesAt(S, g)
<1>1. \A n \in 1 .. Cardinality(S) : f[Ascending(S)[n]] = g[Ascending(S)[n]]
  BY AtLeastIsThere DEF Agree
<1> QED
  BY <1>1 DEF ValuesAt

LEMMA ValuesOfNone ==
    ASSUME NEW f
    PROVE  ValuesAt({}, f) = << >>
<1>1. ValuesAt({}, f) \in Seq({}) /\ Len(ValuesAt({}, f)) = Cardinality({})
  <2>1. Gives(f, {}, {}) /\ {} \in SUBSET (0 .. 0) /\ 0 \in Nat
    BY DEF Gives
  <2>2. Lists(ValuesAt({}, f), f, {}, {})
    BY <2>1, ValuesAreSequence
  <2> QED
    BY <2>2 DEF Lists
<1>2. Cardinality({}) = 0
  BY FS_EmptySet
<1> QED
  BY <1>1, <1>2, EmptySeq

Grows(S, m, f, g) == ValuesAt(S \union {m}, g) = Append(ValuesAt(S, f), g[m])

\* The value at a number greater than all others is appended.
LEMMA ValuesGrow ==
    ASSUME NEW k \in Nat, NEW S \in SUBSET (0 .. k), NEW m \in Nat, Below(S, m),
           NEW T, NEW f, NEW g, Gives(f, S, T), Agree(f, g, S), g[m] \in T
    PROVE  Grows(S, m, f, g)
<1> DEFINE N == Cardinality(S)
           v == ValuesAt(S, f)
           w == ValuesAt(S \union {m}, g)
<1>1. N \in Nat
  BY FinitePositions
<1>2. v \in Seq(T) /\ Len(v) = N /\ \A n \in 1 .. N : v[n] = f[Ascending(S)[n]]
  <2>1. Lists(v, f, S, T)
    BY ValuesAreSequence
  <2> QED
    BY <2>1 DEF Lists
<1>3. /\ Cardinality(S \union {m}) = N + 1
      /\ \A n \in 1 .. N : Ascending(S \union {m})[n] = Ascending(S)[n]
      /\ Ascending(S \union {m})[N + 1] = m
  BY AscendingGrows DEF Below
<1>4. w \in Seq(T) /\ Len(w) = N + 1 /\ \A n \in 1 .. N + 1 : w[n] = g[Ascending(S \union {m})[n]]
  <2>1. S \union {m} \in SUBSET (0 .. k + m)
    OBVIOUS
  <2>2. \A i \in S \union {m} : g[i] \in T
    BY DEF Gives, Agree
  <2>3. k + m \in Nat
    OBVIOUS
  <2> DEFINE U == S \union {m}
  <2> HIDE DEF N, U
  <2>4. U \in SUBSET (0 .. k + m) /\ Gives(g, U, T)
    BY <2>1, <2>2 DEF U, Gives
  <2>5. Lists(ValuesAt(U, g), g, U, T)
    BY <2>3, <2>4, ValuesAreSequence
  <2> QED
    BY <1>3, <2>5 DEF U, Lists
<1>5. \A n \in 1 .. N : Ascending(S)[n] \in S
  BY AtLeastIsThere
<1> HIDE DEF N, v, w
<1>6. \A n \in 1 .. N : w[n] = v[n]
  <2>1. SUFFICES ASSUME NEW n \in 1 .. N PROVE w[n] = v[n]
    OBVIOUS
  <2>2. n \in 1 .. N + 1
    BY <1>1
  <2>3. w[n] = g[Ascending(S)[n]]
    BY <1>3, <1>4, <2>2
  <2> QED
    BY <1>2, <1>5, <2>3 DEF Agree
<1>7. w[N + 1] = g[m]
  <2>1. N + 1 \in 1 .. N + 1
    BY <1>1
  <2> QED
    BY <1>3, <1>4, <2>1
<1>8. /\ Append(v, g[m]) \in Seq(T)
      /\ Len(Append(v, g[m])) = N + 1
      /\ \A n \in 1 .. N : Append(v, g[m])[n] = v[n]
      /\ Append(v, g[m])[N + 1] = g[m]
  BY <1>2, AppendProperties
<1>9. \A n \in 1 .. N + 1 : w[n] = Append(v, g[m])[n]
  BY <1>1, <1>6, <1>7, <1>8
<1>10. w = Append(v, g[m])
  BY <1>4, <1>8, <1>9, SeqEqual
<1> QED
  BY <1>10 DEF v, w, Grows

(***************************************************************************)
(* What processData keeps of the data.                                     *)
(***************************************************************************)

Kept(data) == {i \in DOMAIN data : data[i] # "newline"}

LEMMA PrintableIsSequence ==
    ASSUME NEW C, NEW s \in Seq(C)
    PROVE  /\ Printable(s) \in Seq(C \ {"newline"})
           /\ Kept(s) \in SUBSET (0 .. Len(s)) /\ Len(s) \in Nat
<1>1. Len(s) \in Nat /\ DOMAIN s = 1 .. Len(s) /\ \A i \in 1 .. Len(s) : s[i] \in C
  BY LenProperties, ElementOfSeq
<1>2. Kept(s) \in SUBSET (0 .. Len(s)) /\ Gives(s, Kept(s), C \ {"newline"})
  BY <1>1 DEF Kept, Gives
<1>3. Lists(ValuesAt(Kept(s), s), s, Kept(s), C \ {"newline"})
  BY <1>1, <1>2, ValuesAreSequence
<1> QED
  BY <1>1, <1>2, <1>3 DEF Lists, Printable, Kept

LEMMA PrintableOfAppend ==
    ASSUME NEW C, NEW s \in Seq(C), NEW c \in C
    PROVE  Printable(Append(s, c)) = IF c = "newline" THEN Printable(s) ELSE Append(Printable(s), c)
<1> DEFINE t == Append(s, c)
           n == Len(s) + 1
<1>1. Len(s) \in Nat /\ DOMAIN s = 1 .. Len(s) /\ \A i \in 1 .. Len(s) : s[i] \in C
  BY LenProperties, ElementOfSeq
<1>2. /\ DOMAIN t = 1 .. Len(s) + 1
      /\ t[n] = c
      /\ \A i \in 1 .. Len(s) : t[i] = s[i]
  BY <1>1, AppendProperties, LenProperties
<1> HIDE DEF t
<1>3. Kept(s) \in SUBSET (0 .. Len(s)) /\ Below(Kept(s), n)
  <2>1. Kept(s) \in SUBSET (0 .. Len(s))
    BY PrintableIsSequence
  <2> QED
    BY <1>1, <2>1 DEF Below
<1>4. Gives(s, Kept(s), C) /\ Agree(s, t, Kept(s))
  BY <1>1, <1>2 DEF Kept, Gives, Agree
<1>5. CASE c = "newline"
  <2>1. Kept(t) = Kept(s)
    BY <1>1, <1>2, <1>5 DEF Kept
  <2>2. ValuesAt(Kept(s), s) = ValuesAt(Kept(s), t)
    BY <1>1, <1>3, <1>4, ValuesSame
  <2> QED
    BY <1>5, <2>1, <2>2 DEF Printable, Kept, t
<1>6. CASE c # "newline"
  <2>1. Kept(t) = Kept(s) \union {n}
    BY <1>1, <1>2, <1>6 DEF Kept
  <2>2. n \in Nat /\ t[n] \in C
    BY <1>1, <1>2
  <2>3. Grows(Kept(s), n, s, t)
    <3> HIDE DEF n
    <3> QED
      BY <1>1, <1>3, <1>4, <2>2, ValuesGrow
  <2> QED
    BY <1>2, <1>6, <2>1, <2>3 DEF Printable, Kept, t, Grows
<1> QED
  BY <1>5, <1>6

LEMMA PrintableOfNothing == Printable(<< >>) = << >>
<1>1. << >> \in Seq({}) /\ Len(<< >>) = 0
  BY EmptySeq
<1>2. DOMAIN << >> = 1 .. 0
  BY <1>1, LenProperties
<1>3. Kept(<< >>) = {}
  BY <1>2 DEF Kept
<1> QED
  BY <1>3, ValuesOfNone DEF Printable, Kept

\* The beginnings of a text, each one character longer than the one before
LEMMA Beginnings ==
    ASSUME NEW C, NEW t \in Seq(C), NEW k \in 1 .. Len(t)
    PROVE  /\ SubSeq(t, 1, k - 1) \in Seq(C)
           /\ t[k] \in C
           /\ SubSeq(t, 1, k) = Append(SubSeq(t, 1, k - 1), t[k])
<1>1. Len(t) \in Nat /\ \A i \in 1 .. Len(t) : t[i] \in C
  BY LenProperties, ElementOfSeq
<1>2. SubSeq(t, 1, k - 1) \in Seq(C)
  BY <1>1, SubSeqProperties
<1>3. SubSeq(t, 1, k) = SubSeq(t, 1, k - 1) \o <<t[k]>>
  BY <1>1, SubSeqRecursiveSecond
<1> QED
  BY <1>1, <1>2, <1>3, AppendIsConcat

LEMMA ConcatAppend ==
    ASSUME NEW C, NEW s \in Seq(C), NEW u \in Seq(C), NEW c \in C
    PROVE  s \o Append(u, c) = Append(s \o u, c)
<1> DEFINE v == <<c>>
<1>1. v \in Seq(C)
  OBVIOUS
<1>2. s \o u \in Seq(C)
  BY ConcatProperties
<1>3. Append(u, c) = u \o v /\ Append(s \o u, c) = (s \o u) \o v
  BY <1>2, AppendIsConcat
<1> HIDE DEF v
<1>4. (s \o u) \o v = s \o (u \o v)
  BY <1>1, ConcatAssociative
<1> QED
  BY <1>3, <1>4

\* What is printable of two texts one after the other.
LEMMA PrintableOfConcat ==
    ASSUME NEW C, NEW s \in Seq(C), NEW t \in Seq(C)
    PROVE  Printable(s \o t) = Printable(s) \o Printable(t)
<1> DEFINE first(k) == SubSeq(t, 1, k)
           S == {k \in 0 .. Len(t) : Printable(s \o first(k)) = Printable(s) \o Printable(first(k))}
<1>1. Len(t) \in Nat
  BY LenProperties
<1>2. Printable(s) \in Seq(C) 
  BY PrintableIsSequence, SeqMonotonic, C \ {"newline"} \subseteq C
<1>3. 0 \in S
  <2>1. first(0) = << >>
    BY SubSeqEmpty
  <2>2. s \o << >> = s /\ Printable(s) \o << >> = Printable(s)
    BY <1>2, ConcatEmptySeq
  <2>3. Printable(s \o first(0)) = Printable(s) \o Printable(first(0))
    <3> HIDE DEF first
    <3> QED
      BY <2>1, <2>2, PrintableOfNothing
  <2> QED
    BY <1>1, <2>3
<1>4. ASSUME NEW k \in 1 .. Len(t), k - 1 \in S
      PROVE  k \in S
  <2> DEFINE u == first(k - 1)
  <2>1. u \in Seq(C) /\ t[k] \in C /\ first(k) = Append(u, t[k])
    BY Beginnings
  <2>2. Printable(s \o u) = Printable(s) \o Printable(u)
    BY <1>4
  <2>3. Printable(u) \in Seq(C)
    BY <2>1, PrintableIsSequence, SeqMonotonic, C \ {"newline"} \subseteq C
  <2> HIDE DEF u, first
  <2>4. s \o Append(u, t[k]) = Append(s \o u, t[k]) /\ s \o u \in Seq(C)
    BY <2>1, ConcatAppend, ConcatProperties
  <2>5. Printable(s) \o Append(Printable(u), t[k]) = Append(Printable(s) \o Printable(u), t[k])
    BY <1>2, <2>1, <2>3, ConcatAppend
  <2>6. Printable(s \o first(k)) = Printable(s) \o Printable(first(k))
    <3>1. CASE t[k] = "newline"
      <4>1. Printable(first(k)) = Printable(u)
        BY <2>1, <3>1, PrintableOfAppend
      <4>2. Printable(Append(s \o u, t[k])) = Printable(s \o u)
        BY <2>1, <2>4, <3>1, PrintableOfAppend
      <4> QED
        BY <2>1, <2>2, <2>4, <4>1, <4>2
    <3>2. CASE t[k] # "newline"
      <4>1. Printable(first(k)) = Append(Printable(u), t[k])
        BY <2>1, <3>2, PrintableOfAppend
      <4>2. Printable(Append(s \o u, t[k])) = Append(Printable(s \o u), t[k])
        BY <2>1, <2>4, <3>2, PrintableOfAppend
      <4> QED
        BY <2>1, <2>2, <2>4, <2>5, <4>1, <4>2
    <3> QED
      BY <3>1, <3>2
  <2> QED
    BY <2>6
<1>5. Len(t) \in S
  <2> HIDE DEF S
  <2>1. \A k \in 0 .. Len(t) : k \in S
    BY <1>1, <1>3, <1>4, TurnsInduction
  <2> QED
    BY <1>1, <2>1
<1>6. first(Len(t)) = t
  BY SubSeqFull
<1> HIDE DEF first
<1> QED
  BY <1>5, <1>6

\* Nothing is dropped twice.
LEMMA PrintableOfPrintable ==
    ASSUME NEW C, NEW t \in Seq(C \ {"newline"})
    PROVE  Printable(t) = t
<1> DEFINE first(k) == SubSeq(t, 1, k)
           S == {k \in 0 .. Len(t) : Printable(first(k)) = first(k)}
<1>1. Len(t) \in Nat
  BY LenProperties
<1>2. 0 \in S
  <2>1. first(0) = << >>
    BY SubSeqEmpty
  <2>2. Printable(first(0)) = first(0)
    <3> HIDE DEF first
    <3> QED
      BY <2>1, PrintableOfNothing
  <2> QED
    BY <1>1, <2>2
<1>3. ASSUME NEW k \in 1 .. Len(t), k - 1 \in S
      PROVE  k \in S
  <2> DEFINE u == first(k - 1)
  <2>1. u \in Seq(C \ {"newline"}) /\ t[k] \in C \ {"newline"} /\ first(k) = Append(u, t[k])
    BY Beginnings
  <2>2. Printable(u) = u
    BY <1>3
  <2> HIDE DEF u, first
  <2>3. Printable(first(k)) = first(k)
    BY <2>1, <2>2, PrintableOfAppend
  <2> QED
    BY <2>3
<1>4. Len(t) \in S
  <2> HIDE DEF S
  <2>1. \A k \in 0 .. Len(t) : k \in S
    BY <1>1, <1>2, <1>3, TurnsInduction
  <2> QED
    BY <1>1, <2>1
<1>5. first(Len(t)) = t
  BY SubSeqFull
<1> HIDE DEF first
<1> QED
  BY <1>4, <1>5

(***************************************************************************)
(* The pieces between the semicolons.                                      *)
(***************************************************************************)

LEMMA SameSubSeq ==
    ASSUME NEW C, NEW s, NEW t, NEW m \in Int, NEW n \in Int,
           \A i \in m .. n : s[i] \in C /\ s[i] = t[i]
    PROVE  SubSeq(s, m, n) = SubSeq(t, m, n)
<1>1. /\ SubSeq(s, m, n) \in Seq(C)
      /\ Len(SubSeq(s, m, n)) = IF m <= n THEN n - m + 1 ELSE 0
      /\ \A i \in 1 .. n - m + 1 : SubSeq(s, m, n)[i] = s[m + i - 1]
  BY SubSeqProperties
<1>2. /\ SubSeq(t, m, n) \in Seq(C)
      /\ Len(SubSeq(t, m, n)) = IF m <= n THEN n - m + 1 ELSE 0
      /\ \A i \in 1 .. n - m + 1 : SubSeq(t, m, n)[i] = t[m + i - 1]
  BY SubSeqProperties
<1>3. ASSUME NEW i \in 1 .. Len(SubSeq(s, m, n))
      PROVE  SubSeq(s, m, n)[i] = SubSeq(t, m, n)[i]
  <2>1. i \in 1 .. n - m + 1 /\ m + i - 1 \in m .. n
    BY <1>1
  <2> QED
    BY <1>1, <1>2, <2>1
<1> QED
  BY <1>1, <1>2, <1>3, SeqEqual

\* What stands after p, up to n, also when there is nothing
LEMMA PartAfter ==
    ASSUME NEW C, NEW X \in Seq(C), NEW n \in 0 .. Len(X), NEW p \in 0 .. n
    PROVE  /\ SubSeq(X, p + 1, n) \in Seq(C)
           /\ Len(SubSeq(X, p + 1, n)) = n - p
           /\ \A i \in 1 .. n - p : SubSeq(X, p + 1, n)[i] = X[p + i]
<1>1. Len(X) \in Nat /\ n \in Nat /\ p \in Nat /\ p <= n /\ p + 1 \in Int /\ n \in Int
  BY LenProperties
<1>2. ASSUME NEW i \in p + 1 .. n
      PROVE  X[i] \in C
  <2>1. i \in 1 .. Len(X)
    BY <1>1
  <2> QED
    BY <2>1, ElementOfSeq
<1> DEFINE u == SubSeq(X, p + 1, n)
<1>3. /\ u \in Seq(C)
      /\ Len(u) = IF p + 1 <= n THEN n - (p + 1) + 1 ELSE 0
      /\ \A i \in 1 .. n - (p + 1) + 1 : u[i] = X[p + 1 + i - 1]
  BY <1>1, <1>2, SubSeqProperties
<1> HIDE DEF u
<1>4. Len(u) = n - p
  BY <1>1, <1>3
<1>5. ASSUME NEW i \in 1 .. n - p
      PROVE  u[i] = X[p + i]
  <2>1. i \in 1 .. n - (p + 1) + 1 /\ p + 1 + i - 1 = p + i
    BY <1>1
  <2> QED
    BY <1>3, <2>1
<1> QED
  BY <1>3, <1>4, <1>5 DEF u

LEMMA PartOfPart ==
    ASSUME NEW C, NEW X \in Seq(C), NEW n \in 0 .. Len(X), NEW p \in 0 .. n,
           NEW v \in 0 .. n - p, NEW u \in 0 .. v
    PROVE  SubSeq(SubSeq(X, p + 1, n), u + 1, v) = SubSeq(X, p + u + 1, p + v)
<1> DEFINE b == SubSeq(X, p + 1, n)
           x == SubSeq(b, u + 1, v)
           y == SubSeq(X, p + u + 1, p + v)
<1>1. Len(X) \in Nat /\ n \in Nat /\ p \in Nat /\ p <= n /\ u \in Nat /\ v \in Nat /\ u <= v
  BY LenProperties
<1>2. b \in Seq(C) /\ Len(b) = n - p /\ \A i \in 1 .. n - p : b[i] = X[p + i]
  BY PartAfter
<1> HIDE DEF b
<1>3. x \in Seq(C) /\ Len(x) = v - u /\ \A i \in 1 .. v - u : x[i] = b[u + i]
  <2>1. v \in 0 .. Len(b)
    BY <1>1, <1>2
  <2> QED
    BY <1>2, <2>1, PartAfter
<1>4. y \in Seq(C) /\ Len(y) = v - u /\ \A i \in 1 .. v - u : y[i] = X[p + u + i]
  <2> DEFINE p2 == p + u
             n2 == p + v
  <2>1. n2 \in 0 .. Len(X) /\ p2 \in 0 .. n2 /\ n2 - p2 = v - u
    BY <1>1
  <2> HIDE DEF p2, n2
  <2>2. /\ SubSeq(X, p2 + 1, n2) \in Seq(C)
        /\ Len(SubSeq(X, p2 + 1, n2)) = n2 - p2
        /\ \A i \in 1 .. n2 - p2 : SubSeq(X, p2 + 1, n2)[i] = X[p2 + i]
    BY <2>1, PartAfter
  <2> QED
    BY <2>1, <2>2 DEF p2, n2
<1> HIDE DEF x, y
<1>5. ASSUME NEW i \in 1 .. v - u
      PROVE  x[i] = y[i]
  <2>1. u + i \in 1 .. n - p /\ p + (u + i) = p + u + i
    BY <1>1
  <2> QED
    BY <1>2, <1>3, <1>4, <2>1
<1>6. x = y
  BY <1>3, <1>4, <1>5, SeqEqual
<1> QED
  BY <1>6 DEF x, y, b

LEMMA SemicolonsAre ==
    ASSUME NEW C, NEW X \in Seq(C)
    PROVE  /\ Len(X) \in Nat
           /\ Semicolons(X) = {i \in 1 .. Len(X) : X[i] = "semicolon"}
           /\ Semicolons(X) \in SUBSET Nat
           /\ Semicolons(X) \in SUBSET (0 .. Len(X))
<1>1. Len(X) \in Nat /\ DOMAIN X = 1 .. Len(X)
  BY LenProperties
<1>2. Semicolons(X) = {i \in 1 .. Len(X) : X[i] = "semicolon"}
  BY <1>1 DEF Semicolons
<1> QED
  BY <1>1, <1>2

LEMMA PieceIs ==
    ASSUME NEW C, NEW X \in Seq(C), NEW i \in 1 .. Len(X) + 1
    PROVE  /\ Before(Semicolons(X), i) \in 0 .. i - 1
           /\ PieceTo(X, i) \in Seq(C)
           /\ Len(PieceTo(X, i)) = i - 1 - Before(Semicolons(X), i)
<1> DEFINE b == Before(Semicolons(X), i)
<1>1. Len(X) \in Nat /\ Semicolons(X) \in SUBSET Nat /\ i \in Nat /\ i - 1 \in 0 .. Len(X)
  BY SemicolonsAre
<1>2. b \in {0} \union {j \in Semicolons(X) : j < i}
  BY <1>1, BeforeIsLast
<1>3. b \in 0 .. i - 1
  <2>1. \A j \in Semicolons(X) : j \in Nat
    BY <1>1
  <2> HIDE DEF b
  <2> QED
    BY <1>1, <1>2, <2>1
<1> HIDE DEF b
<1>4. /\ SubSeq(X, b + 1, i - 1) \in Seq(C)
      /\ Len(SubSeq(X, b + 1, i - 1)) = i - 1 - b
  BY <1>1, <1>3, PartAfter
<1>6. PieceTo(X, i) = SubSeq(X, b + 1, i - 1)
  BY DEF PieceTo, b
<1>7. b \in 0 .. i - 1 /\ PieceTo(X, i) \in Seq(C) /\ Len(PieceTo(X, i)) = i - 1 - b
  BY <1>3, <1>4, <1>6
<1> QED
  BY <1>7 DEF b

\* Nothing that follows changes a piece.
LEMMA PieceStays ==
    ASSUME NEW C, NEW T \in Seq(C), NEW X \in Seq(C), Len(T) <= Len(X),
           \A i \in 1 .. Len(T) : X[i] = T[i]
    PROVE  /\ \A i \in 1 .. Len(T) : i \in Semicolons(X) <=> i \in Semicolons(T)
           /\ \A i \in 1 .. Len(T) + 1 : Before(Semicolons(X), i) = Before(Semicolons(T), i)
           /\ \A i \in 1 .. Len(T) + 1 : PieceTo(X, i) = PieceTo(T, i)
<1>1. /\ Len(T) \in Nat /\ Semicolons(T) = {i \in 1 .. Len(T) : T[i] = "semicolon"}
      /\ Semicolons(T) \in SUBSET Nat
  BY SemicolonsAre
<1>2. /\ Len(X) \in Nat /\ Semicolons(X) = {i \in 1 .. Len(X) : X[i] = "semicolon"}
      /\ Semicolons(X) \in SUBSET Nat
  BY SemicolonsAre
<1>3. \A i \in 1 .. Len(T) : i \in Semicolons(X) <=> i \in Semicolons(T)
  BY <1>1, <1>2
<1>4. ASSUME NEW i \in 1 .. Len(T) + 1
      PROVE  Before(Semicolons(X), i) = Before(Semicolons(T), i)
  <2>1. ASSUME NEW j \in Nat, j < i
        PROVE  j \in Semicolons(X) <=> j \in Semicolons(T)
    <3>1. CASE j = 0
      BY <1>1, <1>2, <3>1
    <3>2. CASE j # 0
      BY <1>1, <1>3, <2>1, <3>2
    <3> QED
      BY <3>1, <3>2
  <2>2. i \in Nat
    BY <1>1
  <2> QED
    BY <1>1, <1>2, <2>1, <2>2, BeforeStays
<1>5. ASSUME NEW i \in 1 .. Len(T) + 1
      PROVE  PieceTo(X, i) = PieceTo(T, i)
  <2> DEFINE b == Before(Semicolons(T), i)
  <2>1. b \in 0 .. i - 1
    BY PieceIs
  <2> HIDE DEF b
  <2>2. \A j \in b + 1 .. i - 1 : T[j] \in C /\ T[j] = X[j]
    <3>1. ASSUME NEW j \in b + 1 .. i - 1
          PROVE  T[j] \in C /\ T[j] = X[j]
      <4>1. j \in 1 .. Len(T)
        BY <1>1, <2>1
      <4> QED
        BY <4>1, ElementOfSeq
    <3> QED
      BY <3>1
  <2>3. b + 1 \in Int /\ i - 1 \in Int
    BY <1>1, <2>1
  <2>4. SubSeq(T, b + 1, i - 1) = SubSeq(X, b + 1, i - 1)
    BY <2>2, <2>3, SameSubSeq
  <2> QED
    BY <1>4, <2>4 DEF PieceTo, b
<1> QED
  BY <1>3, <1>4, <1>5

(***************************************************************************)
(* The turns of processData.  A Device is at a position p of what it has   *)
(* been given, X, when its buffer is what stands after p and its commands  *)
(* are those of the pieces up to p.                                        *)
(***************************************************************************)

Taking(X, p) == {i \in Good(X) : i <= p /\ ~Skipped(PieceTo(X, i))}

Pieces(X) == [i \in Semicolons(X) |-> PieceTo(X, i)]

TakenTo(X, p) == ValuesAt(Taking(X, p), Pieces(X))

IsAt(d, X, p) ==
    /\ p \in {0} \union Semicolons(X)
    /\ d.buffer = SubSeq(X, p + 1, Len(X))
    /\ d.commands = TakenTo(X, p)
    /\ \A i \in Semicolons(X) : i < p => ~Bad(PieceTo(X, i))
    /\ d.open => \A i \in Semicolons(X) : i = p => ~Bad(PieceTo(X, i))
    /\ ~d.open => p \in Semicolons(X) /\ Bad(PieceTo(X, p))

\* What CutsDontMatter says of a Device that has been given X
Fine(d, X) ==
    /\ d.commands = Taken(X)
    /\ d.open <=> Good(X) = Semicolons(X)
    /\ d.open => d.buffer = LastPiece(X)

Devices(C) == [buffer : Seq(C), commands : Seq(Seq(C)), open : BOOLEAN]

LEMMA TakingIs ==
    ASSUME NEW C, NEW X \in Seq(C), NEW p
    PROVE  /\ Taking(X, p) \in SUBSET Semicolons(X)
           /\ Taking(X, p) \in SUBSET (0 .. Len(X))
           /\ Gives(Pieces(X), Semicolons(X), Seq(C))
           /\ Gives(Pieces(X), Taking(X, p), Seq(C))
           /\ TakenTo(X, p) \in Seq(Seq(C))
<1>1. Len(X) \in Nat /\ Semicolons(X) = {i \in 1 .. Len(X) : X[i] = "semicolon"}
  BY SemicolonsAre
<1>2. Taking(X, p) \in SUBSET Semicolons(X)
  BY DEF Taking, Good
<1>3. Taking(X, p) \in SUBSET (0 .. Len(X))
  BY <1>1, <1>2
<1>4. ASSUME NEW i \in Semicolons(X)
      PROVE  PieceTo(X, i) \in Seq(C)
  <2>1. i \in 1 .. Len(X) + 1
    BY <1>1
  <2> QED
    BY <2>1, PieceIs
<1>5. Gives(Pieces(X), Semicolons(X), Seq(C))
  BY <1>4 DEF Gives, Pieces
<1>6. Gives(Pieces(X), Taking(X, p), Seq(C))
  BY <1>2, <1>5 DEF Gives
<1>7. Lists(TakenTo(X, p), Pieces(X), Taking(X, p), Seq(C))
  BY <1>1, <1>3, <1>6, ValuesAreSequence DEF TakenTo
<1> QED
  BY <1>2, <1>3, <1>5, <1>6, <1>7 DEF Lists

\* The semicolon at e in the buffer b, and at q in the whole, ends the piece after p.
EndsPiece(X, p, b, e, q) ==
    /\ e \in 1 .. Len(b) /\ e <= Len(b)
    /\ q \in Semicolons(X) /\ p < q
    /\ Before(Semicolons(X), q) = p
    /\ SubSeq(b, 1, e - 1) = PieceTo(X, q)
    /\ SubSeq(b, e + 1, Len(b)) = SubSeq(X, q + 1, Len(X))

LEMMA NextPiece ==
    ASSUME NEW C, NEW X \in Seq(C), NEW p \in {0} \union Semicolons(X), NEW b,
           b = SubSeq(X, p + 1, Len(X)), Semicolons(b) # {},
           NEW e, e = Min(Semicolons(b)), NEW q, q = p + e
    PROVE  EndsPiece(X, p, b, e, q)
<1>1. /\ Len(X) \in Nat /\ Semicolons(X) = {i \in 1 .. Len(X) : X[i] = "semicolon"}
      /\ Semicolons(X) \in SUBSET Nat
  BY SemicolonsAre
<1>2. p \in 0 .. Len(X)
  BY <1>1
<1>3. /\ b \in Seq(C) /\ Len(b) = Len(X) - p
      /\ \A i \in 1 .. Len(X) - p : b[i] = X[p + i]
  BY <1>1, <1>2, PartAfter
<1>4. Semicolons(b) = {i \in 1 .. Len(b) : b[i] = "semicolon"} /\ Semicolons(b) \in SUBSET Nat
  BY <1>3, SemicolonsAre
<1>5. e \in Semicolons(b) /\ \A i \in Semicolons(b) : e <= i
  BY <1>4, MinIsLeast
<1>6. e \in 1 .. Len(b) /\ e <= Len(b)
  BY <1>3, <1>4, <1>5
<1>7. q \in Semicolons(X) /\ p < q /\ q \in 1 .. Len(X)
  <2>1. q \in 1 .. Len(X) /\ p < q
    BY <1>1, <1>2, <1>3, <1>6
  <2>2. X[q] = "semicolon"
    BY <1>3, <1>4, <1>5, <1>6
  <2> QED
    BY <1>1, <2>1, <2>2
<1>8. ASSUME NEW j \in Semicolons(X), j < q
      PROVE  j <= p
  <2>1. SUFFICES ASSUME p < j PROVE FALSE
    BY <1>1, <1>2
  <2>2. j - p \in 1 .. Len(X) - p /\ p + (j - p) = j
    BY <1>1, <1>2, <2>1
  <2>3. b[j - p] = "semicolon"
    BY <1>1, <1>3, <2>2
  <2>4. j - p \in Semicolons(b)
    BY <1>3, <1>4, <2>2, <2>3
  <2>5. e <= j - p
    BY <1>5, <2>4
  <2> QED
    BY <1>1, <1>2, <1>6, <1>8, <2>5
<1>9. Before(Semicolons(X), q) = p
  <2>1. p \in {0} \union {j \in Semicolons(X) : j < q} /\ q \in Nat
    BY <1>7
  <2> QED
    BY <1>1, <1>8, <2>1, BeforeIs
<1>10. SubSeq(b, 1, e - 1) = PieceTo(X, q)
  <2> DEFINE v == e - 1
             w == p + v
  <2>1. v \in 0 .. Len(X) - p /\ 0 \in 0 .. v /\ Len(X) \in 0 .. Len(X)
    BY <1>1, <1>3, <1>6
  <2>2. 0 + 1 = 1 /\ p + 0 + 1 = p + 1 /\ w = q - 1
    BY <1>1, <1>2, <1>6
  <2> HIDE DEF v, w
  <2>3. SubSeq(SubSeq(X, p + 1, Len(X)), 0 + 1, v) = SubSeq(X, p + 0 + 1, p + v)
    BY <1>2, <2>1, PartOfPart
  <2>4. SubSeq(b, 1, v) = SubSeq(X, p + 1, w)
    BY <2>2, <2>3 DEF w
  <2>5. SubSeq(b, 1, v) = SubSeq(X, p + 1, q - 1)
    BY <2>2, <2>4
  <2> QED
    BY <1>9, <2>5 DEF PieceTo, v
<1>11. SubSeq(b, e + 1, Len(b)) = SubSeq(X, q + 1, Len(X))
  <2> DEFINE v == Len(b)
             w == p + v
  <2>1. v \in 0 .. Len(X) - p /\ e \in 0 .. v /\ Len(X) \in 0 .. Len(X)
    BY <1>1, <1>2, <1>3, <1>6
  <2>2. w = Len(X)
    BY <1>1, <1>2, <1>3
  <2> HIDE DEF v, w
  <2>3. SubSeq(SubSeq(X, p + 1, Len(X)), e + 1, v) = SubSeq(X, p + e + 1, p + v)
    BY <1>2, <2>1, PartOfPart
  <2>4. SubSeq(b, e + 1, v) = SubSeq(X, q + 1, w)
    BY <2>3 DEF w
  <2> QED
    BY <2>2, <2>4 DEF v
<1> QED
  BY <1>6, <1>7, <1>9, <1>10, <1>11 DEF EndsPiece

\* A piece that is skipped or refused adds no command, another one does.
LEMMA TakenToNext ==
    ASSUME NEW C, NEW X \in Seq(C), NEW p \in {0} \union Semicolons(X), NEW q \in Semicolons(X),
           Before(Semicolons(X), q) = p, \A i \in Semicolons(X) : i < q => ~Bad(PieceTo(X, i))
    PROVE  TakenTo(X, q) = IF Skipped(PieceTo(X, q)) \/ Bad(PieceTo(X, q)) THEN TakenTo(X, p)
                           ELSE Append(TakenTo(X, p), PieceTo(X, q))
<1>1. /\ Len(X) \in Nat /\ Semicolons(X) = {i \in 1 .. Len(X) : X[i] = "semicolon"}
      /\ Semicolons(X) \in SUBSET Nat
  BY SemicolonsAre
<1>2. q \in Nat /\ p \in Nat
  BY <1>1
<1>3. p < q /\ \A i \in Semicolons(X) : i < q => i <= p
  <2>1. p \in {0} \union {j \in Semicolons(X) : j < q} /\ \A i \in Semicolons(X) : i < q => i <= p
    BY <1>1, <1>2, BeforeIsLast
  <2>2. 0 < q
    BY <1>1
  <2> QED
    BY <2>1, <2>2
<1>4. ASSUME NEW i \in Semicolons(X)
      PROVE  /\ i <= q <=> (i <= p \/ i = q)
             /\ i <= p => i # q
  BY <1>1, <1>2, <1>3
<1>5. q \in Good(X) <=> ~Bad(PieceTo(X, q))
  <2>1. \A i \in Semicolons(X) : i <= q <=> (i < q \/ i = q)
    BY <1>1, <1>2
  <2> QED
    BY <2>1 DEF Good
<1>6. \A i \in Good(X) : i \in Semicolons(X)
  BY DEF Good
<1>7. CASE Skipped(PieceTo(X, q)) \/ Bad(PieceTo(X, q))
  <2>1. q \notin Taking(X, q)
    BY <1>5, <1>7 DEF Taking
  <2>2. Taking(X, q) = Taking(X, p)
    BY <1>4, <1>6, <2>1 DEF Taking
  <2> QED
    BY <1>7, <2>2 DEF TakenTo
<1>8. CASE ~Skipped(PieceTo(X, q)) /\ ~Bad(PieceTo(X, q))
  <2>1. q \in Good(X)
    BY <1>5, <1>8
  <2>2. Taking(X, q) = Taking(X, p) \union {q}
    BY <1>2, <1>4, <1>6, <1>8, <2>1 DEF Taking
  <2>3. Below(Taking(X, p), q)
    <3>1. ASSUME NEW i \in Taking(X, p)
          PROVE  i < q
      <4>1. i \in Semicolons(X) /\ i <= p
        BY <1>6 DEF Taking
      <4> QED
        BY <1>1, <1>2, <1>3, <4>1
    <3> QED
      BY <3>1 DEF Below
  <2>4. Pieces(X)[q] = PieceTo(X, q) /\ Pieces(X)[q] \in Seq(C)
    BY TakingIs DEF Gives, Pieces
  <2>5. Grows(Taking(X, p), q, Pieces(X), Pieces(X))
    <3>1. Agree(Pieces(X), Pieces(X), Taking(X, p))
      BY DEF Agree
    <3>2. Taking(X, p) \in SUBSET (0 .. Len(X)) /\ Gives(Pieces(X), Taking(X, p), Seq(C))
      BY TakingIs
    <3> QED
      BY <1>1, <1>2, <2>3, <2>4, <3>1, <3>2, ValuesGrow
  <2> QED
    BY <1>8, <2>2, <2>4, <2>5 DEF TakenTo, Grows
<1> QED
  BY <1>7, <1>8

\* A turn leaves less to be read, wherever it is.
LEMMA TurnShortens ==
    ASSUME NEW C, NEW d \in Devices(C), Semicolons(d.buffer) # {}
    PROVE  /\ TakeCommand(d) \in Devices(C)
           /\ Len(TakeCommand(d).buffer) < Len(d.buffer)
<1> DEFINE b == d.buffer
           e == Min(Semicolons(b))
           command == SubSeq(b, 1, e - 1)
           rest == SubSeq(b, e + 1, Len(b))
           moved == [d EXCEPT !.buffer = rest]
           r == TakeCommand(d)
<1>1. b \in Seq(C) /\ Len(b) \in Nat /\ d.commands \in Seq(Seq(C))
  BY LenProperties DEF Devices
<1> HIDE DEF e
<1>2. e \in 1 .. Len(b)
  <2>1. Semicolons(b) = {i \in 1 .. Len(b) : b[i] = "semicolon"} /\ Semicolons(b) \in SUBSET Nat
    BY <1>1, SemicolonsAre
  <2>2. e \in Semicolons(b)
    BY <2>1, MinIsLeast DEF e
  <2> QED
    BY <2>1, <2>2
<1>3. rest \in Seq(C) /\ Len(rest) < Len(b)
  <2>1. rest \in Seq(C) /\ Len(rest) = Len(b) - e
    BY <1>1, <1>2, PartAfter
  <2> QED
    BY <1>1, <1>2, <2>1
<1>4. command \in Seq(C)
  <2>1. e - 1 \in 0 .. Len(b) /\ 0 \in 0 .. e - 1 /\ 0 + 1 = 1
    BY <1>1, <1>2
  <2>2. SubSeq(b, 0 + 1, e - 1) \in Seq(C)
    BY <1>1, <2>1, PartAfter
  <2> QED
    BY <2>1, <2>2
<1>5. r = CASE Skipped(command) -> moved
            [] ~Skipped(command) /\ Refused(command) -> Close(moved)
            [] OTHER -> [moved EXCEPT !.commands = Append(@, command)]
  BY DEF TakeCommand, e
<1> HIDE DEF command, rest, r
<1>6. moved \in Devices(C) /\ moved.buffer = rest
  BY <1>3 DEF Devices
<1> HIDE DEF moved
<1>7. Close(moved) \in Devices(C) /\ Close(moved).buffer = rest
  BY <1>6 DEF Close, Devices
<1>8. /\ [moved EXCEPT !.commands = Append(@, command)] \in Devices(C)
      /\ [moved EXCEPT !.commands = Append(@, command)].buffer = rest
  <2>1. Append(moved.commands, command) \in Seq(Seq(C))
    BY <1>4, <1>6, AppendProperties DEF Devices
  <2> QED
    BY <1>6, <2>1 DEF Devices
<1>9. r \in Devices(C) /\ r.buffer = rest
  BY <1>5, <1>6, <1>7, <1>8
<1> QED
  BY <1>3, <1>9 DEF r

LEMMA TurnAdvances ==
    ASSUME NEW C, NEW X \in Seq(C), NEW p, NEW d \in Devices(C), IsAt(d, X, p),
           d.open, Semicolons(d.buffer) # {}
    PROVE  \E q : IsAt(TakeCommand(d), X, q)
<1> DEFINE b == d.buffer
           e == Min(Semicolons(b))
           q == p + e
           command == SubSeq(b, 1, e - 1)
           rest == SubSeq(b, e + 1, Len(b))
           r == TakeCommand(d)
<1>1. /\ p \in {0} \union Semicolons(X)
      /\ b = SubSeq(X, p + 1, Len(X))
      /\ d.commands = TakenTo(X, p)
      /\ \A i \in Semicolons(X) : i < p => ~Bad(PieceTo(X, i))
      /\ \A i \in Semicolons(X) : i = p => ~Bad(PieceTo(X, i))
  BY DEF IsAt
<1>2. b \in Seq(C) /\ Len(b) \in Nat
  BY LenProperties DEF Devices
<1> HIDE DEF e, q
<1>3. /\ e \in 1 .. Len(b) /\ e <= Len(b)
      /\ q \in Semicolons(X) /\ p < q
      /\ Before(Semicolons(X), q) = p
      /\ command = PieceTo(X, q)
      /\ rest = SubSeq(X, q + 1, Len(X))
  <2>1. e = Min(Semicolons(b)) /\ q = p + e
    BY DEF e, q
  <2>2. Semicolons(b) # {}
    OBVIOUS
  <2> HIDE DEF b
  <2>3. EndsPiece(X, p, b, e, q)
    BY <1>1, <2>1, <2>2, NextPiece
  <2> QED
    BY <2>3 DEF EndsPiece
<1>6. \A i \in Semicolons(X) : i < q => ~Bad(PieceTo(X, i))
  <2>1. ASSUME NEW i \in Semicolons(X), i < q
        PROVE  ~Bad(PieceTo(X, i))
    <3>1. Semicolons(X) \in SUBSET Nat
      BY SemicolonsAre
    <3>2. i <= p /\ p \in Nat /\ i \in Nat
      BY <1>1, <1>3, <2>1, <3>1, BeforeIsLast
    <3>3. i < p \/ i = p
      BY <3>2
    <3> QED
      BY <1>1, <3>3
  <2> QED
    BY <2>1
<1>7. TakenTo(X, q) = IF Skipped(command) \/ Bad(command) THEN TakenTo(X, p)
                      ELSE Append(TakenTo(X, p), command)
  BY <1>1, <1>3, <1>6, TakenToNext
<1> DEFINE moved == [d EXCEPT !.buffer = rest]
<1>8. r = CASE Skipped(command) -> moved
            [] ~Skipped(command) /\ Refused(command) -> Close(moved)
            [] OTHER -> [moved EXCEPT !.commands = Append(@, command)]
  BY DEF TakeCommand, e
<1> HIDE DEF b, command, rest, r
<1>9. moved.buffer = rest /\ moved.commands = TakenTo(X, p) /\ moved.open = TRUE
  BY <1>1 DEF Devices
<1> HIDE DEF moved
<1>10. CASE Skipped(command)
  <2>1. r = moved
    BY <1>8, <1>10
  <2>2. ~Bad(command) /\ TakenTo(X, q) = TakenTo(X, p)
    BY <1>7, <1>10 DEF Bad
  <2>3. IsAt(r, X, q)
    BY <1>3, <1>6, <1>9, <2>1, <2>2 DEF IsAt
  <2> QED
    BY <2>3 DEF r
<1>11. CASE ~Skipped(command) /\ Refused(command)
  <2>1. r = Close(moved)
    BY <1>8, <1>11
  <2>2. r.buffer = rest /\ r.commands = TakenTo(X, p) /\ r.open = FALSE
    BY <1>9, <2>1 DEF Close
  <2>3. Bad(command) /\ TakenTo(X, q) = TakenTo(X, p)
    BY <1>7, <1>11 DEF Bad
  <2>4. IsAt(r, X, q)
    BY <1>3, <1>6, <2>2, <2>3 DEF IsAt
  <2> QED
    BY <2>4 DEF r
<1>12. CASE ~Skipped(command) /\ ~Refused(command)
  <2>1. r = [moved EXCEPT !.commands = Append(@, command)]
    BY <1>8, <1>12
  <2>2. ~Bad(command) /\ TakenTo(X, q) = Append(TakenTo(X, p), command)
    BY <1>7, <1>12 DEF Bad
  <2>4. r.buffer = rest /\ r.commands = TakenTo(X, q) /\ r.open = TRUE
    BY <1>9, <2>1, <2>2
  <2>5. IsAt(r, X, q)
    BY <1>3, <1>6, <2>2, <2>4 DEF IsAt
  <2> QED
    BY <2>5 DEF r
<1> QED
  BY <1>10, <1>11, <1>12

(***************************************************************************)
(* The whole loop.                                                         *)
(***************************************************************************)

AfterTurns(d) ==
    LET after[n \in 0 .. Len(d.buffer)] == IF n = 0 THEN d ELSE TakeIfAny(after[n - 1])
    IN  after

\* The Devices that are at some position of X
Somewhere(C, X) == {d \in Devices(C) : \E p : IsAt(d, X, p)}

Closed(W) == \A r \in W : TakeIfAny(r) \in W

LEMMA TurnStaysSomewhere ==
    ASSUME NEW C, NEW X \in Seq(C)
    PROVE  Closed(Somewhere(C, X))
<1> SUFFICES ASSUME NEW r \in Somewhere(C, X) PROVE TakeIfAny(r) \in Somewhere(C, X)
  BY DEF Closed
<1>1. PICK p : IsAt(r, X, p)
  BY DEF Somewhere
<1>2. r \in Devices(C)
  BY DEF Somewhere
<1>3. CASE r.open /\ Semicolons(r.buffer) # {}
  <2>1. TakeCommand(r) \in Devices(C) /\ \E q : IsAt(TakeCommand(r), X, q)
    BY <1>1, <1>2, <1>3, TurnAdvances, TurnShortens
  <2> QED
    BY <1>3, <2>1 DEF TakeIfAny, Somewhere
<1>4. CASE ~(r.open /\ Semicolons(r.buffer) # {})
  BY <1>4 DEF TakeIfAny
<1> QED
  BY <1>3, <1>4

LEMMA TurnsOfLoop ==
    ASSUME NEW C, NEW W \in SUBSET Devices(C), Closed(W), NEW d \in W
    PROVE  /\ Len(d.buffer) \in Nat
           /\ \A n \in 0 .. Len(d.buffer) : AfterTurns(d)[n] \in W
           /\ AfterTurns(d)[0] = d
           /\ \A n \in 1 .. Len(d.buffer) : AfterTurns(d)[n] = TakeIfAny(AfterTurns(d)[n - 1])
<1> DEFINE N == Len(d.buffer)
           turn == [n \in 1 .. N |-> [r \in W |-> TakeIfAny(r)]]
           run == AfterTurns(d)
<1>1. N \in Nat
  BY LenProperties DEF Devices
<1> HIDE DEF N
<1>2. PICK f \in [0 .. N -> W] : IsRun(f, N, d, turn)
  <2>1. turn \in [1 .. N -> [W -> W]]
    BY DEF Closed
  <2> HIDE DEF turn, run
  <2> QED
    BY <1>1, <2>1, TurnsExist
<1>3. f = [n \in 0 .. N |-> IF n = 0 THEN d ELSE TakeIfAny(f[n - 1])]
  <2>1. ASSUME NEW n \in 0 .. N, n # 0
        PROVE  f[n] = TakeIfAny(f[n - 1])
    <3>1. n \in 1 .. N /\ n - 1 \in 0 .. N
      BY <1>1, <2>1
    <3> QED
      BY <1>2, <3>1 DEF IsRun
  <2>2. \A n \in 0 .. N : f[n] = IF n = 0 THEN d ELSE TakeIfAny(f[n - 1])
    <3> HIDE DEF turn
    <3> QED
      BY <1>2, <2>1 DEF IsRun
  <2> HIDE DEF turn
  <2> QED
    BY <1>2, <2>2
<1> HIDE DEF turn
<1>4. run = [n \in 0 .. N |-> IF n = 0 THEN d ELSE TakeIfAny(run[n - 1])]
  BY <1>3, Zenon DEF AfterTurns, N
<1> HIDE DEF run
<1>5. \A n \in 0 .. N : run[n] = IF n = 0 THEN d ELSE TakeIfAny(run[n - 1])
  BY <1>4
<1>6. 0 \in 0 .. N /\ \A n \in 1 .. N : n \in 0 .. N /\ n # 0
  BY <1>1
<1>7. run[0] = d /\ \A n \in 1 .. N : run[n] = TakeIfAny(run[n - 1])
  BY <1>5, <1>6
<1>8. \A n \in 0 .. N : run[n] \in W
  <2> DEFINE S == {n \in 0 .. N : run[n] \in W}
  <2>1. 0 \in S
    BY <1>6, <1>7
  <2>2. ASSUME NEW n \in 1 .. N, n - 1 \in S
        PROVE  n \in S
    BY <1>6, <1>7, <2>2 DEF Closed
  <2> HIDE DEF S
  <2>3. \A n \in 0 .. N : n \in S
    BY <1>1, <2>1, <2>2, TurnsInduction
  <2> QED
    BY <2>3 DEF S
<1> QED
  BY <1>1, <1>7, <1>8 DEF run, N

\* When the loop ends the session is closed or no semicolon is left.
LEMMA LoopEnds ==
    ASSUME NEW C, NEW W \in SUBSET Devices(C), Closed(W), NEW d \in W
    PROVE  /\ Loop(d) \in W
           /\ ~Loop(d).open \/ Semicolons(Loop(d).buffer) = {}
<1> DEFINE N == Len(d.buffer)
           run == AfterTurns(d)
           Over(r) == ~r.open \/ Semicolons(r.buffer) = {}
           S == {n \in 0 .. N : Over(run[n]) \/ Len(run[n].buffer) <= N - n}
<1>1. /\ N \in Nat
      /\ \A n \in 0 .. N : run[n] \in W
      /\ run[0] = d
      /\ \A n \in 1 .. N : run[n] = TakeIfAny(run[n - 1])
  BY TurnsOfLoop
<1>2. Loop(d) = run[N]
  BY DEF Loop, AfterTurns
<1>3. 0 \in S
  <2>1. Len(run[0].buffer) = N
    BY <1>1
  <2> HIDE DEF run, N
  <2>2. N <= N - 0 /\ 0 \in 0 .. N
    BY <1>1
  <2> QED
    BY <2>1, <2>2
<1> HIDE DEF run, N
<1>4. ASSUME NEW n \in 1 .. N, n - 1 \in S
      PROVE  n \in S
  <2> DEFINE r == run[n - 1]
             t == run[n]
  <2>1. n - 1 \in 0 .. N /\ n \in 0 .. N
    BY <1>1
  <2>2. r \in W /\ t \in W /\ t = TakeIfAny(r)
    BY <1>1, <2>1
  <2>3. Over(r) \/ Len(r.buffer) <= N - (n - 1)
    BY <1>4
  <2>4. Len(r.buffer) \in Nat /\ Len(t.buffer) \in Nat
    BY <2>2, LenProperties DEF Devices
  <2> HIDE DEF r, t
  <2>5. CASE Over(r)
    BY <2>1, <2>2, <2>5 DEF TakeIfAny, t
  <2>6. CASE ~Over(r)
    <3>1. t = TakeCommand(r)
      BY <2>2, <2>6 DEF TakeIfAny
    <3>2. Len(t.buffer) < Len(r.buffer)
      BY <2>2, <2>6, <3>1, TurnShortens
    <3>3. Len(t.buffer) <= N - n
      <4>1. Len(r.buffer) <= N - (n - 1) /\ N \in Nat
        BY <1>1, <2>3, <2>6
      <4> QED
        BY <2>4, <3>2, <4>1
    <3> QED
      BY <2>1, <3>3 DEF t
  <2> QED
    BY <2>5, <2>6
<1>5. N \in S
  <2> HIDE DEF S
  <2>1. \A n \in 0 .. N : n \in S
    BY <1>1, <1>3, <1>4, TurnsInduction
  <2> QED
    BY <1>1, <2>1
<1>6. Over(run[N])
  <2>1. SUFFICES ASSUME Len(run[N].buffer) <= N - N
        PROVE  Semicolons(run[N].buffer) = {}
    BY <1>5
  <2>2. run[N].buffer \in Seq(C)
    BY <1>1 DEF Devices
  <2>3. Len(run[N].buffer) = 0
    BY <1>1, <2>1, <2>2, LenProperties
  <2> QED
    BY <2>2, <2>3, SemicolonsAre
<1> QED
  BY <1>1, <1>2, <1>6

\* Where no semicolon is left, or the session is closed, a Device has what the
\* definition without the loop says.
LEMMA FineAtEnd ==
    ASSUME NEW C, NEW X \in Seq(C), NEW d \in Somewhere(C, X),
           ~d.open \/ Semicolons(d.buffer) = {}
    PROVE  Fine(d, X)
<1>1. PICK p : IsAt(d, X, p)
  BY DEF Somewhere
<1>2. /\ p \in {0} \union Semicolons(X)
      /\ d.buffer = SubSeq(X, p + 1, Len(X))
      /\ d.commands = TakenTo(X, p)
      /\ \A i \in Semicolons(X) : i < p => ~Bad(PieceTo(X, i))
      /\ d.open => \A i \in Semicolons(X) : i = p => ~Bad(PieceTo(X, i))
      /\ ~d.open => p \in Semicolons(X) /\ Bad(PieceTo(X, p))
  BY <1>1 DEF IsAt
<1>3. /\ Len(X) \in Nat /\ Semicolons(X) = {i \in 1 .. Len(X) : X[i] = "semicolon"}
      /\ Semicolons(X) \in SUBSET Nat
  BY SemicolonsAre
<1>4. p \in 0 .. Len(X)
  BY <1>2, <1>3
<1>5. Taken(X) = ValuesAt({i \in Good(X) : ~Skipped(PieceTo(X, i))}, Pieces(X))
  BY DEF Taken, Pieces
<1>6. CASE ~d.open
  <2>1. p \notin Good(X) /\ p \in Nat
    BY <1>2, <1>4, <1>6 DEF Good
  <2>2. Good(X) # Semicolons(X)
    BY <1>2, <1>6, <2>1
  <2>3. ASSUME NEW i \in Good(X)
        PROVE  i <= p
    <3>1. i \in Semicolons(X) /\ i \in Nat /\ ~(p <= i)
      BY <1>2, <1>3, <1>6 DEF Good
    <3> QED
      BY <2>1, <3>1
  <2>4. {i \in Good(X) : ~Skipped(PieceTo(X, i))} = Taking(X, p)
    BY <2>3 DEF Taking
  <2>5. d.commands = Taken(X)
    BY <1>2, <1>5, <2>4 DEF TakenTo
  <2> QED
    BY <1>6, <2>2, <2>5 DEF Fine
<1>7. CASE d.open
  <2>1. ASSUME NEW i \in Semicolons(X)
        PROVE  i <= p
    <3>1. SUFFICES ASSUME p < i PROVE FALSE
      BY <1>3, <1>4
    <3>2. Semicolons(d.buffer) = {}
      BY <1>7
    <3>3. /\ d.buffer \in Seq(C) /\ Len(d.buffer) = Len(X) - p
          /\ \A j \in 1 .. Len(X) - p : d.buffer[j] = X[p + j]
      BY <1>2, <1>3, <1>4, PartAfter
    <3>4. i - p \in 1 .. Len(X) - p /\ p + (i - p) = i
      BY <1>3, <1>4, <3>1
    <3>5. d.buffer[i - p] = "semicolon"
      BY <1>3, <3>3, <3>4
    <3>6. Semicolons(d.buffer) = {j \in 1 .. Len(d.buffer) : d.buffer[j] = "semicolon"}
      BY <3>3, SemicolonsAre
    <3>7. i - p \in Semicolons(d.buffer)
      BY <3>3, <3>4, <3>5, <3>6
    <3> QED
      BY <3>2, <3>7
  <2>2. \A i \in Semicolons(X) : ~Bad(PieceTo(X, i))
    <3>1. ASSUME NEW i \in Semicolons(X)
          PROVE  i < p \/ i = p
      BY <1>3, <1>4, <2>1
    <3> QED
      BY <1>2, <1>7, <3>1
  <2>3. Good(X) = Semicolons(X)
    BY <2>2 DEF Good
  <2>4. {i \in Good(X) : ~Skipped(PieceTo(X, i))} = Taking(X, p)
    BY <2>1, <2>3 DEF Taking
  <2>5. Before(Semicolons(X), Len(X) + 1) = p
    <3>1. p \in {0} \union {j \in Semicolons(X) : j < Len(X) + 1} /\ Len(X) + 1 \in Nat
      BY <1>2, <1>3, <1>4
    <3> QED
      BY <1>3, <2>1, <3>1, BeforeIs
  <2>6. LastPiece(X) = d.buffer
    <3> DEFINE n == Len(X) + 1
    <3>1. n - 1 = Len(X)
      BY <1>3
    <3>2. d.buffer = SubSeq(X, p + 1, Len(X))
      BY <1>2
    <3>3. LastPiece(X) = SubSeq(X, Before(Semicolons(X), n) + 1, n - 1)
      BY DEF LastPiece, PieceTo
    <3>4. Before(Semicolons(X), n) = p
      BY <2>5
    <3> HIDE DEF n
    <3> QED
      BY <3>1, <3>2, <3>3, <3>4
  <2>7. d.commands = Taken(X)
    BY <1>2, <1>5, <2>4 DEF TakenTo
  <2> QED
    BY <1>7, <2>3, <2>6, <2>7 DEF Fine
<1> QED
  BY <1>6, <1>7

\* What is known of the beginning T of what has been given, X.
LEMMA GoodStays ==
    ASSUME NEW C, NEW T \in Seq(C), NEW X \in Seq(C), Len(T) <= Len(X),
           \A i \in 1 .. Len(T) : X[i] = T[i]
    PROVE  /\ \A i \in 1 .. Len(T) : i \in Good(X) <=> i \in Good(T)
           /\ TakenTo(X, Len(T)) = Taken(T)
<1>1. /\ Len(T) \in Nat /\ Semicolons(T) = {i \in 1 .. Len(T) : T[i] = "semicolon"}
      /\ Semicolons(T) \in SUBSET Nat
  BY SemicolonsAre
<1>2. /\ Len(X) \in Nat /\ Semicolons(X) = {i \in 1 .. Len(X) : X[i] = "semicolon"}
      /\ Semicolons(X) \in SUBSET Nat
  BY SemicolonsAre
<1>3. /\ \A i \in 1 .. Len(T) : i \in Semicolons(X) <=> i \in Semicolons(T)
      /\ \A i \in 1 .. Len(T) + 1 : PieceTo(X, i) = PieceTo(T, i)
  BY PieceStays
<1>4. \A i \in 1 .. Len(T) : PieceTo(X, i) = PieceTo(T, i)
  BY <1>1, <1>3
<1>5. ASSUME NEW i \in 1 .. Len(T)
      PROVE  i \in Good(X) <=> i \in Good(T)
  <2>1. ASSUME NEW j \in Nat, j <= i
        PROVE  (j \in Semicolons(X) => ~Bad(PieceTo(X, j))) <=> (j \in Semicolons(T) => ~Bad(PieceTo(T, j)))
    <3>1. CASE j = 0
      BY <1>1, <1>2, <3>1
    <3>2. CASE j # 0
      <4>1. j \in 1 .. Len(T)
        BY <1>1, <2>1, <3>2
      <4> QED
        BY <1>3, <1>4, <4>1
    <3> QED
      BY <3>1, <3>2
  <2>2. /\ \A j \in Semicolons(X) : j \in Nat
        /\ \A j \in Semicolons(T) : j \in Nat
    BY <1>1, <1>2
  <2> QED
    BY <1>3, <2>1, <2>2 DEF Good
<1>6. Taking(X, Len(T)) = {i \in Good(T) : ~Skipped(PieceTo(T, i))}
  <2>1. ASSUME NEW i
        PROVE  (i \in Good(X) /\ i <= Len(T)) <=> i \in Good(T)
    <3>1. i \in Good(X) /\ i <= Len(T) => i \in 1 .. Len(T)
      BY <1>1, <1>2 DEF Good
    <3>2. i \in Good(T) => i \in 1 .. Len(T) /\ i <= Len(T)
      BY <1>1 DEF Good
    <3> QED
      BY <1>5, <3>1, <3>2
  <2>2. \A i \in Good(T) : i \in 1 .. Len(T)
    BY <1>1 DEF Good
  <2> QED
    BY <1>4, <2>1, <2>2 DEF Taking
<1>7. ValuesAt(Taking(X, Len(T)), Pieces(X)) = ValuesAt(Taking(X, Len(T)), Pieces(T))
  <2>1. Taking(X, Len(T)) \in SUBSET (0 .. Len(X)) /\ Taking(X, Len(T)) \in SUBSET Semicolons(X)
    BY TakingIs
  <2>2. \A i \in Taking(X, Len(T)) : i \in 1 .. Len(T) /\ i \in Semicolons(T) /\ i \in Semicolons(X)
    BY <1>1, <1>3, <1>6 DEF Taking, Good
  <2>3. Agree(Pieces(X), Pieces(T), Taking(X, Len(T)))
    BY <1>4, <2>2 DEF Agree, Pieces
  <2> QED
    BY <1>2, <2>1, <2>3, ValuesSame
<1> QED
  BY <1>5, <1>6, <1>7 DEF TakenTo, Taken, Pieces

\* T and what follows it
LEMMA ConcatExtends ==
    ASSUME NEW C, NEW T \in Seq(C), NEW D \in Seq(C)
    PROVE  /\ T \o D \in Seq(C)
           /\ Len(T) \in Nat /\ Len(D) \in Nat /\ Len(T \o D) = Len(T) + Len(D)
           /\ Len(T) <= Len(T \o D)
           /\ \A i \in 1 .. Len(T) : (T \o D)[i] = T[i]
           /\ \A i \in 1 .. Len(D) : (T \o D)[Len(T) + i] = D[i]
<1>1. Len(T) \in Nat /\ Len(D) \in Nat
  BY LenProperties
<1>2. /\ T \o D \in Seq(C)
      /\ Len(T \o D) = Len(T) + Len(D)
      /\ \A i \in 1 .. Len(T) + Len(D) : (T \o D)[i] = IF i <= Len(T) THEN T[i] ELSE D[i - Len(T)]
  BY ConcatProperties
<1>3. ASSUME NEW i \in 1 .. Len(T)
      PROVE  (T \o D)[i] = T[i]
  <2>1. i \in 1 .. Len(T) + Len(D) /\ i <= Len(T)
    BY <1>1
  <2> QED
    BY <1>2, <2>1
<1>4. ASSUME NEW i \in 1 .. Len(D)
      PROVE  (T \o D)[Len(T) + i] = D[i]
  <2>1. Len(T) + i \in 1 .. Len(T) + Len(D) /\ ~(Len(T) + i <= Len(T)) /\ Len(T) + i - Len(T) = i
    BY <1>1
  <2> QED
    BY <1>2, <2>1
<1>5. Len(T) <= Len(T \o D)
  BY <1>1, <1>2
<1> QED
  BY <1>1, <1>2, <1>3, <1>4, <1>5

\* The buffer of a Device and what is read next are what stands after its
\* position.
LEMMA FineBegins ==
    ASSUME NEW C, NEW T \in Seq(C), NEW D \in Seq(C), NEW d \in Devices(C), Fine(d, T), d.open
    PROVE  [d EXCEPT !.buffer = d.buffer \o D] \in Somewhere(C, T \o D)
<1> DEFINE X == T \o D
           p == Before(Semicolons(T), Len(T) + 1)
           u == SubSeq(T, p + 1, Len(T))
           r == [d EXCEPT !.buffer = d.buffer \o D]
<1>1. /\ X \in Seq(C)
      /\ Len(T) \in Nat /\ Len(D) \in Nat /\ Len(X) = Len(T) + Len(D)
      /\ Len(T) <= Len(X)
      /\ \A i \in 1 .. Len(T) : X[i] = T[i]
      /\ \A i \in 1 .. Len(D) : X[Len(T) + i] = D[i]
  BY ConcatExtends
<1>2. /\ Semicolons(T) = {i \in 1 .. Len(T) : T[i] = "semicolon"}
      /\ Semicolons(T) \in SUBSET Nat
  BY SemicolonsAre
<1>3. d.commands = Taken(T) /\ Good(T) = Semicolons(T) /\ d.buffer = LastPiece(T)
  BY DEF Fine
<1> HIDE DEF X
<1>4. /\ Semicolons(X) = {i \in 1 .. Len(X) : X[i] = "semicolon"}
      /\ Semicolons(X) \in SUBSET Nat
  BY <1>1, SemicolonsAre
<1>5. /\ \A i \in 1 .. Len(T) : i \in Semicolons(X) <=> i \in Semicolons(T)
      /\ \A i \in 1 .. Len(T) + 1 : PieceTo(X, i) = PieceTo(T, i)
  BY <1>1, PieceStays
<1>6. TakenTo(X, Len(T)) = Taken(T)
  BY <1>1, GoodStays
<1>7. /\ p \in {0} \union {j \in Semicolons(T) : j < Len(T) + 1}
      /\ \A j \in Semicolons(T) : j < Len(T) + 1 => j <= p
  BY <1>1, <1>2, BeforeIsLast
<1> HIDE DEF p
<1>8. p \in 0 .. Len(T) /\ p \in {0} \union Semicolons(T) /\ \A j \in Semicolons(T) : j <= p
  BY <1>1, <1>2, <1>7
<1>9. p \in {0} \union Semicolons(X)
  <2>1. CASE p = 0
    BY <2>1
  <2>2. CASE p # 0
    BY <1>2, <1>5, <1>8, <2>2
  <2> QED
    BY <2>1, <2>2
<1>10. \A i \in Semicolons(X) : i <= Len(T) => i \in Semicolons(T) /\ i <= p
  BY <1>1, <1>4, <1>5, <1>8
<1>11. d.commands = TakenTo(X, p)
  <2>1. ASSUME NEW i \in Semicolons(X)
        PROVE  i <= Len(T) <=> i <= p
    BY <1>1, <1>4, <1>8, <1>10
  <2>2. \A i \in Good(X) : i \in Semicolons(X)
    BY DEF Good
  <2>3. Taking(X, Len(T)) = Taking(X, p)
    BY <2>1, <2>2 DEF Taking
  <2> QED
    BY <1>3, <1>6, <2>3 DEF TakenTo
<1>12. ASSUME NEW i \in Semicolons(X), i <= p
       PROVE  ~Bad(PieceTo(X, i))
  <2>1. i \in Semicolons(T) /\ i \in 1 .. Len(T) + 1
    BY <1>1, <1>4, <1>8, <1>10, <1>12
  <2>2. ~Bad(PieceTo(T, i))
    BY <1>2, <1>3, <2>1 DEF Good
  <2> QED
    BY <1>5, <2>1, <2>2
<1>13. d.buffer = u
  <2> DEFINE n == Len(T) + 1
  <2>1. n - 1 = Len(T)
    BY <1>1
  <2>2. LastPiece(T) = SubSeq(T, p + 1, n - 1)
    BY DEF LastPiece, PieceTo, p
  <2> HIDE DEF n
  <2> QED
    BY <1>3, <2>1, <2>2
<1>14. u \in Seq(C) /\ Len(u) = Len(T) - p /\ \A i \in 1 .. Len(T) - p : u[i] = T[p + i]
  BY <1>1, <1>8, PartAfter
<1> HIDE DEF u
<1>15. u \o D \in Seq(C) /\ u \o D = SubSeq(X, p + 1, Len(X))
  <2> DEFINE v == u \o D
             w == SubSeq(X, p + 1, Len(X))
  <2>1. /\ v \in Seq(C)
        /\ Len(v) = Len(u) + Len(D)
        /\ \A i \in 1 .. Len(u) : v[i] = u[i]
        /\ \A i \in 1 .. Len(D) : v[Len(u) + i] = D[i]
    BY <1>14, ConcatExtends
  <2>2. w \in Seq(C) /\ Len(w) = Len(X) - p /\ \A i \in 1 .. Len(X) - p : w[i] = X[p + i]
    BY <1>1, <1>8, PartAfter
  <2> HIDE DEF v, w
  <2>3. Len(v) = Len(w)
    BY <1>1, <1>8, <1>14, <2>1, <2>2
  <2>4. ASSUME NEW i \in 1 .. Len(v)
        PROVE  v[i] = w[i]
    <3>1. w[i] = X[p + i]
      BY <2>2, <2>3
    <3>2. CASE i <= Len(T) - p
      <4>1. i \in 1 .. Len(T) - p /\ i \in 1 .. Len(u) /\ p + i \in 1 .. Len(T)
        BY <1>1, <1>8, <1>14, <3>2
      <4> QED
        BY <1>1, <1>14, <2>1, <3>1, <4>1
    <3>3. CASE ~(i <= Len(T) - p)
      <4> DEFINE j == i - (Len(T) - p)
      <4>1. j \in 1 .. Len(D) /\ Len(u) + j = i /\ Len(T) + j = p + i
        BY <1>1, <1>8, <1>14, <2>1, <3>3
      <4> HIDE DEF j
      <4> QED
        BY <1>1, <2>1, <3>1, <4>1
    <3> QED
      BY <3>2, <3>3
  <2>5. v = w
    BY <2>1, <2>2, <2>3, <2>4, SeqEqual
  <2> QED
    BY <2>1, <2>5 DEF v, w
<1>16. /\ r \in Devices(C)
       /\ r.buffer = SubSeq(X, p + 1, Len(X)) /\ r.commands = d.commands /\ r.open = TRUE
  BY <1>13, <1>15 DEF Devices
<1> HIDE DEF r
<1>17. \A i \in Semicolons(X) : (i < p => ~Bad(PieceTo(X, i))) /\ (i = p => ~Bad(PieceTo(X, i)))
  BY <1>4, <1>8, <1>12
<1>18. IsAt(r, X, p)
  BY <1>9, <1>11, <1>16, <1>17 DEF IsAt
<1> QED
  BY <1>16, <1>18 DEF Somewhere, X, r

\* A closed session takes nothing of what follows.
LEMMA FineStays ==
    ASSUME NEW C, NEW T \in Seq(C), NEW D \in Seq(C), NEW d, Fine(d, T), ~d.open,
           d.open \in BOOLEAN
    PROVE  Fine(d, T \o D)
<1> DEFINE X == T \o D
<1>1. /\ X \in Seq(C)
      /\ Len(T) \in Nat /\ Len(T) <= Len(X)
      /\ \A i \in 1 .. Len(T) : X[i] = T[i]
  BY ConcatExtends
<1> HIDE DEF X
<1>2. d.commands = Taken(T) /\ Good(T) # Semicolons(T)
  BY DEF Fine
<1>3. /\ Semicolons(T) = {i \in 1 .. Len(T) : T[i] = "semicolon"}
      /\ Semicolons(X) = {i \in 1 .. Len(X) : X[i] = "semicolon"}
      /\ Semicolons(X) \in SUBSET Nat
  BY <1>1, SemicolonsAre
<1>4. PICK j \in Semicolons(T) : Bad(PieceTo(T, j))
  BY <1>2 DEF Good
<1>5. j \in Semicolons(X) /\ Bad(PieceTo(X, j)) /\ j \in 1 .. Len(T)
  <2>1. j \in 1 .. Len(T) /\ j \in 1 .. Len(T) + 1
    BY <1>1, <1>3
  <2> QED
    BY <1>1, <1>4, <2>1, PieceStays
<1>6. ASSUME NEW i \in Good(X)
      PROVE  i <= Len(T)
  <2>1. i \in Semicolons(X) /\ i \in Nat /\ ~(j <= i)
    BY <1>3, <1>5 DEF Good
  <2> QED
    BY <1>1, <1>5, <2>1
<1>7. Good(X) # Semicolons(X)
  <2>1. j <= j
    BY <1>5
  <2> QED
    BY <1>5, <2>1 DEF Good
<1>8. {i \in Good(X) : ~Skipped(PieceTo(X, i))} = Taking(X, Len(T))
  BY <1>6 DEF Taking
<1>9. Taken(X) = Taken(T)
  BY <1>1, <1>8, GoodStays DEF Taken, TakenTo, Pieces
<1> QED
  BY <1>2, <1>7, <1>9 DEF Fine, X

\* What follows makes no piece shorter.
LEMMA ShortBefore ==
    ASSUME NEW C, NEW T \in Seq(C), NEW D \in Seq(C), ShortPieces(T \o D)
    PROVE  ShortPieces(T)
<1> DEFINE X == T \o D
<1>1. /\ X \in Seq(C)
      /\ Len(T) \in Nat /\ Len(T) <= Len(X)
      /\ \A i \in 1 .. Len(T) : X[i] = T[i]
  BY ConcatExtends
<1>2. ShortPieces(X)
  OBVIOUS
<1> HIDE DEF X
<1>3. /\ Semicolons(T) = {i \in 1 .. Len(T) : T[i] = "semicolon"}
      /\ Semicolons(T) \in SUBSET Nat
      /\ Semicolons(X) = {i \in 1 .. Len(X) : X[i] = "semicolon"}
      /\ Semicolons(X) \in SUBSET Nat
      /\ Len(X) \in Nat
  BY <1>1, SemicolonsAre
<1>4. /\ \A i \in 1 .. Len(T) : i \in Semicolons(X) <=> i \in Semicolons(T)
      /\ \A i \in 1 .. Len(T) + 1 : Before(Semicolons(X), i) = Before(Semicolons(T), i)
      /\ \A i \in 1 .. Len(T) + 1 : PieceTo(X, i) = PieceTo(T, i)
  BY <1>1, PieceStays
<1>5. ASSUME NEW i \in Semicolons(T)
      PROVE  Len(PieceTo(T, i)) <= BufferLimit
  <2>1. i \in 1 .. Len(T) /\ i \in 1 .. Len(T) + 1
    BY <1>1, <1>3
  <2>2. i \in Semicolons(X) /\ PieceTo(X, i) = PieceTo(T, i)
    BY <1>4, <2>1
  <2> QED
    BY <1>2, <2>2 DEF ShortPieces
<1>6. Len(PieceTo(T, Len(T) + 1)) <= BufferLimit
  <2> DEFINE n == Len(T) + 1
             later == {i \in Semicolons(X) : i > Len(T)} \union {Len(X) + 1}
             e == Min(later)
             b == Before(Semicolons(T), n)
  <2>1. e \in later /\ \A j \in later : e <= j
    <3>1. later \in SUBSET Nat /\ later # {}
      BY <1>3
    <3> HIDE DEF later
    <3> QED
      BY <3>1, MinIsLeast
  <2> HIDE DEF e
  <2>2. e \in n .. Len(X) + 1 /\ e \in 1 .. Len(X) + 1 /\ e \in Semicolons(X) \union {Len(X) + 1}
    BY <1>1, <1>3, <2>1
  <2>3. n \in 1 .. Len(T) + 1 /\ n \in Nat
    BY <1>1
  <2>4. Before(Semicolons(X), e) = b
    <3>1. /\ b \in {0} \union {j \in Semicolons(T) : j < n}
          /\ \A j \in Semicolons(T) : j < n => j <= b
      BY <1>3, <2>3, BeforeIsLast
    <3> HIDE DEF b
    <3>2. b \in {0} \union {j \in Semicolons(X) : j < e}
      <4>1. CASE b = 0
        BY <4>1
      <4>2. CASE b \in Semicolons(T)
        <5>1. b \in 1 .. Len(T) /\ b < e
          BY <1>1, <1>3, <2>2, <4>2
        <5> QED
          BY <1>4, <4>2, <5>1
      <4> QED
        BY <3>1, <4>1, <4>2
    <3>3. ASSUME NEW j \in Semicolons(X), j < e
          PROVE  j <= b
      <4>1. j \notin later
        BY <1>3, <2>1, <2>2, <3>3
      <4>2. j \in 1 .. Len(T) /\ j < n
        BY <1>1, <1>3, <4>1
      <4> QED
        BY <1>4, <3>1, <4>2
    <3>4. e \in Nat
      BY <2>2
    <3> QED
      BY <1>3, <3>2, <3>3, <3>4, BeforeIs
  <2>5. Len(PieceTo(X, e)) = e - 1 - b
    BY <1>1, <2>2, <2>4, PieceIs
  <2>6. Len(PieceTo(T, n)) = n - 1 - b /\ b \in 0 .. n - 1
    BY <2>3, PieceIs
  <2>7. Len(PieceTo(X, e)) <= BufferLimit
    BY <1>2, <2>2 DEF ShortPieces
  <2> HIDE DEF b, n
  <2>8. n - 1 - b <= e - 1 - b
    BY <2>2, <2>3, <2>6
  <2> QED
    BY <2>2, <2>3, <2>5, <2>6, <2>7, <2>8, TextAssumption DEF n
<1> QED
  BY <1>5, <1>6 DEF ShortPieces

(***************************************************************************)
(* One read, and every sequence of reads.                                  *)
(***************************************************************************)

Printing(C) == C \ {"newline"}

\* What is known of a Device that has been given t
Known(C, d, t) ==
    /\ d \in Devices(Printing(C))
    /\ ShortPieces(Printable(t)) => Fine(d, Printable(t))
    /\ d.open => Len(d.buffer) <= BufferLimit /\ Semicolons(d.buffer) = {}

LEMMA ReadKeeps ==
    ASSUME NEW C, NEW t \in Seq(C), NEW data \in Seq(C), NEW d, Known(C, d, t)
    PROVE  Known(C, ProcessData(d, data), t \o data)
<1> DEFINE P == Printing(C)
           T == Printable(t)
           D == Printable(data)
           X == Printable(t \o data)
           r == ProcessData(d, data)
<1>1. T \in Seq(P) /\ D \in Seq(P) /\ X = T \o D
  BY PrintableIsSequence, PrintableOfConcat DEF Printing
<1>2. d \in Devices(P) /\ d.open \in BOOLEAN /\ d.buffer \in Seq(P)
  BY DEF Known, Devices
<1>3. ShortPieces(X) => Fine(d, T)
  BY <1>1, ShortBefore DEF Known
<1>4. CASE ~d.open
  <2>1. r = d
    BY <1>4 DEF ProcessData
  <2>2. ShortPieces(X) => Fine(d, X)
    BY <1>1, <1>2, <1>3, <1>4, FineStays
  <2> QED
    BY <1>2, <1>4, <2>1, <2>2 DEF Known
<1>5. CASE d.open
  <2> DEFINE given == [d EXCEPT !.buffer = d.buffer \o D]
             l == Loop(given)
  <2>1. Printable(d.buffer \o data) = d.buffer \o D
    <3>1. d.buffer \in Seq(C)
      BY <1>2, SeqMonotonic DEF Printing
    <3>2. Printable(d.buffer) = d.buffer
      BY <1>2, PrintableOfPrintable DEF Printing
    <3> QED
      BY <3>1, <3>2, PrintableOfConcat
  <2>2. r = CheckLimit(l)
    BY <1>5, <2>1 DEF ProcessData
  <2>3. given \in Devices(P)
    BY <1>1, <1>2, ConcatProperties DEF Devices
  <2>4. Closed(Devices(P))
    BY TurnShortens DEF Closed, TakeIfAny
  <2>5. l \in Devices(P) /\ (~l.open \/ Semicolons(l.buffer) = {})
    <3> HIDE DEF given
    <3>1. Devices(P) \in SUBSET Devices(P)
      OBVIOUS
    <3> QED
      BY <2>3, <2>4, <3>1, LoopEnds
  <2>6. ShortPieces(X) => Fine(l, X)
    <3>1. SUFFICES ASSUME ShortPieces(X) PROVE Fine(l, X)
      OBVIOUS
    <3>2. given \in Somewhere(P, X)
      BY <1>1, <1>2, <1>3, <1>5, <3>1, FineBegins
    <3>3. X \in Seq(P)
      BY <1>1, ConcatProperties
    <3>4. Closed(Somewhere(P, X)) /\ Somewhere(P, X) \in SUBSET Devices(P)
      BY <3>3, TurnStaysSomewhere DEF Somewhere
    <3> HIDE DEF given, X
    <3>5. l \in Somewhere(P, X)
      BY <3>2, <3>4, LoopEnds
    <3> QED
      BY <2>5, <3>3, <3>5, FineAtEnd
  <2> HIDE DEF l, X
  <2>7. r \in Devices(P) /\ (r.open => l.open /\ r = l /\ Len(l.buffer) <= BufferLimit)
    <3>1. Len(l.buffer) \in Nat
      BY <2>5, LenProperties DEF Devices
    <3>2. CASE l.open /\ Len(l.buffer) > BufferLimit
      <4>1. r = Close(l)
        BY <2>2, <3>2 DEF CheckLimit
      <4> QED
        BY <2>5, <4>1 DEF Close, Devices
    <3>3. CASE ~(l.open /\ Len(l.buffer) > BufferLimit)
      <4>1. r = l
        BY <2>2, <3>3 DEF CheckLimit
      <4> QED
        BY <2>5, <3>1, <3>3, <4>1, TextAssumption
    <3> QED
      BY <3>2, <3>3
  <2>8. ShortPieces(X) => r = l
    <3>1. SUFFICES ASSUME ShortPieces(X), l.open PROVE ~(Len(l.buffer) > BufferLimit)
      BY <2>2 DEF CheckLimit
    <3>2. l.buffer = PieceTo(X, Len(X) + 1)
      BY <2>6, <3>1 DEF Fine, LastPiece
    <3>3. Len(l.buffer) <= BufferLimit
      BY <3>1, <3>2 DEF ShortPieces
    <3>4. Len(l.buffer) \in Nat
      BY <2>5, LenProperties DEF Devices
    <3> QED
      BY <3>3, <3>4, TextAssumption
  <2> QED
    BY <2>5, <2>6, <2>7, <2>8 DEF Known, X
<1> QED
  BY <1>2, <1>4, <1>5

DeviceInv ==
    /\ source = "tracker" => text \in Seq(TrackerCharacters) /\ Known(TrackerCharacters, device, text)
    /\ source # "tracker" => device = NewDevice

LEMMA NewDeviceIsKnown == Known(TrackerCharacters, NewDevice, << >>)
<1> DEFINE P == Printing(TrackerCharacters)
           nothing == << >>
<1>1. nothing \in Seq(P) /\ nothing \in Seq(Seq(P)) /\ Len(nothing) = 0
  BY EmptySeq
<1>2. NewDevice \in Devices(P) /\ NewDevice.buffer = nothing /\ NewDevice.commands = nothing /\ NewDevice.open = TRUE
  BY <1>1 DEF NewDevice, Devices
<1>3. \A x \in Seq(P) : Len(x) = 0 => x = nothing
  BY EmptySeq
<1>4. Printable(nothing) = nothing /\ \A f : ValuesAt({}, f) = nothing
  BY PrintableOfNothing, ValuesOfNone
<1> HIDE DEF nothing, P
<1>5. Semicolons(nothing) = {}
  <2>1. nothing \in Seq(P)
    BY <1>1
  <2>2. Semicolons(nothing) = {i \in 1 .. Len(nothing) : nothing[i] = "semicolon"}
    BY <2>1, SemicolonsAre
  <2>3. 1 .. Len(nothing) = {}
    BY <1>1
  <2> QED
    BY <2>2, <2>3
<1>6. Good(nothing) = {}
  BY <1>5 DEF Good
<1>7. Taken(nothing) = nothing
  <2>1. {i \in Good(nothing) : ~Skipped(PieceTo(nothing, i))} = {}
    BY <1>6
  <2> QED
    BY <1>4, <2>1 DEF Taken
<1>8. LastPiece(nothing) = nothing
  <2> DEFINE e == Len(nothing) + 1
             b == Before(Semicolons(nothing), e)
  <2>1. e \in 1 .. Len(nothing) + 1 /\ e = 1
    BY <1>1
  <2> HIDE DEF e
  <2>2. b \in 0 .. e - 1 /\ PieceTo(nothing, e) \in Seq(P) /\ Len(PieceTo(nothing, e)) = e - 1 - b
    BY <1>1, <2>1, PieceIs
  <2> HIDE DEF b
  <2>3. Len(PieceTo(nothing, e)) = 0
    BY <2>1, <2>2
  <2> QED
    BY <1>3, <2>2, <2>3 DEF LastPiece, e
<1>9. Fine(NewDevice, nothing)
  BY <1>2, <1>5, <1>6, <1>7, <1>8 DEF Fine
<1>10. Known(TrackerCharacters, NewDevice, nothing)
  BY <1>1, <1>2, <1>4, <1>5, <1>9, TextAssumption DEF Known, P
<1> QED
  BY <1>10 DEF nothing

LEMMA DeviceInvIsInvariant == Spec => []DeviceInv
<1>1. Init => DeviceInv
  BY NewDeviceIsKnown, EmptySeq DEF Init, DeviceInv
<1>2. ASSUME DeviceInv, [Next]_vars
      PROVE  DeviceInv'
  <2>1. CASE \E c \in ChatCharacters : HandleCharacter(c)
    BY <1>2, <2>1 DEF HandleCharacter, DeviceInv
  <2>2. CASE HandleEnd
    BY <1>2, <2>2 DEF HandleEnd, DeviceInv
  <2>3. ASSUME NEW n \in 1 .. MaxLength - Len(text), NEW data \in [1 .. n -> TrackerCharacters], Read(data)
        PROVE  DeviceInv'
    <3>1. data \in Seq(TrackerCharacters)
      <4>1. n \in Nat
        OBVIOUS
      <4> QED
        BY <4>1, SeqDef
    <3>2. /\ source = "tracker" /\ source' = source
          /\ text' = text \o data /\ device' = ProcessData(device, data)
      BY <2>3 DEF Read
    <3>3. text \in Seq(TrackerCharacters) /\ Known(TrackerCharacters, device, text)
      BY <1>2, <3>2 DEF DeviceInv
    <3>4. text' \in Seq(TrackerCharacters) /\ Known(TrackerCharacters, device', text')
      BY <3>1, <3>2, <3>3, ReadKeeps, ConcatProperties
    <3> QED
      BY <3>2, <3>4 DEF DeviceInv
  <2>4. CASE UNCHANGED vars
    BY <1>2, <2>4 DEF vars, DeviceInv
  <2> QED
    BY <1>2, <2>1, <2>2, <2>3, <2>4 DEF Next
<1> QED
  BY <1>1, <1>2, PTL DEF Spec

\* The while of Device::processData ends within as many turns as Loop gives it,
\* one for each character: for every Device and every buffer, one more turn
\* would change nothing.
THEOREM ProcessDataLeavesItsLoop ==
    ASSUME NEW C, NEW d \in Devices(C)
    PROVE  TakeIfAny(Loop(d)) = Loop(d)
<1>1. ASSUME NEW r \in Devices(C)
      PROVE  TakeIfAny(r) \in Devices(C)
  BY TurnShortens DEF TakeIfAny
<1>2. Closed(Devices(C))
  BY <1>1 DEF Closed
<1>3. ~Loop(d).open \/ Semicolons(Loop(d).buffer) = {}
  BY <1>2, LoopEnds
<1> QED
  BY <1>3 DEF TakeIfAny

\* For every stream of a tracker and every way of cutting it into reads, a
\* Device takes the same commands, closes the session for the same one and
\* keeps the same rest (Device::processData).
THEOREM CutsAreInvisible == Spec => []CutsDontMatter
<1>1. DeviceInv => CutsDontMatter
  BY DEF DeviceInv, CutsDontMatter, Known, Fine
<1> QED
  BY <1>1, DeviceInvIsInvariant, PTL

\* Whatever a tracker sends, an open session's buffer holds no finished command
\* and no more than the limit (Device::processData).
THEOREM RestIsShort == Spec => []OnlyAShortRestWaits
<1>1. ASSUME DeviceInv, device.open
      PROVE  OnlyAShortRestWaits
  <2>1. CASE source = "tracker"
    <3>1. Known(TrackerCharacters, device, text)
      BY <1>1, <2>1 DEF DeviceInv
    <3>2. device.buffer \in Seq(Printing(TrackerCharacters))
      BY <3>1 DEF Known, Devices
    <3>3. \A i \in DOMAIN device.buffer : device.buffer[i] \in Printing(TrackerCharacters)
      BY <3>2, LenProperties, ElementOfSeq
    <3> QED
      BY <1>1, <3>1, <3>3 DEF Known, OnlyAShortRestWaits, Printing, Semicolons
  <2>2. CASE source # "tracker"
    <3>1. device.buffer = << >>
      BY <1>1, <2>2 DEF DeviceInv, NewDevice
    <3>2. << >> \in Seq({}) /\ Len(<< >>) = 0
      BY EmptySeq
    <3>3. DOMAIN << >> = {}
      BY <3>2, LenProperties
    <3> QED
      BY <3>1, <3>2, <3>3, TextAssumption DEF OnlyAShortRestWaits
  <2> QED
    BY <2>1, <2>2
<1>2. DeviceInv => OnlyAShortRestWaits
  BY <1>1 DEF OnlyAShortRestWaits
<1> QED
  BY <1>2, DeviceInvIsInvariant, PTL

(***************************************************************************)
(* Chat messages: what one more character, c, changes of a text T.         *)
(***************************************************************************)

LEMMA TextGrows ==
    ASSUME NEW C, NEW T \in Seq(C), NEW c \in C
    PROVE  /\ Append(T, c) \in Seq(C)
           /\ Len(T) \in Nat /\ Len(Append(T, c)) = Len(T) + 1
           /\ DOMAIN T = 1 .. Len(T) /\ DOMAIN Append(T, c) = 1 .. Len(T) + 1
           /\ Append(T, c)[Len(T) + 1] = c
           /\ \A i \in 1 .. Len(T) : Append(T, c)[i] = T[i] /\ T[i] \in C
<1>1. Len(T) \in Nat /\ DOMAIN T = 1 .. Len(T) /\ \A i \in 1 .. Len(T) : T[i] \in C
  BY LenProperties, ElementOfSeq
<1> QED
  BY <1>1, AppendProperties, LenProperties

QuotesTo(body, i) == {j \in Quotes(body) : j < i}

LEMMA QuotesAreFinite ==
    ASSUME NEW C, NEW T \in Seq(C), NEW i
    PROVE  IsFiniteSet(QuotesTo(T, i)) /\ Cardinality(QuotesTo(T, i)) \in Nat
<1>1. Len(T) \in Nat /\ DOMAIN T = 1 .. Len(T)
  BY LenProperties
<1>2. QuotesTo(T, i) \in SUBSET (0 .. Len(T))
  BY <1>1 DEF QuotesTo, Quotes
<1> QED
  BY <1>1, <1>2, FinitePositions

LEMMA OddNext == \A n \in Nat : (n + 1) % 2 = 1 <=> ~(n % 2 = 1)
OBVIOUS

\* Behind a quote it is the other way round.
LEMMA InsideNext ==
    ASSUME NEW C, NEW T \in Seq(C), NEW i \in 1 .. Len(T)
    PROVE  Inside(T, i + 1) <=> IF T[i] = "quote" THEN ~Inside(T, i) ELSE Inside(T, i)
<1>1. Len(T) \in Nat /\ DOMAIN T = 1 .. Len(T)
  BY LenProperties
<1>2. IsFiniteSet(QuotesTo(T, i)) /\ Cardinality(QuotesTo(T, i)) \in Nat /\ i \notin QuotesTo(T, i)
  <2>1. IsFiniteSet(QuotesTo(T, i)) /\ Cardinality(QuotesTo(T, i)) \in Nat
    BY QuotesAreFinite
  <2>2. i \notin QuotesTo(T, i)
    BY <1>1 DEF QuotesTo
  <2> QED
    BY <2>1, <2>2
<1>3. CASE T[i] = "quote"
  <2>1. QuotesTo(T, i + 1) = QuotesTo(T, i) \union {i}
    BY <1>1, <1>3 DEF QuotesTo, Quotes
  <2>2. Cardinality(QuotesTo(T, i + 1)) = Cardinality(QuotesTo(T, i)) + 1
    BY <1>2, <2>1, FS_AddElement
  <2>3. Cardinality(QuotesTo(T, i + 1)) % 2 = 1 <=> ~(Cardinality(QuotesTo(T, i)) % 2 = 1)
    BY <1>2, <2>2, OddNext
  <2> QED
    BY <1>3, <2>3 DEF Inside, QuotesTo
<1>4. CASE T[i] # "quote"
  <2>1. QuotesTo(T, i + 1) = QuotesTo(T, i)
    BY <1>1, <1>4 DEF QuotesTo, Quotes
  <2> QED
    BY <1>4, <2>1 DEF Inside, QuotesTo
<1> QED
  BY <1>3, <1>4

LEMMA InsideGrows ==
    ASSUME NEW C, NEW T \in Seq(C), NEW c \in C
    PROVE  /\ \A i \in 0 .. Len(T) + 1 : Inside(Append(T, c), i) <=> Inside(T, i)
           /\ Inside(Append(T, c), Len(T) + 2) <=>
                  IF c = "quote" THEN ~Inside(T, Len(T) + 1) ELSE Inside(T, Len(T) + 1)
<1> DEFINE X == Append(T, c)
           L == Len(T)
<1>1. /\ X \in Seq(C) /\ L \in Nat /\ Len(X) = L + 1
      /\ DOMAIN T = 1 .. L /\ DOMAIN X = 1 .. L + 1
      /\ X[L + 1] = c /\ \A i \in 1 .. L : X[i] = T[i] /\ T[i] \in C
  BY TextGrows
<1> HIDE DEF X, L
<1>2. ASSUME NEW i \in 0 .. L + 1
      PROVE  Inside(X, i) <=> Inside(T, i)
  <2>1. QuotesTo(X, i) = QuotesTo(T, i)
    BY <1>1 DEF QuotesTo, Quotes
  <2> QED
    BY <2>1 DEF Inside, QuotesTo
<1>3. L + 1 \in 1 .. Len(X) /\ L + 1 \in 0 .. L + 1 /\ L + 1 + 1 = L + 2
  BY <1>1
<1>4. Inside(X, L + 1 + 1) <=> IF X[L + 1] = "quote" THEN ~Inside(X, L + 1) ELSE Inside(X, L + 1)
  BY <1>1, <1>3, InsideNext
<1>5. Inside(X, L + 2) <=> IF c = "quote" THEN ~Inside(T, L + 1) ELSE Inside(T, L + 1)
  BY <1>1, <1>2, <1>3, <1>4
<1> QED
  BY <1>2, <1>5 DEF X, L

\* What one more character changes of the marks, and what it leaves alone
Marks(T, c, X, L) ==
    /\ Newlines(X) = Newlines(T) \union {i \in {L + 1} : c = "newline" /\ ~Inside(T, L + 1)}
    /\ \A i \in 0 .. L : IsLetter(X, i) <=> IsLetter(T, i)
    /\ IsLetter(X, L + 1) <=> ~Inside(T, L + 1) /\ c \notin {"space", "quote", "newline"}
    /\ \A i \in 1 .. L : i \in Quotes(X) <=> i \in Quotes(T)
    /\ L + 1 \in Quotes(X) <=> c = "quote"
    /\ Newlines(T) \in SUBSET (1 .. L) /\ Quotes(X) \in SUBSET (1 .. L + 1)

LEMMA MarksGrow ==
    ASSUME NEW C, NEW T \in Seq(C), NEW c \in C
    PROVE  Marks(T, c, Append(T, c), Len(T))
<1> DEFINE X == Append(T, c)
           L == Len(T)
<1>1. /\ X \in Seq(C) /\ L \in Nat /\ Len(X) = L + 1
      /\ DOMAIN T = 1 .. L /\ DOMAIN X = 1 .. L + 1
      /\ X[L + 1] = c /\ \A i \in 1 .. L : X[i] = T[i] /\ T[i] \in C
  BY TextGrows
<1>2. \A i \in 0 .. L + 1 : Inside(X, i) <=> Inside(T, i)
  BY InsideGrows
<1> HIDE DEF X, L
<1>3. \A i \in DOMAIN X : i \in 1 .. L \/ i = L + 1
  BY <1>1
<1>4. \A i \in 1 .. L : i \in DOMAIN X /\ i \in DOMAIN T /\ i \in 0 .. L + 1
  BY <1>1
<1>5. L + 1 \in DOMAIN X /\ L + 1 \in 0 .. L + 1 /\ L + 1 \notin DOMAIN T
  BY <1>1
<1>6. Newlines(X) = Newlines(T) \union {i \in {L + 1} : c = "newline" /\ ~Inside(T, L + 1)}
  <2>1. ASSUME NEW i \in 1 .. L
        PROVE  i \in Newlines(X) <=> i \in Newlines(T)
    BY <1>1, <1>2, <1>4 DEF Newlines
  <2>2. L + 1 \in Newlines(X) <=> c = "newline" /\ ~Inside(T, L + 1)
    BY <1>1, <1>2, <1>5 DEF Newlines
  <2>3. \A i \in Newlines(X) : i \in 1 .. L \/ i = L + 1
    BY <1>3 DEF Newlines
  <2>4. \A i \in Newlines(T) : i \in 1 .. L
    BY <1>1 DEF Newlines
  <2> QED
    BY <2>1, <2>2, <2>3, <2>4
<1>7. ASSUME NEW i \in 0 .. L
      PROVE  IsLetter(X, i) <=> IsLetter(T, i)
  <2>1. CASE i = 0
    BY <1>1, <2>1 DEF IsLetter
  <2>2. CASE i # 0
    <3>1. i \in 1 .. L
      BY <2>2
    <3> QED
      BY <1>1, <1>2, <1>4, <3>1 DEF IsLetter
  <2> QED
    BY <2>1, <2>2
<1>8. IsLetter(X, L + 1) <=> ~Inside(T, L + 1) /\ c \notin {"space", "quote", "newline"}
  BY <1>1, <1>2, <1>5 DEF IsLetter
<1>9. /\ \A i \in 1 .. L : i \in Quotes(X) <=> i \in Quotes(T)
      /\ L + 1 \in Quotes(X) <=> c = "quote"
  BY <1>1, <1>4, <1>5 DEF Quotes
<1>10. Newlines(T) \in SUBSET (1 .. L) /\ Quotes(X) \in SUBSET (1 .. L + 1)
  BY <1>1 DEF Newlines, Quotes
<1> QED
  BY <1>6, <1>7, <1>8, <1>9, <1>10 DEF Marks, X, L

\* The words that one more character begins
Opened(body, c) ==
    {i \in {Len(body) + 2} : c = "quote" /\ ~Inside(body, Len(body) + 1)}
        \union {i \in {Len(body) + 1} : /\ ~Inside(body, i) /\ c \notin {"space", "quote", "newline"}
                                        /\ ~IsLetter(body, Len(body))}

LEMMA BeginsAre ==
    ASSUME NEW C, NEW T \in Seq(C)
    PROVE  /\ Begins(T) \in SUBSET (1 .. Len(T) + 1)
           /\ \A i \in 1 .. Len(T) + 1 :
                  i \in Begins(T) <=> \/ i - 1 \in Quotes(T) /\ ~Inside(T, i - 1)
                                      \/ IsLetter(T, i) /\ ~IsLetter(T, i - 1)
<1>1. Len(T) \in Nat /\ DOMAIN T = 1 .. Len(T)
  BY LenProperties
<1>2. \A j \in Quotes(T) : j \in 1 .. Len(T) /\ j + 1 \in 1 .. Len(T) + 1 /\ j + 1 - 1 = j
  BY <1>1 DEF Quotes
<1>3. \A i \in DOMAIN T : i \in 1 .. Len(T) + 1
  BY <1>1
<1>4. ASSUME NEW i \in Begins(T)
      PROVE  i \in 1 .. Len(T) + 1
  BY <1>2, <1>3 DEF Begins
<1>5. ASSUME NEW i \in 1 .. Len(T) + 1
      PROVE  i \in Begins(T) <=> \/ i - 1 \in Quotes(T) /\ ~Inside(T, i - 1)
                                 \/ IsLetter(T, i) /\ ~IsLetter(T, i - 1)
  <2>1. i = (i - 1) + 1
    OBVIOUS
  <2>2. i \in {j + 1 : j \in {q \in Quotes(T) : ~Inside(T, q)}}
            <=> i - 1 \in Quotes(T) /\ ~Inside(T, i - 1)
    <3>1. ASSUME NEW j \in {q \in Quotes(T) : ~Inside(T, q)}, i = j + 1
          PROVE  i - 1 \in Quotes(T) /\ ~Inside(T, i - 1)
      <4>1. i - 1 = j
        BY <1>2, <3>1
      <4> QED
        BY <4>1
    <3> QED
      BY <2>1, <3>1
  <2>3. i \in {q \in DOMAIN T : IsLetter(T, q) /\ ~IsLetter(T, q - 1)}
            <=> IsLetter(T, i) /\ ~IsLetter(T, i - 1)
    BY DEF IsLetter
  <2> QED
    BY <2>2, <2>3 DEF Begins
<1> QED
  BY <1>4, <1>5

LEMMA BeginsGrow ==
    ASSUME NEW C, NEW T \in Seq(C), NEW c \in C, NEW X, X = Append(T, c)
    PROVE  Begins(X) = Begins(T) \union Opened(T, c)
<1> DEFINE L == Len(T)
<1>1. X \in Seq(C) /\ L \in Nat /\ Len(X) = L + 1
  BY TextGrows
<1>2. /\ \A i \in 0 .. L : IsLetter(X, i) <=> IsLetter(T, i)
      /\ IsLetter(X, L + 1) <=> ~Inside(T, L + 1) /\ c \notin {"space", "quote", "newline"}
      /\ \A i \in 1 .. L : i \in Quotes(X) <=> i \in Quotes(T)
      /\ L + 1 \in Quotes(X) <=> c = "quote"
  <2>1. Marks(T, c, X, L)
    BY MarksGrow
  <2> QED
    BY <2>1 DEF Marks
<1>3. Quotes(T) \in SUBSET (1 .. L) /\ Quotes(X) \in SUBSET (1 .. L + 1)
  BY <1>1, LenProperties DEF Quotes
<1>4. \A i \in 0 .. L + 1 : Inside(X, i) <=> Inside(T, i)
  BY InsideGrows
<1>5. ~IsLetter(T, L + 1) /\ ~IsLetter(X, L + 2)
  BY <1>1, LenProperties DEF IsLetter
<1>6. /\ Begins(T) \in SUBSET (1 .. L + 1)
      /\ \A i \in 1 .. L + 1 :
             i \in Begins(T) <=> \/ i - 1 \in Quotes(T) /\ ~Inside(T, i - 1)
                                 \/ IsLetter(T, i) /\ ~IsLetter(T, i - 1)
  BY BeginsAre
<1>7. /\ Begins(X) \in SUBSET (1 .. L + 2)
      /\ \A i \in 1 .. L + 2 :
             i \in Begins(X) <=> \/ i - 1 \in Quotes(X) /\ ~Inside(X, i - 1)
                                 \/ IsLetter(X, i) /\ ~IsLetter(X, i - 1)
  <2>1. /\ Begins(X) \in SUBSET (1 .. Len(X) + 1)
        /\ \A i \in 1 .. Len(X) + 1 :
               i \in Begins(X) <=> \/ i - 1 \in Quotes(X) /\ ~Inside(X, i - 1)
                                   \/ IsLetter(X, i) /\ ~IsLetter(X, i - 1)
    BY <1>1, BeginsAre
  <2>2. Len(X) + 1 = L + 2
    BY <1>1
  <2> QED
    BY <2>1, <2>2
<1>8. Opened(T, c) = {i \in {L + 2} : c = "quote" /\ ~Inside(T, L + 1)}
          \union {i \in {L + 1} : /\ ~Inside(T, i) /\ c \notin {"space", "quote", "newline"}
                                  /\ ~IsLetter(T, L)}
  BY DEF Opened
<1> HIDE DEF L
<1>9. ASSUME NEW i \in 1 .. L
      PROVE  i \in Begins(X) <=> i \in Begins(T) \union Opened(T, c)
  <2>1. i \in 1 .. L + 1 /\ i \in 1 .. L + 2 /\ i - 1 \in 0 .. L /\ i - 1 \in 0 .. L + 1 /\ i \in 0 .. L
        /\ i # L + 1 /\ i # L + 2
    BY <1>1
  <2>2. i - 1 \in Quotes(X) <=> i - 1 \in Quotes(T)
    <3>1. CASE i - 1 \in 1 .. L
      BY <1>2, <3>1
    <3>2. CASE i - 1 = 0
      <4>1. 0 \notin 1 .. L /\ 0 \notin 1 .. L + 1
        BY <1>1
      <4> QED
        BY <1>3, <3>2, <4>1
    <3> QED
      BY <1>1, <3>1, <3>2
  <2> QED
    BY <1>2, <1>4, <1>6, <1>7, <1>8, <2>1, <2>2
<1>10. L + 1 \in Begins(X) <=> L + 1 \in Begins(T) \union Opened(T, c)
  <2>1. L + 1 \in 1 .. L + 1 /\ L + 1 \in 1 .. L + 2 /\ L + 1 - 1 = L /\ L \in 0 .. L /\ L \in 0 .. L + 1
        /\ L + 1 # L + 2
    BY <1>1
  <2>2. L \in Quotes(X) <=> L \in Quotes(T)
    <3>1. CASE L \in 1 .. L
      BY <1>2, <3>1
    <3>2. CASE L = 0
      <4>1. 0 \notin 1 .. L /\ 0 \notin 1 .. L + 1
        BY <1>1
      <4> QED
        BY <1>3, <3>2, <4>1
    <3> QED
      BY <1>1, <3>1, <3>2
  <2>3. L + 1 \in Begins(X) <=> \/ L \in Quotes(X) /\ ~Inside(X, L)
                                \/ IsLetter(X, L + 1) /\ ~IsLetter(X, L)
    BY <1>7, <2>1
  <2>4. L + 1 \in Begins(T) <=> \/ L \in Quotes(T) /\ ~Inside(T, L)
                                \/ IsLetter(T, L + 1) /\ ~IsLetter(T, L)
    BY <1>6, <2>1
  <2>5. L + 1 \in Opened(T, c) <=> /\ ~Inside(T, L + 1) /\ c \notin {"space", "quote", "newline"}
                                   /\ ~IsLetter(T, L)
    BY <1>8, <2>1
  <2> QED
    BY <1>2, <1>4, <1>5, <2>1, <2>2, <2>3, <2>4, <2>5
<1>11. L + 2 \in Begins(X) <=> L + 2 \in Begins(T) \union Opened(T, c)
  <2>1. L + 2 \in 1 .. L + 2 /\ L + 2 - 1 = L + 1 /\ L + 1 \in 0 .. L + 1 /\ L + 2 \notin 1 .. L + 1
        /\ L + 1 # L + 2
    BY <1>1
  <2>2. L + 2 \in Begins(X) <=> L + 1 \in Quotes(X) /\ ~Inside(X, L + 1)
    <3> DEFINE n == L + 2
    <3>1. n \in 1 .. L + 2 /\ n - 1 = L + 1
      BY <1>1
    <3>2. ~IsLetter(X, n)
      BY <1>5
    <3> HIDE DEF n
    <3>3. n \in Begins(X) <=> \/ n - 1 \in Quotes(X) /\ ~Inside(X, n - 1)
                              \/ IsLetter(X, n) /\ ~IsLetter(X, n - 1)
      BY <1>7, <3>1
    <3>4. n \in Begins(X) <=> L + 1 \in Quotes(X) /\ ~Inside(X, L + 1)
      BY <3>1, <3>2, <3>3
    <3> QED
      BY <3>4 DEF n
  <2>3. L + 2 \in Opened(T, c) <=> c = "quote" /\ ~Inside(T, L + 1)
    BY <1>8, <2>1
  <2>4. L + 2 \notin Begins(T)
    BY <1>6, <2>1
  <2> QED
    BY <1>2, <1>4, <2>1, <2>2, <2>3, <2>4
<1>12. \A i \in 1 .. L + 2 : i \in 1 .. L \/ i = L + 1 \/ i = L + 2
  BY <1>1
<1>13. \A i \in Begins(T) \union Opened(T, c) : i \in 1 .. L + 2
  BY <1>1, <1>6, <1>8
<1> QED
  BY <1>7, <1>9, <1>10, <1>11, <1>12, <1>13

\* Whether one more character ends the words that last up to it
Closes(body, c) == IF Inside(body, Len(body) + 1) THEN c = "quote" ELSE c \in {"space", "quote", "newline"}

Unfinished(body) == {i \in Begins(body) : Stops(body, i) = {}}

Finished(body) == {i \in Begins(body) : Stops(body, i) # {}}

NewStops(body, c, i) ==
    {j \in {Len(body) + 1} : IF Inside(body, i) THEN c = "quote"
                             ELSE Inside(body, j) \/ c \in {"space", "quote", "newline"}}

LEMMA StopsGrow ==
    ASSUME NEW C, NEW T \in Seq(C), NEW c \in C, NEW i \in 1 .. Len(T) + 1
    PROVE  Stops(Append(T, c), i) = Stops(T, i) \union NewStops(T, c, i)
<1> DEFINE X == Append(T, c)
           L == Len(T)
<1>1. X \in Seq(C) /\ L \in Nat /\ Len(X) = L + 1
  BY TextGrows
<1>2. /\ \A j \in 0 .. L : IsLetter(X, j) <=> IsLetter(T, j)
      /\ IsLetter(X, L + 1) <=> ~Inside(T, L + 1) /\ c \notin {"space", "quote", "newline"}
      /\ \A j \in 1 .. L : j \in Quotes(X) <=> j \in Quotes(T)
      /\ L + 1 \in Quotes(X) <=> c = "quote"
  <2>1. Marks(T, c, X, L)
    BY MarksGrow
  <2> QED
    BY <2>1 DEF Marks
<1>3. Inside(X, i) <=> Inside(T, i)
  BY <1>1, InsideGrows
<1> HIDE DEF L, X
<1>4. i \in 1 .. L + 1
  BY DEF L
<1>5. Stops(X, i) = {j \in i .. L + 1 : IF Inside(T, i) THEN j \in Quotes(X) ELSE ~IsLetter(X, j)}
  BY <1>1, <1>3 DEF Stops
<1>6. Stops(T, i) = {j \in i .. L : IF Inside(T, i) THEN j \in Quotes(T) ELSE ~IsLetter(T, j)}
  BY DEF Stops, L
<1>7. \A j \in i .. L : j \in 1 .. L /\ j \in 0 .. L /\ j \in i .. L + 1
  BY <1>1, <1>4
<1>8. \A j \in i .. L + 1 : j \in i .. L \/ j = L + 1
  BY <1>1, <1>4
<1>9. L + 1 \in i .. L + 1 /\ L + 1 \notin i .. L
  BY <1>1, <1>4
<1>10. \A j \in i .. L : j \in Stops(X, i) <=> j \in Stops(T, i)
  BY <1>2, <1>5, <1>6, <1>7
<1>11. L + 1 \in Stops(X, i) <=> IF Inside(T, i) THEN c = "quote"
                                 ELSE Inside(T, L + 1) \/ c \in {"space", "quote", "newline"}
  BY <1>2, <1>5, <1>9
<1> QED
  BY <1>5, <1>6, <1>8, <1>10, <1>11 DEF L, X, NewStops

\* A word reaches to the first place where it stops.
LEMMA WordIs ==
    ASSUME NEW C, NEW T \in Seq(C), NEW i \in 1 .. Len(T) + 1, NEW m \in i .. Len(T) + 1,
           m \in Stops(T, i) \/ m = Len(T) + 1, \A j \in Stops(T, i) : m <= j
    PROVE  WordAt(T, i) = SubSeq(T, i, m - 1) /\ WordAt(T, i) \in Seq(C)
<1> DEFINE L == Len(T)
           S == Stops(T, i) \union {L + 1}
<1>1. L \in Nat
  BY LenProperties
<1>2. \A j \in Stops(T, i) : j \in i .. L
  BY DEF Stops
<1> HIDE DEF L
<1>3. i \in 1 .. L + 1 /\ m \in i .. L + 1 /\ m \in S
  BY DEF L
<1>4. S \in SUBSET Nat /\ \A j \in S : m <= j
  <2>1. ASSUME NEW j \in S
        PROVE  j \in Nat /\ m <= j
    <3>1. CASE j \in Stops(T, i)
      <4>1. j \in i .. L /\ m <= j
        BY <1>2, <3>1
      <4> QED
        BY <1>1, <1>3, <4>1
    <3>2. CASE j = L + 1
      BY <1>1, <1>3, <3>2
    <3> QED
      BY <3>1, <3>2
  <2> QED
    BY <2>1
<1> HIDE DEF S
<1>5. Min(S) = m
  BY <1>3, <1>4, MinIs
<1>6. WordAt(T, i) = SubSeq(T, i, m - 1)
  BY <1>5 DEF WordAt, S, L
<1>7. SubSeq(T, i, m - 1) \in Seq(C)
  <2> DEFINE n == m - 1
             q == i - 1
  <2>1. n \in 0 .. L /\ q \in 0 .. n /\ q + 1 = i
    BY <1>1, <1>3
  <2> HIDE DEF n, q
  <2>2. SubSeq(T, q + 1, n) \in Seq(C)
    BY <2>1, PartAfter DEF L
  <2> QED
    BY <2>1, <2>2 DEF n
<1> QED
  BY <1>6, <1>7

LEMMA WordToEnd ==
    ASSUME NEW C, NEW T \in Seq(C), NEW i \in 1 .. Len(T) + 1, Stops(T, i) = {}
    PROVE  WordAt(T, i) = SubSeq(T, i, Len(T)) /\ WordAt(T, i) \in Seq(C)
<1> DEFINE m == Len(T) + 1
<1>1. m \in i .. Len(T) + 1 /\ m - 1 = Len(T) /\ \A j \in Stops(T, i) : m <= j
  BY LenProperties
<1>2. m = Len(T) + 1
  OBVIOUS
<1> HIDE DEF m
<1>3. m \in Stops(T, i) \/ m = Len(T) + 1
  BY <1>2
<1>4. WordAt(T, i) = SubSeq(T, i, m - 1) /\ WordAt(T, i) \in Seq(C)
  BY <1>1, <1>3, WordIs
<1> QED
  BY <1>1, <1>4

\* Where a word that has ended stops first
LEMMA WordStopped ==
    ASSUME NEW C, NEW T \in Seq(C), NEW i \in 1 .. Len(T) + 1, Stops(T, i) # {}
    PROVE  \E m \in i .. Len(T) : m \in Stops(T, i) /\ \A j \in Stops(T, i) : m <= j
<1>1. Stops(T, i) \in SUBSET (i .. Len(T)) /\ Len(T) \in Nat
  BY LenProperties DEF Stops
<1>2. Stops(T, i) \in SUBSET Nat
  BY <1>1
<1>3. Min(Stops(T, i)) \in Stops(T, i) /\ \A j \in Stops(T, i) : Min(Stops(T, i)) <= j
  BY <1>2, MinIsLeast
<1> QED
  BY <1>1, <1>3

LEMMA WordIsText ==
    ASSUME NEW C, NEW T \in Seq(C), NEW i \in 1 .. Len(T) + 1
    PROVE  WordAt(T, i) \in Seq(C)
<1>1. CASE Stops(T, i) = {}
  BY <1>1, WordToEnd
<1>2. CASE Stops(T, i) # {}
  <2>1. PICK m \in i .. Len(T) : m \in Stops(T, i) /\ \A j \in Stops(T, i) : m <= j
    BY <1>2, WordStopped
  <2>2. m \in i .. Len(T) + 1
    BY LenProperties
  <2> QED
    BY <2>1, <2>2, WordIs
<1> QED
  BY <1>1, <1>2

\* The same part of a text and of its continuation
LEMMA PartStays ==
    ASSUME NEW C, NEW T \in Seq(C), NEW c \in C, NEW i \in 1 .. Len(T) + 1, NEW n \in 0 .. Len(T)
    PROVE  SubSeq(Append(T, c), i, n) = SubSeq(T, i, n)
<1>1. Len(T) \in Nat /\ \A j \in 1 .. Len(T) : Append(T, c)[j] = T[j] /\ T[j] \in C
  BY TextGrows
<1>2. i \in Int /\ n \in Int /\ \A j \in i .. n : j \in 1 .. Len(T)
  BY <1>1
<1> DEFINE X == Append(T, c)
<1>3. \A j \in i .. n : X[j] \in C /\ X[j] = T[j]
  BY <1>1, <1>2
<1> HIDE DEF X
<1>4. SubSeq(X, i, n) = SubSeq(T, i, n)
  BY <1>2, <1>3, SameSubSeq
<1> QED
  BY <1>4 DEF X

\* A word that has ended stays what it is.
LEMMA FinishedStays ==
    ASSUME NEW C, NEW T \in Seq(C), NEW c \in C, NEW X, X = Append(T, c),
           NEW i \in 1 .. Len(T) + 1, Stops(T, i) # {}
    PROVE  Stops(X, i) # {} /\ WordAt(X, i) = WordAt(T, i)
<1> DEFINE L == Len(T)
<1>1. X \in Seq(C) /\ L \in Nat /\ Len(X) = L + 1
  BY TextGrows
<1>2. PICK m \in i .. L : m \in Stops(T, i) /\ \A j \in Stops(T, i) : m <= j
  BY WordStopped
<1>3. Stops(X, i) = Stops(T, i) \union NewStops(T, c, i) /\ NewStops(T, c, i) \in SUBSET {L + 1}
  <2>1. Stops(X, i) = Stops(T, i) \union NewStops(T, c, i)
    BY StopsGrow
  <2>2. NewStops(T, c, i) \in SUBSET {L + 1}
    BY DEF NewStops
  <2> QED
    BY <2>1, <2>2
<1> HIDE DEF L
<1>4. i \in 1 .. L + 1
  BY DEF L
<1>5. m \in Stops(X, i) /\ \A j \in Stops(X, i) : m <= j
  BY <1>1, <1>2, <1>3, <1>4
<1>6. m \in i .. Len(X) + 1 /\ i \in 1 .. Len(X) + 1 /\ m \in i .. L + 1 /\ m - 1 \in 0 .. L
  BY <1>1, <1>2, <1>4
<1>7. WordAt(X, i) = SubSeq(X, i, m - 1)
  BY <1>1, <1>5, <1>6, WordIs
<1>8. WordAt(T, i) = SubSeq(T, i, m - 1)
  BY <1>2, <1>6, WordIs DEF L
<1>9. SubSeq(X, i, m - 1) = SubSeq(T, i, m - 1)
  BY <1>6, PartStays DEF L
<1> QED
  BY <1>5, <1>7, <1>8, <1>9

\* A word that has not ended: the character ends it, or it goes on.
LEMMA UnfinishedEnds ==
    ASSUME NEW C, NEW T \in Seq(C), NEW c \in C, NEW X, X = Append(T, c),
           NEW i \in 1 .. Len(T) + 1
    PROVE  Stops(T, i) = {} /\ (Inside(T, i) <=> Inside(T, Len(T) + 1)) =>
               IF Closes(T, c) THEN Stops(X, i) # {} /\ WordAt(X, i) = WordAt(T, i)
               ELSE Stops(X, i) = {}
<1> DEFINE L == Len(T)
<1>0. Stops(X, i) = Stops(T, i) \union NewStops(T, c, i)
  BY StopsGrow
<1> SUFFICES ASSUME Stops(T, i) = {}, Inside(T, i) <=> Inside(T, Len(T) + 1)
             PROVE  IF Closes(T, c) THEN Stops(X, i) # {} /\ WordAt(X, i) = WordAt(T, i)
                    ELSE Stops(X, i) = {}
  OBVIOUS
<1>1. X \in Seq(C) /\ L \in Nat /\ Len(X) = L + 1
  BY TextGrows
<1>2. Stops(X, i) = {j \in {L + 1} : IF Inside(T, i) THEN c = "quote"
                                     ELSE Inside(T, j) \/ c \in {"space", "quote", "newline"}}
  BY <1>0 DEF NewStops
<1>3. Closes(T, c) <=> IF Inside(T, L + 1) THEN c = "quote" ELSE c \in {"space", "quote", "newline"}
  BY DEF Closes
<1>4. WordAt(T, i) = SubSeq(T, i, L)
  BY WordToEnd
<1>5. Inside(T, i) <=> Inside(T, L + 1)
  OBVIOUS
<1> HIDE DEF L
<1>6. i \in 1 .. L + 1
  BY DEF L
<1>7. L + 1 \in Stops(X, i) <=> Closes(T, c)
  BY <1>2, <1>3, <1>5
<1>8. Stops(X, i) \in SUBSET {L + 1}
  BY <1>2
<1>9. CASE Closes(T, c)
  <2> DEFINE m == L + 1
  <2>1. m \in i .. Len(X) + 1 /\ i \in 1 .. Len(X) + 1 /\ m - 1 = L /\ L \in 0 .. L /\ m <= m
    BY <1>1, <1>6
  <2>2. m \in Stops(X, i) /\ Stops(X, i) \in SUBSET {m}
    BY <1>7, <1>8, <1>9
  <2> HIDE DEF m
  <2>3. \A j \in Stops(X, i) : m <= j
    BY <2>1, <2>2
  <2>4. WordAt(X, i) = SubSeq(X, i, m - 1)
    BY <1>1, <2>1, <2>2, <2>3, WordIs
  <2>5. SubSeq(X, i, L) = SubSeq(T, i, L)
    BY <2>1, PartStays DEF L
  <2> QED
    BY <1>4, <1>9, <2>1, <2>2, <2>4, <2>5
<1>10. CASE ~Closes(T, c)
  BY <1>7, <1>8, <1>10
<1> QED
  BY <1>9, <1>10

\* Words in progress are quoted if the next character is, and belong to the
\* command in progress.
InLine(body) ==
    \A i \in Unfinished(body) :
        /\ Inside(body, i) <=> Inside(body, Len(body) + 1)
        /\ Before(Newlines(body), Len(body) + 1) < i

\* What one more character does to the words of a text
WordsGo(T, c, X) ==
    /\ Begins(X) = Begins(T) \union Opened(T, c)
    /\ \A i \in Opened(T, c) : Stops(X, i) = {}
    /\ Finished(X) = IF Closes(T, c) THEN Begins(T) ELSE Finished(T)
    /\ \A i \in Finished(X) : WordAt(X, i) = WordAt(T, i)

LEMMA OpenedGoesOn ==
    ASSUME NEW C, NEW T \in Seq(C), NEW c \in C, NEW i \in Opened(T, c)
    PROVE  Stops(Append(T, c), i) = {}
<1> DEFINE L == Len(T)
           X == Append(T, c)
<1>1. X \in Seq(C) /\ L \in Nat /\ Len(X) = L + 1
  BY TextGrows
<1>2. CASE i = L + 2
  <2>1. Stops(X, i) \in SUBSET (i .. Len(X))
    BY DEF Stops
  <2> HIDE DEF L, X
  <2>2. i .. Len(X) = {}
    BY <1>1, <1>2
  <2> QED
    BY <2>1, <2>2 DEF X
<1>3. CASE i = L + 1
  <2>1. ~Inside(T, i) /\ c \notin {"space", "quote", "newline"}
    <3>1. L + 1 # L + 2
      BY <1>1
    <3> HIDE DEF L
    <3>2. Opened(T, c) = {j \in {L + 2} : c = "quote" /\ ~Inside(T, L + 1)}
          \union {j \in {L + 1} : /\ ~Inside(T, j) /\ c \notin {"space", "quote", "newline"}
                                  /\ ~IsLetter(T, L)}
      BY DEF Opened, L
    <3> QED
      BY <1>3, <3>1, <3>2
  <2>2. i \in 1 .. L + 1
    BY <1>1, <1>3
  <2>3. Stops(X, i) = Stops(T, i) \union NewStops(T, c, i)
    BY <2>2, StopsGrow
  <2>4. Stops(T, i) = {}
    <3>1. Stops(T, i) \in SUBSET (i .. L)
      BY DEF Stops
    <3> HIDE DEF L
    <3>2. i .. L = {}
      BY <1>1, <1>3
    <3> QED
      BY <3>1, <3>2
  <2>5. NewStops(T, c, i) = {}
    BY <1>3, <2>1 DEF NewStops
  <2> QED
    BY <2>3, <2>4, <2>5
<1> QED
  BY <1>2, <1>3 DEF Opened

LEMMA WordsGoOn ==
    ASSUME NEW C, NEW T \in Seq(C), NEW c \in C, InLine(T)
    PROVE  WordsGo(T, c, Append(T, c))
<1> DEFINE X == Append(T, c)
<1>1. Begins(X) = Begins(T) \union Opened(T, c)
  BY BeginsGrow
<1>2. \A i \in Opened(T, c) : Stops(X, i) = {}
  BY OpenedGoesOn
<1>3. Begins(T) \in SUBSET (1 .. Len(T) + 1)
  BY BeginsAre
<1>4. ASSUME NEW i \in Begins(T), Stops(T, i) # {}
      PROVE  Stops(X, i) # {} /\ WordAt(X, i) = WordAt(T, i)
  BY <1>3, <1>4, FinishedStays
<1>5. ASSUME NEW i \in Begins(T), Stops(T, i) = {}
      PROVE  IF Closes(T, c) THEN Stops(X, i) # {} /\ WordAt(X, i) = WordAt(T, i)
             ELSE Stops(X, i) = {}
  <2>1. Inside(T, i) <=> Inside(T, Len(T) + 1)
    BY <1>5 DEF InLine, Unfinished
  <2>2. i \in 1 .. Len(T) + 1
    BY <1>3
  <2>3. Stops(T, i) = {} /\ (Inside(T, i) <=> Inside(T, Len(T) + 1)) =>
               IF Closes(T, c) THEN Stops(X, i) # {} /\ WordAt(X, i) = WordAt(T, i)
               ELSE Stops(X, i) = {}
    BY <2>2, UnfinishedEnds
  <2> QED
    BY <1>5, <2>1, <2>3
<1> HIDE DEF X
<1>6. Finished(X) = IF Closes(T, c) THEN Begins(T) ELSE Finished(T)
  <2>1. CASE Closes(T, c)
    BY <1>1, <1>2, <1>4, <1>5, <2>1 DEF Finished
  <2>2. CASE ~Closes(T, c)
    BY <1>1, <1>2, <1>4, <1>5, <2>2 DEF Finished
  <2> QED
    BY <2>1, <2>2
<1>7. \A i \in Finished(X) : WordAt(X, i) = WordAt(T, i)
  <2>1. SUFFICES ASSUME NEW i \in Finished(X) PROVE WordAt(X, i) = WordAt(T, i)
    OBVIOUS
  <2>2. i \in Begins(T) /\ Stops(X, i) # {}
    BY <1>6 DEF Finished
  <2> QED
    BY <1>4, <1>5, <2>2
<1> QED
  BY <1>1, <1>2, <1>6, <1>7 DEF WordsGo, X

(***************************************************************************)
(* The commands of a text.                                                 *)
(***************************************************************************)

LastEnd(body) == Before(Newlines(body), Len(body) + 1)

Since(S, n) == {i \in S : n < i}

Words(body) == [i \in Begins(body) |-> WordAt(body, i)]

\* The words of the command in progress that have ended
InProgress(body) == ValuesAt(Since(Finished(body), LastEnd(body)), Words(body))

Commands(body) == [i \in Ends(body) |-> CommandTo(body, i)]

Called(body) == ValuesAt(Newlines(body), Commands(body))

\* The words of a command up to an end of it
WordsTo(body, end) == {i \in Begins(body) : Before(Newlines(body), end) < i /\ i <= end}

LEMMA WordsAreText ==
    ASSUME NEW C, NEW T \in Seq(C), NEW S \in SUBSET Begins(T)
    PROVE  S \in SUBSET (0 .. Len(T) + 1) /\ Len(T) + 1 \in Nat /\ Gives(Words(T), S, Seq(C))
<1>1. Len(T) + 1 \in Nat
  BY LenProperties
<1>2. Begins(T) \in SUBSET (1 .. Len(T) + 1)
  BY BeginsAre
<1>3. S \in SUBSET (0 .. Len(T) + 1)
  BY <1>2
<1>4. Gives(Words(T), S, Seq(C))
  <2>1. SUFFICES ASSUME NEW i \in S PROVE Words(T)[i] \in Seq(C)
    BY DEF Gives
  <2>2. i \in 1 .. Len(T) + 1 /\ Words(T)[i] = WordAt(T, i)
    BY <1>2 DEF Words
  <2> QED
    BY <2>2, WordIsText
<1> QED
  BY <1>1, <1>3, <1>4

LEMMA CommandIsWords ==
    ASSUME NEW C, NEW T \in Seq(C), NEW e
    PROVE  CommandTo(T, e) = ValuesAt(WordsTo(T, e), Words(T)) /\ CommandTo(T, e) \in Seq(Seq(C))
<1>1. CommandTo(T, e) = ValuesAt(WordsTo(T, e), Words(T))
  BY DEF CommandTo, WordsTo, Words
<1>2. WordsTo(T, e) \in SUBSET Begins(T)
  BY DEF WordsTo
<1>3. /\ WordsTo(T, e) \in SUBSET (0 .. Len(T) + 1) /\ Len(T) + 1 \in Nat
      /\ Gives(Words(T), WordsTo(T, e), Seq(C))
  BY <1>2, WordsAreText
<1> DEFINE n == Len(T) + 1
<1>4. n \in Nat /\ WordsTo(T, e) \in SUBSET (0 .. n)
  BY <1>3
<1> HIDE DEF n
<1>5. Lists(ValuesAt(WordsTo(T, e), Words(T)), Words(T), WordsTo(T, e), Seq(C))
  BY <1>3, <1>4, ValuesAreSequence
<1> QED
  BY <1>1, <1>5 DEF Lists

\* A newline that ends a command
Calls(body, c) == c = "newline" /\ ~Inside(body, Len(body) + 1)

LEMMA NewlinesAre ==
    ASSUME NEW C, NEW T \in Seq(C)
    PROVE  /\ Len(T) \in Nat /\ LastEnd(T) \in 0 .. Len(T)
           /\ Newlines(T) \in SUBSET Nat /\ Newlines(T) \in SUBSET (0 .. Len(T))
           /\ \A e \in Newlines(T) : e \in 1 .. Len(T) /\ e <= LastEnd(T)
<1>1. Len(T) \in Nat /\ \A e \in Newlines(T) : e \in 1 .. Len(T)
  BY LenProperties DEF Newlines
<1>2. Newlines(T) \in SUBSET Nat /\ Newlines(T) \in SUBSET (0 .. Len(T))
  BY <1>1
<1> DEFINE n == Len(T) + 1
<1>3. n \in Nat /\ \A e \in Newlines(T) : e < n
  BY <1>1
<1>4. LastEnd(T) = Before(Newlines(T), n)
  BY DEF LastEnd
<1> HIDE DEF n
<1>5. /\ Before(Newlines(T), n) \in {0} \union {j \in Newlines(T) : j < n}
      /\ \A j \in Newlines(T) : j < n => j <= Before(Newlines(T), n)
  BY <1>2, <1>3, BeforeIsLast
<1>6. LastEnd(T) \in {0} \union Newlines(T)
  BY <1>4, <1>5
<1>7. LastEnd(T) \in 0 .. Len(T)
  BY <1>1, <1>6
<1> QED
  BY <1>1, <1>2, <1>3, <1>4, <1>5, <1>7

LEMMA NewlinesGrow ==
    ASSUME NEW C, NEW T \in Seq(C), NEW c \in C
    PROVE  Newlines(Append(T, c)) = IF Calls(T, c) THEN Newlines(T) \union {Len(T) + 1} ELSE Newlines(T)
<1>1. Marks(T, c, Append(T, c), Len(T))
  BY MarksGrow
<1> QED
  BY <1>1 DEF Marks, Calls

LEMMA LastEndGrows ==
    ASSUME NEW C, NEW T \in Seq(C), NEW c \in C
    PROVE  LastEnd(Append(T, c)) = IF Calls(T, c) THEN Len(T) + 1 ELSE LastEnd(T)
<1> DEFINE X == Append(T, c)
           n == Len(T) + 1
           k == Len(X) + 1
<1>1. X \in Seq(C) /\ Len(T) \in Nat /\ Len(X) = Len(T) + 1
  BY TextGrows
<1>2. /\ LastEnd(T) \in 0 .. Len(T) /\ Newlines(T) \in SUBSET Nat
      /\ \A e \in Newlines(T) : e \in 1 .. Len(T) /\ e <= LastEnd(T)
  BY NewlinesAre
<1>3. Newlines(X) = IF Calls(T, c) THEN Newlines(T) \union {n} ELSE Newlines(T)
  BY NewlinesGrow
<1>4. Newlines(X) \in SUBSET Nat
  BY <1>1, NewlinesAre
<1>5. n \in Nat /\ k \in Nat /\ n < k /\ \A e \in 0 .. Len(T) : e < n /\ e < k /\ e <= n
  BY <1>1
<1>6. LastEnd(X) = Before(Newlines(X), k) /\ LastEnd(T) = Before(Newlines(T), n)
  BY DEF LastEnd
<1> HIDE DEF X, n, k
<1>7. CASE Calls(T, c)
  <2>1. n \in {0} \union {j \in Newlines(X) : j < k}
    BY <1>3, <1>5, <1>7
  <2>2. \A j \in Newlines(X) : j < k => j <= n
    BY <1>2, <1>3, <1>5, <1>7
  <2>3. Before(Newlines(X), k) = n
    BY <1>4, <1>5, <2>1, <2>2, BeforeIs
  <2> QED
    BY <1>6, <1>7, <2>3 DEF X, n
<1>8. CASE ~Calls(T, c)
  <2> DEFINE b == LastEnd(T)
  <2>1. b \in {0} \union {j \in Newlines(T) : j < n}
    BY <1>2, <1>5, <1>6, BeforeIsLast
  <2>2. b \in {0} \union {j \in Newlines(X) : j < k}
    BY <1>2, <1>3, <1>5, <1>8, <2>1
  <2>3. \A j \in Newlines(X) : j < k => j <= b
    BY <1>2, <1>3, <1>8
  <2> HIDE DEF b
  <2>4. Before(Newlines(X), k) = b
    BY <1>4, <1>5, <2>2, <2>3, BeforeIs
  <2> QED
    BY <1>6, <1>8, <2>4 DEF X, b
<1> QED
  BY <1>7, <1>8

\* Commands that have ended, and the one that the character ends, do not change.
LEMMA CommandStays ==
    ASSUME NEW C, NEW T \in Seq(C), NEW c \in C, InLine(T), NEW e \in Newlines(Append(T, c))
    PROVE  CommandTo(Append(T, c), e) = CommandTo(T, e)
<1> DEFINE X == Append(T, c)
           L == Len(T)
<1>1. X \in Seq(C) /\ L \in Nat /\ Len(X) = L + 1
  BY TextGrows
<1>2. WordsGo(T, c, X)
  BY WordsGoOn
<1>3. Newlines(X) = IF Calls(T, c) THEN Newlines(T) \union {L + 1} ELSE Newlines(T)
  BY NewlinesGrow
<1>4. Newlines(X) \in SUBSET Nat /\ Newlines(T) \in SUBSET Nat
  BY <1>1, NewlinesAre
<1>5. \A i \in Newlines(T) : i \in 1 .. L /\ i <= LastEnd(T)
  BY NewlinesAre
<1>6. LastEnd(T) \in 0 .. L
  BY NewlinesAre
<1>7. e \in Newlines(X) /\ e \in Nat /\ e \in 1 .. L + 1
  BY <1>1, <1>3, <1>4, <1>5
<1>8. \A i \in Opened(T, c) : i > L /\ (Calls(T, c) => FALSE)
  <2>1. \A i \in Opened(T, c) : i = L + 1 \/ i = L + 2
    BY DEF Opened
  <2>2. Calls(T, c) => Opened(T, c) = {}
    BY DEF Calls, Opened
  <2> HIDE DEF L
  <2> QED
    BY <1>1, <2>1, <2>2
<1>9. Before(Newlines(X), e) = Before(Newlines(T), e)
  <2> DEFINE A == Newlines(X)
             B == Newlines(T)
  <2> HIDE DEF L, X
  <2>1. \A j \in Nat : j < e => (j \in A <=> j \in B)
    BY <1>1, <1>3, <1>7
  <2>2. A \in SUBSET Nat /\ B \in SUBSET Nat
    BY <1>4
  <2> HIDE DEF A, B
  <2> QED
    BY <1>7, <2>1, <2>2, BeforeStays DEF A, B
<1> HIDE DEF L, X
<1>10. e = L + 1 => Calls(T, c)
  BY <1>1, <1>3, <1>5, <1>7
<1>11. Begins(T) \in SUBSET (1 .. L + 1)
  BY BeginsAre DEF L
<1>12. WordsTo(X, e) = WordsTo(T, e)
  <2>1. \A i \in Opened(T, c) : ~(i <= e)
    <3>1. SUFFICES ASSUME NEW i \in Opened(T, c) PROVE ~(i <= e)
      OBVIOUS
    <3>2. e \in 1 .. L /\ i > L /\ (i = L + 1 \/ i = L + 2)
      BY <1>1, <1>7, <1>8, <1>10 DEF Opened, L
    <3> QED
      BY <1>1, <3>2
  <2>2. Begins(X) = Begins(T) \union Opened(T, c)
    BY <1>2 DEF WordsGo
  <2> QED
    BY <1>9, <2>1, <2>2 DEF WordsTo
<1>13. ASSUME NEW i \in WordsTo(T, e)
       PROVE  Words(X)[i] = Words(T)[i]
  <2>1. i \in Begins(T) /\ i \in Begins(X) /\ i <= e /\ i \in 1 .. L + 1
    BY <1>2, <1>11 DEF WordsTo, WordsGo
  <2>2. i \in Finished(X)
    <3>1. CASE Calls(T, c)
      <4>1. Closes(T, c)
        BY <3>1 DEF Calls, Closes
      <4> QED
        BY <1>2, <2>1, <4>1 DEF WordsGo
    <3>2. CASE ~Calls(T, c)
      <4>1. e <= LastEnd(T)
        BY <1>3, <1>5, <1>7, <3>2
      <4>2. i \notin Unfinished(T)
        <5>1. ~(LastEnd(T) < i)
          BY <1>6, <1>7, <2>1, <4>1
        <5> QED
          BY <5>1 DEF InLine, LastEnd
      <4>3. i \in Finished(T)
        BY <2>1, <4>2 DEF Finished, Unfinished
      <4>4. Finished(T) \in SUBSET Begins(T)
        BY DEF Finished
      <4> QED
        BY <1>2, <4>3, <4>4 DEF WordsGo
    <3> QED
      BY <3>1, <3>2
  <2>3. WordAt(X, i) = WordAt(T, i)
    BY <1>2, <2>2 DEF WordsGo
  <2> QED
    BY <2>1, <2>3 DEF Words
<1>14. ValuesAt(WordsTo(T, e), Words(X)) = ValuesAt(WordsTo(T, e), Words(T))
  <2>1. WordsTo(T, e) \in SUBSET Begins(T)
    BY DEF WordsTo
  <2> DEFINE n == L + 1
  <2>2. n \in Nat /\ WordsTo(T, e) \in SUBSET (0 .. n)
    BY <1>1, <1>11, <2>1
  <2> HIDE DEF n
  <2>3. Agree(Words(X), Words(T), WordsTo(T, e))
    BY <1>13 DEF Agree
  <2> QED
    BY <2>2, <2>3, ValuesSame
<1>15. CommandTo(X, e) = ValuesAt(WordsTo(X, e), Words(X)) /\ CommandTo(T, e) = ValuesAt(WordsTo(T, e), Words(T))
  BY <1>1, CommandIsWords
<1> QED
  BY <1>12, <1>14, <1>15 DEF X

\* The calls grow by the command that the character ends.
LEMMA CalledGrows ==
    ASSUME NEW C, NEW T \in Seq(C), NEW c \in C, InLine(T)
    PROVE  Called(Append(T, c)) =
               IF Calls(T, c) THEN Append(Called(T), CommandTo(T, Len(T) + 1)) ELSE Called(T)
<1> DEFINE X == Append(T, c)
           L == Len(T)
           n == L + 1
           N == Newlines(T)
           f == Commands(T)
           g == Commands(X)
<1>1. X \in Seq(C) /\ L \in Nat /\ Len(X) = L + 1
  BY TextGrows
<1>2. N \in SUBSET (0 .. L) /\ \A e \in N : e \in 1 .. L
  BY NewlinesAre
<1>3. Newlines(X) = IF Calls(T, c) THEN N \union {n} ELSE N
  BY NewlinesGrow
<1>4. \A e \in Newlines(X) : CommandTo(X, e) = CommandTo(T, e)
  BY CommandStays
<1>5. \A e \in N : f[e] = CommandTo(T, e)
  BY DEF Commands, Ends
<1>6. \A e \in Newlines(X) : g[e] = CommandTo(X, e)
  BY DEF Commands, Ends
<1>7. \A e : CommandTo(T, e) \in Seq(Seq(C))
  BY CommandIsWords
<1>8. n \in Nat /\ n = L + 1
  BY <1>1
<1> HIDE DEF X, L, n, N, f, g
<1>9. Agree(f, g, N)
  BY <1>3, <1>4, <1>5, <1>6 DEF Agree
<1>10. Called(T) = ValuesAt(N, f) /\ Called(X) = ValuesAt(Newlines(X), g)
  BY DEF Called, N, f, g
<1>11. CASE Calls(T, c)
  <2>1. Below(N, n) /\ Gives(f, N, Seq(Seq(C)))
    BY <1>1, <1>2, <1>5, <1>7, <1>8 DEF Below, Gives
  <2>2. g[n] = CommandTo(T, n) /\ g[n] \in Seq(Seq(C))
    BY <1>3, <1>4, <1>6, <1>7, <1>11
  <2>3. Grows(N, n, f, g)
    BY <1>1, <1>2, <1>8, <1>9, <2>1, <2>2, ValuesGrow
  <2> QED
    BY <1>3, <1>10, <1>11, <2>2, <2>3 DEF Grows, X, n, L
<1>12. CASE ~Calls(T, c)
  <2>1. ValuesAt(N, f) = ValuesAt(N, g)
    BY <1>1, <1>2, <1>9, ValuesSame
  <2> QED
    BY <1>3, <1>10, <1>12, <2>1 DEF X
<1> QED
  BY <1>11, <1>12

\* So does the command in progress by the words that the character ends.
LEMMA InProgressGrows ==
    ASSUME NEW C, NEW T \in Seq(C), NEW c \in C, InLine(T)
    PROVE  InProgress(Append(T, c)) = CASE Calls(T, c) -> << >>
                                        [] Closes(T, c) /\ ~Calls(T, c) -> CommandTo(T, Len(T) + 1)
                                        [] OTHER -> InProgress(T)
<1> DEFINE X == Append(T, c)
           L == Len(T)
           n == L + 1
           F == Since(Finished(X), LastEnd(X))
           nothing == << >>
<1>1. X \in Seq(C) /\ L \in Nat /\ Len(X) = L + 1
  BY TextGrows
<1>2. WordsGo(T, c, X)
  BY WordsGoOn
<1>3. LastEnd(X) = IF Calls(T, c) THEN n ELSE LastEnd(T)
  BY LastEndGrows
<1>4. Begins(T) \in SUBSET (1 .. n)
  BY BeginsAre
<1>5. InProgress(X) = ValuesAt(F, Words(X)) /\ InProgress(T) = ValuesAt(Since(Finished(T), LastEnd(T)), Words(T))
  BY DEF InProgress
<1>6. Calls(T, c) => Closes(T, c)
  BY DEF Calls, Closes
<1>7. n \in Nat /\ n = L + 1 /\ F = Since(Finished(X), LastEnd(X))
  BY <1>1
<1> HIDE DEF X, L, n, F
<1>8. Finished(X) \in SUBSET Begins(T) /\ Finished(T) \in SUBSET Begins(T)
  BY <1>2 DEF WordsGo, Finished
<1>9. ASSUME ~Calls(T, c)
      PROVE  ValuesAt(F, Words(X)) = ValuesAt(F, Words(T))
  <2>1. F \in SUBSET (0 .. n)
    BY <1>4, <1>7, <1>8 DEF Since
  <2>2. \A i \in F : Words(X)[i] = Words(T)[i]
    <3>1. SUFFICES ASSUME NEW i \in F PROVE Words(X)[i] = Words(T)[i]
      OBVIOUS
    <3>2. i \in Finished(X)
      BY <1>7 DEF Since
    <3>3. i \in Begins(X) /\ i \in Begins(T) /\ WordAt(X, i) = WordAt(T, i)
      BY <1>2, <1>8, <3>2 DEF WordsGo
    <3> QED
      BY <3>3 DEF Words
  <2>3. Agree(Words(X), Words(T), F)
    BY <2>2 DEF Agree
  <2> QED
    BY <1>7, <2>1, <2>3, ValuesSame
<1>10. CASE Calls(T, c)
  <2>1. F = {}
    <3>1. \A i \in 1 .. n : ~(n < i)
      BY <1>7
    <3> QED
      BY <1>3, <1>4, <1>7, <1>8, <1>10, <3>1 DEF Since
  <2>2. ValuesAt({}, Words(X)) = nothing
    BY ValuesOfNone
  <2> HIDE DEF nothing
  <2>3. InProgress(X) = nothing
    BY <1>5, <2>1, <2>2
  <2> QED
    BY <1>10, <2>3 DEF X, nothing
<1>11. CASE Closes(T, c) /\ ~Calls(T, c)
  <2>1. F = WordsTo(T, n)
    <3>1. F = Since(Begins(T), LastEnd(T))
      BY <1>2, <1>3, <1>7, <1>11 DEF WordsGo
    <3>2. \A i \in Begins(T) : i <= n
      BY <1>4, <1>7
    <3> QED
      BY <3>1, <3>2 DEF WordsTo, Since, LastEnd, n, L
  <2>2. CommandTo(T, n) = ValuesAt(WordsTo(T, n), Words(T))
    BY CommandIsWords
  <2>3. InProgress(X) = CommandTo(T, n)
    BY <1>5, <1>9, <1>11, <2>1, <2>2
  <2> QED
    BY <1>11, <2>3 DEF X, n, L
<1>12. CASE ~Closes(T, c)
  <2>1. F = Since(Finished(T), LastEnd(T))
    BY <1>2, <1>3, <1>6, <1>7, <1>12 DEF WordsGo
  <2>2. InProgress(X) = InProgress(T)
    BY <1>5, <1>6, <1>9, <1>12, <2>1
  <2> QED
    BY <1>6, <1>12, <2>2 DEF X
<1> QED
  BY <1>10, <1>11, <1>12

(***************************************************************************)
(* What handleMessage knows of the text that it has read.                  *)
(***************************************************************************)

\* There is no word in progress,
Nothing(body, a) ==
    /\ Unfinished(body) = {} /\ a = << >>
    /\ ~Inside(body, Len(body) + 1) /\ ~IsLetter(body, Len(body))

\* or there is one: the last of its command, and what has been read of it.
Word(body, a, p) ==
    /\ p \in 1 .. Len(body) + 1 /\ Unfinished(body) = {p}
    /\ LastEnd(body) < p /\ Below(Finished(body), p)
    /\ a = SubSeq(body, p, Len(body))
    /\ Inside(body, p) <=> Inside(body, Len(body) + 1)
    /\ Inside(body, p) \/ (p <= Len(body) /\ IsLetter(body, Len(body)))

Waits(body, a) == Nothing(body, a) \/ \E p : Word(body, a, p)

Messages ==
    [calls : Seq(Seq(Seq(ChatCharacters))), command : Seq(Seq(ChatCharacters)),
     argument : Seq(ChatCharacters), quoted : BOOLEAN, ended : {FALSE}]

ReadTo(m, body) ==
    /\ m \in Messages /\ body \in Seq(ChatCharacters)
    /\ m.quoted <=> Inside(body, Len(body) + 1)
    /\ m.calls = Called(body)
    /\ m.command = InProgress(body)
    /\ Waits(body, m.argument)

LEMMA WaitsInLine ==
    ASSUME NEW T, NEW a, Waits(T, a)
    PROVE  InLine(T)
<1>1. CASE Nothing(T, a)
  BY <1>1 DEF Nothing, InLine
<1>2. ASSUME NEW p, Word(T, a, p)
      PROVE  InLine(T)
  BY <1>2 DEF Word, InLine, LastEnd
<1> QED
  BY <1>1, <1>2 DEF Waits

LEMMA WordsSplit ==
    ASSUME NEW T
    PROVE  Begins(T) = Finished(T) \union Unfinished(T)
BY DEF Finished, Unfinished

LEMMA CommandOfAll ==
    ASSUME NEW C, NEW T \in Seq(C)
    PROVE  CommandTo(T, Len(T) + 1) = ValuesAt(Since(Begins(T), LastEnd(T)), Words(T))
<1> DEFINE n == Len(T) + 1
<1>1. n \in Nat
  BY LenProperties
<1>2. Begins(T) \in SUBSET (1 .. n)
  BY BeginsAre
<1>3. CommandTo(T, n) = ValuesAt(WordsTo(T, n), Words(T))
  BY CommandIsWords
<1>4. LastEnd(T) = Before(Newlines(T), n)
  BY DEF LastEnd
<1> HIDE DEF n
<1>5. \A i \in Begins(T) : i <= n
  BY <1>1, <1>2
<1>6. WordsTo(T, n) = Since(Begins(T), LastEnd(T))
  BY <1>4, <1>5 DEF WordsTo, Since
<1> QED
  BY <1>3, <1>6 DEF n

\* The command that would end here has the words that have ended, and the one
\* in progress if there is one.
LEMMA CommandSoFar ==
    ASSUME NEW C, NEW T \in Seq(C), NEW a, Waits(T, a)
    PROVE  CommandTo(T, Len(T) + 1) =
               IF Inside(T, Len(T) + 1) \/ a # << >> THEN Append(InProgress(T), a) ELSE InProgress(T)
<1> DEFINE L == Len(T)
           n == L + 1
           S == Since(Finished(T), LastEnd(T))
           f == Words(T)
           nothing == << >>
<1>1. L \in Nat /\ n \in Nat
  BY LenProperties
<1>2. CommandTo(T, n) = ValuesAt(Since(Begins(T), LastEnd(T)), f)
  BY CommandOfAll
<1>3. InProgress(T) = ValuesAt(S, f)
  BY DEF InProgress
<1>4. Begins(T) = Finished(T) \union Unfinished(T)
  BY WordsSplit
<1>5. CASE Nothing(T, a)
  <2>1. Since(Begins(T), LastEnd(T)) = S /\ a = << >> /\ ~Inside(T, n)
    BY <1>4, <1>5 DEF Nothing, Since
  <2> QED
    BY <1>2, <1>3, <2>1
<1>6. ASSUME NEW p, Word(T, a, p)
      PROVE  CommandTo(T, n) = Append(InProgress(T), a) /\ (Inside(T, n) \/ a # nothing)
  <2>1. p \in 1 .. n /\ Unfinished(T) = {p} /\ LastEnd(T) < p /\ Below(Finished(T), p)
    BY <1>6 DEF Word
  <2>2. Since(Begins(T), LastEnd(T)) = S \union {p}
    BY <1>4, <2>1 DEF Since
  <2>3. WordAt(T, p) = a
    <3>1. Stops(T, p) = {}
      BY <2>1 DEF Unfinished
    <3>2. WordAt(T, p) = SubSeq(T, p, Len(T))
      BY <2>1, <3>1, WordToEnd
    <3> QED
      BY <1>6, <3>2 DEF Word
  <2>4. S \in SUBSET Begins(T) /\ {p} \in SUBSET Begins(T)
    BY <1>4, <2>1 DEF Since
  <2>5. S \in SUBSET (0 .. n) /\ Gives(f, S, Seq(C)) /\ Gives(f, {p}, Seq(C))
    BY <2>4, WordsAreText
  <2>6. f[p] = a /\ f[p] \in Seq(C)
    <3>1. f[p] = WordAt(T, p)
      BY <2>4 DEF Words
    <3> QED
      BY <2>3, <2>5, <3>1 DEF Gives
  <2>7. Below(S, p) /\ Agree(f, f, S) /\ p \in Nat
    BY <1>1, <2>1 DEF Below, Since, Agree
  <2> HIDE DEF L, n, S, f, nothing
  <2>8. Grows(S, p, f, f)
    BY <1>1, <2>5, <2>6, <2>7, ValuesGrow
  <2>9. CommandTo(T, n) = Append(InProgress(T), a)
    BY <1>2, <1>3, <2>2, <2>6, <2>8 DEF Grows
  <2>10. Inside(T, n) \/ a # nothing
    <3>1. SUFFICES ASSUME ~Inside(T, n) PROVE a # nothing
      OBVIOUS
    <3>2. p <= L /\ a = SubSeq(T, p, L) /\ p \in 1 .. n
      BY <1>6, <2>1, <3>1 DEF Word, n, L
    <3> DEFINE q == p - 1
    <3>3. q + 1 = p /\ q \in 0 .. L /\ L \in 0 .. L /\ L - q > 0
      BY <1>1, <3>2
    <3> HIDE DEF q
    <3>4. Len(SubSeq(T, q + 1, L)) = L - q
      BY <3>3, PartAfter DEF L
    <3>5. Len(a) > 0
      BY <3>2, <3>3, <3>4
    <3>6. Len(nothing) = 0
      BY EmptySeq DEF nothing
    <3> QED
      BY <3>5, <3>6
  <2> QED
    BY <2>9, <2>10
<1> QED
  BY <1>5, <1>6 DEF Waits

\* The command with the word in progress, pushed as Turn and AtEnd do
Pushed(m) == IF m.quoted THEN PushArgument(m) ELSE PushIfAny(m)

LEMMA PushedIs ==
    ASSUME NEW m, NEW T, ReadTo(m, T)
    PROVE  Pushed(m) = [m EXCEPT !.command = CommandTo(T, Len(T) + 1), !.argument = << >>]
<1> DEFINE nothing == << >>
           K == CommandTo(T, Len(T) + 1)
<1>1. /\ m \in Messages /\ T \in Seq(ChatCharacters)
      /\ m.quoted <=> Inside(T, Len(T) + 1)
      /\ m.command = InProgress(T)
      /\ Waits(T, m.argument)
  BY DEF ReadTo
<1>2. K = IF Inside(T, Len(T) + 1) \/ m.argument # << >>
          THEN Append(InProgress(T), m.argument) ELSE InProgress(T)
  BY <1>1, CommandOfAll, CommandSoFar
<1>3. K = IF m.quoted \/ m.argument # nothing THEN Append(m.command, m.argument) ELSE m.command
  BY <1>1, <1>2
<1> HIDE DEF K
<1>4. CASE m.quoted \/ m.argument # nothing
  <2>1. Pushed(m) = PushArgument(m)
    BY <1>4 DEF Pushed, PushIfAny
  <2>2. K = Append(m.command, m.argument)
    BY <1>3, <1>4
  <2>3. PushArgument(m) = [m EXCEPT !.command = K, !.argument = << >>]
    BY <2>2 DEF PushArgument
  <2> QED
    BY <2>1, <2>3 DEF K
<1>5. CASE ~m.quoted /\ m.argument = nothing
  <2>1. Pushed(m) = m
    BY <1>5 DEF Pushed, PushIfAny
  <2>2. K = m.command
    BY <1>3, <1>5
  <2> HIDE DEF nothing
  <2>3. m = [m EXCEPT !.command = K, !.argument = nothing]
    BY <1>1, <1>5, <2>2 DEF Messages
  <2> QED
    BY <2>1, <2>3 DEF K, nothing
<1> QED
  BY <1>4, <1>5

\* The variables of handleMessage
Message(k, w, a, q, e) == [calls |-> k, command |-> w, argument |-> a, quoted |-> q, ended |-> e]

WithPush(m, x, y) == [m EXCEPT !.command = x, !.argument = y]
WithArgument(m, x) == [m EXCEPT !.argument = x]
WithQuoted(m, x) == [m EXCEPT !.quoted = x]

LEMMA PushChanges ==
    \A k, w, a, q, e, x, y :
        WithPush(Message(k, w, a, q, e), x, y) = Message(k, x, y, q, e)
<1> TAKE k, w, a, q, e, x, y
<1> DEFINE n == [Message(k, w, a, q, e) EXCEPT !.command = x]
<1>1. n = [calls |-> k, command |-> x, argument |-> a, quoted |-> q, ended |-> e]
  BY DEF Message
<1> HIDE DEF n
<1>2. [n EXCEPT !.argument = y] = [calls |-> k, command |-> x, argument |-> y, quoted |-> q, ended |-> e]
  BY <1>1
<1> QED
  BY <1>2 DEF n, Message, WithPush

LEMMA ArgumentChanges ==
    \A k, w, a, q, e, x :
        WithArgument(Message(k, w, a, q, e), x) = Message(k, w, x, q, e)
BY DEF Message, WithArgument

LEMMA QuotedChanges ==
    \A k, w, a, q, e, x :
        WithQuoted(Message(k, w, a, q, e), x) = Message(k, w, a, x, e)
BY DEF Message, WithQuoted

LEMMA CallChanges ==
    \A k, w, a, q, e :
        CallHandler(Message(k, w, a, q, e)) = Message(Append(k, w), << >>, a, q, e)
<1> TAKE k, w, a, q, e
<1> DEFINE m == Message(k, w, a, q, e)
           x == Append(k, w)
           y == << >>
<1>1. m = [calls |-> k, command |-> w, argument |-> a, quoted |-> q, ended |-> e]
  BY DEF Message
<1>2. m.calls = k /\ m.command = w
  BY <1>1
<1>3. CallHandler(m) = [m EXCEPT !.calls = x, !.command = y]
  BY <1>2 DEF CallHandler
<1> HIDE DEF m, x, y
<1> DEFINE n == [m EXCEPT !.calls = x]
<1>4. n = [calls |-> x, command |-> w, argument |-> a, quoted |-> q, ended |-> e]
  BY <1>1
<1> HIDE DEF n
<1>5. [n EXCEPT !.command = y] = [calls |-> x, command |-> y, argument |-> a, quoted |-> q, ended |-> e]
  BY <1>4
<1> QED
  BY <1>3, <1>5 DEF m, n, x, y, Message

LEMMA MessageIs ==
    ASSUME NEW m \in Messages
    PROVE  m = Message(m.calls, m.command, m.argument, m.quoted, m.ended)
BY DEF Messages, Message

LEMMA MessagePushed ==
    ASSUME NEW m, NEW T, ReadTo(m, T)
    PROVE  Pushed(m) = Message(m.calls, CommandTo(T, Len(T) + 1), << >>, m.quoted, m.ended)
<1> DEFINE nothing == << >>
           K == CommandTo(T, Len(T) + 1)
<1>1. m \in Messages
  BY DEF ReadTo
<1>2. Pushed(m) = WithPush(m, K, nothing)
  BY PushedIs, Zenon DEF WithPush
<1>3. m = Message(m.calls, m.command, m.argument, m.quoted, m.ended)
  BY <1>1, MessageIs
<1> HIDE DEF K, nothing
<1>4. WithPush(Message(m.calls, m.command, m.argument, m.quoted, m.ended), K, nothing) =
          Message(m.calls, K, nothing, m.quoted, m.ended)
  BY PushChanges, SMT
<1> QED
  BY <1>2, <1>3, <1>4, Zenon DEF K, nothing

\* A turn whose character ends a word, and one whose character goes on with it
LEMMA TurnCloses ==
    ASSUME NEW m, NEW T, ReadTo(m, T), NEW c \in ChatCharacters, Closes(T, c)
    PROVE  Turn(m, c) =
               IF Calls(T, c)
               THEN Message(Append(m.calls, CommandTo(T, Len(T) + 1)), << >>, << >>, FALSE, FALSE)
               ELSE Message(m.calls, CommandTo(T, Len(T) + 1), << >>,
                            c = "quote" /\ ~Inside(T, Len(T) + 1), FALSE)
<1> DEFINE K == CommandTo(T, Len(T) + 1)
           nothing == << >>
           inside == Inside(T, Len(T) + 1)
           no == FALSE
           opens == c = "quote"
<1>1. m \in Messages /\ (m.quoted <=> inside)
  BY DEF ReadTo
<1>2. m.quoted \in BOOLEAN /\ m.ended = FALSE
  BY <1>1 DEF Messages
<1>3. Pushed(m) = Message(m.calls, K, nothing, m.quoted, no)
  BY <1>2, MessagePushed, Zenon
<1>4. Calls(T, c) <=> c = "newline" /\ ~inside
  BY DEF Calls
<1>5. IF inside THEN c = "quote" ELSE c \in {"space", "quote", "newline"}
  BY DEF Closes
<1> HIDE DEF K, inside, nothing, no, opens
<1>6. CASE Calls(T, c)
  <2>1. Turn(m, c) = CallHandler(Pushed(m))
    BY <1>1, <1>4, <1>6 DEF Turn, Pushed
  <2>2. CallHandler(Message(m.calls, K, nothing, m.quoted, no)) =
            Message(Append(m.calls, K), << >>, nothing, m.quoted, no)
    BY CallChanges, SMT
  <2>3. m.quoted = FALSE
    BY <1>1, <1>2, <1>4, <1>6
  <2> QED
    BY <1>3, <1>6, <2>1, <2>2, <2>3, Zenon DEF K, nothing, no
<1>7. CASE ~Calls(T, c) /\ ~inside
  <2>1. c \in {"space", "quote"} /\ c # "newline" /\ ~m.quoted
    BY <1>1, <1>4, <1>5, <1>7
  <2>2. Turn(m, c) = WithQuoted(Pushed(m), opens)
    BY <2>1 DEF Turn, Pushed, WithQuoted, opens
  <2>3. WithQuoted(Message(m.calls, K, nothing, m.quoted, no), opens) = Message(m.calls, K, nothing, opens, no)
    BY QuotedChanges, SMT
  <2>4. (c = "quote" /\ ~inside) = opens
    BY <1>7 DEF opens
  <2> QED
    BY <1>3, <1>7, <2>2, <2>3, <2>4, Zenon DEF K, nothing, inside, no
<1>8. CASE inside
  <2>1. c = "quote" /\ m.quoted /\ ~Calls(T, c)
    BY <1>1, <1>4, <1>5, <1>8
  <2>2. Turn(m, c) = WithQuoted(Pushed(m), no)
    BY <2>1 DEF Turn, Pushed, WithQuoted, no
  <2>3. WithQuoted(Message(m.calls, K, nothing, m.quoted, no), no) = Message(m.calls, K, nothing, no, no)
    BY QuotedChanges, SMT
  <2>4. (c = "quote" /\ ~inside) = FALSE
    BY <1>8
  <2> QED
    BY <1>3, <2>1, <2>2, <2>3, <2>4, Zenon DEF K, nothing, inside, no
<1> QED
  BY <1>6, <1>7, <1>8

LEMMA TurnGoesOn ==
    ASSUME NEW m, NEW T, ReadTo(m, T), NEW c \in ChatCharacters, ~Closes(T, c)
    PROVE  Turn(m, c) = Message(m.calls, m.command, Append(m.argument, c), m.quoted, FALSE)
<1> DEFINE no == FALSE
           more == Append(m.argument, c)
<1>1. m \in Messages /\ (m.quoted <=> Inside(T, Len(T) + 1))
  BY DEF ReadTo
<1>2. IF m.quoted THEN c # "quote" ELSE c \notin {"space", "quote", "newline"}
  BY <1>1 DEF Closes
<1>3. /\ ~(~m.quoted /\ c = "newline")
      /\ ~(~m.quoted /\ c \in {"space", "quote"})
      /\ ~(m.quoted /\ c = "quote")
  BY <1>2
<1>4. Turn(m, c) = WithArgument(m, more)
  BY <1>3 DEF Turn, WithArgument
<1>5. m = Message(m.calls, m.command, m.argument, m.quoted, m.ended) /\ m.ended = no
  BY <1>1, MessageIs DEF Messages
<1>6. m = Message(m.calls, m.command, m.argument, m.quoted, no)
  BY <1>5, Zenon
<1> HIDE DEF no, more
<1>7. WithArgument(Message(m.calls, m.command, m.argument, m.quoted, no), more) =
          Message(m.calls, m.command, more, m.quoted, no)
  BY ArgumentChanges, SMT
<1> QED
  BY <1>4, <1>6, <1>7, Zenon DEF no, more

\* What a turn leaves of the word in progress, and which one it begins
LEMMA UnfinishedGoes ==
    ASSUME NEW C, NEW T \in Seq(C), NEW c \in C, InLine(T)
    PROVE  Unfinished(Append(T, c)) = (IF Closes(T, c) THEN {} ELSE Unfinished(T)) \union Opened(T, c)
<1> DEFINE X == Append(T, c)
<1>1. WordsGo(T, c, X)
  BY WordsGoOn
<1>2. Begins(T) = Finished(T) \union Unfinished(T) /\ Begins(X) = Finished(X) \union Unfinished(X)
  BY WordsSplit
<1> HIDE DEF X
<1>3. Unfinished(T) \intersect Finished(T) = {} /\ Unfinished(X) \intersect Finished(X) = {}
  BY DEF Finished, Unfinished
<1>4. Opened(T, c) \subseteq Unfinished(X)
  BY <1>1 DEF WordsGo, Unfinished
<1>5. Begins(X) = Begins(T) \union Opened(T, c) /\ Finished(X) = IF Closes(T, c) THEN Begins(T) ELSE Finished(T)
  BY <1>1 DEF WordsGo
<1>6. CASE Closes(T, c)
  BY <1>2, <1>3, <1>4, <1>5, <1>6 DEF X
<1>7. CASE ~Closes(T, c)
  BY <1>2, <1>3, <1>4, <1>5, <1>7 DEF X
<1> QED
  BY <1>6, <1>7

OpenedIs(T, c) ==
    Opened(T, c) = CASE c = "quote" /\ ~Inside(T, Len(T) + 1) -> {Len(T) + 2}
                     [] ~Closes(T, c) /\ ~Inside(T, Len(T) + 1) /\ ~IsLetter(T, Len(T)) -> {Len(T) + 1}
                     [] OTHER -> {}

LEMMA OpenedOne ==
    ASSUME NEW T, NEW c
    PROVE  OpenedIs(T, c)
<1> DEFINE L == Len(T)
<1>1. Closes(T, c) <=> IF Inside(T, L + 1) THEN c = "quote" ELSE c \in {"space", "quote", "newline"}
  BY DEF Closes
<1>2. Opened(T, c) = {i \in {L + 2} : c = "quote" /\ ~Inside(T, L + 1)}
        \union {i \in {L + 1} : /\ ~Inside(T, i) /\ c \notin {"space", "quote", "newline"}
                                /\ ~IsLetter(T, L)}
  BY DEF Opened
<1> HIDE DEF L
<1>3. Opened(T, c) = CASE c = "quote" /\ ~Inside(T, L + 1) -> {L + 2}
                       [] ~Closes(T, c) /\ ~Inside(T, L + 1) /\ ~IsLetter(T, L) -> {L + 1}
                       [] OTHER -> {}
  <2>1. CASE c = "quote" /\ ~Inside(T, L + 1)
    BY <1>1, <1>2, <2>1
  <2>2. CASE ~Closes(T, c) /\ ~Inside(T, L + 1) /\ ~IsLetter(T, L)
    BY <1>1, <1>2, <2>2
  <2>3. CASE ~(c = "quote" /\ ~Inside(T, L + 1)) /\ ~(~Closes(T, c) /\ ~Inside(T, L + 1) /\ ~IsLetter(T, L))
    BY <1>1, <1>2, <2>3
  <2> QED
    BY <2>1, <2>2, <2>3
<1> QED
  BY <1>3 DEF OpenedIs, L

\* Where the marks of a text with one more character end
After(T, c, X) ==
    /\ Inside(X, Len(T) + 2) <=> IF c = "quote" THEN ~Inside(T, Len(T) + 1) ELSE Inside(T, Len(T) + 1)
    /\ IsLetter(X, Len(T) + 1) <=> ~Inside(T, Len(T) + 1) /\ c \notin {"space", "quote", "newline"}

LEMMA AfterAll ==
    ASSUME NEW C, NEW T \in Seq(C), NEW c \in C
    PROVE  After(T, c, Append(T, c))
<1>1. Marks(T, c, Append(T, c), Len(T))
  BY MarksGrow
<1>2. Inside(Append(T, c), Len(T) + 2) <=>
          IF c = "quote" THEN ~Inside(T, Len(T) + 1) ELSE Inside(T, Len(T) + 1)
  BY InsideGrows
<1> QED
  BY <1>1, <1>2 DEF After, Marks

LEMMA WaitsForNothing ==
    ASSUME NEW C, NEW T \in Seq(C), NEW c \in C, InLine(T), Closes(T, c),
           ~(c = "quote" /\ ~Inside(T, Len(T) + 1))
    PROVE  Nothing(Append(T, c), << >>)
<1> DEFINE X == Append(T, c)
           L == Len(T)
<1>1. L \in Nat /\ Len(X) = L + 1
  BY TextGrows
<1>2. Unfinished(X) = {}
  <2>1. Unfinished(X) = {} \union Opened(T, c)
    BY UnfinishedGoes
  <2>2. OpenedIs(T, c)
    BY OpenedOne
  <2> HIDE DEF X, L
  <2> QED
    BY <2>1, <2>2 DEF OpenedIs
<1>3. After(T, c, X)
  BY AfterAll
<1>4. IF Inside(T, L + 1) THEN c = "quote" ELSE c \in {"space", "quote", "newline"}
  BY DEF Closes
<1>5. Len(X) + 1 = L + 2
  BY <1>1
<1>6. ~(c = "quote" /\ ~Inside(T, L + 1))
  OBVIOUS
<1>7. /\ Inside(X, L + 2) <=> IF c = "quote" THEN ~Inside(T, L + 1) ELSE Inside(T, L + 1)
      /\ IsLetter(X, L + 1) <=> ~Inside(T, L + 1) /\ c \notin {"space", "quote", "newline"}
  BY <1>3 DEF After
<1> HIDE DEF X, L
<1>8. ~Inside(X, Len(X) + 1) /\ ~IsLetter(X, Len(X))
  BY <1>1, <1>4, <1>5, <1>6, <1>7
<1> QED
  BY <1>2, <1>8 DEF Nothing, X

LEMMA WaitsForQuoted ==
    ASSUME NEW C, NEW T \in Seq(C), NEW c \in C, InLine(T), c = "quote", ~Inside(T, Len(T) + 1)
    PROVE  Word(Append(T, c), << >>, Len(T) + 2)
<1> DEFINE X == Append(T, c)
           L == Len(T)
           n == L + 2
           nothing == << >>
<1>1. X \in Seq(C) /\ L \in Nat /\ Len(X) = L + 1
  BY TextGrows
<1>2. Closes(T, c) /\ ~Calls(T, c)
  BY DEF Closes, Calls
<1>3. Unfinished(X) = {n}
  <2>1. Unfinished(X) = {} \union Opened(T, c)
    BY <1>2, UnfinishedGoes
  <2>2. OpenedIs(T, c)
    BY OpenedOne
  <2>3. c = "quote" /\ ~Inside(T, L + 1)
    OBVIOUS
  <2> HIDE DEF X
  <2> QED
    BY <1>2, <2>1, <2>2, <2>3 DEF OpenedIs
<1>4. LastEnd(X) < n
  <2>1. LastEnd(X) = LastEnd(T)
    BY <1>2, LastEndGrows
  <2>2. LastEnd(T) \in 0 .. L
    BY NewlinesAre
  <2> HIDE DEF X, L
  <2> QED
    BY <1>1, <2>1, <2>2
<1>5. Below(Finished(X), n)
  <2>1. WordsGo(T, c, X)
    BY WordsGoOn
  <2>2. Finished(X) = Begins(T)
    BY <1>2, <2>1 DEF WordsGo
  <2>3. Begins(T) \in SUBSET (1 .. L + 1)
    BY BeginsAre
  <2> HIDE DEF X, L
  <2> QED
    BY <1>1, <2>2, <2>3 DEF Below
<1>6. nothing = SubSeq(X, n, Len(X))
  <2> DEFINE k == L + 1
             s == SubSeq(X, k + 1, k)
  <2>1. k \in 0 .. Len(X) /\ k \in 0 .. k /\ k - k = 0 /\ k + 1 = n /\ k = Len(X)
    BY <1>1
  <2> HIDE DEF k
  <2>2. s \in Seq(C) /\ Len(s) = 0
    BY <1>1, <2>1, PartAfter
  <2>3. s = nothing
    BY <2>2, EmptySeq
  <2> QED
    BY <2>1, <2>3
<1>7. Inside(X, n)
  <2>1. After(T, c, X)
    BY AfterAll
  <2> QED
    BY <2>1 DEF After
<1>8. n \in 1 .. Len(X) + 1 /\ Len(X) + 1 = n
  BY <1>1
<1> HIDE DEF X, L, n, nothing
<1>9. Word(X, nothing, n)
  BY <1>3, <1>4, <1>5, <1>6, <1>7, <1>8 DEF Word
<1> QED
  BY <1>9 DEF X, L, n, nothing

LEMMA PartGoesOn ==
    ASSUME NEW C, NEW T \in Seq(C), NEW c \in C, NEW p \in 1 .. Len(T) + 1
    PROVE  SubSeq(Append(T, c), p, Len(T) + 1) = Append(SubSeq(T, p, Len(T)), c)
<1> DEFINE X == Append(T, c)
           L == Len(T)
           n == L + 1
           u == SubSeq(X, p, n)
           v == SubSeq(X, p, L)
<1>1. X \in Seq(C) /\ L \in Nat /\ Len(X) = n /\ X[n] = c
  BY TextGrows
<1>2. SubSeq(X, p, L) = SubSeq(T, p, L)
  <2>1. L \in 0 .. L
    BY <1>1
  <2> QED
    BY <2>1, PartStays
<1>3. n \in Nat /\ n = L + 1 /\ p \in 1 .. n
  BY <1>1
<1> HIDE DEF X, L, n
<1> DEFINE q == p - 1
<1>4. q \in 0 .. n /\ q \in 0 .. L /\ q + 1 = p /\ n \in 0 .. Len(X) /\ L \in 0 .. Len(X) /\ n - q = L - q + 1
      /\ L - q \in Nat
  BY <1>1, <1>3
<1> HIDE DEF q
<1>5. u \in Seq(C) /\ Len(u) = n - q /\ \A i \in 1 .. n - q : u[i] = X[q + i]
  <2>1. /\ SubSeq(X, q + 1, n) \in Seq(C) /\ Len(SubSeq(X, q + 1, n)) = n - q
        /\ \A i \in 1 .. n - q : SubSeq(X, q + 1, n)[i] = X[q + i]
    BY <1>1, <1>4, PartAfter
  <2> QED
    BY <1>4, <2>1
<1>6. v \in Seq(C) /\ Len(v) = L - q /\ \A i \in 1 .. L - q : v[i] = X[q + i]
  <2>1. /\ SubSeq(X, q + 1, L) \in Seq(C) /\ Len(SubSeq(X, q + 1, L)) = L - q
        /\ \A i \in 1 .. L - q : SubSeq(X, q + 1, L)[i] = X[q + i]
    BY <1>1, <1>4, PartAfter
  <2> QED
    BY <1>4, <2>1
<1> HIDE DEF u, v
<1> DEFINE w == Append(v, c)
<1>7. w \in Seq(C) /\ Len(w) = L - q + 1 /\ w[L - q + 1] = c /\ \A i \in 1 .. L - q : w[i] = v[i]
  BY <1>6, AppendProperties
<1> HIDE DEF w
<1>8. ASSUME NEW i \in 1 .. Len(u)
      PROVE  u[i] = w[i]
  <2>1. CASE i \in 1 .. L - q
    <3>1. i \in 1 .. n - q
      BY <1>5
    <3> QED
      BY <1>5, <1>6, <1>7, <2>1, <3>1
  <2>2. CASE i = L - q + 1
    <3>1. i \in 1 .. n - q /\ q + i = n
      BY <1>3, <1>4, <1>5, <2>2
    <3> QED
      BY <1>1, <1>5, <1>7, <2>2, <3>1
  <2>3. i \in 1 .. L - q \/ i = L - q + 1
    BY <1>4, <1>5
  <2> QED
    BY <2>1, <2>2, <2>3
<1>9. u = w
  BY <1>4, <1>5, <1>7, <1>8, SeqEqual
<1> QED
  BY <1>2, <1>9 DEF u, v, w, X, L, n

\* The word in progress goes on,
LEMMA WaitsForMore ==
    ASSUME NEW C, NEW T \in Seq(C), NEW c \in C, NEW a, NEW p, Word(T, a, p), ~Closes(T, c)
    PROVE  Word(Append(T, c), Append(a, c), p)
<1> DEFINE X == Append(T, c)
           L == Len(T)
           k == L + 1
           n == L + 2
           b == Append(a, c)
<1>1. X \in Seq(C) /\ L \in Nat /\ Len(X) = k /\ k = L + 1 /\ Len(X) + 1 = n
  BY TextGrows
<1>2. /\ p \in 1 .. k /\ Unfinished(T) = {p}
      /\ LastEnd(T) < p /\ Below(Finished(T), p)
      /\ a = SubSeq(T, p, L)
      /\ Inside(T, p) <=> Inside(T, k)
      /\ Inside(T, p) \/ (p <= L /\ IsLetter(T, L))
  BY DEF Word
<1>3. InLine(T)
  BY WaitsInLine DEF Waits
<1>4. ~Calls(T, c) /\ IF Inside(T, k) THEN c # "quote" ELSE c \notin {"space", "quote", "newline"}
  BY DEF Closes, Calls
<1>5. Opened(T, c) = {}
  <2>1. OpenedIs(T, c)
    BY OpenedOne
  <2>2. ~(c = "quote" /\ ~Inside(T, k)) /\ ~(~Inside(T, k) /\ ~IsLetter(T, L))
    BY <1>2, <1>4
  <2> QED
    BY <2>1, <2>2 DEF OpenedIs
<1>6. Unfinished(X) = {p}
  <2>1. Unfinished(X) = Unfinished(T) \union Opened(T, c)
    BY <1>3, UnfinishedGoes
  <2> QED
    BY <1>2, <1>5, <2>1
<1>7. LastEnd(X) < p
  <2>1. LastEnd(X) = LastEnd(T)
    BY <1>4, LastEndGrows
  <2> QED
    BY <1>2, <2>1
<1>8. Below(Finished(X), p)
  <2>1. WordsGo(T, c, X)
    BY <1>3, WordsGoOn
  <2>2. Finished(X) = Finished(T)
    BY <2>1 DEF WordsGo
  <2> QED
    BY <1>2, <2>2
<1>9. b = SubSeq(X, p, Len(X))
  <2>1. SubSeq(X, p, L + 1) = Append(SubSeq(T, p, L), c)
    BY <1>2, PartGoesOn
  <2> QED
    BY <1>1, <1>2, <2>1
<1>10. Inside(X, p) <=> Inside(T, p)
  <2>1. p \in 0 .. L + 1
    BY <1>1, <1>2
  <2> QED
    BY <2>1, InsideGrows
<1>11. After(T, c, X)
  BY AfterAll
<1>12. /\ Inside(X, n) <=> IF c = "quote" THEN ~Inside(T, k) ELSE Inside(T, k)
       /\ IsLetter(X, k) <=> ~Inside(T, k) /\ c \notin {"space", "quote", "newline"}
  BY <1>11 DEF After
<1> HIDE DEF X, L, k, n, b
<1>13. Inside(X, p) <=> Inside(X, Len(X) + 1)
  BY <1>1, <1>2, <1>4, <1>10, <1>12
<1>14. Inside(X, p) \/ (p <= Len(X) /\ IsLetter(X, Len(X)))
  BY <1>1, <1>2, <1>4, <1>10, <1>12
<1>15. p \in 1 .. Len(X) + 1
  BY <1>1, <1>2
<1>16. Word(X, b, p)
  BY <1>6, <1>7, <1>8, <1>9, <1>13, <1>14, <1>15 DEF Word
<1> QED
  BY <1>16 DEF X, b

\* or begins with the character.
LEMMA WaitsForWord ==
    ASSUME NEW C, NEW T \in Seq(C), NEW c \in C, NEW a, Nothing(T, a), ~Closes(T, c)
    PROVE  Word(Append(T, c), Append(a, c), Len(T) + 1)
<1> DEFINE X == Append(T, c)
           L == Len(T)
           k == L + 1
           b == Append(a, c)
           nothing == << >>
<1>1. X \in Seq(C) /\ L \in Nat /\ Len(X) = k /\ k = L + 1
  BY TextGrows
<1>2. Unfinished(T) = {} /\ a = nothing /\ ~Inside(T, k) /\ ~IsLetter(T, L)
  BY DEF Nothing
<1>3. InLine(T)
  BY WaitsInLine DEF Waits
<1>4. ~Calls(T, c) /\ c \notin {"space", "quote", "newline"}
  BY <1>2 DEF Closes, Calls
<1>5. Opened(T, c) = {k}
  <2>1. OpenedIs(T, c)
    BY OpenedOne
  <2>2. ~(c = "quote" /\ ~Inside(T, k)) /\ ~Inside(T, k) /\ ~IsLetter(T, L)
    BY <1>2, <1>4
  <2> QED
    BY <2>1, <2>2 DEF OpenedIs
<1>6. Unfinished(X) = {k}
  <2>1. Unfinished(X) = Unfinished(T) \union Opened(T, c)
    BY <1>3, UnfinishedGoes
  <2> QED
    BY <1>2, <1>5, <2>1
<1>7. LastEnd(X) < k
  <2>1. LastEnd(X) = LastEnd(T)
    BY <1>4, LastEndGrows
  <2>2. LastEnd(T) \in 0 .. L
    BY NewlinesAre
  <2> HIDE DEF X, L, k
  <2> QED
    BY <1>1, <2>1, <2>2
<1>8. Below(Finished(X), k)
  <2>1. WordsGo(T, c, X)
    BY <1>3, WordsGoOn
  <2>2. Begins(T) \in SUBSET (1 .. k)
    BY BeginsAre
  <2>3. Finished(X) \in SUBSET Begins(T)
    BY <2>1 DEF WordsGo, Finished
  <2>4. k \notin Finished(X)
    BY <1>6 DEF Finished, Unfinished
  <2> HIDE DEF X, L, k
  <2>5. \A i \in 1 .. k : i = k \/ i < k
    BY <1>1
  <2> QED
    BY <2>2, <2>3, <2>4, <2>5 DEF Below
<1>9. b = SubSeq(X, k, Len(X))
  <2>1. k \in 1 .. L + 1
    BY <1>1
  <2>2. SubSeq(X, k, L + 1) = Append(SubSeq(T, k, L), c)
    BY <2>1, PartGoesOn
  <2>3. SubSeq(T, k, L) = nothing
    <3> DEFINE s == SubSeq(T, L + 1, L)
    <3>1. L \in 0 .. Len(T) /\ L \in 0 .. L /\ L - L = 0
      BY <1>1
    <3>2. s \in Seq(C) /\ Len(s) = 0
      BY <3>1, PartAfter
    <3> QED
      BY <3>2, EmptySeq
  <2> QED
    BY <1>1, <1>2, <2>2, <2>3
<1>10. Inside(X, k) <=> Inside(T, k)
  <2>1. k \in 0 .. L + 1
    BY <1>1
  <2> QED
    BY <2>1, InsideGrows
<1>11. After(T, c, X)
  BY AfterAll
<1>12. /\ Inside(X, Len(X) + 1) <=> IF c = "quote" THEN ~Inside(T, k) ELSE Inside(T, k)
       /\ IsLetter(X, k) <=> ~Inside(T, k) /\ c \notin {"space", "quote", "newline"}
  <2>1. Len(X) + 1 = L + 2
    BY <1>1
  <2> QED
    BY <1>11, <2>1 DEF After
<1> HIDE DEF X, L, k, b, nothing
<1>13. Inside(X, k) <=> Inside(X, Len(X) + 1)
  BY <1>2, <1>4, <1>10, <1>12
<1>14. k <= Len(X) /\ IsLetter(X, Len(X)) /\ k \in 1 .. Len(X) + 1
  BY <1>1, <1>2, <1>4, <1>12
<1>15. Word(X, b, k)
  BY <1>6, <1>7, <1>8, <1>9, <1>13, <1>14 DEF Word
<1> QED
  BY <1>15 DEF X, L, k, b

\* A turn reads one more character of the text.
LEMMA TurnReads ==
    ASSUME NEW m, NEW T, ReadTo(m, T), NEW c \in ChatCharacters
    PROVE  ReadTo(Turn(m, c), Append(T, c))
<1> DEFINE X == Append(T, c)
           L == Len(T)
           C == ChatCharacters
           K == CommandTo(T, L + 1)
           nothing == << >>
           no == FALSE
<1>1. /\ m \in Messages /\ T \in Seq(C)
      /\ m.quoted <=> Inside(T, L + 1)
      /\ m.calls = Called(T) /\ m.command = InProgress(T) /\ Waits(T, m.argument)
  BY DEF ReadTo
<1>2. InLine(T)
  BY <1>1, WaitsInLine
<1>3. X \in Seq(C) /\ Len(X) + 1 = L + 2
  <2>1. X \in Seq(C) /\ L \in Nat /\ Len(X) = L + 1
    BY <1>1, TextGrows
  <2> QED
    BY <2>1
<1>4. Called(X) = IF Calls(T, c) THEN Append(Called(T), K) ELSE Called(T)
  BY <1>1, <1>2, CalledGrows
<1>5. InProgress(X) = CASE Calls(T, c) -> nothing
                        [] Closes(T, c) /\ ~Calls(T, c) -> K
                        [] OTHER -> InProgress(T)
  BY <1>1, <1>2, InProgressGrows
<1>6. Inside(X, Len(X) + 1) <=> IF c = "quote" THEN ~Inside(T, L + 1) ELSE Inside(T, L + 1)
  <2>1. After(T, c, X)
    BY <1>1, AfterAll
  <2> QED
    BY <1>3, <2>1 DEF After
<1>7. /\ m.calls \in Seq(Seq(Seq(C))) /\ m.command \in Seq(Seq(C)) /\ m.argument \in Seq(C)
      /\ m.quoted \in BOOLEAN
  BY <1>1 DEF Messages
<1>8. K \in Seq(Seq(C))
  BY <1>1, CommandIsWords
<1>9. nothing \in Seq(C) /\ nothing \in Seq(Seq(C)) /\ no \in BOOLEAN
  OBVIOUS
<1>10. Calls(T, c) => Closes(T, c) /\ c = "newline" /\ ~Inside(T, L + 1)
  BY DEF Calls, Closes
<1>11. CASE Calls(T, c)
  <2> DEFINE q == Append(m.calls, K)
  <2>1. Turn(m, c) = Message(q, nothing, nothing, no, no)
    BY <1>10, <1>11, TurnCloses
  <2>2. q \in Seq(Seq(Seq(C))) /\ q = Called(X)
    BY <1>1, <1>4, <1>7, <1>8, <1>11, AppendProperties
  <2>3. nothing = InProgress(X)
    BY <1>5, <1>11
  <2>4. Waits(X, nothing)
    <3>1. ~(c = "quote" /\ ~Inside(T, Len(T) + 1))
      BY <1>10, <1>11
    <3>2. Nothing(X, nothing)
      BY <1>1, <1>2, <1>10, <1>11, <3>1, WaitsForNothing
    <3> QED
      BY <3>2 DEF Waits
  <2>5. ~Inside(X, Len(X) + 1)
    BY <1>6, <1>10, <1>11
  <2> HIDE DEF X, L, C, K, nothing, q
  <2>6. Message(q, nothing, nothing, no, no) \in
            [calls : Seq(Seq(Seq(C))), command : Seq(Seq(C)), argument : Seq(C), quoted : BOOLEAN, ended : {FALSE}]
    BY <1>9, <2>2 DEF Message
  <2>7. Turn(m, c) \in Messages
    BY <2>1, <2>6 DEF Messages, C
  <2>8. /\ Turn(m, c).calls = q /\ Turn(m, c).command = nothing /\ Turn(m, c).argument = nothing
        /\ Turn(m, c).quoted = FALSE
    BY <2>1 DEF Message
  <2>9. ReadTo(Turn(m, c), X)
    BY <1>3, <2>2, <2>3, <2>4, <2>5, <2>7, <2>8 DEF ReadTo, C
  <2> QED
    BY <2>9 DEF X
<1>12. CASE Closes(T, c) /\ ~Calls(T, c)
  <2> DEFINE o == c = "quote" /\ ~Inside(T, L + 1)
  <2>1. Turn(m, c) = Message(m.calls, K, nothing, o, no)
    BY <1>12, TurnCloses
  <2>2. m.calls = Called(X)
    BY <1>1, <1>4, <1>12
  <2>3. K = InProgress(X)
    BY <1>5, <1>12
  <2>4. Waits(X, nothing)
    <3>1. CASE o
      <4>1. Word(X, nothing, L + 2)
        BY <1>1, <1>2, <3>1, WaitsForQuoted
      <4> QED
        BY <4>1 DEF Waits
    <3>2. CASE ~o
      <4>1. Nothing(X, nothing)
        BY <1>1, <1>2, <1>12, <3>2, WaitsForNothing
      <4> QED
        BY <4>1 DEF Waits
    <3> QED
      BY <3>1, <3>2
  <2>5. o <=> Inside(X, Len(X) + 1)
    BY <1>6, <1>12 DEF Closes
  <2>6. o \in BOOLEAN
    OBVIOUS
  <2> HIDE DEF X, L, C, K, nothing, o
  <2>7. Message(m.calls, K, nothing, o, no) \in
            [calls : Seq(Seq(Seq(C))), command : Seq(Seq(C)), argument : Seq(C), quoted : BOOLEAN, ended : {FALSE}]
    BY <1>7, <1>8, <1>9, <2>6 DEF Message
  <2>8. Turn(m, c) \in Messages
    BY <2>1, <2>7 DEF Messages, C
  <2>9. /\ Turn(m, c).calls = m.calls /\ Turn(m, c).command = K /\ Turn(m, c).argument = nothing
        /\ Turn(m, c).quoted = o
    BY <2>1 DEF Message
  <2>10. ReadTo(Turn(m, c), X)
    BY <1>3, <2>2, <2>3, <2>4, <2>5, <2>8, <2>9 DEF ReadTo, C
  <2> QED
    BY <2>10 DEF X
<1>13. CASE ~Closes(T, c)
  <2> DEFINE more == Append(m.argument, c)
  <2>1. Turn(m, c) = Message(m.calls, m.command, more, m.quoted, no)
    BY <1>13, TurnGoesOn
  <2>2. m.calls = Called(X) /\ m.command = InProgress(X)
    BY <1>1, <1>4, <1>5, <1>10, <1>13
  <2>3. more \in Seq(C)
    BY <1>7, AppendProperties
  <2>4. Waits(X, more)
    <3>1. ASSUME NEW p, Word(T, m.argument, p)
          PROVE  Waits(X, more)
      <4>1. Word(X, more, p)
        BY <1>1, <1>13, <3>1, WaitsForMore
      <4> QED
        BY <4>1 DEF Waits
    <3>2. CASE Nothing(T, m.argument)
      <4>1. Word(X, more, L + 1)
        BY <1>1, <1>13, <3>2, WaitsForWord
      <4> QED
        BY <4>1 DEF Waits
    <3> QED
      BY <1>1, <3>1, <3>2 DEF Waits
  <2>5. m.quoted <=> Inside(X, Len(X) + 1)
    BY <1>1, <1>6, <1>13 DEF Closes
  <2> HIDE DEF X, L, C, K, nothing, more
  <2>6. Message(m.calls, m.command, more, m.quoted, no) \in
            [calls : Seq(Seq(Seq(C))), command : Seq(Seq(C)), argument : Seq(C), quoted : BOOLEAN, ended : {FALSE}]
    BY <1>7, <2>3 DEF Message
  <2>7. Turn(m, c) \in Messages
    BY <2>1, <2>6 DEF Messages, C
  <2>8. /\ Turn(m, c).calls = m.calls /\ Turn(m, c).command = m.command /\ Turn(m, c).argument = more
        /\ Turn(m, c).quoted = m.quoted
    BY <2>1 DEF Message
  <2>9. ReadTo(Turn(m, c), X)
    BY <1>3, <2>2, <2>4, <2>5, <2>7, <2>8 DEF ReadTo, C
  <2> QED
    BY <2>9 DEF X
<1> QED
  BY <1>11, <1>12, <1>13

\* The end of the text is the end of a command, too.
LEMMA CommandsAtEnd ==
    ASSUME NEW C, NEW T \in Seq(C)
    PROVE  CommandsOf(T) = Append(Called(T), CommandTo(T, Len(T) + 1))
<1> DEFINE L == Len(T)
           n == L + 1
           N == Newlines(T)
           f == Commands(T)
<1>1. L \in Nat /\ n \in Nat /\ n = L + 1
  BY LenProperties
<1>2. N \in SUBSET (0 .. L) /\ \A e \in N : e \in 1 .. L
  BY NewlinesAre
<1>3. f[n] = CommandTo(T, n) /\ \A e \in N : f[e] = CommandTo(T, e)
  BY DEF Commands, Ends
<1>4. CommandsOf(T) = ValuesAt(N \union {n}, f) /\ Called(T) = ValuesAt(N, f)
  BY DEF CommandsOf, Commands, Ends, Called
<1>5. \A e : CommandTo(T, e) \in Seq(Seq(C))
  BY CommandIsWords
<1> HIDE DEF L, n, N, f
<1>6. Below(N, n) /\ Gives(f, N, Seq(Seq(C))) /\ Agree(f, f, N) /\ f[n] \in Seq(Seq(C))
  BY <1>1, <1>2, <1>3, <1>5 DEF Below, Gives, Agree
<1>7. Grows(N, n, f, f)
  BY <1>1, <1>2, <1>6, ValuesGrow
<1> QED
  BY <1>3, <1>4, <1>7 DEF Grows, n, L

LEMMA EndReads ==
    ASSUME NEW m, NEW T, ReadTo(m, T)
    PROVE  AtEnd(m).calls = CommandsOf(T)
<1> DEFINE K == CommandTo(T, Len(T) + 1)
           nothing == << >>
<1>1. m \in Messages /\ T \in Seq(ChatCharacters) /\ m.calls = Called(T)
  BY DEF ReadTo
<1>2. Pushed(m) = Message(m.calls, K, nothing, m.quoted, m.ended)
  BY MessagePushed
<1>3. AtEnd(m) = [CallHandler(Pushed(m)) EXCEPT !.ended = TRUE]
  BY DEF AtEnd, Pushed
<1>4. CommandsOf(T) = Append(Called(T), K)
  BY <1>1, CommandsAtEnd
<1> HIDE DEF K, nothing
<1> DEFINE p == CallHandler(Pushed(m))
<1>5. CallHandler(Message(m.calls, K, nothing, m.quoted, m.ended)) =
          Message(Append(m.calls, K), << >>, nothing, m.quoted, m.ended)
  BY CallChanges, SMT
<1>6. p = Message(Append(m.calls, K), << >>, nothing, m.quoted, m.ended)
  BY <1>2, <1>5, Zenon
<1> HIDE DEF p
<1>7. p.calls = Append(m.calls, K)
  BY <1>6 DEF Message
<1>8. [p EXCEPT !.ended = TRUE].calls = p.calls
  BY <1>6 DEF Message
<1>9. AtEnd(m).calls = p.calls
  BY <1>3, <1>8 DEF p
<1> QED
  BY <1>1, <1>4, <1>7, <1>9

LEMMA NothingRead == ReadTo(NewMessage, << >>)
<1> DEFINE T == << >>
           f == Words(T)
           g == Commands(T)
<1>1. T \in Seq(ChatCharacters) /\ Len(T) = 0 /\ DOMAIN T = {}
  <2>1. T \in Seq(ChatCharacters) /\ Len(T) = 0
    BY EmptySeq
  <2> QED
    BY <2>1, LenProperties
<1>2. /\ NewMessage \in Messages /\ NewMessage.calls = << >> /\ NewMessage.command = << >>
      /\ NewMessage.argument = << >> /\ NewMessage.quoted = FALSE
  BY DEF NewMessage, Messages
<1> HIDE DEF T
<1>3. Begins(T) = {} /\ Newlines(T) = {} /\ Quotes(T) = {} /\ \A i : ~IsLetter(T, i)
  BY <1>1 DEF Begins, Newlines, Quotes, IsLetter
<1>4. ~Inside(T, Len(T) + 1)
  <2>1. {j \in Quotes(T) : j < Len(T) + 1} = {}
    BY <1>3
  <2>2. Cardinality({}) = 0 /\ ~(0 % 2 = 1)
    BY FS_EmptySet
  <2> QED
    BY <2>1, <2>2 DEF Inside
<1> HIDE DEF f, g
<1>5. ValuesAt({}, f) = << >> /\ ValuesAt({}, g) = << >>
  BY ValuesOfNone
<1>6. Called(T) = << >>
  BY <1>3, <1>5 DEF Called, g
<1>7. Finished(T) = {} /\ Unfinished(T) = {}
  BY <1>3 DEF Finished, Unfinished
<1>8. InProgress(T) = << >>
  <2>1. Since(Finished(T), LastEnd(T)) = {}
    BY <1>7 DEF Since
  <2> QED
    BY <1>5, <2>1 DEF InProgress, f
<1>9. Waits(T, << >>)
  BY <1>3, <1>4, <1>7 DEF Waits, Nothing
<1>10. ReadTo(NewMessage, T)
  BY <1>1, <1>2, <1>4, <1>6, <1>8, <1>9 DEF ReadTo
<1> QED
  BY <1>10 DEF T

\* The invariant of a chat message: until its end, what has been read of it is
\* split into calls, words of the command in progress, and a word in progress.
ChatInv ==
    /\ source = "chat" => IF message.ended THEN message.calls = CommandsOf(text) ELSE ReadTo(message, text)
    /\ source # "chat" => message = NewMessage

LEMMA ChatInvIsInvariant == Spec => []ChatInv
<1>1. Init => ChatInv
  <2>1. NewMessage.ended = FALSE
    BY DEF NewMessage
  <2> QED
    BY <2>1, NothingRead DEF Init, ChatInv
<1>2. ChatInv /\ [Next]_vars => ChatInv'
  <2> SUFFICES ASSUME ChatInv, [Next]_vars
               PROVE  ChatInv'
    OBVIOUS
  <2>1. ASSUME NEW c \in ChatCharacters, HandleCharacter(c)
        PROVE  ChatInv'
    <3>1. source = "chat" /\ ~message.ended /\ text' = Append(text, c) /\ message' = Turn(message, c) /\ source' = source
      BY <2>1 DEF HandleCharacter
    <3>2. ReadTo(message, text)
      BY <3>1 DEF ChatInv
    <3>3. ReadTo(Turn(message, c), Append(text, c))
      BY <3>2, TurnReads
    <3>4. ReadTo(message', text')
      BY <3>1, <3>3
    <3>5. message'.ended = FALSE
      BY <3>4 DEF ReadTo, Messages
    <3> QED
      BY <3>1, <3>4, <3>5 DEF ChatInv
  <2>2. ASSUME HandleEnd
        PROVE  ChatInv'
    <3>1. source = "chat" /\ ~message.ended /\ text' = text /\ message' = AtEnd(message) /\ source' = source
      BY <2>2 DEF HandleEnd
    <3>2. ReadTo(message, text)
      BY <3>1 DEF ChatInv
    <3>3. message'.calls = CommandsOf(text')
      BY <3>1, <3>2, EndReads
    <3>4. message'.ended = TRUE
      <4>1. AtEnd(message).ended = TRUE
        BY <3>2 DEF AtEnd, PushArgument, PushIfAny, CallHandler, ReadTo, Messages
      <4> QED
        BY <3>1, <4>1
    <3> QED
      BY <3>1, <3>3, <3>4 DEF ChatInv
  <2>3. ASSUME NEW data, Read(data)
        PROVE  ChatInv'
    BY <2>3 DEF Read, ChatInv
  <2>4. CASE UNCHANGED vars
    BY <2>4 DEF vars, ChatInv
  <2> QED
    BY <2>1, <2>2, <2>3, <2>4 DEF Next
<1> QED
  BY <1>1, <1>2, PTL DEF Spec

\* A chat message of any length is taken apart as its author meant it: what
\* handleMessage calls handleChatCommand with, one character after the other,
\* is what the quotes and newlines of the whole message say.
THEOREM WordsAreFound == Spec => []WordsAsMeant
<1>1. ChatInv => WordsAsMeant
  <2>1. NewMessage.ended = FALSE
    BY DEF NewMessage
  <2> QED
    BY <2>1 DEF ChatInv, WordsAsMeant
<1> QED
  BY <1>1, ChatInvIsInvariant, PTL
=============================================================================
