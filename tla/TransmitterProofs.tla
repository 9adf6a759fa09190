------------------------- MODULE TransmitterProofs -------------------------
(***************************************************************************)
(* What Transmitter promises, for every value of its constants: it is an    *)
(* owner of its TcpClient as TcpClientLoop has one, takes no connection for *)
(* authorized that is not, hands a server that has not granted access       *)
(* nothing but the login, leaves nothing unparsed that has come whole, and  *)
(* never loses the heartbeat of a live connection.                          *)
(*                                                                         *)
(* Three arguments meet.  The stream: what is in _transmitterBuffer and     *)
(* what is still to be read are together what the server wrote, well formed *)
(* however reads cut it (WellFormed), and every turn of the loop of         *)
(* handleTcpClientReceivedData takes a whole part off it (Goes, Gone).  The *)
(* client: theorems of TcpClientLoopProofs, by an instance of it, once      *)
(* every step of the transmitter is one of an owner.  And the invariant     *)
(* that joins them, action by action (Rest).                                *)
(***************************************************************************)
EXTENDS Transmitter, LoopTheorems, SequenceTheorems, FiniteSetTheorems, TLAPS
LOCAL INSTANCE SequencesExt
LOCAL INSTANCE FiniteSetsExt

----------------------------------------------------------------------------
(* Sequences of pieces *)

\* t is s without its first k pieces.
IsRest(t, s, k) ==
    /\ t \in Seq(Pieces) /\ Len(t) = Len(s) - k
    /\ \A i \in 1 .. Len(s) - k : t[i] = s[i + k]

\* What is left of a buffer, and of the stream it begins.
LEMMA DropFields ==
    ASSUME NEW b \in Seq(Pieces), NEW r \in Seq(Pieces), NEW k \in 0 .. Len(b)
    PROVE  IsRest(Drop(b, k), b, k) /\ IsRest(Drop(b, k) \o r, b \o r, k)
<1> DEFINE d == Drop(b, k)
<1>1. d \in Seq(Pieces) /\ Len(d) = Len(b) - k /\ \A i \in 1 .. Len(b) - k : d[i] = b[i + k]
  <2>1. \A i \in k + 1 .. Len(b) : b[i] \in Pieces
    OBVIOUS
  <2>2. k + 1 \in Int /\ Len(b) \in Int
    OBVIOUS
  <2>3. /\ d \in Seq(Pieces)
        /\ Len(d) = IF k + 1 <= Len(b) THEN Len(b) - (k + 1) + 1 ELSE 0
        /\ \A i \in 1 .. Len(b) - (k + 1) + 1 : d[i] = b[k + 1 + i - 1]
    BY <2>1, <2>2, SubSeqProperties DEF Drop
  <2> HIDE DEF d
  <2> QED
    BY <2>2, <2>3
<1> HIDE DEF d
<1>2. /\ d \o r \in Seq(Pieces) /\ Len(d \o r) = Len(d) + Len(r)
      /\ \A i \in 1 .. Len(d) + Len(r) :
           (d \o r)[i] = IF i <= Len(d) THEN d[i] ELSE r[i - Len(d)]
  BY <1>1, ConcatProperties
<1>3. /\ Len(b \o r) = Len(b) + Len(r)
      /\ \A i \in 1 .. Len(b) + Len(r) :
           (b \o r)[i] = IF i <= Len(b) THEN b[i] ELSE r[i - Len(b)]
  BY ConcatProperties
<1>4. ASSUME NEW i \in 1 .. Len(b \o r) - k
      PROVE  (d \o r)[i] = (b \o r)[i + k]
  <2>1. /\ i + k \in 1 .. Len(b) + Len(r) /\ i \in 1 .. Len(d) + Len(r)
        /\ Len(b) \in Nat /\ Len(r) \in Nat
    BY <1>1, <1>3
  <2>2. CASE i + k <= Len(b)
    <3>1. i \in 1 .. Len(b) - k /\ i <= Len(d)
      BY <1>1, <2>1, <2>2
    <3> QED
      BY <1>1, <1>2, <1>3, <2>1, <2>2, <3>1
  <2>3. CASE ~(i + k <= Len(b))
    <3>1. ~(i <= Len(d)) /\ i - Len(d) = i + k - Len(b)
      BY <1>1, <2>1, <2>3
    <3> QED
      BY <1>2, <1>3, <2>1, <2>3, <3>1
  <2> QED
    BY <2>2, <2>3
<1>5. Len(d \o r) = Len(b \o r) - k
  BY <1>1, <1>2, <1>3, LenProperties
<1> QED
  BY <1>1, <1>2, <1>4, <1>5 DEF d, IsRest

\* A beginning of two pieces.
LEMMA PrefixOfTwo ==
    ASSUME NEW s \in Seq(Pieces), NEW a, NEW b
    PROVE  IsPrefix(<<a, b>>, s) <=> (Len(s) >= 2 /\ s[1] = a /\ s[2] = b)
<1> DEFINE t == <<a, b>>
           x == SubSeq(t, 1, 2)
           y == SubSeq(s, 1, 2)
<1>1. Len(t) = 2
  OBVIOUS
<1>2. IsPrefix(t, s) <=> (2 <= Len(s) /\ x = y)
  BY <1>1 DEF IsPrefix
<1>3. x = t
  <2>1. t \in Seq({a, b})
    OBVIOUS
  <2> HIDE DEF t
  <2> QED
    BY <1>1, <2>1, SubSeqFull
<1>4. CASE Len(s) >= 2
  <2>1. \A i \in 1 .. 2 : s[i] \in Pieces
    BY <1>4
  <2>2. /\ y \in Seq(Pieces) /\ Len(y) = 2
        /\ \A i \in 1 .. 2 : y[i] = s[i]
    <3>1. /\ y \in Seq(Pieces) /\ Len(y) = IF 1 <= 2 THEN 2 - 1 + 1 ELSE 0
          /\ \A i \in 1 .. 2 - 1 + 1 : y[i] = s[1 + i - 1]
      BY <2>1, SubSeqProperties
    <3> HIDE DEF y
    <3> QED
      BY <3>1
  <2> HIDE DEF y, x
  <2>3. y = <<y[1], y[2]>>
    BY <2>2
  <2>4. y[1] = s[1] /\ y[2] = s[2]
    BY <2>2
  <2>5. t = y <=> (a = s[1] /\ b = s[2])
    BY <2>3, <2>4
  <2> QED
    BY <1>2, <1>3, <1>4, <2>5
<1>5. CASE ~(Len(s) >= 2)
  BY <1>2, <1>5
<1> QED
  BY <1>4, <1>5

\* A piece has one character or two.
LEMMA SizeBounds ==
    ASSUME NEW b \in Seq(Pieces)
    PROVE  /\ Size(b) \in Nat
           /\ Size(b) >= Len(b)
           /\ Size(<< >>) = 0
<1> DEFINE wide == {i \in DOMAIN b : b[i] \in Wide}
<1>1. Cardinality(wide) \in Nat
  <2>1. IsFiniteSet(DOMAIN b)
    BY LenProperties, FS_Interval
  <2>2. IsFiniteSet(wide)
    BY <2>1, FS_Subset
  <2> QED
    BY <2>2, FS_CardinalityType
<1> HIDE DEF wide
<1>2. Size(b) = Len(b) + Cardinality(wide)
  BY DEF Size, wide
<1>3. Size(<< >>) = 0
  <2>1. {i \in DOMAIN << >> : << >>[i] \in Wide} = {}
    OBVIOUS
  <2> QED
    BY <2>1, FS_EmptySet DEF Size
<1> QED
  BY <1>1, <1>2, <1>3

\* The first semicolon of a buffer that has one.
LEMMA FirstSemicolon ==
    ASSUME NEW b \in Seq(Pieces), Semicolons(b) # {}
    PROVE  /\ Min(Semicolons(b)) \in 1 .. Len(b)
           /\ b[Min(Semicolons(b))] = "semicolon"
           /\ \A i \in 1 .. Min(Semicolons(b)) - 1 : b[i] # "semicolon"
<1>1. /\ Semicolons(b) \subseteq 1 .. Len(b) /\ Semicolons(b) \in SUBSET (0 .. Len(b))
      /\ \A i \in Semicolons(b) : b[i] = "semicolon"
      /\ \A i \in 1 .. Len(b) : b[i] = "semicolon" => i \in Semicolons(b)
  <2>1. DOMAIN b = 1 .. Len(b) /\ Len(b) \in Nat
    BY LenProperties
  <2>2. Semicolons(b) \subseteq 1 .. Len(b)
    BY <2>1 DEF Semicolons
  <2>3. \A i \in 1 .. Len(b) : i \in 0 .. Len(b)
    BY <2>1
  <2> QED
    BY <2>1, <2>2, <2>3 DEF Semicolons
<1>2. \E i \in Semicolons(b) : \A j \in Semicolons(b) : i <= j
  <2>1. Len(b) \in Nat
    BY LenProperties
  <2> HIDE DEF Semicolons
  <2> QED
    BY <1>1, <2>1, LeastNumber
<1> DEFINE m == Min(Semicolons(b))
<1>3. m \in Semicolons(b) /\ \A j \in Semicolons(b) : m <= j
  BY <1>2 DEF Min
<1> HIDE DEF m
<1>4. ASSUME NEW i \in 1 .. m - 1
      PROVE  b[i] # "semicolon"
  <2>1. i \in 1 .. Len(b) /\ ~(m <= i)
    <3>1. m \in 1 .. Len(b) /\ Len(b) \in Nat
      BY <1>1, <1>3, LenProperties
    <3> QED
      BY <3>1
  <2> QED
    BY <1>1, <1>3, <2>1
<1> QED
  BY <1>1, <1>3, <1>4 DEF m

----------------------------------------------------------------------------
(* The stream from the server, and one turn of the loop that parses it *)

Follows(s, i, pieces) == i < Len(s) /\ s[i + 1] \in pieces

\* What the server writes: LOAD in front, an answer in one go, and commands
\* that end in a semicolon.
PieceFits(s, i, g, a) ==
    /\ s[i] = "LO" => ~a /\ i = 1
    /\ s[i] = "AD" => ~a /\ i = 2
    /\ s[i] = "O" => Follows(s, i, {"N"})
    /\ s[i] = "N" => i > 1 /\ s[i - 1] = "O"
    /\ g /\ s[i] = "text" => Follows(s, i, {"text", "semicolon"})

\* A stream as the server writes it, g telling whether it has granted access
\* and a whether that is parsed: the denial, or LOAD first and then answers and
\* commands, whose beginnings tell them apart.
WellFormed(s, g, a) ==
    /\ a => g
    /\ ~g => \A i \in 1 .. Len(s) : s[i] = "text"
    /\ g /\ ~a => Len(s) >= 2 /\ s[1] = "LO" /\ s[2] = "AD"
    /\ \A i \in 1 .. Len(s) : PieceFits(s, i, g, a)

Has(s, piece) == \E i \in 1 .. Len(s) : s[i] = piece

\* Nothing in a buffer could be parsed.
NothingLeft(b, a) == Semicolons(b) = {} /\ IF a THEN ~IsAnswer(b) ELSE Size(b) < 4

\* Whole answers and commands are taken off a stream.
LEMMA WellFormedSuffix ==
    ASSUME NEW s \in Seq(Pieces), NEW a \in BOOLEAN, WellFormed(s, TRUE, a),
           NEW k \in 1 .. Len(s), a \/ k = 2, s[k] # "O",
           NEW t, IsRest(t, s, k)
    PROVE  WellFormed(t, TRUE, TRUE)
<1>0. /\ t \in Seq(Pieces) /\ Len(t) = Len(s) - k
      /\ \A i \in 1 .. Len(s) - k : t[i] = s[i + k]
  BY DEF IsRest
<1> SUFFICES ASSUME NEW i \in 1 .. Len(t)
             PROVE  PieceFits(t, i, TRUE, TRUE)
  BY DEF WellFormed
<1>1. /\ i + k \in 1 .. Len(s) /\ i + k > 1 /\ (k = 2 => i + k > 2)
      /\ Len(s) \in Nat /\ Len(t) \in Nat /\ i \in 1 .. Len(s) - k
  BY <1>0, LenProperties
<1>2. t[i] = s[i + k]
  BY <1>0, <1>1
<1>3. /\ s[i + k] # "LO" /\ s[i + k] # "AD"
      /\ s[i + k] = "O" => Follows(s, i + k, {"N"})
      /\ s[i + k] = "N" => s[i + k - 1] = "O"
      /\ s[i + k] = "text" => Follows(s, i + k, {"text", "semicolon"})
  <2>1. PieceFits(s, i + k, TRUE, a)
    BY <1>1 DEF WellFormed
  <2>2. i + k # 1 /\ (k = 2 => i + k # 2)
    BY <1>1
  <2> QED
    BY <2>1, <2>2 DEF PieceFits
<1>4. ASSUME NEW pieces, Follows(s, i + k, pieces)
      PROVE  Follows(t, i, pieces)
  <2>1. i + k < Len(s) /\ s[i + k + 1] \in pieces
    BY <1>4 DEF Follows
  <2>2. i + 1 \in 1 .. Len(s) - k /\ i + 1 + k = i + k + 1 /\ i < Len(t)
    BY <1>0, <1>1, <2>1
  <2>3. t[i + 1] = s[i + 1 + k]
    BY <1>0, <2>2
  <2> QED
    BY <2>1, <2>2, <2>3 DEF Follows
<1>5. ASSUME t[i] = "N"
      PROVE  i > 1 /\ t[i - 1] = "O"
  <2>1. s[i + k - 1] = "O"
    BY <1>2, <1>3, <1>5
  <2>2. i # 1
    BY <2>1, <1>1
  <2>3. i - 1 \in 1 .. Len(s) - k /\ i - 1 + k = i + k - 1 /\ i > 1
    BY <1>1, <2>2
  <2>4. t[i - 1] = s[i - 1 + k]
    BY <1>0, <2>3
  <2> QED
    BY <2>1, <2>3, <2>4
<1> QED
  BY <1>2, <1>3, <1>4, <1>5 DEF PieceFits

\* What stands before the first semicolon is the text of one command unless
\* answers stand in front of it.
LEMMA AnswerFirst ==
    ASSUME NEW s \in Seq(Pieces), WellFormed(s, TRUE, TRUE), NEW n \in 0 .. Len(s),
           \A i \in 1 .. n : s[i] # "semicolon",
           \E i \in 1 .. n : s[i] = "N"
    PROVE  n >= 2 /\ s[1] = "O" /\ s[2] = "N"
<1>1. /\ Len(s) \in Nat /\ n \in Nat
      /\ \A i \in 1 .. n : i \in 1 .. Len(s)
  <2>1. Len(s) \in Nat
    BY LenProperties
  <2> QED
    BY <2>1
<1>0. \A i \in 1 .. Len(s) : PieceFits(s, i, TRUE, TRUE)
  BY Zenon DEF WellFormed
<1>2. PICK m \in 1 .. n : s[m] = "N"
  OBVIOUS
<1>3. 1 \in 1 .. n /\ 1 \in 1 .. Len(s)
  BY <1>1, <1>2
<1>4. s[1] \in Pieces /\ s[1] \notin {"LO", "AD", "N", "semicolon"}
  <2>1. s[1] \in Pieces /\ s[1] # "semicolon"
    BY <1>1, <1>3
  <2>2. s[1] # "LO" /\ s[1] # "AD" /\ s[1] # "N"
    BY <1>0, <1>3 DEF PieceFits
  <2> QED
    BY <2>1, <2>2
<1>5. s[1] # "text"
  <2>1. SUFFICES ASSUME s[1] = "text" PROVE FALSE
    OBVIOUS
  <2> DEFINE S == {i \in 0 .. n : i = 0 \/ s[i] = "text"}
  <2>2. ASSUME NEW i \in 1 .. n, i - 1 \in S
        PROVE  i \in S
    <3>1. CASE i = 1
      BY <2>1, <1>1, <3>1
    <3>2. CASE i # 1
      <4>1. i - 1 \in 1 .. n /\ i - 1 \in 1 .. Len(s) /\ s[i - 1] = "text"
        BY <1>1, <2>2, <3>2
      <4>2. Follows(s, i - 1, {"text", "semicolon"})
        BY <1>0, <4>1 DEF PieceFits
      <4>3. i - 1 + 1 = i
        BY <1>1
      <4>4. s[i] \in {"text", "semicolon"}
        BY <4>2, <4>3 DEF Follows
      <4> QED
        BY <1>1, <4>4
    <3> QED
      BY <3>1, <3>2
  <2>3. 0 \in S
    BY <1>1
  <2> HIDE DEF S
  <2>4. \A i \in 0 .. n : i \in S
    BY <1>1, <2>2, <2>3, TurnsInduction
  <2>5. m \in S /\ m # 0
    BY <1>1, <2>4
  <2>6. s[m] = "text"
    BY <2>5 DEF S
  <2> QED
    BY <1>2, <2>6
<1>6. s[1] = "O"
  BY <1>4, <1>5 DEF Pieces
<1>7. s[2] = "N"
  BY <1>0, <1>3, <1>6 DEF PieceFits, Follows
<1>8. n >= 2
  BY <1>1, <1>2, <1>6
<1> QED
  BY <1>6, <1>7, <1>8

Timers == [waiting : Nat, due : Nat]

Loops == [buffer : Seq(Pieces), authorized : BOOLEAN, timer : Timers,
          goOn : BOOLEAN, denied : BOOLEAN]

\* What a turn of the loop makes of p, when r is what the server has sent and
\* g whether it has granted access: no answer is lost without a wait.
Goes(p, q, r, g) ==
    /\ q \in Loops
    /\ WellFormed(q.buffer \o r, g, q.authorized)
    /\ p.authorized => q.authorized
    /\ q.timer.due = p.timer.due /\ q.timer.waiting >= p.timer.waiting
    /\ Has(p.buffer, "N") => q.timer.waiting > 0 \/ Has(q.buffer, "N")
    /\ q.authorized /\ ~p.authorized => q.timer.waiting > 0
    /\ q.goOn => ~q.denied /\ Len(q.buffer) < Len(p.buffer)
    /\ ~q.goOn /\ ~q.denied => NothingLeft(q.buffer, q.authorized)

LEMMA StopGoes ==
    ASSUME NEW p \in Loops, p.goOn, ~p.denied, NEW r, NEW g,
           WellFormed(p.buffer \o r, g, p.authorized)
    PROVE  /\ Goes(p, Denied(p), r, g)
           /\ NothingLeft(p.buffer, p.authorized) => Goes(p, Stop(p), r, g)
<1>1. /\ Denied(p) \in Loops /\ Denied(p).buffer = p.buffer /\ Denied(p).timer = p.timer
      /\ Denied(p).authorized = p.authorized /\ Denied(p).denied /\ ~Denied(p).goOn
  BY DEF Denied, Loops
<1>2. /\ Stop(p) \in Loops /\ Stop(p).buffer = p.buffer /\ Stop(p).timer = p.timer
      /\ Stop(p).authorized = p.authorized /\ ~Stop(p).denied /\ ~Stop(p).goOn
  BY DEF Stop, Loops
<1>3. p.timer.waiting >= p.timer.waiting
  BY DEF Loops, Timers
<1> QED
  BY <1>1, <1>2, <1>3 DEF Goes

\* k pieces are taken off, with a wait if an answer is among them.
LEMMA TakenOffGoes ==
    ASSUME NEW p \in Loops, p.goOn, ~p.denied, NEW r \in Seq(Pieces),
           WellFormed(p.buffer \o r, TRUE, p.authorized),
           NEW k \in 1 .. Len(p.buffer), p.buffer[k] # "O", p.authorized \/ k = 2,
           NEW q \in Loops, q.buffer = Drop(p.buffer, k), q.authorized, q.goOn, ~q.denied,
           q.timer \in {p.timer, Wait(p.timer)},
           (\E i \in 1 .. k : p.buffer[i] = "N") \/ ~p.authorized => q.timer = Wait(p.timer)
    PROVE  Goes(p, q, r, TRUE)
<1> DEFINE b == p.buffer
           s == b \o r
           t == q.buffer \o r
<1>1. b \in Seq(Pieces) /\ q.buffer \in Seq(Pieces) /\ p.authorized \in BOOLEAN
      /\ p.timer \in Timers /\ k \in 0 .. Len(b) /\ Len(b) \in Nat
  <2>1. b \in Seq(Pieces)
    BY DEF Loops
  <2>2. Len(b) \in Nat
    BY <2>1, LenProperties
  <2> QED
    BY <2>1, <2>2 DEF Loops
<1>2. IsRest(q.buffer, b, k) /\ IsRest(t, s, k)
  BY <1>1, DropFields
<1>3. s \in Seq(Pieces) /\ k \in 1 .. Len(s) /\ s[k] = b[k]
  <2>1. /\ s \in Seq(Pieces) /\ Len(s) = Len(b) + Len(r)
        /\ \A i \in 1 .. Len(b) + Len(r) : s[i] = IF i <= Len(b) THEN b[i] ELSE r[i - Len(b)]
    BY <1>1, ConcatProperties
  <2>2. Len(r) \in Nat
    BY LenProperties
  <2>3. k \in 1 .. Len(b) + Len(r) /\ k <= Len(b)
    BY <1>1, <2>2
  <2> QED
    BY <2>1, <2>3
<1> HIDE DEF s, t
<1>4. WellFormed(t, TRUE, TRUE)
  BY <1>1, <1>2, <1>3, WellFormedSuffix DEF s
<1>5. /\ q.timer.due = p.timer.due /\ q.timer.waiting >= p.timer.waiting
      /\ q.timer = Wait(p.timer) => q.timer.waiting > 0
  BY <1>1 DEF Wait, Timers
<1>6. ASSUME Has(b, "N")
      PROVE  q.timer.waiting > 0 \/ Has(q.buffer, "N")
  <2>1. PICK i \in 1 .. Len(b) : b[i] = "N"
    BY <1>6 DEF Has
  <2>2. CASE i <= k
    BY <1>1, <1>5, <2>1, <2>2
  <2>3. CASE ~(i <= k)
    <3>1. i - k \in 1 .. Len(b) - k /\ i - k + k = i
      BY <1>1, <2>3
    <3>2. q.buffer[i - k] = "N"
      BY <1>2, <2>1, <3>1 DEF IsRest
    <3> QED
      BY <1>2, <3>1, <3>2 DEF Has, IsRest
  <2> QED
    BY <2>2, <2>3
<1>7. Len(q.buffer) < Len(b)
  BY <1>1, <1>2 DEF IsRest
<1> QED
  BY <1>4, <1>5, <1>6, <1>7 DEF Goes, t

LEMMA ParseOneGoes ==
    ASSUME NEW p \in Loops, p.goOn, ~p.denied, NEW r \in Seq(Pieces), NEW g \in BOOLEAN,
           WellFormed(p.buffer \o r, g, p.authorized)
    PROVE  Goes(p, ParseOne(p), r, g)
<1> DEFINE b == p.buffer
           s == b \o r
<1>1. /\ b \in Seq(Pieces) /\ Len(b) \in Nat /\ p.authorized \in BOOLEAN
      /\ p.timer \in Timers /\ Wait(p.timer) \in Timers
  <2>1. b \in Seq(Pieces) /\ p.timer \in Timers /\ p.authorized \in BOOLEAN
    BY DEF Loops
  <2>2. Wait(p.timer) \in Timers
    BY <2>1 DEF Wait, Timers
  <2>3. Len(b) \in Nat
    BY <2>1, LenProperties
  <2> QED
    BY <2>1, <2>2, <2>3
<1>2. /\ s \in Seq(Pieces) /\ Len(s) \in Nat /\ Len(s) >= Len(b)
      /\ \A i \in 1 .. Len(b) : s[i] = b[i]
  <2>1. /\ s \in Seq(Pieces) /\ Len(s) = Len(b) + Len(r)
        /\ \A i \in 1 .. Len(b) + Len(r) : s[i] = IF i <= Len(b) THEN b[i] ELSE r[i - Len(b)]
    BY <1>1, ConcatProperties
  <2>2. Len(r) \in Nat
    BY LenProperties
  <2>3. \A i \in 1 .. Len(b) : i \in 1 .. Len(b) + Len(r) /\ i <= Len(b)
    BY <1>1, <2>2
  <2> QED
    BY <1>1, <2>1, <2>2, <2>3
<1>3. Size(b) \in Nat /\ Size(b) >= Len(b)
  BY <1>1, SizeBounds
<1>4. IsAnswer(b) <=> (Len(b) >= 2 /\ b[1] = "O" /\ b[2] = "N")
  BY <1>1, PrefixOfTwo DEF IsAnswer
<1>5. p.authorized => g
  BY DEF WellFormed
<1>6. CASE Semicolons(b) = {} /\ Size(b) < 2
  <2>1. NothingLeft(b, p.authorized)
    BY <1>1, <1>3, <1>4, <1>6 DEF NothingLeft
  <2> QED
    BY <1>6, <2>1, StopGoes DEF ParseOne
<1>7. CASE Semicolons(b) = {} /\ ~(Size(b) < 2) /\ ~p.authorized
  <2>1. CASE Size(b) < 4
    <3>1. NothingLeft(b, p.authorized)
      BY <1>7, <2>1 DEF NothingLeft
    <3> QED
      BY <1>7, <2>1, <3>1, StopGoes DEF ParseOne, ParseLogin
  <2>2. CASE ~(Size(b) < 4) /\ ~IsPrefix(<<"LO", "AD">>, b)
    BY <1>7, <2>2, StopGoes DEF ParseOne, ParseLogin
  <2>3. CASE ~(Size(b) < 4) /\ IsPrefix(<<"LO", "AD">>, b)
    <3> DEFINE q == Granted(p)
    <3>1. Len(b) >= 2 /\ b[1] = "LO" /\ b[2] = "AD"
      BY <1>1, <2>3, PrefixOfTwo
    <3>2. g = TRUE
      <4>1. 1 \in 1 .. Len(b) /\ 1 \in 1 .. Len(s)
        BY <1>1, <1>2, <3>1
      <4>2. s[1] = "LO"
        BY <1>2, <3>1, <4>1
      <4> QED
        BY <4>1, <4>2 DEF WellFormed
    <3>3. 2 \in 1 .. Len(b) /\ 2 \in 0 .. Len(b)
      BY <1>1, <3>1
    <3>4. Drop(b, 2) \in Seq(Pieces)
      BY <1>1, <3>3, EmptySeq, DropFields DEF IsRest
    <3>5. /\ q \in Loops /\ q.buffer = Drop(b, 2) /\ q.authorized /\ q.goOn /\ ~q.denied
          /\ q.timer = Wait(p.timer)
      BY <1>1, <3>4 DEF Granted, Loops
    <3>6. ParseOne(p) = q
      BY <1>7, <2>3 DEF ParseOne, ParseLogin
    <3> HIDE DEF q
    <3>7. Goes(p, q, r, TRUE)
      BY <3>1, <3>2, <3>3, <3>5, TakenOffGoes
    <3> QED
      BY <3>2, <3>6, <3>7
  <2> QED
    BY <2>1, <2>2, <2>3
<1>8. CASE Semicolons(b) = {} /\ ~(Size(b) < 2) /\ p.authorized
  <2>1. CASE ~IsAnswer(b)
    <3>1. NothingLeft(b, p.authorized)
      BY <1>8, <2>1 DEF NothingLeft
    <3> QED
      BY <1>8, <2>1, <3>1, StopGoes DEF ParseOne, ParseAnswer
  <2>2. CASE IsAnswer(b)
    <3> DEFINE q == Answered(p)
    <3>1. Len(b) >= 2 /\ b[1] = "O" /\ b[2] = "N"
      BY <1>4, <2>2
    <3>2. g = TRUE
      BY <1>5, <1>8
    <3>3. 2 \in 1 .. Len(b) /\ 2 \in 0 .. Len(b)
      BY <1>1, <3>1
    <3>4. Drop(b, 2) \in Seq(Pieces)
      BY <1>1, <3>3, EmptySeq, DropFields DEF IsRest
    <3>5. /\ q \in Loops /\ q.buffer = Drop(b, 2) /\ q.authorized /\ q.goOn /\ ~q.denied
          /\ q.timer = Wait(p.timer)
      BY <1>1, <1>8, <3>4 DEF Answered, Loops
    <3>6. ParseOne(p) = q
      BY <1>8, <2>2 DEF ParseOne, ParseAnswer
    <3> HIDE DEF q
    <3>7. Goes(p, q, r, TRUE)
      BY <1>8, <3>1, <3>2, <3>3, <3>5, TakenOffGoes
    <3> QED
      BY <3>2, <3>6, <3>7
  <2> QED
    BY <2>1, <2>2
<1>9. CASE Semicolons(b) # {} /\ ~p.authorized
  BY <1>9, StopGoes DEF ParseOne
<1>10. CASE Semicolons(b) # {} /\ p.authorized
  <2> DEFINE end == Min(Semicolons(b))
             command == SubSeq(b, 1, end - 1)
             q == ParseCommand(p)
  <2>1. /\ end \in 1 .. Len(b) /\ b[end] = "semicolon"
        /\ \A i \in 1 .. end - 1 : b[i] # "semicolon"
    BY <1>1, <1>10, FirstSemicolon
  <2>2. ParseOne(p) = q
    BY <1>10 DEF ParseOne
  <2>3. q = [p EXCEPT !.buffer = Drop(b, end),
                      !.timer = IF IsAnswer(command) THEN Wait(@) ELSE @]
    BY DEF ParseCommand
  <2> HIDE DEF end
  <2>4. g = TRUE /\ WellFormed(s, TRUE, TRUE)
    BY <1>5, <1>10
  <2>5. end \in 0 .. Len(b) /\ end - 1 \in 0 .. Len(s) /\ end - 1 \in 0 .. Len(b)
    BY <1>1, <1>2, <2>1
  <2>6. Drop(b, end) \in Seq(Pieces)
    BY <1>1, <2>5, EmptySeq, DropFields DEF IsRest
  <2>7. /\ q \in Loops /\ q.buffer = Drop(b, end) /\ q.authorized /\ q.goOn /\ ~q.denied
        /\ q.timer = IF IsAnswer(command) THEN Wait(p.timer) ELSE p.timer
    <3> HIDE DEF command
    <3> QED
      BY <1>1, <1>10, <2>3, <2>6 DEF Loops
  <2>8. ASSUME \E i \in 1 .. end : b[i] = "N"
        PROVE  IsAnswer(command)
    <3>1. PICK i \in 1 .. end : b[i] = "N"
      BY <2>8
    <3>2. i \in 1 .. end - 1
      BY <1>1, <2>1, <3>1
    <3>3. \A j \in 1 .. end - 1 : j \in 1 .. Len(b) /\ s[j] = b[j] /\ b[j] \in Pieces
      BY <1>1, <1>2, <2>1
    <3>4. end - 1 >= 2 /\ s[1] = "O" /\ s[2] = "N"
      BY <1>2, <2>1, <2>4, <2>5, <3>1, <3>2, <3>3, AnswerFirst
    <3>5. /\ command \in Seq(Pieces) /\ Len(command) = IF 1 <= end - 1 THEN end - 1 - 1 + 1 ELSE 0
          /\ \A j \in 1 .. end - 1 - 1 + 1 : command[j] = b[1 + j - 1]
      BY <2>5, <3>3, SubSeqProperties
    <3>6. Len(command) >= 2 /\ command[1] = b[1] /\ command[2] = b[2]
      <4> HIDE DEF command
      <4> QED
        BY <2>5, <3>4, <3>5
    <3> HIDE DEF command
    <3>7. b[1] = "O" /\ b[2] = "N"
      BY <2>5, <3>3, <3>4
    <3> QED
      BY <3>5, <3>6, <3>7, PrefixOfTwo DEF IsAnswer
  <2> HIDE DEF q, command
  <2>9. Goes(p, q, r, TRUE)
    BY <1>1, <1>10, <2>1, <2>4, <2>7, <2>8, TakenOffGoes
  <2> QED
    BY <2>2, <2>4, <2>9
<1> QED
  BY <1>1, <1>3, <1>6, <1>7, <1>8, <1>9, <1>10

\* The loop after any number of turns.
Gone(p, pieces, turn, r, g) ==
    /\ p \in Loops
    /\ WellFormed(p.buffer \o r, g, p.authorized)
    /\ authorized => p.authorized
    /\ timer.waiting + timer.due > 0 \/ Has(pieces, "N")
         => p.timer.waiting + p.timer.due > 0 \/ Has(p.buffer, "N")
    /\ p.authorized /\ ~authorized => p.timer.waiting > 0
    /\ p.goOn => ~p.denied /\ Len(p.buffer) <= Len(pieces) - turn
    /\ ~p.goOn /\ ~p.denied => NothingLeft(p.buffer, p.authorized)

\* A turn, all turns as Parse defines them, and what these should be.
Turned(p) == IF p.goOn THEN ParseOne(p) ELSE p

Turns(n, begin) ==
    LET after[turn \in 0 .. n] ==
            IF turn = 0 THEN begin
            ELSE LET p == after[turn - 1] IN IF p.goOn THEN ParseOne(p) ELSE p
    IN  after

AreTurns(f, n, begin) == f[0] = begin /\ \A i \in 1 .. n : f[i] = Turned(f[i - 1])

LEMMA TurnsOfParse ==
    ASSUME NEW n \in Nat, NEW W, NEW begin \in W, \A p \in W : Turned(p) \in W
    PROVE  AreTurns(Turns(n, begin), n, begin)
<1> DEFINE turns == [i \in 1 .. n |-> [p \in W |-> Turned(p)]]
           run == Turns(n, begin)
<1>1. PICK f \in [0 .. n -> W] : IsRun(f, n, begin, turns)
  <2>1. turns \in [1 .. n -> [W -> W]]
    OBVIOUS
  <2> HIDE DEF turns, run
  <2> QED
    BY <2>1, TurnsExist
<1>2. f = [i \in 0 .. n |-> IF i = 0 THEN begin
                            ELSE LET p == f[i - 1] IN IF p.goOn THEN ParseOne(p) ELSE p]
  <2>1. ASSUME NEW i \in 0 .. n, i # 0
        PROVE  f[i] = Turned(f[i - 1])
    <3>1. i \in 1 .. n /\ i - 1 \in 0 .. n
      BY <2>1
    <3> QED
      BY <1>1, <3>1 DEF IsRun
  <2>2. \A i \in 0 .. n : f[i] = IF i = 0 THEN begin ELSE Turned(f[i - 1])
    <3> HIDE DEF turns
    <3> QED
      BY <1>1, <2>1 DEF IsRun
  <2> HIDE DEF turns
  <2> QED
    BY <2>2 DEF Turned
<1> HIDE DEF turns
<1>3. run = [i \in 0 .. n |-> IF i = 0 THEN begin
                              ELSE LET p == run[i - 1] IN IF p.goOn THEN ParseOne(p) ELSE p]
  BY <1>2, Zenon DEF Turns
<1> HIDE DEF run
<1>4. \A i \in 0 .. n : run[i] = IF i = 0 THEN begin ELSE Turned(run[i - 1])
  BY <1>3 DEF Turned
<1>5. 0 \in 0 .. n /\ \A i \in 1 .. n : i \in 0 .. n /\ i # 0
  OBVIOUS
<1>6. AreTurns(run, n, begin)
  BY <1>4, <1>5 DEF AreTurns
<1> QED
  BY <1>6 DEF run

\* The loop ends, and keeps what its turns keep.
LEMMA ParseGoes ==
    ASSUME authorized \in BOOLEAN, timer \in Timers, NEW pieces \in Seq(Pieces),
           NEW r \in Seq(Pieces), NEW g \in BOOLEAN, WellFormed(pieces \o r, g, authorized)
    PROVE  /\ Gone(Parse(pieces), pieces, Len(pieces) + 1, r, g)
           /\ ~Parse(pieces).goOn
<1> DEFINE n == Len(pieces) + 1
           begin == [buffer |-> pieces, authorized |-> authorized, timer |-> ExpiresFromNow(timer),
                     goOn |-> TRUE, denied |-> FALSE]
           States == {p \in Loops :
                        p.goOn => ~p.denied /\ WellFormed(p.buffer \o r, g, p.authorized)}
           run == Turns(n, begin)
<1>1. n \in Nat \ {0} /\ n \in Nat /\ Len(pieces) \in Nat
  BY LenProperties
<1>2. Parse(pieces) = run[n]
  BY DEF Parse, Turns
<1>3. begin \in States
  BY DEF Loops, Timers, ExpiresFromNow
<1>4. ASSUME NEW p \in States
      PROVE  Turned(p) \in States
  <2>1. CASE p.goOn
    <3>1. Goes(p, ParseOne(p), r, g)
      BY <2>1, ParseOneGoes
    <3> QED
      BY <2>1, <3>1 DEF Goes, Turned
  <2>2. CASE ~p.goOn
    BY <2>2 DEF Turned
  <2> QED
    BY <2>1, <2>2
<1>5. run[0] = begin /\ \A i \in 1 .. n : run[i] = Turned(run[i - 1])
  <2> HIDE DEF begin, States, n, run
  <2>1. AreTurns(Turns(n, begin), n, begin)
    BY <1>1, <1>3, <1>4, TurnsOfParse
  <2> QED
    BY <2>1 DEF AreTurns, run
<1> HIDE DEF n, run, begin, States
<1> DEFINE S == {i \in 0 .. n : Gone(run[i], pieces, i, r, g)}
<1>6. 0 \in S
  <2>1. run[0] = begin /\ 0 \in 0 .. n
    BY <1>1, <1>5
  <2>2. Gone(begin, pieces, 0, r, g)
    <3>1. begin \in Loops
      BY <1>3 DEF States
    <3>2. begin.timer.waiting + begin.timer.due = timer.waiting + timer.due
      BY DEF begin, Timers, ExpiresFromNow
    <3>3. begin.buffer = pieces /\ begin.authorized = authorized /\ begin.goOn /\ ~begin.denied
      BY DEF begin
    <3>4. Len(pieces) <= Len(pieces) - 0
      BY <1>1
    <3> QED
      BY <3>1, <3>2, <3>3, <3>4 DEF Gone
  <2> QED
    BY <2>1, <2>2
<1>7. ASSUME NEW i \in 1 .. n, i - 1 \in S
       PROVE  i \in S
  <2> DEFINE p == run[i - 1]
             q == run[i]
  <2>1. Gone(p, pieces, i - 1, r, g) /\ q = Turned(p) /\ i \in 0 .. n /\ i \in Int
    BY <1>1, <1>5, <1>7
  <2> HIDE DEF p, q
  <2>2. CASE p.goOn
    <3>1. Goes(p, q, r, g)
      BY <2>1, <2>2, ParseOneGoes DEF Gone, Turned
    <3>2. p \in Loops /\ q \in Loops
      BY <2>1, <3>1 DEF Gone, Goes
    <3>3. /\ p.timer.waiting \in Nat /\ p.timer.due \in Nat
          /\ q.timer.waiting \in Nat /\ q.timer.due \in Nat
          /\ Len(p.buffer) \in Nat /\ Len(q.buffer) \in Nat
      BY <3>2, LenProperties DEF Loops, Timers
    <3>4. timer.waiting + timer.due > 0 \/ Has(pieces, "N")
            => q.timer.waiting + q.timer.due > 0 \/ Has(q.buffer, "N")
      <4>1. q.timer.due = p.timer.due /\ q.timer.waiting >= p.timer.waiting
        BY <3>1 DEF Goes
      <4>2. Has(p.buffer, "N") => q.timer.waiting > 0 \/ Has(q.buffer, "N")
        BY <3>1 DEF Goes
      <4>3. timer.waiting + timer.due > 0 \/ Has(pieces, "N")
              => p.timer.waiting + p.timer.due > 0 \/ Has(p.buffer, "N")
        BY <2>1 DEF Gone
      <4>4. p.timer.waiting + p.timer.due > 0 => q.timer.waiting + q.timer.due > 0
        BY <3>3, <4>1
      <4>5. q.timer.waiting > 0 => q.timer.waiting + q.timer.due > 0
        BY <3>3
      <4> QED
        BY <4>2, <4>3, <4>4, <4>5, Zenon
    <3>5. q.authorized /\ ~authorized => q.timer.waiting > 0
      BY <2>1, <3>1, <3>3 DEF Gone, Goes
    <3>6. q.goOn => ~q.denied /\ Len(q.buffer) <= Len(pieces) - i
      BY <1>1, <2>1, <2>2, <3>1, <3>3 DEF Gone, Goes
    <3>7. Gone(q, pieces, i, r, g)
      BY <2>1, <3>1, <3>4, <3>5, <3>6 DEF Gone, Goes
    <3> QED
      BY <2>1, <3>7 DEF q
  <2>3. CASE ~p.goOn
    <3>1. q = p
      BY <2>1, <2>3 DEF Turned
    <3>2. Gone(q, pieces, i, r, g)
      BY <2>1, <2>3, <3>1 DEF Gone
    <3> QED
      BY <2>1, <3>2 DEF q
  <2> QED
    BY <2>2, <2>3
<1>8. n \in S
  <2> HIDE DEF S
  <2>1. \A i \in 0 .. n : i \in S
    BY <1>1, <1>6, <1>7, TurnsInduction
  <2> QED
    BY <1>1, <2>1
<1>9. ~run[n].goOn
  <2>1. Gone(run[n], pieces, n, r, g)
    BY <1>8
  <2>2. Len(run[n].buffer) \in Nat
    BY <2>1, LenProperties DEF Gone, Loops
  <2>3. ~(Len(run[n].buffer) <= Len(pieces) - n)
    BY <1>1, <2>2 DEF n
  <2> QED
    BY <2>1, <2>3 DEF Gone
<1> QED
  BY <1>2, <1>8, <1>9 DEF n
\* The theorems about a TcpClient with an arbitrary owner, for this owner.
Client == INSTANCE TcpClientLoopProofs
              WITH Messages <- Requests, Lengths <- Nat,
                   last <- IF last \in {"closedByPeer", "closedByUser"} THEN "disconnect" ELSE last

----------------------------------------------------------------------------
(* The transmitter is one of the owners of TcpClientLoop. *)

\* The methods of TcpClient are the same in both modules.
LEMMA SameClient ==
    ASSUME NEW c
    PROVE  /\ Client!Connect(c) = Connect(c)
           /\ Client!Disconnect(c) = Disconnect(c)
           /\ \A m : Client!Send(c, m) = Send(c, m)
           /\ Client!StartConnect(c) = StartConnect(c)
           /\ Client!Established(c) = Established(c)
           /\ Client!StartRead(c) = StartRead(c)
           /\ Client!AfterWrite(c) = AfterWrite(c)
           /\ \A kind, result : Client!Complete(c, kind, result) = Complete(c, kind, result)
           /\ \A kind : Client!Completed(c, kind) = Completed(c, kind)
BY DEF Client!Connect, Connect, Client!Disconnect, Disconnect, Client!Send, Send,
       Client!StartConnect, StartConnect, Client!Established, Established,
       Client!StartRead, StartRead, Client!AfterWrite, AfterWrite, Client!Complete, Complete,
       Client!Completed, Completed, Client!StartIo, StartIo, Client!FirstState, FirstState,
       Client!CloseSocket, CloseSocket, Client!StartWrite, StartWrite, Client!IoKinds, IoKinds

LEMMA SameHandled ==
    ASSUME NEW c, NEW kind, NEW hs
    PROVE  Client!Handled(c, kind, hs) = Handled(c, kind, hs)
BY DEF Client!Handled, Handled, Client!HandleAnything, HandleAnything, Client!Taken, Taken,
       Client!CloseSocket, CloseSocket, Client!MustWait, MustWait, Client!Ended, Ended,
       Client!EndOf, EndOf, Client!Result, Result, Client!IoKinds, IoKinds

\* What a completion handler finds, in h, after handleAnything.
After(c, kind, hs, h) ==
    /\ c.status # "Disconnected"
    /\ h.proceed =>
         /\ h.client \in Client!Clients
         /\ h.client.status = c.status /\ h.client.socketOpen = c.socketOpen
         /\ h.client.writeBuffer = c.writeBuffer
         /\ h.client.io = [c.io EXCEPT ![kind] = "idle"]
         /\ c.io[kind] # "failed" /\ c.status # "Disconnecting"
    /\ ~h.proceed /\ h.tells = "nothing" =>
         /\ h.client.status = c.status /\ ~h.client.socketOpen
         /\ h.client.writeBuffer = c.writeBuffer
         /\ \A k \in IoKinds : h.client.io[k] = "started" => c.io[k] = "started"
    /\ ~h.proceed /\ h.tells # "nothing" =>
         /\ h.client.status = "Disconnected" /\ h.client.writeBuffer = << >>
         /\ h.tells = EndOf(hs)

LEMMA HandledFields ==
    ASSUME NEW c, Client!Good(c), NEW kind \in IoKinds, c.io[kind] # "idle", NEW hs
    PROVE  After(c, kind, hs, Handled(c, kind, hs))
<1> DEFINE h == Handled(c, kind, hs)
           t == Client!Counted(c, kind)
           d == CloseSocket(t)
           asked == t.status = "Disconnecting"
           error == c.io[kind] = "failed"
<1> SUFFICES After(c, kind, hs, h)
  OBVIOUS
<1>1. /\ c.status # "Disconnected"
      /\ t \in Client!Clients /\ t.status = c.status /\ t.socketOpen = c.socketOpen
      /\ t.writeBuffer = c.writeBuffer
      /\ t.io = [c.io EXCEPT ![kind] = "idle"]
  <2>1. kind \in Client!IoKinds
    BY DEF IoKinds, Client!IoKinds
  <2>2. Client!Bare(t) => t \in Client!Clients
    BY DEF Client!Bare
  <2> QED
    BY <2>1, <2>2, Client!CountedSound DEF Requests
<1>2. h = IF ~asked /\ ~error THEN Result(t, TRUE, "nothing", FALSE)
          ELSE IF MustWait(d) THEN Result(d, FALSE, "nothing", FALSE)
          ELSE Result(Ended(d), FALSE, EndOf(hs), asked)
  <2>1. t = [Taken(c, kind) EXCEPT !.ioCount = @ - 1]
    BY DEF Client!Counted, Client!Taken, Taken
  <2> HIDE DEF t
  <2> QED
    BY <1>1, <2>1 DEF Handled, HandleAnything
<1>3. /\ d \in Client!Clients
      /\ d.status = t.status /\ ~d.socketOpen /\ d.writeBuffer = t.writeBuffer
      /\ \A k \in IoKinds : d.io[k] = "started" => t.io[k] = "started"
  <2> HIDE DEF t
  <2> QED
    BY <1>1 DEF CloseSocket, Client!Clients, Client!IoKinds, IoKinds, Client!IoStates
<1>4. \A k \in IoKinds : t.io[k] = "started" => c.io[k] = "started"
  <2>1. c.io \in [IoKinds -> Client!IoStates]
    BY DEF Client!Good, Client!Sound, Client!Clients, Client!IoKinds, IoKinds
  <2> HIDE DEF t
  <2> QED
    BY <1>1, <2>1
<1>5. EndOf(hs) # "nothing"
  BY DEF EndOf
<1> HIDE DEF t
<1>6. Ended(d).status = "Disconnected" /\ Ended(d).writeBuffer = << >>
  <2> HIDE DEF d
  <2> QED
    BY <1>3 DEF Ended, Client!Clients
<1> HIDE DEF d, asked, error, h
<1>7. CASE ~asked /\ ~error
  <2>1. h.proceed /\ h.client = t
    BY <1>2, <1>7 DEF Result
  <2> QED
    BY <1>1, <1>7, <2>1 DEF asked, error, After
<1>8. CASE (asked \/ error) /\ MustWait(d)
  <2>1. ~h.proceed /\ h.tells = "nothing" /\ h.client = d
    BY <1>2, <1>8 DEF Result
  <2> QED
    BY <1>1, <1>3, <1>4, <2>1 DEF After
<1>9. CASE (asked \/ error) /\ ~MustWait(d)
  <2>1. ~h.proceed /\ h.tells = EndOf(hs) /\ h.client = Ended(d)
    BY <1>2, <1>9 DEF Result
  <2> QED
    BY <1>1, <1>5, <1>6, <2>1 DEF After
<1> QED
  BY <1>7, <1>8, <1>9

OwnerStep == [Client!Next]_(Client!vars)

LEMMA ClientTyped ==
    ASSUME NEW c, Client!Good(c)
    PROVE  /\ c \in Client!Clients
           /\ c.writeBuffer \in Seq(Requests) /\ Len(c.writeBuffer) \in Nat
BY LenProperties DEF Client!Good, Client!Sound, Client!Clients

LEMMA NothingToldIsStep ==
    ASSUME UNCHANGED <<client, view, last>>
    PROVE  OwnerStep
BY DEF OwnerStep, Client!vars

LEMMA SendIsStep ==
    ASSUME Client!IInv, NEW m \in Requests, client' = Send(client, m), UNCHANGED <<view, last>>
    PROVE  OwnerStep
<1>1. Len(client.writeBuffer) \in Nat
  BY ClientTyped DEF Client!IInv
<1>2. Client!CallSend(m)
  BY <1>1, SameClient DEF Client!CallSend
<1> QED
  BY <1>2 DEF OwnerStep, Client!Next

LEMMA StartIsStep ==
    ASSUME StartTransmitter
    PROVE  OwnerStep
<1>1. CASE client.status = "Disconnected"
  <2>1. Client!CallConnect
    BY <1>1, SameClient DEF StartTransmitter, Client!CallConnect
  <2> QED
    BY <2>1 DEF OwnerStep, Client!Next
<1>2. CASE client.status # "Disconnected"
  BY <1>2, NothingToldIsStep DEF StartTransmitter, Connect
<1> QED
  BY <1>1, <1>2

LEMMA CompletionIsStep ==
    ASSUME NEW kind \in IoKinds, Completion(kind)
    PROVE  OwnerStep
<1>1. Client!Completion(kind)
  BY SameClient DEF Completion, Success, Failure, Client!Completion
<1> QED
  BY <1>1 DEF OwnerStep, Client!Next, Client!IoKinds, IoKinds

\* What the owner does in an early end is what an arbitrary one does.
LEMMA GiveUpIsStep ==
    ASSUME Client!Good(client), NEW kind \in IoKinds, client.io[kind] # "idle", NEW hs,
           GiveUp(Handled(client, kind, hs))
    PROVE  Client!GiveUp(Client!Handled(client, kind, hs))
<1> DEFINE h == Handled(client, kind, hs)
<1>1. h = Client!Handled(client, kind, hs)
  BY SameHandled
<1>2. h.tells # "nothing" /\ ~h.proceed => h.tells = EndOf(hs)
  <2>1. After(client, kind, hs, h)
    BY HandledFields
  <2> HIDE DEF h
  <2> QED
    BY <2>1 DEF After
<1>3. EndOf(hs) \in {"disconnect", "error"}
  BY DEF EndOf
<1>4. h.tells = "disconnect" \/ h.tells = "error" \/ h.tells = "nothing" \/ h.proceed
  BY <1>2, <1>3
<1>5. h.tells = "error" => Ending(h) = "error"
  BY DEF Ending
<1>6. h.tells # "error" => Ending(h) \in {"closedByPeer", "closedByUser"}
  BY DEF Ending
<1> HIDE DEF h
<1>7. ~h.proceed /\ client' = h.client
  BY DEF GiveUp, h
<1>8. CASE h.tells # "nothing" /\ Lost(h)
  <2>1. view' = "closed" /\ last' = Ending(h)
    BY <1>8 DEF Lost
  <2>2. (IF last' \in {"closedByPeer", "closedByUser"} THEN "disconnect" ELSE last') = h.tells
    BY <1>4, <1>5, <1>6, <1>7, <1>8, <2>1
  <2> QED
    BY <1>1, <1>7, <1>8, <2>1, <2>2 DEF Client!GiveUp, Client!Told
<1>9. CASE h.tells = "nothing" /\ UNCHANGED <<view, last>>
  BY <1>1, <1>7, <1>9 DEF Client!GiveUp, Client!Told
<1> QED
  BY <1>8, <1>9 DEF GiveUp, h

LEMMA HandleResolveIsStep ==
    ASSUME Client!IInv, HandleResolve
    PROVE  OwnerStep
<1> DEFINE h == Handled(client, "resolve", "Resolve")
<1>1. /\ Client!Good(client) /\ client.io["resolve"] # "idle" /\ "resolve" \in IoKinds
      /\ Client!Completed(client, "resolve") /\ h = Client!Handled(client, "resolve", "Resolve")
  BY SameClient, SameHandled DEF Client!IInv, HandleResolve, Ready, Completed, IoKinds
<1>2. CASE GiveUp(h)
  BY <1>1, <1>2, GiveUpIsStep DEF OwnerStep, Client!Next, Client!HandleResolve
<1>3. CASE h.proceed /\ client' = StartConnect(h.client) /\ UNCHANGED <<view, last>>
  <2>1. client' = Client!StartConnect(h.client)
    BY <1>3, SameClient
  <2> HIDE DEF h
  <2> QED
    BY <1>1, <1>3, <2>1 DEF OwnerStep, Client!Next, Client!HandleResolve
<1> QED
  BY <1>2, <1>3 DEF HandleResolve

LEMMA HandleConnectIsStep ==
    ASSUME Client!IInv, HandleConnect
    PROVE  OwnerStep
<1> DEFINE h == Handled(client, "connect", "Connecting")
           c == Established(h.client)
<1>1. /\ Client!Good(client) /\ client.io["connect"] # "idle" /\ "connect" \in IoKinds
      /\ Client!Completed(client, "connect")
      /\ h = Client!Handled(client, "connect", "Connecting")
  BY SameClient, SameHandled DEF Client!IInv, HandleConnect, Ready, Completed, IoKinds
<1>2. CASE GiveUp(h)
  BY <1>1, <1>2, GiveUpIsStep DEF OwnerStep, Client!Next, Client!HandleConnect
<1>3. CASE h.proceed /\ Connected(h.client)
  <2>1. c = Client!Established(h.client)
    BY SameClient
  <2>2. h.client \in Client!Clients
    <3>1. After(client, "connect", "Connecting", h)
      BY <1>1, HandledFields
    <3> HIDE DEF h
    <3> QED
      BY <1>3, <3>1 DEF After
  <2> HIDE DEF h
  <2>3. Len(c.writeBuffer) \in Nat
    BY <2>2, LenProperties DEF Established, Client!Clients
  <2>4. /\ client' = StartRead(Send(c, "login"))
        /\ view' = "open" /\ last' = "connect"
    BY <1>3 DEF Connected
  <2>5. /\ Send(c, "login") = Client!Send(c, "login")
        /\ client' = Client!StartRead(Send(c, "login"))
    BY <2>4, SameClient
  <2> HIDE DEF c
  <2>6. Send(c, "login") \in Client!Reactions(c)
    BY <2>3, <2>5 DEF Client!Reactions, Requests
  <2> QED
    BY <1>1, <1>3, <2>1, <2>4, <2>5, <2>6 DEF OwnerStep, Client!Next, Client!HandleConnect
<1> QED
  BY <1>2, <1>3 DEF HandleConnect

LEMMA HandleReadIsStep ==
    ASSUME Client!IInv, HandleRead
    PROVE  OwnerStep
<1> DEFINE h == Handled(client, "read", "Connected")
           c == h.client
<1>1. /\ Client!Good(client) /\ client.io["read"] # "idle" /\ "read" \in IoKinds
      /\ Client!Completed(client, "read") /\ h = Client!Handled(client, "read", "Connected")
  BY SameClient, SameHandled DEF Client!IInv, HandleRead, Ready, Completed, IoKinds
<1>2. CASE GiveUp(h)
  BY <1>1, <1>2, GiveUpIsStep DEF OwnerStep, Client!Next, Client!HandleRead
<1>3. CASE h.proceed /\ ReceiveData(c)
  <2>1. (client' = StartRead(Disconnect(c)) \/ client' = StartRead(c))
        /\ last' = "data" /\ UNCHANGED view
    <3> HIDE DEF h
    <3> QED
      BY <1>3 DEF ReceiveData
  <2> HIDE DEF c, h
  <2>2. /\ Disconnect(c) = Client!Disconnect(c)
        /\ \/ client' = Client!StartRead(Disconnect(c))
           \/ client' = Client!StartRead(c)
    BY <2>1, SameClient
  <2>3. c \in Client!Reactions(c) /\ Disconnect(c) \in Client!Reactions(c)
    BY <2>2 DEF Client!Reactions
  <2> QED
    BY <1>1, <1>3, <2>1, <2>2, <2>3 DEF OwnerStep, Client!Next, Client!HandleRead, c
<1> QED
  BY <1>2, <1>3 DEF HandleRead

LEMMA HandleWriteIsStep ==
    ASSUME Client!IInv, HandleWrite
    PROVE  OwnerStep
<1> DEFINE h == Handled(client, "write", "Connected")
<1>1. /\ Client!Good(client) /\ client.io["write"] # "idle" /\ "write" \in IoKinds
      /\ Client!Completed(client, "write") /\ h = Client!Handled(client, "write", "Connected")
  BY SameClient, SameHandled DEF Client!IInv, HandleWrite, Ready, Completed, IoKinds
<1>2. CASE GiveUp(h)
  BY <1>1, <1>2, GiveUpIsStep DEF OwnerStep, Client!Next, Client!HandleWrite
<1>3. CASE h.proceed /\ client' = AfterWrite(h.client) /\ UNCHANGED <<view, last>>
  <2>1. client' = Client!AfterWrite(h.client)
    BY <1>3, SameClient
  <2> HIDE DEF h
  <2> QED
    BY <1>1, <1>3, <2>1 DEF OwnerStep, Client!Next, Client!HandleWrite
<1> QED
  BY <1>2, <1>3 DEF HandleWrite

LEMMA StepIsOwnerStep ==
    Client!IInv /\ [Next]_vars => OwnerStep
<1> SUFFICES ASSUME Client!IInv, [Next]_vars PROVE OwnerStep
  OBVIOUS
<1>1. CASE Start
  BY <1>1, StartIsStep DEF Start
<1>2. CASE TimerExpires
  BY <1>2, NothingToldIsStep DEF TimerExpires
<1>3. CASE HandleTimer
  <2>1. CASE client' = Send(client, "beat") /\ UNCHANGED <<view, last>>
    BY <2>1, SendIsStep DEF Requests
  <2>2. CASE StartTransmitter
    BY <2>2, StartIsStep
  <2> QED
    BY <1>3, <2>1, <2>2 DEF HandleTimer
<1>4. CASE HandleDeviceCommand
  BY <1>4, SendIsStep DEF HandleDeviceCommand, Requests
<1>5. ASSUME NEW kind \in IoKinds, Completion(kind) PROVE OwnerStep
  BY <1>5, CompletionIsStep
<1>6. CASE HandleResolve
  BY <1>6, HandleResolveIsStep
<1>7. CASE HandleConnect
  BY <1>7, HandleConnectIsStep
<1>8. CASE HandleRead
  BY <1>8, HandleReadIsStep
<1>9. CASE HandleWrite
  BY <1>9, HandleWriteIsStep
<1>10. CASE ServerSteps
  BY <1>10, NothingToldIsStep
     DEF ServerSteps, ServerGrants, ServerDenies, ServerAnswers, ServerCommands, Sends
<1>11. CASE UNCHANGED vars
  BY <1>11, NothingToldIsStep DEF vars
<1> QED
  BY <1>1, <1>2, <1>3, <1>4, <1>5, <1>6, <1>7, <1>8, <1>9, <1>10, <1>11 DEF Next

LEMMA InitIsOwnerInit ==
    Init => Client!Init /\ Client!IInv
<1>1. Init => Client!Init
  BY DEF Init, Client!Init, NewClient, Client!NewClient, IoKinds, Client!IoKinds
<1> QED
  BY <1>1, Client!InitGood DEF Requests

\* The client's own invariant, and its specification, hold in the transmitter.
THEOREM Owns == Spec => []Client!IInv /\ Client!Spec
<1>1. Client!IInv /\ [Next]_vars => OwnerStep /\ Client!IInv'
  <2>1. Client!IInv /\ OwnerStep => Client!IInv'
    BY Client!StepKeeps DEF OwnerStep, Requests
  <2> QED
    BY <2>1, StepIsOwnerStep
<1> QED
  BY <1>1, InitIsOwnerInit, PTL DEF Spec, Client!Spec, OwnerStep

----------------------------------------------------------------------------
(* The invariant *)

Stream == buffer \o server.incoming

Servers == [asked : BOOLEAN, granted : BOOLEAN, owed : Nat, incoming : Seq(Pieces)]

Types ==
    /\ authorized \in BOOLEAN
    /\ buffer \in Seq(Pieces)
    /\ timer \in Timers
    /\ server \in Servers
    /\ last \in {"none", "connect", "data", "closedByPeer", "closedByUser", "error"}

OnlyLogin(c) == \A i \in 1 .. Len(c.writeBuffer) : c.writeBuffer[i] = "login"

\* The login is the first message of a connection, and written before the
\* server has said anything.
LoginFirst(c, silent) ==
    \A i \in 1 .. Len(c.writeBuffer) :
        c.writeBuffer[i] = "login" => i = 1 /\ (c.io["write"] = "started" => silent)

Silent == Stream = << >> /\ ~server.asked /\ ~server.granted

\* A heartbeat has still to reach the server.
BeatQueued(c) ==
    \E i \in 1 .. Len(c.writeBuffer) :
        c.writeBuffer[i] = "beat" /\ (i > 1 \/ c.io["write"] # "ok")

Alive ==
    \/ timer.waiting + timer.due > 0
    \/ BeatQueued(client)
    \/ server.owed > 0
    \/ Has(server.incoming, "N")

Live(c) == c.status = "Connected" /\ c.socketOpen

Rest ==
    /\ Types
    /\ authorized => view = "open"
    /\ WellFormed(Stream, server.granted, authorized)
    /\ ~server.granted => OnlyLogin(client) /\ server.owed = 0
    /\ LoginFirst(client, Silent)
    /\ server.asked => Stream = << >> /\ ~server.granted
    /\ authorized /\ Live(client) => Alive
    /\ client.status = "Connected" => NothingLeft(buffer, authorized)

IInv == Client!IInv /\ Rest

\* The queue, when a message is sent.
LEMMA SendFields ==
    ASSUME NEW c, Client!Good(c), NEW m \in Requests, NEW silent,
           LoginFirst(c, silent), m # "login"
    PROVE  /\ Send(c, m).status = c.status /\ Send(c, m).socketOpen = c.socketOpen
           /\ LoginFirst(Send(c, m), silent)
           /\ BeatQueued(c) => BeatQueued(Send(c, m))
           /\ m = "beat" /\ c.status = "Connected" => BeatQueued(Send(c, m))
<1> DEFINE q == c.writeBuffer
           d == Send(c, m)
           queued == [c EXCEPT !.writeBuffer = Append(@, m)]
<1>1. q \in Seq(Requests) /\ Len(q) \in Nat /\ c \in Client!Clients
  BY ClientTyped
<1>2. /\ Append(q, m) \in Seq(Requests) /\ Len(Append(q, m)) = Len(q) + 1
      /\ \A i \in 1 .. Len(q) : Append(q, m)[i] = q[i]
      /\ Append(q, m)[Len(q) + 1] = m
  BY <1>1, AppendProperties
<1>3. CASE c.status # "Connected"
  BY <1>3 DEF Send
<1>4. CASE c.status = "Connected"
  <2>1. /\ queued.status = c.status /\ queued.socketOpen = c.socketOpen
        /\ queued.writeBuffer = Append(q, m) /\ queued.io = c.io
    BY <1>1 DEF Client!Clients
  <2>2. c.io \in [IoKinds -> Client!IoStates]
    BY <1>1 DEF Client!Clients, Client!IoKinds, IoKinds
  <2>3. /\ d.status = c.status /\ d.socketOpen = c.socketOpen /\ d.writeBuffer = Append(q, m)
        /\ q # << >> => d.io["write"] = c.io["write"]
        /\ q = << >> => d.io["write"] # "ok"
    <3>1. CASE q # << >>
      BY <1>4, <2>1, <3>1 DEF Send
    <3>2. CASE q = << >>
      <4>1. d = [queued EXCEPT !.ioCount = @ + 1,
                               !.io = [@ EXCEPT !["write"] = FirstState(queued, "write")]]
        BY <1>4, <3>2 DEF Send, StartWrite, StartIo
      <4>2. FirstState(queued, "write") # "ok"
        BY DEF FirstState
      <4>3. "write" \in IoKinds
        BY DEF IoKinds
      <4>4. queued \in Client!Clients
        BY <1>1, <1>2 DEF Client!Clients
      <4> HIDE DEF queued, d
      <4>5. /\ d.status = queued.status /\ d.socketOpen = queued.socketOpen
            /\ d.writeBuffer = queued.writeBuffer
            /\ d.io = [queued.io EXCEPT !["write"] = FirstState(queued, "write")]
        BY <4>1, <4>4 DEF Client!Clients
      <4> QED
        BY <2>1, <2>2, <3>2, <4>2, <4>3, <4>5
    <3> QED
      BY <3>1, <3>2
  <2> HIDE DEF d, queued
  <2>4. LoginFirst(d, silent)
    <3>1. SUFFICES ASSUME NEW i \in 1 .. Len(q) + 1, Append(q, m)[i] = "login"
                   PROVE  i = 1 /\ (d.io["write"] = "started" => silent)
      BY <1>2, <2>3 DEF LoginFirst
    <3>2. i \in 1 .. Len(q) /\ q[i] = "login"
      BY <1>1, <1>2, <3>1
    <3>3. q # << >>
      BY <1>1, <3>2
    <3> QED
      BY <2>3, <3>2, <3>3 DEF LoginFirst
  <2>5. ASSUME BeatQueued(c) PROVE BeatQueued(d)
    <3>1. PICK i \in 1 .. Len(q) : q[i] = "beat" /\ (i > 1 \/ c.io["write"] # "ok")
      BY <2>5 DEF BeatQueued
    <3>2. q # << >> /\ i \in 1 .. Len(q) + 1
      BY <1>1, <3>1
    <3> QED
      BY <1>2, <2>3, <3>1, <3>2 DEF BeatQueued
  <2>6. ASSUME m = "beat" PROVE BeatQueued(d)
    <3>1. Len(q) + 1 \in 1 .. Len(q) + 1 /\ (q = << >> \/ Len(q) + 1 > 1)
      BY <1>1, EmptySeq
    <3> QED
      BY <1>2, <2>3, <2>6, <3>1 DEF BeatQueued
  <2> QED
    BY <2>3, <2>4, <2>5, <2>6 DEF d
<1> QED
  BY <1>3, <1>4

\* The queue, when the client changes and the queue does not.
LEMMA SameQueue ==
    ASSUME NEW c, NEW d, d.writeBuffer = c.writeBuffer
    PROVE  /\ OnlyLogin(c) => OnlyLogin(d)
           /\ \A silent :
                LoginFirst(c, silent) /\ (d.io["write"] = "started" => c.io["write"] = "started")
                  => LoginFirst(d, silent)
           /\ BeatQueued(c) /\ (d.io["write"] = "ok" => c.io["write"] = "ok") => BeatQueued(d)
BY DEF OnlyLogin, LoginFirst, BeatQueued

\* No login, no heartbeat.
LEMMA EmptyQueue ==
    ASSUME NEW c, c.writeBuffer = << >>
    PROVE  OnlyLogin(c) /\ \A silent : LoginFirst(c, silent)
BY DEF OnlyLogin, LoginFirst

----------------------------------------------------------------------------
(* The invariant, action by action *)

LEMMA ServerTyped ==
    ASSUME Types
    PROVE  /\ server.asked \in BOOLEAN /\ server.granted \in BOOLEAN /\ server.owed \in Nat
           /\ server.incoming \in Seq(Pieces) /\ buffer \in Seq(Pieces) /\ Stream \in Seq(Pieces)
           /\ timer.waiting \in Nat /\ timer.due \in Nat
BY ConcatProperties DEF Types, Servers, Timers, Stream

LEMMA TimerExpiresKeeps ==
    ASSUME IInv, TimerExpires
    PROVE  Rest'
<1>1. /\ UNCHANGED <<client, authorized, buffer, server, view, last>>
      /\ timer' \in Timers /\ timer'.waiting + timer'.due = timer.waiting + timer.due
  BY DEF TimerExpires, IInv, Rest, Types, Timers, ExpiresFromNow
<1>2. Types'
  BY <1>1 DEF IInv, Rest, Types
<1>3. Alive => Alive'
  BY <1>1 DEF Alive
<1> QED
  BY <1>1, <1>2, <1>3 DEF IInv, Rest, Stream, Silent

\* An attempt to connect begins with an empty queue.
LEMMA StartKeeps ==
    ASSUME IInv, StartTransmitter, UNCHANGED <<authorized, buffer, server>>, timer' \in Timers,
           authorized => UNCHANGED timer
    PROVE  Rest'
<1>1. Types'
  BY DEF IInv, Rest, Types, StartTransmitter
<1>2. CASE client.status = "Disconnected"
  <2>1. /\ client \in Client!Clients /\ client.writeBuffer = << >> /\ view = "closed"
    BY <1>2 DEF IInv, Client!IInv, Client!Good, Client!Sound, Client!SocketFits, Client!Fits
  <2>2. client'.status = "Resolve" /\ client'.writeBuffer = << >>
    BY <1>2, <2>1 DEF StartTransmitter, Connect, StartIo, Client!Clients
  <2>3. ~authorized
    BY <2>1 DEF IInv, Rest
  <2>4. OnlyLogin(client') /\ LoginFirst(client', Silent')
    BY <2>2, EmptyQueue
  <2> QED
    BY <1>1, <2>2, <2>3, <2>4 DEF IInv, Rest, Stream, Silent, Live
<1>3. CASE client.status # "Disconnected"
  <2>1. UNCHANGED <<client, view>>
    BY <1>3 DEF StartTransmitter, Connect
  <2>2. authorized => (Alive => Alive')
    BY <2>1 DEF Alive
  <2> QED
    BY <1>1, <2>1, <2>2 DEF IInv, Rest, Stream, Silent
<1> QED
  BY <1>2, <1>3

\* A message is queued that only an authorized transmitter sends.
LEMMA SendKeeps ==
    ASSUME IInv, authorized, NEW m \in {"beat", "data"}, client' = Send(client, m),
           UNCHANGED <<authorized, buffer, server, view, last>>, timer' \in Timers,
           m = "beat" \/ UNCHANGED timer
    PROVE  Rest'
<1>1. Types'
  BY DEF IInv, Rest, Types
<1>2. server.granted
  BY DEF IInv, Rest, WellFormed
<1>3. /\ client'.status = client.status /\ client'.socketOpen = client.socketOpen
      /\ LoginFirst(client', Silent)
      /\ BeatQueued(client) => BeatQueued(client')
      /\ m = "beat" /\ client.status = "Connected" => BeatQueued(client')
  <2>1. Client!Good(client) /\ m \in Requests /\ m # "login" /\ LoginFirst(client, Silent)
    BY DEF IInv, Rest, Client!IInv, Requests
  <2> QED
    BY <2>1, SendFields
<1>4. Live(client) /\ Alive => Alive'
  BY <1>3 DEF Alive, Live
<1> QED
  BY <1>1, <1>2, <1>3, <1>4 DEF IInv, Rest, Stream, Silent, Live

LEMMA HandleTimerKeeps ==
    ASSUME IInv, HandleTimer
    PROVE  Rest'
<1>1. timer' \in Timers /\ UNCHANGED <<authorized, buffer, server>>
  BY DEF HandleTimer, IInv, Rest, Types, Timers
<1>2. CASE authorized /\ client' = Send(client, "beat") /\ UNCHANGED <<view, last>>
  BY <1>1, <1>2, SendKeeps
<1>3. CASE ~authorized /\ StartTransmitter
  BY <1>1, <1>3, StartKeeps
<1> QED
  BY <1>2, <1>3 DEF HandleTimer

LEMMA FailureKeeps ==
    ASSUME IInv, NEW kind \in IoKinds, Failure(kind)
    PROVE  Rest'
<1>1. /\ UNCHANGED <<authorized, buffer, timer, server, view, last>>
      /\ client' = [client EXCEPT !.io[kind] = "failed"]
  BY DEF Failure, Complete
<1>2. /\ client \in Client!Clients /\ client.io \in [IoKinds -> Client!IoStates]
  BY ClientTyped DEF IInv, Client!IInv, Client!Clients, Client!IoKinds, IoKinds
<1>3. /\ client'.status = client.status /\ client'.socketOpen = client.socketOpen
      /\ client'.writeBuffer = client.writeBuffer
      /\ client'.io = [client.io EXCEPT ![kind] = "failed"]
  BY <1>1, <1>2 DEF Client!Clients
<1>4. /\ client'.io["write"] = "started" => client.io["write"] = "started"
      /\ client'.io["write"] = "ok" => client.io["write"] = "ok"
  BY <1>2, <1>3 DEF IoKinds
<1>5. /\ OnlyLogin(client) => OnlyLogin(client')
      /\ LoginFirst(client, Silent) => LoginFirst(client', Silent)
      /\ BeatQueued(client) => BeatQueued(client')
  BY <1>3, <1>4, SameQueue
<1>6. Types' /\ (Alive => Alive')
  BY <1>1, <1>5 DEF IInv, Rest, Types, Alive
<1> QED
  BY <1>1, <1>3, <1>5, <1>6 DEF IInv, Rest, Stream, Silent, Live

\* A completed write has brought its message to the server.
LEMMA SuccessKeeps ==
    ASSUME IInv, NEW kind \in IoKinds, Success(kind)
    PROVE  Rest'
<1>1. /\ UNCHANGED <<authorized, buffer, timer, view, last>>
      /\ client.io[kind] = "started"
      /\ client' = [client EXCEPT !.io[kind] = "ok"]
  BY DEF Success, Complete
<1>2. /\ client \in Client!Clients /\ client.io \in [IoKinds -> Client!IoStates]
  BY ClientTyped DEF IInv, Client!IInv, Client!Clients, Client!IoKinds, IoKinds
<1>3. /\ client'.status = client.status /\ client'.socketOpen = client.socketOpen
      /\ client'.writeBuffer = client.writeBuffer
      /\ client'.io = [client.io EXCEPT ![kind] = "ok"]
  BY <1>1, <1>2 DEF Client!Clients
<1>4. OnlyLogin(client) => OnlyLogin(client')
  BY <1>3, SameQueue
<1>5. CASE kind # "write"
  <2>1. UNCHANGED server
    BY <1>5 DEF Success
  <2>2. client'.io["write"] = client.io["write"]
    BY <1>2, <1>3, <1>5 DEF IoKinds
  <2>3. /\ LoginFirst(client, Silent) => LoginFirst(client', Silent)
        /\ BeatQueued(client) => BeatQueued(client')
    BY <1>3, <2>2, SameQueue
  <2>4. Types' /\ (Alive => Alive')
    BY <1>1, <2>1, <2>3 DEF IInv, Rest, Types, Alive
  <2> QED
    BY <1>1, <1>3, <1>4, <2>1, <2>3, <2>4 DEF IInv, Rest, Stream, Silent, Live
<1>6. CASE kind = "write"
  <2> DEFINE q == client.writeBuffer
  <2>1. server' = Reach(server, Head(q)) /\ "write" \in IoKinds
    BY <1>6 DEF Success, IoKinds
  <2>2. q \in Seq(Requests) /\ q # << >> /\ Len(q) \in Nat /\ 1 \in 1 .. Len(q) /\ Head(q) = q[1]
    <3>1. q \in Seq(Requests) /\ q # << >> /\ Len(q) \in Nat
      BY <1>1, <1>6, ClientTyped
         DEF IInv, Client!IInv, Client!Good, Client!Sound, Client!QueueFits
    <3> QED
      BY <3>1
  <2>3. q[1] \in {"login", "beat", "data"}
    BY <2>2 DEF Requests
  <2>4. client'.io["write"] = "ok" /\ client.io["write"] = "started"
    BY <1>1, <1>2, <1>3, <1>6, <2>1
  <2>5. \A silent : LoginFirst(client, Silent) => LoginFirst(client', silent)
    BY <1>3, <2>4 DEF LoginFirst
  <2>6. server \in Servers
    BY DEF IInv, Rest, Types
  <2>7. CASE q[1] = "login"
    <3>1. Stream = << >> /\ ~server.asked /\ ~server.granted
      BY <2>2, <2>4, <2>7 DEF IInv, Rest, LoginFirst, Silent
    <3>2. /\ server' \in Servers /\ server'.incoming = server.incoming /\ server'.asked
          /\ server'.granted = server.granted /\ server'.owed = server.owed
      BY <2>1, <2>2, <2>6, <2>7 DEF Reach, Servers
    <3>3. ~authorized
      BY <3>1 DEF IInv, Rest, WellFormed
    <3>4. Types' /\ Stream' = Stream
      BY <1>1, <3>2 DEF IInv, Rest, Types, Stream
    <3> QED
      BY <1>1, <1>3, <1>4, <2>5, <3>1, <3>2, <3>3, <3>4 DEF IInv, Rest
  <2>8. CASE q[1] = "data"
    <3>1. UNCHANGED server
      BY <2>1, <2>2, <2>8 DEF Reach
    <3>2. BeatQueued(client) => BeatQueued(client')
      BY <1>3, <2>2, <2>8 DEF BeatQueued
    <3>3. Types' /\ (Alive => Alive')
      BY <1>1, <3>1, <3>2 DEF IInv, Rest, Types, Alive
    <3> QED
      BY <1>1, <1>3, <1>4, <2>5, <3>1, <3>3 DEF IInv, Rest, Stream, Live
  <2>9. CASE q[1] = "beat"
    <3>1. /\ server' \in Servers /\ server'.incoming = server.incoming
          /\ server'.asked = server.asked
          /\ server'.granted = server.granted /\ server'.owed > 0
      BY <2>1, <2>2, <2>6, <2>9 DEF Reach, Servers
    <3>2. server.granted
      BY <2>2, <2>9 DEF IInv, Rest, OnlyLogin
    <3>3. Types' /\ Alive' /\ Stream' = Stream
      BY <1>1, <3>1 DEF IInv, Rest, Types, Alive, Stream
    <3> QED
      BY <1>1, <1>3, <2>5, <3>1, <3>2, <3>3 DEF IInv, Rest, Live
  <2> QED
    BY <2>3, <2>7, <2>8, <2>9
<1> QED
  BY <1>5, <1>6

\* The server adds whole answers and commands.
LEMMA WellFormedMore ==
    ASSUME NEW s \in Seq(Pieces), NEW a \in BOOLEAN, WellFormed(s, TRUE, a),
           NEW u \in Seq(Pieces), WellFormed(u, TRUE, TRUE)
    PROVE  WellFormed(s \o u, TRUE, a)
<1> DEFINE t == s \o u
<1>0. Len(t) = Len(s) + Len(u) /\ Len(s) \in Nat /\ Len(u) \in Nat
  BY ConcatProperties, LenProperties
<1>1. /\ t \in Seq(Pieces) /\ Len(t) = Len(s) + Len(u) /\ Len(s) \in Nat /\ Len(u) \in Nat
      /\ \A i \in 1 .. Len(s) + Len(u) : t[i] = IF i <= Len(s) THEN s[i] ELSE u[i - Len(s)]
  BY ConcatProperties, LenProperties
<1> HIDE DEF t
<1>2. \A i \in 1 .. Len(s) : t[i] = s[i] /\ i \in 1 .. Len(t)
  BY <1>1
<1>3. \A i \in 1 .. Len(u) : t[i + Len(s)] = u[i]
  <2> TAKE i \in 1 .. Len(u)
  <2>1. i + Len(s) \in 1 .. Len(s) + Len(u) /\ ~(i + Len(s) <= Len(s)) /\ i + Len(s) - Len(s) = i
    BY <1>1
  <2> QED
    BY <1>1, <2>1
<1>4. ASSUME NEW i \in 1 .. Len(t), i <= Len(s)
      PROVE  PieceFits(t, i, TRUE, a)
  <2>1. i \in 1 .. Len(s) /\ t[i] = s[i]
    BY <1>1, <1>2, <1>4
  <2>2. PieceFits(s, i, TRUE, a)
    BY <2>1, Zenon DEF WellFormed
  <2>3. ASSUME NEW pieces, Follows(s, i, pieces) PROVE Follows(t, i, pieces)
    <3>1. i + 1 \in 1 .. Len(s) /\ i < Len(t)
      BY <1>1, <2>1, <2>3 DEF Follows
    <3> QED
      BY <1>2, <2>3, <3>1 DEF Follows
  <2>4. ASSUME i > 1 PROVE t[i - 1] = s[i - 1]
    <3>1. i - 1 \in 1 .. Len(s)
      BY <1>1, <2>1, <2>4
    <3> QED
      BY <1>2, <3>1
  <2> QED
    BY <2>1, <2>2, <2>3, <2>4 DEF PieceFits
<1>5. ASSUME NEW i \in 1 .. Len(t), ~(i <= Len(s))
      PROVE  PieceFits(t, i, TRUE, a)
  <2> DEFINE j == i - Len(s)
  <2>1. j \in 1 .. Len(u) /\ j + Len(s) = i /\ j \in Int /\ i \in Int
    BY <1>1, <1>5
  <2>2. PieceFits(u, j, TRUE, TRUE)
    BY <2>1, Zenon DEF WellFormed
  <2> HIDE DEF j
  <2>3. t[i] = u[j]
    BY <1>3, <2>1
  <2>4. ASSUME NEW pieces, Follows(u, j, pieces) PROVE Follows(t, i, pieces)
    <3>1. j + 1 \in 1 .. Len(u) /\ i < Len(t) /\ i + 1 = j + 1 + Len(s)
      <4>1. j < Len(u)
        BY <2>4 DEF Follows
      <4> QED
        BY <1>0, <2>1, <4>1
    <3>2. u[j + 1] \in pieces
      BY <2>4 DEF Follows
    <3>3. t[i + 1] = u[j + 1]
      BY <1>3, <3>1
    <3> QED
      BY <3>1, <3>2, <3>3 DEF Follows
  <2>5. ASSUME j > 1 PROVE i > 1 /\ t[i - 1] = u[j - 1]
    <3>1. j - 1 \in 1 .. Len(u) /\ i - 1 = j - 1 + Len(s) /\ i > 1
      BY <1>1, <2>1, <2>5
    <3> QED
      BY <1>3, <3>1
  <2> QED
    BY <2>2, <2>3, <2>4, <2>5 DEF PieceFits
<1>6. \A i \in 1 .. Len(t) : PieceFits(t, i, TRUE, a)
  BY <1>4, <1>5
<1>7. ~a => Len(t) >= 2 /\ t[1] = "LO" /\ t[2] = "AD"
  <2>1. ~a => Len(s) >= 2 /\ s[1] = "LO" /\ s[2] = "AD"
    BY Zenon DEF WellFormed
  <2>2. Len(s) >= 2 => Len(t) >= 2 /\ t[1] = s[1] /\ t[2] = s[2]
    BY <1>1, <1>2
  <2> QED
    BY <2>1, <2>2
<1> QED
  BY <1>6, <1>7, Zenon DEF WellFormed, t

\* What the server may say.
LEMMA Sayings ==
    /\ <<"LO", "AD">> \in Seq(Pieces) /\ WellFormed(<<"LO", "AD">>, TRUE, FALSE)
    /\ <<"text", "text">> \in Seq(Pieces) /\ WellFormed(<<"text", "text">>, FALSE, FALSE)
    /\ <<"O", "N">> \in Seq(Pieces) /\ WellFormed(<<"O", "N">>, TRUE, TRUE)
    /\ Has(<<"O", "N">>, "N")
    /\ \A command \in {<<"text", "semicolon">>, <<"text", "text", "semicolon">>} :
         command \in Seq(Pieces) /\ WellFormed(command, TRUE, TRUE)
<1>1. \A x \in Pieces : \A y \in Pieces : <<x, y>> \in Seq(Pieces) /\ Len(<<x, y>>) = 2
                                          /\ 1 .. Len(<<x, y>>) = {1, 2}
  OBVIOUS
<1>2. <<"LO", "AD">> \in Seq(Pieces) /\ WellFormed(<<"LO", "AD">>, TRUE, FALSE)
  BY <1>1 DEF Pieces, WellFormed, PieceFits, Follows
<1>3. <<"text", "text">> \in Seq(Pieces) /\ WellFormed(<<"text", "text">>, FALSE, FALSE)
  BY <1>1 DEF Pieces, WellFormed, PieceFits, Follows
<1>4. <<"O", "N">> \in Seq(Pieces) /\ WellFormed(<<"O", "N">>, TRUE, TRUE) /\ Has(<<"O", "N">>, "N")
  BY <1>1 DEF Pieces, WellFormed, PieceFits, Follows, Has
<1>5. <<"text", "semicolon">> \in Seq(Pieces) /\ WellFormed(<<"text", "semicolon">>, TRUE, TRUE)
  BY <1>1 DEF Pieces, WellFormed, PieceFits, Follows
<1>6. <<"text", "text", "semicolon">> \in Seq(Pieces)
      /\ WellFormed(<<"text", "text", "semicolon">>, TRUE, TRUE)
  BY DEF Pieces, WellFormed, PieceFits, Follows
<1> QED
  BY <1>2, <1>3, <1>4, <1>5, <1>6

LEMMA ThreeParts ==
    ASSUME NEW x \in Seq(Pieces), NEW y \in Seq(Pieces), NEW z \in Seq(Pieces)
    PROVE  x \o (y \o z) = (x \o y) \o z
<1> DEFINE S == Pieces
<1> HIDE DEF S
<1> QED
  BY ConcatAssociative DEF S

\* What the server says comes last in the stream.
LEMMA StreamGrows ==
    ASSUME Types, NEW u \in Seq(Pieces), server'.incoming = server.incoming \o u, UNCHANGED buffer
    PROVE  /\ server'.incoming \in Seq(Pieces)
           /\ Stream' = Stream \o u
           /\ Stream = << >> => Stream' = u
           /\ Has(server.incoming, "N") \/ Has(u, "N") => Has(server'.incoming, "N")
<1> DEFINE v == server.incoming
<1>1. v \in Seq(Pieces) /\ buffer \in Seq(Pieces) /\ Stream \in Seq(Pieces)
  BY ServerTyped
<1>2. buffer \o (v \o u) = (buffer \o v) \o u
  <2> HIDE DEF v
  <2> QED
    BY <1>1, ThreeParts
<1>3. v \o u \in Seq(Pieces)
  BY <1>1, ConcatProperties
<1>4. Stream' = Stream \o u
  BY <1>2 DEF Stream
<1>5. Stream = << >> => Stream' = u
  BY <1>4, ConcatEmptySeq
<1>6. ASSUME Has(v, "N") \/ Has(u, "N")
      PROVE  Has(v \o u, "N")
  <2> DEFINE t == v \o u
  <2> SUFFICES Has(t, "N")
    OBVIOUS
  <2>1. /\ Len(t) = Len(v) + Len(u) /\ Len(v) \in Nat /\ Len(u) \in Nat
        /\ \A i \in 1 .. Len(v) + Len(u) : t[i] = IF i <= Len(v) THEN v[i] ELSE u[i - Len(v)]
    BY <1>1, ConcatProperties, LenProperties
  <2> HIDE DEF t, v
  <2>2. CASE Has(v, "N")
    <3>1. PICK i \in 1 .. Len(v) : v[i] = "N"
      BY <2>2 DEF Has
    <3>2. i \in 1 .. Len(t) /\ t[i] = "N"
      BY <2>1, <3>1
    <3> QED
      BY <3>2 DEF Has
  <2>3. CASE Has(u, "N")
    <3>1. PICK i \in 1 .. Len(u) : u[i] = "N"
      BY <2>3 DEF Has
    <3>2. i + Len(v) \in 1 .. Len(t) /\ ~(i + Len(v) <= Len(v)) /\ i + Len(v) - Len(v) = i
      BY <2>1, <3>1
    <3>3. t[i + Len(v)] = "N"
      BY <2>1, <3>1, <3>2
    <3> QED
      BY <3>2, <3>3 DEF Has
  <2> QED
    BY <1>6, <2>2, <2>3
<1> QED
  BY <1>3, <1>4, <1>5, <1>6

\* The server says u, which is well-formed after what it has said.
LEMMA SaidKeeps ==
    ASSUME IInv, UNCHANGED <<client, authorized, buffer, timer, view, last>>,
           NEW u \in Seq(Pieces), server'.incoming = server.incoming \o u,
           server' \in Servers, ~server'.asked,
           WellFormed(Stream', server'.granted, authorized),
           ~server'.granted => ~server.granted /\ server'.owed = 0,
           server.granted \/ server.asked,
           Alive /\ authorized => Alive'
    PROVE  Rest'
<1>1. Types'
  BY DEF IInv, Rest, Types
<1>2. LoginFirst(client, FALSE)
  BY DEF IInv, Rest, LoginFirst, Silent
<1>3. LoginFirst(client, Silent')
  BY <1>2 DEF LoginFirst
<1> QED
  BY <1>1, <1>3 DEF IInv, Rest

LEMMA ServerAddressesAsked ==
    ASSUME IInv, ServerGrants \/ ServerDenies
    PROVE  Rest'
<1>1. /\ UNCHANGED <<client, authorized, buffer, timer, view, last>>
      /\ server \in Servers /\ server.asked /\ ~server.granted /\ Stream = << >>
      /\ server.owed = 0 /\ Types
  BY DEF ServerGrants, ServerDenies, Sends, IInv, Rest, Types
<1>2. ~authorized /\ authorized = FALSE
  BY <1>1 DEF IInv, Rest, WellFormed, Types
<1>3. CASE ServerGrants
  <2> DEFINE u == <<"LO", "AD">>
  <2>1. /\ server'.incoming = server.incoming \o u
        /\ ~server'.asked /\ server'.granted /\ server'.owed = server.owed
        /\ server' = [asked |-> FALSE, granted |-> TRUE, owed |-> server.owed,
                      incoming |-> server'.incoming]
    BY <1>1, <1>3 DEF ServerGrants, Servers
  <2>2. u \in Seq(Pieces) /\ WellFormed(u, TRUE, FALSE)
    BY Sayings
  <2> HIDE DEF u
  <2>3. server'.incoming \in Seq(Pieces) /\ Stream' = u
    BY <1>1, <2>1, <2>2, StreamGrows
  <2>4. server' \in Servers
    <3>1. server.owed \in Nat /\ server.granted \in BOOLEAN
      BY <1>1 DEF Servers
    <3>2. \A g \in BOOLEAN : \A o \in Nat : \A s \in Seq(Pieces) :
            [asked |-> FALSE, granted |-> g, owed |-> o, incoming |-> s] \in Servers
      BY DEF Servers
    <3>3. TRUE \in BOOLEAN
      OBVIOUS
    <3> QED
      BY <2>1, <2>3, <3>1, <3>2, <3>3, Zenon
  <2>5. WellFormed(Stream', server'.granted, authorized)
    <3>1. server'.granted = TRUE
      BY <2>1
    <3> QED
      BY <1>2, <2>2, <2>3, <3>1
  <2> QED
    BY <1>1, <1>2, <2>1, <2>2, <2>4, <2>5, SaidKeeps
<1>4. CASE ServerDenies
  <2> DEFINE u == <<"text", "text">>
  <2>1. /\ server'.incoming = server.incoming \o u
        /\ ~server'.asked /\ server'.granted = server.granted /\ server'.owed = server.owed
        /\ server' = [asked |-> FALSE, granted |-> server.granted, owed |-> server.owed,
                      incoming |-> server'.incoming]
    BY <1>1, <1>4 DEF ServerDenies, Servers
  <2>2. u \in Seq(Pieces) /\ WellFormed(u, FALSE, FALSE)
    BY Sayings
  <2> HIDE DEF u
  <2>3. server'.incoming \in Seq(Pieces) /\ Stream' = u
    BY <1>1, <2>1, <2>2, StreamGrows
  <2>4. server' \in Servers
    <3>1. server.owed \in Nat /\ server.granted \in BOOLEAN
      BY <1>1 DEF Servers
    <3>2. \A g \in BOOLEAN : \A o \in Nat : \A s \in Seq(Pieces) :
            [asked |-> FALSE, granted |-> g, owed |-> o, incoming |-> s] \in Servers
      BY DEF Servers
    <3>3. TRUE \in BOOLEAN
      OBVIOUS
    <3> QED
      BY <2>1, <2>3, <3>1, <3>2, <3>3, Zenon
  <2>5. WellFormed(Stream', server'.granted, authorized)
    <3>1. server'.granted = FALSE
      BY <1>1, <2>1 DEF Servers
    <3> QED
      BY <1>2, <2>2, <2>3, <3>1
  <2> QED
    BY <1>1, <1>2, <2>1, <2>2, <2>4, <2>5, SaidKeeps
<1> QED
  BY <1>3, <1>4

LEMMA ServerAddressesClient ==
    ASSUME IInv, ServerAnswers \/ ServerCommands
    PROVE  Rest'
<1>1. /\ UNCHANGED <<client, authorized, buffer, timer, view, last>>
      /\ server \in Servers /\ server.granted /\ ~server.asked /\ server.owed \in Nat /\ Types
      /\ authorized \in BOOLEAN
  BY DEF ServerAnswers, ServerCommands, Sends, IInv, Rest, Types, Servers
<1>2. Stream \in Seq(Pieces) /\ WellFormed(Stream, TRUE, authorized) /\ server.granted = TRUE
  <2>1. server.granted = TRUE
    BY <1>1 DEF Servers
  <2> QED
    BY <1>1, <2>1, ServerTyped DEF IInv, Rest
<1>3. PICK u \in Seq(Pieces) :
         /\ WellFormed(u, TRUE, TRUE)
         /\ server'.incoming = server.incoming \o u
         /\ server'.asked = server.asked /\ server'.granted = server.granted
         /\ server'.owed \in Nat
         /\ server' = [asked |-> server'.asked, granted |-> server'.granted,
                       owed |-> server'.owed, incoming |-> server'.incoming]
         /\ server'.owed = server.owed \/ Has(u, "N")
  <2>1. CASE ServerAnswers
    <3> DEFINE u == <<"O", "N">>
    <3>1. u \in Seq(Pieces) /\ WellFormed(u, TRUE, TRUE) /\ Has(u, "N")
      BY Sayings
    <3>2. server' = [server EXCEPT !.owed = @ - 1, !.incoming = @ \o u] /\ server.owed > 0
      BY <2>1 DEF ServerAnswers
    <3> HIDE DEF u
    <3>3. /\ server'.incoming = server.incoming \o u
          /\ server'.asked = server.asked /\ server'.granted = server.granted
          /\ server'.owed = server.owed - 1
          /\ server' = [asked |-> server'.asked, granted |-> server'.granted,
                        owed |-> server'.owed, incoming |-> server'.incoming]
      BY <1>1, <3>2 DEF Servers
    <3>4. server'.owed \in Nat
      BY <1>1, <3>2, <3>3
    <3> QED
      BY <3>1, <3>3, <3>4
  <2>2. CASE ServerCommands
    <3>1. PICK u \in {<<"text", "semicolon">>, <<"text", "text", "semicolon">>} :
             server' = [server EXCEPT !.incoming = @ \o u]
      BY <2>2 DEF ServerCommands
    <3>2. u \in Seq(Pieces) /\ WellFormed(u, TRUE, TRUE)
      BY Sayings
    <3>3. /\ server'.incoming = server.incoming \o u
          /\ server'.asked = server.asked /\ server'.granted = server.granted
          /\ server'.owed = server.owed
          /\ server' = [asked |-> server'.asked, granted |-> server'.granted,
                        owed |-> server'.owed, incoming |-> server'.incoming]
      BY <1>1, <3>1 DEF Servers
    <3> QED
      BY <1>1, <3>2, <3>3
  <2> QED
    BY <2>1, <2>2
<1>4. /\ server'.incoming \in Seq(Pieces) /\ Stream' = Stream \o u
      /\ Has(server.incoming, "N") \/ Has(u, "N") => Has(server'.incoming, "N")
  BY <1>1, <1>3, StreamGrows
<1>5. server' \in Servers
  BY <1>1, <1>3, <1>4 DEF Servers
<1>6. WellFormed(Stream', server'.granted, authorized)
  <2>1. WellFormed(Stream \o u, TRUE, authorized)
    BY <1>1, <1>2, <1>3, WellFormedMore
  <2>2. server'.granted = TRUE
    BY <1>2, <1>3
  <2> QED
    BY <1>4, <2>1, <2>2
<1>7. Alive => Alive'
  BY <1>1, <1>3, <1>4 DEF Alive
<1> QED
  BY <1>1, <1>3, <1>5, <1>6, <1>7, SaidKeeps

\* handleTcpClientError and handleTcpClientDisconnect leave nothing of the connection.
LEMMA GiveUpKeeps ==
    ASSUME IInv, NEW kind \in IoKinds, client.io[kind] # "idle", NEW hs,
           GiveUp(Handled(client, kind, hs))
    PROVE  Rest'
<1> DEFINE h == Handled(client, kind, hs)
<1>1. After(client, kind, hs, h) /\ ~h.proceed /\ client' = h.client
  BY HandledFields DEF IInv, Client!IInv, GiveUp
<1>2. CASE h.tells # "nothing" /\ Lost(h)
  <2>1. client'.writeBuffer = << >> /\ client'.status = "Disconnected"
    <3> HIDE DEF h
    <3> QED
      BY <1>1, <1>2 DEF After
  <2>2. /\ authorized' = FALSE /\ buffer' = << >> /\ server' = NewServer
        /\ timer' = (IF Ending(h) = "closedByUser" THEN timer ELSE Reconnect(timer))
        /\ last' = Ending(h)
    BY <1>2 DEF Lost
  <2> HIDE DEF h
  <2>3. Types'
    <3>1. << >> \in Seq(Pieces)
      OBVIOUS
    <3>2. timer' \in Timers
      BY <2>2 DEF IInv, Rest, Types, Timers, Reconnect, Wait, ExpiresFromNow
    <3> QED
      BY <2>2, <3>1, <3>2 DEF Types, Ending, NewServer, Servers
  <2>4. Stream' = << >>
    BY <2>2, ConcatEmptySeq DEF Stream, NewServer
  <2>5. WellFormed(Stream', server'.granted, authorized')
    BY <2>2, <2>4 DEF NewServer, WellFormed
  <2>6. OnlyLogin(client') /\ LoginFirst(client', Silent')
    BY <2>1, EmptyQueue
  <2> QED
    BY <2>1, <2>2, <2>3, <2>4, <2>5, <2>6 DEF Rest, NewServer, Live
<1>3. CASE h.tells = "nothing" /\ UNCHANGED <<authorized, buffer, timer, server, view, last>>
  <2>1. /\ client'.status = client.status /\ ~client'.socketOpen
        /\ client'.writeBuffer = client.writeBuffer
        /\ client'.io["write"] = "started" => client.io["write"] = "started"
    <3> HIDE DEF h
    <3>1. "write" \in IoKinds
      BY DEF IoKinds
    <3> QED
      BY <1>1, <1>3, <3>1 DEF After
  <2>2. /\ OnlyLogin(client) => OnlyLogin(client')
        /\ LoginFirst(client, Silent) => LoginFirst(client', Silent)
    BY <2>1, SameQueue
  <2>3. Types'
    BY <1>3 DEF IInv, Rest, Types
  <2> QED
    BY <1>3, <2>1, <2>2, <2>3 DEF IInv, Rest, Stream, Silent, Live
<1> QED
  BY <1>2, <1>3 DEF GiveUp

LEMMA StartIoFields ==
    ASSUME NEW c \in Client!Clients, NEW kind \in IoKinds
    PROVE  /\ StartIo(c, kind).status = c.status
           /\ StartIo(c, kind).socketOpen = c.socketOpen
           /\ StartIo(c, kind).writeBuffer = c.writeBuffer
           /\ StartIo(c, kind).io = [c.io EXCEPT ![kind] = FirstState(c, kind)]
           /\ FirstState(c, kind) \in {"started", "failed"}
           /\ c.io \in [IoKinds -> Client!IoStates]
<1>1. FirstState(c, kind) \in {"started", "failed"}
  BY DEF FirstState
<1>2. c.io \in [IoKinds -> Client!IoStates]
  BY DEF Client!Clients, Client!IoKinds, IoKinds
<1>3. /\ StartIo(c, kind).status = c.status
      /\ StartIo(c, kind).socketOpen = c.socketOpen
      /\ StartIo(c, kind).writeBuffer = c.writeBuffer
      /\ StartIo(c, kind).io = [c.io EXCEPT ![kind] = FirstState(c, kind)]
  BY DEF StartIo, Client!Clients
<1> QED
  BY <1>1, <1>2, <1>3

LEMMA HandleResolveKeeps ==
    ASSUME IInv, HandleResolve
    PROVE  Rest'
<1> DEFINE h == Handled(client, "resolve", "Resolve")
           c == [h.client EXCEPT !.status = "Connecting", !.socketOpen = TRUE]
<1>1. client.io["resolve"] # "idle" /\ "resolve" \in IoKinds /\ "connect" \in IoKinds
  BY DEF HandleResolve, Ready, Completed, IoKinds
<1>2. CASE GiveUp(h)
  BY <1>1, <1>2, GiveUpKeeps
<1>3. CASE /\ h.proceed /\ client' = StartConnect(h.client)
           /\ UNCHANGED <<authorized, buffer, timer, server, view, last>>
  <2>1. After(client, "resolve", "Resolve", h)
    BY <1>1, HandledFields DEF IInv, Client!IInv
  <2>2. client' = StartIo(c, "connect")
    BY <1>3 DEF StartConnect
  <2>3. ~authorized
    <3>1. view = "opening"
      BY <1>1 DEF IInv, Client!IInv, Client!Fits
    <3> QED
      BY <3>1 DEF IInv, Rest
  <2> HIDE DEF h
  <2>4. /\ h.client \in Client!Clients /\ h.client.writeBuffer = client.writeBuffer
        /\ h.client.io = [client.io EXCEPT !["resolve"] = "idle"]
    BY <1>3, <2>1 DEF After
  <2>5. /\ c \in Client!Clients /\ c.status = "Connecting"
        /\ c.writeBuffer = client.writeBuffer /\ c.io = h.client.io
    BY <2>4 DEF Client!Clients, Client!Statuses
  <2> HIDE DEF c
  <2>6. client'.writeBuffer = client.writeBuffer /\ client'.status = "Connecting"
    BY <1>1, <2>2, <2>5, StartIoFields
  <2>7. client'.io["write"] = "started" => client.io["write"] = "started"
    <3>1. client'.io = [c.io EXCEPT !["connect"] = FirstState(c, "connect")]
          /\ c.io \in [IoKinds -> Client!IoStates]
      BY <1>1, <2>2, <2>5, StartIoFields
    <3>2. client.io \in [IoKinds -> Client!IoStates]
      BY ClientTyped DEF IInv, Client!IInv, Client!Clients, Client!IoKinds, IoKinds
    <3> QED
      BY <2>4, <2>5, <3>1, <3>2 DEF IoKinds
  <2>8. /\ OnlyLogin(client) => OnlyLogin(client')
        /\ LoginFirst(client, Silent) => LoginFirst(client', Silent)
    BY <2>6, <2>7, SameQueue
  <2>9. Types'
    BY <1>3 DEF IInv, Rest, Types
  <2> QED
    BY <1>3, <2>3, <2>6, <2>8, <2>9 DEF IInv, Rest, Stream, Silent
<1> QED
  BY <1>2, <1>3 DEF HandleResolve

\* The first message on a new connection is the login.
LEMMA HandleConnectKeeps ==
    ASSUME IInv, HandleConnect
    PROVE  Rest'
<1> DEFINE h == Handled(client, "connect", "Connecting")
           c == Established(h.client)
           queued == [c EXCEPT !.writeBuffer = Append(@, "login")]
           d == StartIo(queued, "write")
<1>1. client.io["connect"] # "idle" /\ {"connect", "read", "write"} \subseteq IoKinds
  BY DEF HandleConnect, Ready, Completed, IoKinds
<1>2. CASE GiveUp(h)
  BY <1>1, <1>2, GiveUpKeeps
<1>3. CASE h.proceed /\ Connected(h.client)
  <2>1. After(client, "connect", "Connecting", h)
    BY <1>1, HandledFields DEF IInv, Client!IInv
  <2>2. client.writeBuffer = << >>
    <3> HIDE DEF h
    <3>1. client.status # "Disconnected" /\ client.status # "Disconnecting"
      BY <1>3, <2>1 DEF After
    <3>2. /\ client \in Client!Clients /\ client.status # "Connected"
          /\ Client!SocketFits(client)
      BY <1>1 DEF IInv, Client!IInv, Client!Good, Client!Sound, Client!StatusFits, Client!Idle
    <3>3. client.status \in {"Resolve", "Connecting"}
      BY <3>1, <3>2 DEF Client!Clients, Client!Statuses
    <3> QED
      BY <3>2, <3>3 DEF Client!SocketFits
  <2>3. /\ authorized' = FALSE /\ buffer' = << >> /\ server' = NewServer
        /\ client' = StartRead(Send(c, "login"))
        /\ view' = "open" /\ last' = "connect" /\ UNCHANGED timer
    BY <1>3 DEF Connected
  <2>4. h.client \in Client!Clients /\ h.client.writeBuffer = << >>
    <3> HIDE DEF h
    <3> QED
      BY <1>3, <2>1, <2>2 DEF After
  <2> HIDE DEF h
  <2>5. /\ c \in Client!Clients /\ c.status = "Connected" /\ c.writeBuffer = << >>
    BY <2>4 DEF Established, Client!Clients, Client!Statuses
  <2> HIDE DEF c
  <2>6. Append(<< >>, "login") = <<"login">> /\ <<"login">> \in Seq(Requests)
    BY DEF Requests
  <2>7. queued \in Client!Clients /\ queued.writeBuffer = <<"login">> /\ queued.status = "Connected"
    BY <2>5, <2>6 DEF Client!Clients
  <2>8. Send(c, "login") = d
    BY <2>5 DEF Send, StartWrite
  <2>9. d.writeBuffer = <<"login">> /\ d.status = "Connected"
    <3> HIDE DEF queued
    <3> QED
      BY <1>1, <2>7, StartIoFields
  <2>10. d \in Client!Clients
    <3>1. StartIo(queued, "write") = Client!StartIo(queued, "write") /\ "write" \in Client!IoKinds
      BY DEF StartIo, Client!StartIo, FirstState, Client!FirstState, Client!IoKinds
    <3> HIDE DEF queued
    <3> QED
      BY <2>7, <3>1, Client!StartIoFields DEF Requests
  <2> HIDE DEF d
  <2>11. client'.writeBuffer = <<"login">> /\ client'.status = "Connected"
    <3>1. client' = StartIo(d, "read")
      BY <2>3, <2>8 DEF StartRead
    <3> QED
      BY <1>1, <2>9, <2>10, <3>1, StartIoFields
  <2>12. Types'
    <3>1. << >> \in Seq(Pieces)
      OBVIOUS
    <3> QED
      BY <2>3, <3>1 DEF IInv, Rest, Types, NewServer, Servers
  <2>13. Stream' = << >>
    BY <2>3, ConcatEmptySeq DEF Stream, NewServer
  <2>14. WellFormed(Stream', server'.granted, authorized')
    BY <2>3, <2>13 DEF NewServer, WellFormed
  <2>15. Silent'
    BY <2>3, <2>13 DEF Silent, NewServer
  <2>16. OnlyLogin(client') /\ LoginFirst(client', Silent')
    BY <2>11, <2>15 DEF OnlyLogin, LoginFirst
  <2>17. NothingLeft(buffer', authorized')
    <3>1. Semicolons(<< >>) = {}
      BY DEF Semicolons
    <3>2. Size(<< >>) < 4
      <4>1. << >> \in Seq(Pieces) /\ Len(<< >>) = 0
        OBVIOUS
      <4>2. Size(<< >>) = 0
        BY <4>1, SizeBounds, Zenon
      <4> QED
        BY <4>2
    <3> QED
      BY <2>3, <3>1, <3>2 DEF NothingLeft
  <2> QED
    BY <2>3, <2>12, <2>13, <2>14, <2>16, <2>17 DEF Rest, NewServer
<1> QED
  BY <1>2, <1>3 DEF HandleConnect

\* The next message of the queue is written.
LEMMA HandleWriteKeeps ==
    ASSUME IInv, HandleWrite
    PROVE  Rest'
<1> DEFINE h == Handled(client, "write", "Connected")
           q == client.writeBuffer
           popped == [h.client EXCEPT !.writeBuffer = Tail(@)]
<1>1. client.io["write"] \in {"ok", "failed"} /\ client.io["write"] # "idle" /\ "write" \in IoKinds
  BY DEF HandleWrite, Ready, Completed, IoKinds
<1>2. CASE GiveUp(h)
  BY <1>1, <1>2, GiveUpKeeps
<1>3. CASE /\ h.proceed /\ client' = AfterWrite(h.client)
           /\ UNCHANGED <<authorized, buffer, timer, server, view, last>>
  <2>1. After(client, "write", "Connected", h)
    BY <1>1, HandledFields DEF IInv, Client!IInv
  <2>2. /\ Client!Good(client) /\ q # << >> /\ q \in Seq(Requests) /\ Len(q) \in Nat
        /\ client.io \in [IoKinds -> Client!IoStates]
    BY <1>1, ClientTyped
       DEF IInv, Client!IInv, Client!Good, Client!Sound, Client!QueueFits, Client!Clients,
           Client!IoKinds, IoKinds
  <2> HIDE DEF h
  <2>3. /\ h.client \in Client!Clients /\ h.client.writeBuffer = q
        /\ h.client.status = client.status /\ h.client.socketOpen = client.socketOpen
        /\ h.client.io = [client.io EXCEPT !["write"] = "idle"]
        /\ client.io["write"] = "ok"
    BY <1>1, <1>3, <2>1 DEF After
  <2>4. /\ Tail(q) \in Seq(Requests) /\ Len(Tail(q)) = Len(q) - 1
        /\ \A i \in 1 .. Len(Tail(q)) : Tail(q)[i] = q[i + 1]
    BY <2>2, HeadTailProperties
  <2>5. /\ popped \in Client!Clients /\ popped.writeBuffer = Tail(q)
        /\ popped.status = client.status /\ popped.socketOpen = client.socketOpen
        /\ popped.io = h.client.io
    BY <2>3, <2>4 DEF Client!Clients
  <2>6. client' = IF Tail(q) = << >> THEN popped ELSE StartIo(popped, "write")
    BY <1>3, <2>5 DEF AfterWrite, StartWrite
  <2> HIDE DEF popped, q
  <2>7. /\ client'.status = client.status /\ client'.socketOpen = client.socketOpen
        /\ client'.writeBuffer = Tail(q)
    BY <1>1, <2>5, <2>6, StartIoFields
  <2>8. client'.io["write"] # "ok"
    <3>1. CASE Tail(q) = << >>
      BY <1>1, <2>2, <2>3, <2>5, <2>6, <3>1
    <3>2. CASE Tail(q) # << >>
      <4>1. client' = StartIo(popped, "write")
        BY <2>6, <3>2
      <4>2. client'.io = [popped.io EXCEPT !["write"] = FirstState(popped, "write")]
        BY <1>1, <2>5, <4>1, StartIoFields
      <4>3. FirstState(popped, "write") # "ok"
        BY DEF FirstState
      <4>4. popped.io \in [IoKinds -> Client!IoStates]
        BY <1>1, <2>5, StartIoFields
      <4> QED
        BY <1>1, <4>2, <4>3, <4>4
    <3> QED
      BY <3>1, <3>2
  <2>9. \A i \in 1 .. Len(Tail(q)) : i + 1 \in 1 .. Len(q) /\ i + 1 # 1
    BY <2>2, <2>4
  <2>10. OnlyLogin(client) => OnlyLogin(client')
    BY <2>4, <2>7, <2>9 DEF OnlyLogin, q
  <2>11. LoginFirst(client', Silent')
    <3>1. \A i \in 1 .. Len(q) : q[i] = "login" => i = 1
      BY DEF IInv, Rest, LoginFirst, q
    <3> QED
      BY <2>4, <2>7, <2>9, <3>1 DEF LoginFirst
  <2>12. BeatQueued(client) => BeatQueued(client')
    <3>1. SUFFICES ASSUME NEW i \in 1 .. Len(q), q[i] = "beat", i > 1 \/ client.io["write"] # "ok"
                   PROVE  BeatQueued(client')
      BY DEF BeatQueued, q
    <3>2. i > 1 /\ i \in Nat
      BY <2>2, <2>3, <3>1
    <3>3. i - 1 \in 1 .. Len(Tail(q)) /\ i - 1 + 1 = i
      BY <2>2, <2>4, <3>2
    <3>4. Tail(q)[i - 1] = "beat"
      BY <2>4, <3>1, <3>3
    <3> QED
      BY <2>7, <2>8, <3>3, <3>4 DEF BeatQueued
  <2>13. Types' /\ (Alive => Alive')
    BY <1>3, <2>12 DEF IInv, Rest, Types, Alive
  <2> QED
    BY <1>3, <2>7, <2>10, <2>11, <2>13 DEF IInv, Rest, Stream, Live
<1> QED
  BY <1>2, <1>3 DEF HandleWrite

\* Parse has left no answer in the buffer.
LEMMA NoAnswerLeft ==
    ASSUME NEW b \in Seq(Pieces), NEW r \in Seq(Pieces), WellFormed(b \o r, TRUE, TRUE),
           Semicolons(b) = {}, ~IsAnswer(b)
    PROVE  ~Has(b, "N")
<1> DEFINE s == b \o r
<1>1. /\ s \in Seq(Pieces) /\ Len(b) \in Nat /\ Len(s) = Len(b) + Len(r) /\ Len(r) \in Nat
      /\ \A i \in 1 .. Len(b) : s[i] = b[i]
  <2>1. /\ s \in Seq(Pieces) /\ Len(s) = Len(b) + Len(r) /\ Len(b) \in Nat /\ Len(r) \in Nat
        /\ \A i \in 1 .. Len(b) + Len(r) : s[i] = IF i <= Len(b) THEN b[i] ELSE r[i - Len(b)]
    BY ConcatProperties, LenProperties
  <2> HIDE DEF s
  <2> QED
    BY <2>1
<1>2. WellFormed(s, TRUE, TRUE)
  OBVIOUS
<1> HIDE DEF s
<1>3. SUFFICES ASSUME Has(b, "N") PROVE FALSE
  OBVIOUS
<1>4. \A i \in 1 .. Len(b) : s[i] # "semicolon"
  <2>1. DOMAIN b = 1 .. Len(b)
    OBVIOUS
  <2> QED
    BY <1>1, <2>1 DEF Semicolons
<1>5. \E i \in 1 .. Len(b) : s[i] = "N"
  BY <1>1, <1>3 DEF Has
<1>6. Len(b) \in 0 .. Len(s)
  BY <1>1
<1>7. Len(b) >= 2 /\ s[1] = "O" /\ s[2] = "N"
  BY <1>1, <1>2, <1>4, <1>5, <1>6, AnswerFirst
<1>8. Len(b) >= 2 /\ b[1] = "O" /\ b[2] = "N"
  BY <1>1, <1>7
<1> QED
  BY <1>8, PrefixOfTwo DEF IsAnswer

\* What is read leaves the stream as it was.
LEMMA StreamRead ==
    ASSUME Types, NEW n \in 1 .. Len(server.incoming)
    PROVE  LET piece == SubSeq(server.incoming, 1, n)
               rest  == Drop(server.incoming, n)
           IN  /\ buffer \o piece \in Seq(Pieces) /\ rest \in Seq(Pieces)
               /\ (buffer \o piece) \o rest = Stream
               /\ Has(server.incoming, "N") => Has(buffer \o piece, "N") \/ Has(rest, "N")
<1> DEFINE v == server.incoming
           piece == SubSeq(v, 1, n)
           rest == Drop(v, n)
           S == Pieces
<1>1. v \in Seq(S) /\ buffer \in Seq(S) /\ Len(v) \in Nat /\ Len(buffer) \in Nat
  BY ServerTyped, LenProperties
<1> SUFFICES /\ buffer \o piece \in Seq(S) /\ rest \in Seq(S)
             /\ (buffer \o piece) \o rest = Stream
             /\ Has(v, "N") => Has(buffer \o piece, "N") \/ Has(rest, "N")
  OBVIOUS
<1>2. Stream = buffer \o v
  BY DEF Stream
<1>3. n \in 1 .. Len(v)
  OBVIOUS
<1> HIDE DEF v, S
<1>4. /\ piece \in Seq(S) /\ rest \in Seq(S)
      /\ Len(piece) = n /\ \A i \in 1 .. n : piece[i] = v[i]
      /\ Len(rest) = Len(v) - n /\ \A i \in 1 .. Len(v) - n : rest[i] = v[i + n]
  <2>1. \A i \in 1 .. Len(v) : v[i] \in S
    BY <1>1, ElementOfSeq
  <2>2. \A i \in 1 .. n : i \in 1 .. Len(v) /\ 1 + i - 1 = i
    BY <1>1, <1>3
  <2>3. /\ SubSeq(v, 1, n) \in Seq(S) /\ Len(SubSeq(v, 1, n)) = n
        /\ \A i \in 1 .. n : SubSeq(v, 1, n)[i] = v[i]
    BY <1>1, <1>3, <2>1, <2>2, SubSeqProperties
  <2>4. /\ SubSeq(v, n + 1, Len(v)) \in Seq(S) /\ Len(SubSeq(v, n + 1, Len(v))) = Len(v) - n
        /\ \A i \in 1 .. Len(v) - n : SubSeq(v, n + 1, Len(v))[i] = v[i + n]
    BY <1>1, <1>3, <2>1, SubSeqProperties
  <2> QED
    BY <2>3, <2>4 DEF Drop
<1>5. piece \o rest = v
  <2>1. SubSeq(v, 1, n) \o SubSeq(v, n + 1, Len(v)) = SubSeq(v, 1, Len(v))
    BY <1>1, <1>3, ConcatAdjacentSubSeq
  <2>2. SubSeq(v, 1, Len(v)) = v
    BY <1>1, SubSeqFull
  <2>3. piece = SubSeq(v, 1, n) /\ rest = SubSeq(v, n + 1, Len(v))
    BY DEF Drop
  <2> HIDE DEF piece, rest
  <2> QED
    BY <2>1, <2>2, <2>3, Zenon
<1> HIDE DEF piece, rest
<1>6. (buffer \o piece) \o rest = buffer \o v
  <2>1. (buffer \o piece) \o rest = buffer \o (piece \o rest)
    BY <1>1, <1>4, ThreeParts DEF S
  <2> QED
    BY <1>5, <2>1
<1>7. ASSUME Has(v, "N") PROVE Has(buffer \o piece, "N") \/ Has(rest, "N")
  <2>1. PICK i \in 1 .. Len(v) : v[i] = "N"
    BY <1>7 DEF Has
  <2>2. CASE i <= n
    <3> DEFINE t == buffer \o piece
    <3>1. /\ Len(t) = Len(buffer) + n
          /\ \A j \in 1 .. Len(buffer) + n :
                t[j] = IF j <= Len(buffer) THEN buffer[j] ELSE piece[j - Len(buffer)]
      BY <1>1, <1>4, ConcatProperties
    <3> HIDE DEF t
    <3>2. /\ i + Len(buffer) \in 1 .. Len(t) /\ ~(i + Len(buffer) <= Len(buffer))
          /\ i + Len(buffer) - Len(buffer) = i /\ i \in 1 .. n
      BY <1>1, <1>3, <2>2, <3>1
    <3>3. t[i + Len(buffer)] = "N"
      BY <1>4, <2>1, <3>1, <3>2
    <3>4. Has(t, "N")
      BY <3>2, <3>3 DEF Has
    <3> QED
      BY <3>4 DEF t
  <2>3. CASE ~(i <= n)
    <3>1. i - n \in 1 .. Len(v) - n /\ i - n + n = i
      BY <1>1, <1>3, <2>3
    <3>2. rest[i - n] = "N" /\ i - n \in 1 .. Len(rest)
      BY <1>4, <2>1, <3>1
    <3> QED
      BY <3>2 DEF Has
  <2> QED
    BY <2>2, <2>3
<1> QED
  BY <1>1, <1>2, <1>4, <1>6, <1>7, ConcatProperties

\* A client that is connected, and what handleRead leaves of it.
LEMMA ReadFields ==
    ASSUME NEW c \in Client!Clients, c.status = "Connected"
    PROVE  /\ StartRead(c).status = "Connected" /\ StartRead(c).socketOpen = c.socketOpen
           /\ StartRead(c).writeBuffer = c.writeBuffer
           /\ StartRead(c).io["write"] = c.io["write"]
           /\ StartRead(Disconnect(c)).status = "Disconnecting"
           /\ StartRead(Disconnect(c)).writeBuffer = c.writeBuffer
           /\ StartRead(Disconnect(c)).io["write"] = "started" => c.io["write"] = "started"
<1> DEFINE d == Disconnect(c)
           ending == [c EXCEPT !.status = "Disconnecting"]
<1>1. "read" \in IoKinds /\ "write" \in IoKinds
  BY DEF IoKinds
<1>2. /\ d \in Client!Clients /\ d.status = "Disconnecting" /\ d.writeBuffer = c.writeBuffer
      /\ d.io["write"] = "started" => c.io["write"] = "started"
  <2>1. d = CloseSocket(ending)
    BY DEF Disconnect
  <2>2. /\ ending \in Client!Clients /\ ending.status = "Disconnecting"
        /\ ending.writeBuffer = c.writeBuffer /\ ending.io = c.io
    BY DEF Client!Clients, Client!Statuses
  <2> HIDE DEF d, ending
  <2> QED
    BY <2>1, <2>2 DEF CloseSocket, Client!Clients, Client!IoKinds, IoKinds, Client!IoStates
<1> HIDE DEF d
<1>3. \A e \in Client!Clients :
         /\ StartRead(e).status = e.status /\ StartRead(e).socketOpen = e.socketOpen
         /\ StartRead(e).writeBuffer = e.writeBuffer
         /\ StartRead(e).io["write"] = e.io["write"]
  <2> TAKE e \in Client!Clients
  <2>1. StartRead(e) = StartIo(e, "read")
    BY DEF StartRead
  <2>2. /\ StartRead(e).status = e.status /\ StartRead(e).socketOpen = e.socketOpen
        /\ StartRead(e).writeBuffer = e.writeBuffer
        /\ StartRead(e).io = [e.io EXCEPT !["read"] = FirstState(e, "read")]
        /\ e.io \in [IoKinds -> Client!IoStates]
    BY <1>1, <2>1, StartIoFields
  <2> QED
    BY <1>1, <2>2
<1> QED
  BY <1>2, <1>3 DEF d

\* What the loop leaves, when the connection is not given up.
LEMMA LoopKeepsAlive ==
    ASSUME IInv, NEW n \in 1 .. Len(server.incoming), NEW p,
           NEW pieces, pieces = buffer \o SubSeq(server.incoming, 1, n),
           NEW r, r = Drop(server.incoming, n),
           Gone(p, pieces, Len(pieces) + 1, r, server.granted), ~p.goOn, ~p.denied,
           server'.incoming = r, server'.owed = server.owed, timer' = p.timer,
           p.authorized, authorized => Alive,
           BeatQueued(client) => BeatQueued(client')
    PROVE  Alive'
<1>1. /\ p \in Loops /\ r \in Seq(Pieces) /\ p.buffer \in Seq(Pieces)
      /\ p.timer.waiting \in Nat /\ p.timer.due \in Nat
      /\ server.owed \in Nat
      /\ Has(server.incoming, "N") => Has(pieces, "N") \/ Has(r, "N")
  BY StreamRead, ServerTyped DEF Gone, Loops, Timers, IInv, Rest
<1>2. ~Has(p.buffer, "N")
  <2>1. WellFormed(p.buffer \o r, server.granted, p.authorized)
    BY Zenon DEF Gone
  <2>2. p.authorized = TRUE /\ server.granted = TRUE
    <3>1. server.granted
      BY <2>1 DEF WellFormed
    <3>2. server.granted \in BOOLEAN
      BY ServerTyped DEF IInv, Rest
    <3> QED
      BY <1>1, <3>1, <3>2 DEF Loops
  <2>3. WellFormed(p.buffer \o r, TRUE, TRUE)
    BY <2>1, <2>2
  <2>4. Semicolons(p.buffer) = {} /\ ~IsAnswer(p.buffer)
    BY DEF Gone, NothingLeft
  <2> QED
    BY <1>1, <2>3, <2>4, NoAnswerLeft
<1>3. /\ timer.waiting + timer.due > 0 \/ Has(pieces, "N") => timer'.waiting + timer'.due > 0
      /\ ~authorized => timer'.waiting + timer'.due > 0
  <2>1. timer.waiting + timer.due > 0 \/ Has(pieces, "N")
          => p.timer.waiting + p.timer.due > 0 \/ Has(p.buffer, "N")
    BY DEF Gone
  <2>2. ~authorized => p.timer.waiting > 0
    BY DEF Gone
  <2>3. p.timer.waiting > 0 => p.timer.waiting + p.timer.due > 0
    <3>1. \A i, j \in Nat : i > 0 => i + j > 0
      OBVIOUS
    <3> QED
      BY <1>1, <3>1, Zenon
  <2> QED
    BY <1>2, <2>1, <2>2, <2>3
<1> QED
  BY <1>1, <1>3 DEF Alive

LEMMA HandleReadKeeps ==
    ASSUME IInv, HandleRead
    PROVE  Rest'
<1> DEFINE h == Handled(client, "read", "Connected")
           c == h.client
<1>1. client.io["read"] # "idle" /\ "read" \in IoKinds /\ "write" \in IoKinds
  BY DEF HandleRead, Ready, Completed, IoKinds
<1>2. CASE GiveUp(h)
  BY <1>1, <1>2, GiveUpKeeps
<1>3. CASE h.proceed /\ ReceiveData(c)
  <2>1. After(client, "read", "Connected", h)
    BY <1>1, HandledFields DEF IInv, Client!IInv
  <2>2. ReceiveData(c)
    BY <1>3
  <2>3. /\ c \in Client!Clients /\ c.status = client.status /\ c.socketOpen = client.socketOpen
        /\ c.writeBuffer = client.writeBuffer
        /\ c.io = [client.io EXCEPT !["read"] = "idle"]
        /\ client.status # "Disconnected" /\ client.status # "Disconnecting"
    <3> HIDE DEF h
    <3> QED
      BY <1>3, <2>1 DEF After
  <2> HIDE DEF c, h
  <2>4. client.status = "Connected" /\ view = "open"
    <3>1. client \in Client!Clients /\ Client!StatusFits(client) /\ Client!Fits(client, view)
      BY DEF IInv, Client!IInv, Client!Good, Client!Sound
    <3> QED
      BY <1>1, <2>3, <3>1
         DEF Client!StatusFits, Client!Fits, Client!Idle, Client!Clients, Client!Statuses,
             Client!IoKinds
  <2>5. c.io["write"] = client.io["write"]
    <3>1. client.io \in [IoKinds -> Client!IoStates]
      BY ClientTyped DEF IInv, Client!IInv, Client!Clients, Client!IoKinds, IoKinds
    <3> QED
      BY <1>1, <2>3, <3>1
  <2>6. PICK n \in 1 .. Len(server.incoming) :
          LET p == Parse(buffer \o SubSeq(server.incoming, 1, n))
              tooLong == ~p.denied /\ Size(p.buffer) > BufferLimit
          IN  /\ authorized' = p.authorized /\ buffer' = p.buffer /\ timer' = p.timer
              /\ server' = [server EXCEPT !.incoming = Drop(@, n)]
              /\ client' = StartRead(IF p.denied \/ tooLong THEN Disconnect(c) ELSE c)
              /\ last' = "data" /\ UNCHANGED view
    BY <2>2 DEF ReceiveData
  <2> DEFINE pieces == buffer \o SubSeq(server.incoming, 1, n)
             r == Drop(server.incoming, n)
             p == Parse(pieces)
             giveUp == p.denied \/ (~p.denied /\ Size(p.buffer) > BufferLimit)
  <2>7. /\ authorized' = p.authorized /\ buffer' = p.buffer /\ timer' = p.timer
        /\ server' = [server EXCEPT !.incoming = r]
        /\ client' = StartRead(IF giveUp THEN Disconnect(c) ELSE c)
        /\ last' = "data" /\ UNCHANGED view
    BY <2>6
  <2>8. /\ pieces \in Seq(Pieces) /\ r \in Seq(Pieces) /\ pieces \o r = Stream
        /\ server \in Servers /\ authorized \in BOOLEAN /\ timer \in Timers
        /\ server.granted \in BOOLEAN /\ Len(server.incoming) \in Nat
        /\ server.incoming \in Seq(Pieces)
    BY StreamRead, ServerTyped DEF IInv, Rest, Types, Servers
  <2> HIDE DEF pieces, r
  <2>9. Gone(p, pieces, Len(pieces) + 1, r, server.granted) /\ ~p.goOn
    <3>1. WellFormed(pieces \o r, server.granted, authorized)
      BY <2>8, Zenon DEF IInv, Rest
    <3> QED
      BY <2>8, <3>1, ParseGoes
  <2> HIDE DEF p, giveUp
  <2>10. /\ server'.incoming = r /\ server'.asked = server.asked
         /\ server'.granted = server.granted /\ server'.owed = server.owed
         /\ server' \in Servers
    BY <2>7, <2>8 DEF Servers
  <2>11. /\ client'.writeBuffer = client.writeBuffer
         /\ client'.io["write"] = "started" => client.io["write"] = "started"
         /\ client'.status = "Connected" =>
              /\ ~giveUp /\ client'.socketOpen = client.socketOpen
              /\ client'.io["write"] = client.io["write"]
    <3>1. CASE giveUp
      <4>1. client' = StartRead(Disconnect(c))
        BY <2>7, <3>1
      <4> QED
        BY <2>3, <2>4, <2>5, <4>1, ReadFields
    <3>2. CASE ~giveUp
      <4>1. client' = StartRead(c)
        BY <2>7, <3>2
      <4> QED
        BY <2>3, <2>4, <2>5, <3>2, <4>1, ReadFields
    <3> QED
      BY <3>1, <3>2
  <2>12. Types'
    BY <2>7, <2>9, <2>10 DEF Gone, Loops, Types
  <2>13. WellFormed(Stream', server'.granted, authorized')
    <3>1. Stream' = p.buffer \o r
      BY <2>7, <2>10 DEF Stream
    <3>2. WellFormed(p.buffer \o r, server.granted, p.authorized)
      BY <2>9, Zenon DEF Gone
    <3> QED
      BY <2>7, <2>10, <3>1, <3>2
  <2>14. Stream # << >>
    <3> DEFINE v == server.incoming
    <3>1. v # << >>
      BY <2>8
    <3>2. Len(v) > 0 /\ v \in Seq(Pieces) /\ buffer \in Seq(Pieces)
      BY <2>8, <3>1, ServerTyped DEF IInv, Rest
    <3> HIDE DEF v
    <3>3. Len(buffer \o v) = Len(buffer) + Len(v) /\ Len(buffer) \in Nat /\ Len(v) \in Nat
      BY <3>2, ConcatProperties, LenProperties
    <3>4. Len(buffer \o v) # 0
      BY <3>2, <3>3
    <3> QED
      BY <3>4 DEF Stream, v
  <2>15. LoginFirst(client', Silent')
    <3>1. LoginFirst(client, FALSE)
      BY <2>14 DEF IInv, Rest, Silent, LoginFirst
    <3> QED
      BY <2>11, <3>1 DEF LoginFirst
  <2>16. /\ ~server'.asked
         /\ ~server'.granted => OnlyLogin(client') /\ server'.owed = 0
    BY <2>10, <2>11, <2>14, SameQueue DEF IInv, Rest
  <2>17. client'.status = "Connected" => NothingLeft(buffer', authorized')
    <3>1. ~giveUp => NothingLeft(p.buffer, p.authorized)
      BY <2>9 DEF Gone, giveUp
    <3> QED
      BY <2>7, <2>11, <3>1
  <2>18. ASSUME authorized', Live(client') PROVE Alive'
    <3>1. /\ ~giveUp /\ client'.socketOpen = client.socketOpen
          /\ client'.io["write"] = client.io["write"] /\ Live(client)
      BY <2>4, <2>11, <2>18 DEF Live
    <3>2. BeatQueued(client) => BeatQueued(client')
      BY <2>11, <3>1, SameQueue
    <3>3. authorized => Alive
      BY <3>1 DEF IInv, Rest
    <3>4. ~p.denied /\ p.authorized
      BY <2>7, <2>18, <3>1 DEF giveUp
    <3>5. pieces = buffer \o SubSeq(server.incoming, 1, n) /\ r = Drop(server.incoming, n)
      BY DEF pieces, r
    <3> QED
      BY <2>7, <2>9, <2>10, <3>2, <3>3, <3>4, <3>5, LoopKeepsAlive
  <2> QED
    BY <2>4, <2>7, <2>12, <2>13, <2>15, <2>16, <2>17, <2>18 DEF Rest
<1> QED
  BY <1>2, <1>3 DEF HandleRead

----------------------------------------------------------------------------
(* The invariant, and what follows from it *)

LEMMA InitKeeps ==
    Init => IInv
<1> SUFFICES ASSUME Init PROVE IInv
  OBVIOUS
<1>1. Client!IInv
  BY InitIsOwnerInit
<1>2. /\ client.writeBuffer = << >> /\ client.status = "Disconnected"
      /\ authorized = FALSE /\ buffer = << >> /\ server = NewServer
      /\ timer = [waiting |-> 0, due |-> 0] /\ last = "none"
  BY DEF Init, NewClient
<1>3. Types
  <2>1. << >> \in Seq(Pieces)
    OBVIOUS
  <2> QED
    BY <1>2, <2>1 DEF Types, NewServer, Servers, Timers
<1>4. Stream = << >>
  BY <1>2, ConcatEmptySeq DEF Stream, NewServer
<1>5. WellFormed(Stream, server.granted, authorized)
  BY <1>2, <1>4 DEF NewServer, WellFormed
<1>6. OnlyLogin(client) /\ LoginFirst(client, Silent)
  BY <1>2, EmptyQueue
<1> QED
  BY <1>1, <1>2, <1>3, <1>4, <1>5, <1>6 DEF IInv, Rest, NewServer

LEMMA StepKeepsRest ==
    IInv /\ [Next]_vars => Rest'
<1> SUFFICES ASSUME IInv, [Next]_vars PROVE Rest'
  OBVIOUS
<1>1. CASE Start
  <2>1. timer' \in Timers /\ UNCHANGED <<authorized, buffer, timer, server>> /\ StartTransmitter
    BY <1>1 DEF Start, IInv, Rest, Types
  <2> QED
    BY <2>1, StartKeeps
<1>2. CASE TimerExpires
  BY <1>2, TimerExpiresKeeps
<1>3. CASE HandleTimer
  BY <1>3, HandleTimerKeeps
<1>4. CASE HandleDeviceCommand
  <2>1. timer' \in Timers /\ authorized /\ client' = Send(client, "data")
        /\ UNCHANGED <<authorized, buffer, timer, server, view, last>>
    BY <1>4 DEF HandleDeviceCommand, IInv, Rest, Types
  <2>2. "data" \in {"beat", "data"}
    OBVIOUS
  <2> QED
    BY <2>1, <2>2, SendKeeps
<1>5. ASSUME NEW kind \in IoKinds, Completion(kind) PROVE Rest'
  BY <1>5, SuccessKeeps, FailureKeeps DEF Completion
<1>6. CASE HandleResolve
  BY <1>6, HandleResolveKeeps
<1>7. CASE HandleConnect
  BY <1>7, HandleConnectKeeps
<1>8. CASE HandleRead
  BY <1>8, HandleReadKeeps
<1>9. CASE HandleWrite
  BY <1>9, HandleWriteKeeps
<1>10. CASE ServerSteps
  BY <1>10, ServerAddressesAsked, ServerAddressesClient DEF ServerSteps
<1>11. CASE UNCHANGED vars
  <2>1. UNCHANGED <<client, authorized, buffer, timer, server, view, last>>
    BY <1>11 DEF vars
  <2>2. Types' /\ (Alive => Alive')
    BY <2>1 DEF IInv, Rest, Types, Alive
  <2> QED
    BY <2>1, <2>2 DEF IInv, Rest, Stream, Silent
<1> QED
  BY <1>1, <1>2, <1>3, <1>4, <1>5, <1>6, <1>7, <1>8, <1>9, <1>10, <1>11 DEF Next

\* Every behaviour keeps the invariant.
THEOREM Invariance == Spec => []IInv
<1>1. Client!IInv /\ OwnerStep => Client!IInv'
  BY Client!StepKeeps DEF OwnerStep, Requests
<1>2. IInv /\ [Next]_vars => IInv'
  BY <1>1, StepIsOwnerStep, StepKeepsRest DEF IInv
<1> QED
  BY <1>2, InitKeeps, PTL DEF Spec

\* The variables of the transmitter keep their types.
THEOREM TypeCorrect == Spec => []TypeOK
<1>1. IInv => TypeOK
  <2> SUFFICES ASSUME IInv PROVE TypeOK
    OBVIOUS
  <2>1. client \in Client!Clients /\ Types /\ view \in {"closed", "opening", "open"}
    BY ClientTyped DEF IInv, Rest, Client!IInv, Client!Contract!ContractTypeOK,
                           Client!Contract!Views
  <2> QED
    BY <2>1 DEF TypeOK, Types, Servers, Timers, Client!Clients, Client!IoKinds, IoKinds,
                Client!IoStates, IoStates, Client!Statuses, Statuses
<1> QED
  BY <1>1, Invariance, PTL

\* A late timer handler or a new connection never acts on the login of an
\* earlier one.
THEOREM LoginIsOfThisConnection == Spec => []NoStaleAuthorization
<1>1. IInv => NoStaleAuthorization
  BY DEF IInv, Rest, WellFormed, NoStaleAuthorization
<1> QED
  BY <1>1, Invariance, PTL

\* Nothing but the login goes to a server that has not granted access.
THEOREM LoginComesFirst == Spec => []NothingBeforeGrant
<1>1. IInv => NothingBeforeGrant
  <2> SUFFICES ASSUME IInv PROVE NothingBeforeGrant
    OBVIOUS
  <2>1. client.writeBuffer \in Seq(Requests)
    BY ClientTyped DEF IInv, Client!IInv
  <2>2. DOMAIN client.writeBuffer = 1 .. Len(client.writeBuffer)
    BY <2>1, LenProperties
  <2> QED
    BY <2>2 DEF IInv, Rest, OnlyLogin, NothingBeforeGrant
<1> QED
  BY <1>1, Invariance, PTL

\* However the reads cut the stream, everything that has come whole is parsed.
THEOREM ParsesAllThatCame == Spec => []NothingLeftUnparsed
<1>1. IInv => NothingLeftUnparsed
  BY DEF IInv, Rest, NothingLeft, NothingLeftUnparsed
<1> QED
  BY <1>1, Invariance, PTL

LEMMA CountHas ==
    ASSUME NEW S, NEW s \in Seq(S), NEW piece
    PROVE  /\ Count(s, piece) \in Nat
           /\ \A i \in 1 .. Len(s) : s[i] = piece => Count(s, piece) > 0
<1> DEFINE found == {i \in DOMAIN s : s[i] = piece}
<1>1. DOMAIN s = 1 .. Len(s) /\ Len(s) \in Nat
  BY LenProperties
<1>2. IsFiniteSet(found)
  <2>1. IsFiniteSet(DOMAIN s)
    BY <1>1, FS_Interval
  <2> QED
    BY <2>1, FS_Subset
<1>3. Cardinality(found) \in Nat /\ (found # {} => Cardinality(found) # 0)
  <2> HIDE DEF found
  <2> QED
    BY <1>2, FS_CardinalityType, FS_EmptySet
<1>4. \A i \in 1 .. Len(s) : s[i] = piece => found # {}
  BY <1>1
<1> HIDE DEF found
<1>5. Cardinality(found) # 0 => Cardinality(found) > 0
  BY <1>3
<1> QED
  BY <1>3, <1>4, <1>5 DEF Count, found

\* On a live connection the heartbeat is always somewhere.
THEOREM KeepaliveStays == Spec => []KeepaliveNeverLost
<1>1. IInv => KeepaliveNeverLost
  <2> SUFFICES ASSUME IInv, authorized, client.status = "Connected", client.socketOpen
               PROVE  Heartbeats > 0
    BY DEF KeepaliveNeverLost
  <2> DEFINE queued == Count(client.writeBuffer, "beat")
             coming == Count(server.incoming, "N")
  <2>1. /\ client.writeBuffer \in Seq(Requests) /\ server.incoming \in Seq(Pieces)
        /\ timer.waiting \in Nat /\ timer.due \in Nat /\ server.owed \in Nat
    BY ClientTyped, ServerTyped DEF IInv, Client!IInv, Rest
  <2>2. queued \in Nat /\ coming \in Nat
    BY <2>1, CountHas
  <2>3. Alive
    BY DEF IInv, Rest, Live
  <2>4. BeatQueued(client) => queued > 0
    BY <2>1, CountHas DEF BeatQueued
  <2>5. Has(server.incoming, "N") => coming > 0
    BY <2>1, CountHas DEF Has
  <2> HIDE DEF queued, coming
  <2>6. timer.waiting + timer.due > 0 \/ queued > 0 \/ server.owed > 0 \/ coming > 0
    BY <2>3, <2>4, <2>5 DEF Alive
  <2>7. timer.waiting + timer.due + queued + server.owed + coming > 0
    <3>1. \A v, w, x, y, z \in Nat :
            v + w > 0 \/ x > 0 \/ y > 0 \/ z > 0 => v + w + x + y + z > 0
      OBVIOUS
    <3> QED
      BY <2>1, <2>2, <2>6, <3>1, Zenon
  <2> QED
    BY <2>7 DEF Heartbeats, queued, coming
<1> QED
  BY <1>1, Invariance, PTL

\* The two instances of TcpClientLoop are one.
LEMMA SameActions ==
    /\ Loop!CallConnect <=> Client!CallConnect
    /\ Loop!CallDisconnect <=> Client!CallDisconnect
    /\ \A m : Loop!CallSend(m) <=> Client!CallSend(m)
    /\ \A kind : Loop!Completion(kind) <=> Client!Completion(kind)
<1>1. Loop!CallConnect <=> Client!CallConnect
  BY DEF Loop!CallConnect, Client!CallConnect, Loop!Connect, Client!Connect,
         Loop!StartIo, Client!StartIo, Loop!FirstState, Client!FirstState
<1>2. Loop!CallDisconnect <=> Client!CallDisconnect
  BY DEF Loop!CallDisconnect, Client!CallDisconnect, Loop!Disconnect,
         Client!Disconnect, Loop!CloseSocket, Client!CloseSocket, Loop!IoKinds,
         Client!IoKinds
<1>3. \A m : Loop!CallSend(m) <=> Client!CallSend(m)
  BY DEF Loop!CallSend, Client!CallSend, Loop!Send, Client!Send, Loop!StartWrite,
         Client!StartWrite, Loop!StartIo, Client!StartIo, Loop!FirstState,
         Client!FirstState
<1>4. \A kind : Loop!Completion(kind) <=> Client!Completion(kind)
  BY DEF Loop!Completion, Client!Completion, Loop!Complete, Client!Complete
<1> QED
  BY <1>1, <1>2, <1>3, <1>4

LEMMA SameHandlers ==
    /\ Loop!HandleResolve <=> Client!HandleResolve
    /\ Loop!HandleConnect <=> Client!HandleConnect
    /\ Loop!HandleRead <=> Client!HandleRead
    /\ Loop!HandleWrite <=> Client!HandleWrite
<1>1. \A c, kind, hs : Loop!Handled(c, kind, hs) = Client!Handled(c, kind, hs)
  BY DEF Loop!Handled, Client!Handled, Loop!HandleAnything, Client!HandleAnything,
         Loop!Taken, Client!Taken, Loop!CloseSocket, Client!CloseSocket, Loop!MustWait,
         Client!MustWait, Loop!Ended, Client!Ended, Loop!EndOf, Client!EndOf,
         Loop!Result, Client!Result, Loop!IoKinds, Client!IoKinds
<1>2. \A h : Loop!GiveUp(h) <=> Client!GiveUp(h)
  BY DEF Loop!GiveUp, Client!GiveUp, Loop!Told, Client!Told
<1>3. \A kind : Loop!Completed(client, kind) <=> Client!Completed(client, kind)
  BY DEF Loop!Completed, Client!Completed
<1>4. \A c : Loop!Reactions(c) = Client!Reactions(c)
  BY DEF Loop!Reactions, Client!Reactions, Loop!Send, Client!Send, Loop!StartWrite,
         Client!StartWrite, Loop!StartIo, Client!StartIo, Loop!FirstState,
         Client!FirstState, Loop!Disconnect, Client!Disconnect, Loop!CloseSocket,
         Client!CloseSocket, Loop!IoKinds, Client!IoKinds
<1>5. \A c : /\ Loop!StartConnect(c) = Client!StartConnect(c)
             /\ Loop!Established(c) = Client!Established(c)
             /\ Loop!StartRead(c) = Client!StartRead(c)
             /\ Loop!AfterWrite(c) = Client!AfterWrite(c)
  BY DEF Loop!StartConnect, Client!StartConnect, Loop!Established, Client!Established,
         Loop!StartRead, Client!StartRead, Loop!AfterWrite, Client!AfterWrite,
         Loop!StartWrite, Client!StartWrite, Loop!StartIo, Client!StartIo,
         Loop!FirstState, Client!FirstState
<1>6. Loop!HandleResolve <=> Client!HandleResolve
  BY <1>1, <1>2, <1>3, <1>5, Zenon DEF Loop!HandleResolve, Client!HandleResolve
<1>7. Loop!HandleConnect <=> Client!HandleConnect
  BY <1>1, <1>2, <1>3, <1>4, <1>5, Zenon DEF Loop!HandleConnect, Client!HandleConnect
<1>8. Loop!HandleRead <=> Client!HandleRead
  BY <1>1, <1>2, <1>3, <1>4, <1>5, Zenon DEF Loop!HandleRead, Client!HandleRead
<1>9. Loop!HandleWrite <=> Client!HandleWrite
  BY <1>1, <1>2, <1>3, <1>5, Zenon DEF Loop!HandleWrite, Client!HandleWrite
<1> QED
  BY <1>6, <1>7, <1>8, <1>9

\* The transmitter is an owner of its client as TcpClientLoop has one.
THEOREM Owner == Spec => OwnsTcpClient
<1>1. Loop!Init <=> Client!Init
  BY DEF Loop!Init, Client!Init, Loop!NewClient, Client!NewClient, Loop!IoKinds, Client!IoKinds
<1>2. [Loop!Next]_(Loop!vars) <=> OwnerStep
  BY SameActions, SameHandlers, Zenon
     DEF OwnerStep, Loop!Next, Client!Next, Loop!vars, Client!vars, Loop!IoKinds, Client!IoKinds
<1> QED
  BY Owns, <1>1, <1>2, PTL DEF OwnsTcpClient, Loop!Spec, Client!Spec, OwnerStep

\* Where the loop of handleTcpClientReceivedData is when n pieces have been read:
\* it has broken off or returned, and unless access is denied nothing that it
\* could parse is in the buffer.
LoopLeft(n) ==
    LET p == Parse(buffer \o SubSeq(server.incoming, 1, n))
    IN  /\ ~p.goOn
        /\ ~p.denied => NothingLeft(p.buffer, p.authorized)

\* The while (true) of handleTcpClientReceivedData does not spin: whatever part
\* of the stream is read next, it leaves itself within the turns that Parse
\* gives it, and only where nothing can be parsed or access is denied.
THEOREM ParserLeavesItsLoop == Spec => [](\A n \in 1 .. Len(server.incoming) : LoopLeft(n))
<1>1. ASSUME IInv, NEW n \in 1 .. Len(server.incoming)
      PROVE  LoopLeft(n)
  <2> DEFINE pieces == buffer \o SubSeq(server.incoming, 1, n)
             r == Drop(server.incoming, n)
             p == Parse(pieces)
  <2>1. /\ pieces \in Seq(Pieces) /\ r \in Seq(Pieces) /\ pieces \o r = Stream
        /\ authorized \in BOOLEAN /\ timer \in Timers /\ server.granted \in BOOLEAN
    BY <1>1, StreamRead, ServerTyped DEF IInv, Rest, Types, Servers
  <2>2. WellFormed(pieces \o r, server.granted, authorized)
    BY <1>1, <2>1, Zenon DEF IInv, Rest
  <2> HIDE DEF pieces, r
  <2>3. Gone(p, pieces, Len(pieces) + 1, r, server.granted) /\ ~p.goOn
    BY <2>1, <2>2, ParseGoes
  <2> HIDE DEF p
  <2>4. ~p.denied => NothingLeft(p.buffer, p.authorized)
    BY <2>3 DEF Gone
  <2> QED
    BY <2>3, <2>4, Zenon DEF LoopLeft, p, pieces
<1>2. IInv => \A n \in 1 .. Len(server.incoming) : LoopLeft(n)
  BY <1>1
<1> QED
  BY Invariance, <1>2, PTL

\* What the transmitter's handler functions are told obeys TcpClientHandler's
\* contract: the two modules' theorems, composed.
THEOREM HandlerSeesContract == Spec => Client!KeepsContract
<1>1. Client!IInv /\ OwnerStep
        => [Client!Contract!Next]_(Client!Contract!viewVars)
  BY Client!StepKeeps DEF OwnerStep, Requests, Client!ContractStep
<1>2. Client!Init => Client!Contract!Init
  BY Client!InitGood DEF Requests
<1> QED
  BY Owns, <1>1, <1>2, PTL DEF Client!Spec, OwnerStep, Client!KeepsContract, Client!Contract!Spec

\* What the transmitter sends on a connection, the login, heartbeats and the
\* data of the device, reaches the system once and in order.
THEOREM SendsInOrder == Spec => Client!WritesInOrder
<1>1. Client!IInv /\ OwnerStep => Client!InOrder(client, client')
  BY Client!StepInOrder DEF OwnerStep, Requests
<1>2. Client!InOrder(client, client') =>
        \/ client'.writeBuffer = client.writeBuffer
        \/ \E m \in Requests : client'.writeBuffer = Append(client.writeBuffer, m)
        \/ /\ client.io["write"] = "ok" /\ client'.io["write"] # "ok"
           /\ client.writeBuffer # << >> /\ client'.writeBuffer = Tail(client.writeBuffer)
        \/ /\ client'.status = "Disconnected" /\ client'.io["write"] = "idle"
           /\ client'.writeBuffer = << >>
  BY DEF Client!InOrder, Client!Queued
<1> QED
  BY Owns, <1>1, <1>2, PTL DEF Client!Spec, OwnerStep, Client!WritesInOrder
=============================================================================
