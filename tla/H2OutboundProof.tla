-------------------------- MODULE H2OutboundProof ---------------------------
(***************************************************************************)
(* Proofs about the output of an HTTP/2 connection, for every modulus,     *)
(* limit and length.  Woven is the wire order that ring and ledger stand   *)
(* for; its lemmas say what it becomes when the ring grows, is cut, or the *)
(* ledger gains, loses its front or is sifted.                             *)
(***************************************************************************)
EXTENDS H2Outbound, QueuesProof

Unit == [id : Nat, pos : Nat]

Positions == 0 .. Modulus - 1

Record == [id : Nat, owner : Nat, mark : Positions, head : Nat, n : Nat \ {0}]

\* How far the mark of a retained frame is from h.
Ahead(p, h) == Distance(p.mark, h)

Ordered(q, h) == \A i, j \in 1 .. Len(q) : i <= j => Ahead(q[i], h) <= Ahead(q[j], h)

\* The marks of q run forward through the first m bytes of r.
Placed(r, h, q, m) ==
    /\ r \in Seq(Unit) /\ h \in Positions /\ q \in Seq(Record)
    /\ m \in Nat /\ m <= Len(r)
    /\ Ordered(q, h)
    /\ \A p \in Elements(q) : Ahead(p, h) <= m

\* A frame has one id, wherever it waits.
OwnIds(r, q, n) ==
    /\ \A u \in Elements(r) : u.id <= n
    /\ \A p \in Elements(q) : p.id <= n /\ p.id > 0
    /\ \A u \in Elements(r), p \in Elements(q) : u.id # p.id
    /\ \A p, s \in Elements(q) : p.id = s.id => p = s

Storage == Limit + ResetSlack + (IF terminal = "used" THEN TerminalSlack ELSE 0)

\* The inductive invariant.
IInv ==
    /\ ring \in Seq(Unit) /\ ledger \in Seq(Record) /\ Distinct(ledger)
    /\ head \in Positions /\ bytes \in Nat /\ frames \in Nat
    /\ terminal \in {"free", "used"}
    /\ Len(ledger) <= Payloads
    /\ Len(ring) + bytes <= Storage
    /\ bytes = Amount(ledger, Record)
    /\ Placed(ring, head, ledger, Len(ring))
    /\ OwnIds(ring, ledger, frames)

-----------------------------------------------------------------------------
(* Positions wrap. *)

\* What the assumption says, one by one.
LEMMA Constants ==
    /\ MaxFrames \in Nat \ {0} /\ HeadLen \in Nat \ {0} /\ Limit \in Nat \ {0}
    /\ ResetSlack \in Nat \ {0} /\ TerminalSlack \in Nat \ {0} /\ Payloads \in Nat \ {0}
    /\ Modulus \in Nat /\ Modulus > Limit + ResetSlack + TerminalSlack
    /\ \A x \in Lens : x \in Nat \ {0}
    /\ \A x \in Bodies : x \in Nat
    /\ \A x \in Rooms : x \in Nat
    /\ \A x \in Owners : x \in Nat \ {0}
  BY OutboundAssumption

\* The remainder of what is below twice the modulus.
LEMMA Wrap ==
    ASSUME NEW M \in Nat, M > 0, NEW x \in Nat, x < 2 * M
    PROVE  x % M = IF x < M THEN x ELSE x - M
<1>1. CASE x < M
  BY <1>1
<1>2. CASE x >= M
  BY <1>2
<1> QED BY <1>1, <1>2

\* A position n on from another is n ahead of it, unless the ring is longer than the modulus.
LEMMA AfterFact ==
    ASSUME NEW h \in Positions, NEW n \in Nat, n < Modulus
    PROVE  After(h, n) \in Positions /\ Distance(After(h, n), h) = n
<1>1. Modulus \in Nat /\ Modulus > 0 /\ h \in Nat /\ h < Modulus /\ h + n \in Nat /\ h + n < 2 * Modulus
  BY Constants DEF Positions
<1>2. After(h, n) = IF h + n < Modulus THEN h + n ELSE h + n - Modulus
  BY <1>1, Wrap DEF After
<1> DEFINE a == After(h, n)
           x == a + Modulus - h
<1>3. a \in Positions /\ a \in Nat /\ x \in Nat /\ x < 2 * Modulus
  BY <1>1, <1>2 DEF Positions
<1>4. x % Modulus = IF x < Modulus THEN x ELSE x - Modulus
  <2> HIDE DEF x, a
  <2> QED BY <1>1, <1>3, Wrap
<1>5. x % Modulus = n
  <2>1. CASE h + n < Modulus
    <3>1. a = h + n /\ x = n + Modulus
      BY <2>1, <1>1, <1>2
    <3> QED BY <3>1, <1>1, <1>4
  <2>2. CASE h + n >= Modulus
    <3>1. a = h + n - Modulus /\ x = n
      BY <2>2, <1>1, <1>2
    <3> QED BY <3>1, <1>1, <1>4
  <2> QED BY <2>1, <2>2, <1>1
<1> QED BY <1>3, <1>5 DEF Distance

\* A distance is below the modulus, and how it is found.
LEMMA DistanceFact ==
    ASSUME NEW m \in Positions, NEW h \in Positions
    PROVE  /\ Distance(m, h) \in Nat /\ Distance(m, h) < Modulus
           /\ Distance(m, h) = IF m < h THEN m + Modulus - h ELSE m - h
<1> DEFINE x == m + Modulus - h
<1>1. Modulus \in Nat /\ Modulus > 0 /\ h \in Nat /\ h < Modulus /\ m \in Nat /\ m < Modulus /\ x \in Nat /\ x < 2 * Modulus
  BY Constants DEF Positions
<1>2. x % Modulus = IF x < Modulus THEN x ELSE x - Modulus
  <2> HIDE DEF x
  <2> QED BY <1>1, Wrap
<1> QED BY <1>1, <1>2 DEF Distance

\* Moving on by n brings every mark n closer that is at least n ahead.
LEMMA Closer ==
    ASSUME NEW m \in Positions, NEW h \in Positions, NEW n \in Nat, n <= Distance(m, h)
    PROVE  /\ After(h, n) \in Positions
           /\ Distance(m, After(h, n)) = Distance(m, h) - n
<1>1. /\ Distance(m, h) \in Nat /\ Distance(m, h) < Modulus
      /\ Distance(m, h) = IF m < h THEN m + Modulus - h ELSE m - h
  BY DistanceFact
<1>2. Modulus \in Nat /\ Modulus > 0 /\ h \in Nat /\ h < Modulus /\ m \in Nat /\ m < Modulus
      /\ n < Modulus /\ h + n \in Nat /\ h + n < 2 * Modulus
  BY <1>1, Constants DEF Positions
<1> DEFINE a == After(h, n)
<1>3. a = IF h + n < Modulus THEN h + n ELSE h + n - Modulus
  BY <1>2, Wrap DEF After
<1>4. a \in Positions
  BY <1>2, AfterFact
<1> HIDE DEF a
<1>5. Distance(m, a) = IF m < a THEN m + Modulus - a ELSE m - a
  BY <1>4, DistanceFact
<1>6. Distance(m, a) = Distance(m, h) - n
  BY <1>1, <1>2, <1>3, <1>5
<1> QED BY <1>4, <1>6 DEF a
-----------------------------------------------------------------------------
(* Marks that run forward. *)

\* Every record has a distance.
LEMMA AheadFact ==
    ASSUME NEW p \in Record, NEW h \in Positions
    PROVE  p.mark \in Positions /\ Ahead(p, h) \in Nat /\ Ahead(p, h) < Modulus
<1>1. p.mark \in Positions
  BY DEF Record
<1> QED BY <1>1, DistanceFact DEF Ahead

\* A record behind the others.
LEMMA PlacedAppend ==
    ASSUME NEW r \in Seq(Unit), NEW h \in Positions, NEW q \in Seq(Record), NEW e \in Record,
           NEW m \in Nat, m <= Len(r)
    PROVE  Placed(r, h, Append(q, e), m) <=> Placed(r, h, q, Ahead(e, h)) /\ Ahead(e, h) <= m
<1> DEFINE s == Append(q, e)
           n == Len(q)
           d == Ahead(e, h)
<1>1. /\ s \in Seq(Record) /\ Len(s) = n + 1 /\ n \in Nat /\ n = Len(q) /\ s[n + 1] = e
      /\ \A i \in 1 .. n : s[i] = q[i] /\ q[i] \in Record
  OBVIOUS
<1>2. Elements(s) = Elements(q) \cup {e}
  BY AppendFact
<1>3. d \in Nat /\ Len(r) \in Nat
  BY AheadFact
<1>4. \A i \in 1 .. n : q[i] \in Elements(q) /\ Ahead(q[i], h) \in Nat
  BY <1>1, AheadFact DEF Elements
<1>5. \A p \in Elements(q) : p \in Record /\ Ahead(p, h) \in Nat /\ \E i \in 1 .. n : p = q[i]
  BY <1>1, <1>4 DEF Elements
<1> HIDE DEF s, n, d
<1>6. ASSUME Placed(r, h, s, m) PROVE Placed(r, h, q, d) /\ d <= m
  <2>1. d <= m
    BY <1>6, <1>2 DEF Placed, d
  <2>2. Ordered(q, h)
    <3> SUFFICES ASSUME NEW i \in 1 .. n, NEW j \in 1 .. n, i <= j PROVE Ahead(q[i], h) <= Ahead(q[j], h)
      BY <1>1 DEF Ordered
    <3>1. i \in 1 .. Len(s) /\ j \in 1 .. Len(s) /\ s[i] = q[i] /\ s[j] = q[j]
      BY <1>1
    <3> QED BY <3>1, <1>6 DEF Placed, Ordered
  <2>3. ASSUME NEW p \in Elements(q) PROVE Ahead(p, h) <= d
    <3>1. PICK i \in 1 .. n : p = q[i]
      BY <1>5
    <3>2. i \in 1 .. Len(s) /\ n + 1 \in 1 .. Len(s) /\ i <= n + 1 /\ s[i] = p /\ s[n + 1] = e
      BY <3>1, <1>1
    <3> QED BY <3>2, <1>6 DEF Placed, Ordered, d
  <2> QED BY <1>3, <2>1, <2>2, <2>3 DEF Placed
<1>7. ASSUME Placed(r, h, q, d), d <= m PROVE Placed(r, h, s, m)
  <2>1. ASSUME NEW i \in 1 .. n + 1, NEW j \in 1 .. n + 1, i <= j PROVE Ahead(s[i], h) <= Ahead(s[j], h)
    <3>1. CASE j <= n
      <4>1. i \in 1 .. n /\ j \in 1 .. n /\ s[i] = q[i] /\ s[j] = q[j]
        BY <3>1, <2>1, <1>1
      <4> QED BY <4>1, <1>1, <1>7, <2>1 DEF Placed, Ordered
    <3>2. CASE j = n + 1 /\ i <= n
      <4>1. i \in 1 .. n /\ s[i] = q[i] /\ s[j] = e /\ q[i] \in Elements(q)
        BY <3>2, <1>1, <1>4
      <4>2. Ahead(q[i], h) <= d
        BY <4>1, <1>7 DEF Placed
      <4> QED BY <4>1, <4>2 DEF d
    <3>3. CASE j = n + 1 /\ i = n + 1
      BY <3>3, <1>1, <1>3 DEF d
    <3> QED BY <3>1, <3>2, <3>3, <2>1, <1>1
  <2>2. Ordered(s, h)
    BY <2>1, <1>1 DEF Ordered
  <2>3. ASSUME NEW p \in Elements(s) PROVE Ahead(p, h) <= m
    <3>1. CASE p = e
      BY <3>1, <1>7 DEF d
    <3>2. CASE p \in Elements(q)
      <4>1. Ahead(p, h) <= d /\ Ahead(p, h) \in Nat
        BY <3>2, <1>5, <1>7 DEF Placed
      <4> QED BY <4>1, <1>3, <1>7
    <3> QED BY <3>1, <3>2, <1>2
  <2> QED BY <1>1, <2>2, <2>3 DEF Placed
<1> QED BY <1>6, <1>7 DEF s, d

\* More of the ring.
LEMMA PlacedMore ==
    ASSUME NEW r, NEW h, NEW q, NEW m, Placed(r, h, q, m),
           NEW s \in Seq(Unit), NEW k \in Nat, m <= k, k <= Len(s)
    PROVE  Placed(s, h, q, k)
<1>1. ASSUME NEW p \in Elements(q) PROVE Ahead(p, h) <= k
  <2>1. p \in Record /\ h \in Positions /\ m \in Nat /\ Ahead(p, h) <= m
    BY DEF Placed, Elements
  <2>2. Ahead(p, h) \in Nat
    BY <2>1, AheadFact
  <2> QED BY <2>1, <2>2
<1> QED BY <1>1 DEF Placed

\* Without its front; the others are no closer than the front was.
LEMMA PlacedTail ==
    ASSUME NEW r, NEW h, NEW q, NEW m, Placed(r, h, q, m), q # <<>>
    PROVE  /\ Placed(r, h, Tail(q), m)
           /\ \A p \in Elements(q) : Ahead(q[1], h) <= Ahead(p, h)
<1>1. q \in Seq(Record) /\ Len(q) \in Nat /\ Len(q) > 0
  BY DEF Placed
<1>2. /\ Tail(q) \in Seq(Record) /\ Len(Tail(q)) = Len(q) - 1
      /\ \A i \in 1 .. Len(q) - 1 : Tail(q)[i] = q[i + 1]
  BY <1>1, TailFact
<1> DEFINE t == Tail(q)
<1> HIDE DEF t
<1>3. \A i \in 1 .. Len(t) : i + 1 \in 1 .. Len(q) /\ t[i] = q[i + 1]
  BY <1>1, <1>2 DEF t
<1>4. Ordered(t, h)
  <2> SUFFICES ASSUME NEW i \in 1 .. Len(t), NEW j \in 1 .. Len(t), i <= j
               PROVE  Ahead(t[i], h) <= Ahead(t[j], h)
    BY DEF Ordered
  <2>1. i + 1 \in 1 .. Len(q) /\ j + 1 \in 1 .. Len(q) /\ i + 1 <= j + 1 /\ t[i] = q[i + 1] /\ t[j] = q[j + 1]
    BY <1>3
  <2> QED BY <2>1 DEF Placed, Ordered
<1>5. ASSUME NEW p \in Elements(t) PROVE p \in Elements(q)
  <2>1. Elements(q) = Elements(Tail(q)) \cup {Head(q)}
    BY <1>1, TailElements
  <2> QED BY <2>1 DEF t
<1>6. ASSUME NEW p \in Elements(q) PROVE Ahead(q[1], h) <= Ahead(p, h)
  <2>1. PICK i \in 1 .. Len(q) : p = q[i]
    BY <1>1 DEF Elements
  <2>2. 1 \in 1 .. Len(q) /\ 1 <= i
    BY <1>1
  <2> QED BY <2>1, <2>2 DEF Placed, Ordered
<1>7. Placed(r, h, t, m)
  BY <1>2, <1>4, <1>5 DEF Placed, t
<1> QED BY <1>6, <1>7 DEF t

\* Without some of them.
LEMMA PlacedDrop ==
    ASSUME NEW r \in Seq(Unit), NEW h \in Positions, NEW q \in Seq(Record), NEW m \in Nat, NEW D,
           Placed(r, h, q, m)
    PROVE  Placed(r, h, Drop(q, D), m)
<1> DEFINE S == {s \in Seq(Record) : \A k \in Nat : Placed(r, h, s, k) => Placed(r, h, Drop(s, D), k)}
<1>1. <<>> \in S
  BY DropEmpty
<1>2. ASSUME NEW s \in S, NEW e \in Record PROVE Append(s, e) \in S
  <2>1. s \in Seq(Record) /\ Append(s, e) \in Seq(Record) /\ Drop(s, D) \in Seq(Record)
    BY DropFact
  <2>2. Drop(Append(s, e), D) = IF e \in D THEN Drop(s, D) ELSE Append(Drop(s, D), e)
    BY <2>1, DropAppend
  <2>3. ASSUME NEW k \in Nat, Placed(r, h, Append(s, e), k) PROVE Placed(r, h, Drop(Append(s, e), D), k)
    <3> DEFINE d == Ahead(e, h)
               t == Drop(s, D)
    <3>1. k <= Len(r) /\ d \in Nat
      BY <2>3, AheadFact DEF Placed
    <3>2. Placed(r, h, s, d) /\ d <= k
      BY <3>1, <2>1, <2>3, PlacedAppend
    <3>3. Placed(r, h, t, d)
      BY <3>1, <3>2
    <3> HIDE DEF t
    <3>4. CASE e \in D
      <4>1. Placed(r, h, t, k)
        BY <3>1, <3>2, <3>3, PlacedMore
      <4> QED BY <3>4, <4>1, <2>2 DEF t
    <3>5. CASE e \notin D
      <4>1. t \in Seq(Record)
        BY <2>1 DEF t
      <4>2. Placed(r, h, Append(t, e), k)
        BY <4>1, <3>1, <3>2, <3>3, PlacedAppend
      <4> QED BY <3>5, <4>2, <2>2 DEF t
    <3> QED BY <3>4, <3>5
  <2> QED BY <2>1, <2>3
<1>3. S = Seq(Record)
  <2> HIDE DEF S
  <2>1. S \in SUBSET Seq(Record)
    BY DEF S
  <2> QED BY <1>1, <1>2, <2>1, QueueInduct
<1> HIDE DEF S
<1>4. q \in S
  BY <1>3
<1> QED BY <1>4 DEF S

Nearer(q, h, k) == \A p \in Elements(q) : Ahead(p, After(h, k)) = Ahead(p, h) - k

\* When the first k bytes have left, and no mark was among them.
LEMMA PlacedCut ==
    ASSUME NEW r, NEW h, NEW q, NEW m, Placed(r, h, q, m), NEW k \in Nat, k <= m, k < Modulus,
           \A p \in Elements(q) : k <= Ahead(p, h),
           NEW s \in Seq(Unit), Len(s) = Len(r) - k
    PROVE  /\ Placed(s, After(h, k), q, m - k)
           /\ Nearer(q, h, k)
<1>1. /\ r \in Seq(Unit) /\ h \in Positions /\ q \in Seq(Record) /\ m \in Nat /\ m <= Len(r)
      /\ Len(r) \in Nat /\ Len(q) \in Nat
  BY DEF Placed
<1> DEFINE a == After(h, k)
<1>2. a \in Positions
  BY <1>1, AfterFact
<1>3. ASSUME NEW p \in Elements(q)
      PROVE  Ahead(p, a) = Ahead(p, h) - k /\ Ahead(p, h) \in Nat /\ Ahead(p, h) <= m
  <2>1. p \in Record
    BY <1>1 DEF Elements
  <2>2. p.mark \in Positions /\ Ahead(p, h) \in Nat
    BY <1>1, <2>1, AheadFact
  <2>3. k <= Distance(p.mark, h)
    BY DEF Ahead
  <2>4. Distance(p.mark, a) = Distance(p.mark, h) - k
    BY <1>1, <2>2, <2>3, Closer
  <2>5. Ahead(p, h) <= m
    BY DEF Placed
  <2> QED BY <2>2, <2>4, <2>5 DEF Ahead
<1> HIDE DEF a
<1>4. Ordered(q, a)
  <2> SUFFICES ASSUME NEW i \in 1 .. Len(q), NEW j \in 1 .. Len(q), i <= j
               PROVE  Ahead(q[i], a) <= Ahead(q[j], a)
    BY DEF Ordered
  <2>1. q[i] \in Elements(q) /\ q[j] \in Elements(q)
    BY <1>1 DEF Elements
  <2>2. Ahead(q[i], h) <= Ahead(q[j], h)
    BY DEF Placed, Ordered
  <2> QED BY <2>1, <2>2, <1>3
<1>5. m - k \in Nat /\ m - k <= Len(s)
  BY <1>1
<1>6. ASSUME NEW p \in Elements(q) PROVE Ahead(p, a) <= m - k
  <2>1. Ahead(p, a) = Ahead(p, h) - k /\ Ahead(p, h) \in Nat /\ Ahead(p, h) <= m
    BY <1>3
  <2> QED BY <2>1, <1>1
<1>7. Placed(s, a, q, m - k)
  BY <1>1, <1>2, <1>4, <1>5, <1>6 DEF Placed
<1> QED BY <1>3, <1>7 DEF a, Nearer
-----------------------------------------------------------------------------
(* The wire order. *)

\* A frame as units.
LEMMA UnitsFact ==
    ASSUME NEW id \in Nat, NEW n \in Nat
    PROVE  /\ Units(id, n) \in Seq(Unit) /\ Len(Units(id, n)) = n
           /\ \A i \in 1 .. n : Units(id, n)[i] = [id |-> id, pos |-> i]
           /\ \A u \in Elements(Units(id, n)) : u.id = id
           /\ n > 0 => [id |-> id, pos |-> 1] \in Elements(Units(id, n))
<1> DEFINE w == [i \in 1 .. n |-> [id |-> id, pos |-> i]]
<1>1. \A i \in 1 .. n : [id |-> id, pos |-> i] \in Unit
  BY DEF Unit
<1>2. w \in Seq(Unit) /\ Len(w) = n /\ DOMAIN w = 1 .. n
  BY <1>1
<1>3. \A i \in 1 .. n : w[i] = [id |-> id, pos |-> i]
  OBVIOUS
<1>4. Units(id, n) = w
  BY DEF Units
<1> HIDE DEF w
<1>5. \A u \in Elements(w) : u.id = id
  BY <1>2, <1>3 DEF Elements
<1>6. n > 0 => [id |-> id, pos |-> 1] \in Elements(w)
  BY <1>2, <1>3 DEF Elements
<1> QED BY <1>2, <1>3, <1>4, <1>5, <1>6

\* What record i of q adds.
Piece(r, h, q, i) == SubSeq(r, Place(q, h, i - 1) + 1, Place(q, h, i)) \o Units(q[i].id, q[i].n)

\* Places are within the ring.
LEMMA PlaceFact ==
    ASSUME NEW r, NEW h, NEW q, NEW m, Placed(r, h, q, m)
    PROVE  /\ \A i \in 0 .. Len(q) : Place(q, h, i) \in Nat /\ Place(q, h, i) <= m
           /\ \A i \in 1 .. Len(q) : Place(q, h, i - 1) <= Place(q, h, i) /\ Place(q, h, i) = Ahead(q[i], h)
<1>1. /\ r \in Seq(Unit) /\ h \in Positions /\ q \in Seq(Record) /\ m \in Nat /\ m <= Len(r)
      /\ Len(r) \in Nat /\ Len(q) \in Nat
  BY DEF Placed
<1>2. ASSUME NEW i \in 1 .. Len(q)
      PROVE  /\ Place(q, h, i) = Ahead(q[i], h) /\ Ahead(q[i], h) \in Nat /\ Ahead(q[i], h) <= m
             /\ i - 1 \in 0 .. Len(q)
  <2>1. q[i] \in Record /\ q[i] \in Elements(q)
    BY <1>1 DEF Elements
  <2>2. Ahead(q[i], h) \in Nat
    BY <1>1, <2>1, AheadFact
  <2>3. Ahead(q[i], h) <= m
    BY <2>1 DEF Placed
  <2>4. Place(q, h, i) = Ahead(q[i], h)
    BY DEF Place, Ahead
  <2> QED BY <1>1, <2>2, <2>3, <2>4
<1>3. Place(q, h, 0) = 0
  BY DEF Place
<1>4. ASSUME NEW i \in 0 .. Len(q) PROVE Place(q, h, i) \in Nat /\ Place(q, h, i) <= m
  <2>1. CASE i = 0
    BY <2>1, <1>1, <1>3
  <2>2. CASE i # 0
    <3>1. i \in 1 .. Len(q)
      BY <2>2, <1>1
    <3> QED BY <3>1, <1>2
  <2> QED BY <2>1, <2>2
<1>5. ASSUME NEW i \in 1 .. Len(q) PROVE Place(q, h, i - 1) <= Place(q, h, i)
  <2>1. CASE i = 1
    <3>1. i - 1 = 0
      BY <2>1
    <3> QED BY <3>1, <1>2, <1>3
  <2>2. CASE i # 1
    <3> DEFINE j == i - 1
    <3>1. j \in 1 .. Len(q) /\ j <= i
      BY <2>2, <1>1
    <3> HIDE DEF j
    <3>2. Place(q, h, j) = Ahead(q[j], h) /\ Place(q, h, i) = Ahead(q[i], h)
      BY <3>1, <1>2
    <3>3. Ahead(q[j], h) <= Ahead(q[i], h)
      BY <3>1 DEF Placed, Ordered
    <3> QED BY <3>2, <3>3 DEF j
  <2> QED BY <2>1, <2>2
<1> QED BY <1>2, <1>4, <1>5

\* A piece is a sequence of units.
LEMMA PieceFact ==
    ASSUME NEW r, NEW h, NEW q, NEW m, Placed(r, h, q, m)
    PROVE  /\ \A i \in 1 .. Len(q) : Piece(r, h, q, i) \in Seq(Unit)
           /\ SubSeq(r, Place(q, h, Len(q)) + 1, m) \in Seq(Unit)
<1>1. /\ r \in Seq(Unit) /\ h \in Positions /\ q \in Seq(Record) /\ m \in Nat /\ m <= Len(r)
      /\ Len(r) \in Nat /\ Len(q) \in Nat
  BY DEF Placed
<1>2. ASSUME NEW i \in 1 .. Len(q) PROVE Piece(r, h, q, i) \in Seq(Unit)
  <2> DEFINE x == Place(q, h, i - 1)
             y == Place(q, h, i)
             u == Units(q[i].id, q[i].n)
             v == SubSeq(r, x + 1, y)
  <2>1. i - 1 \in 0 .. Len(q) /\ i \in 0 .. Len(q)
    BY <1>1
  <2>2. x \in Nat /\ y \in Nat /\ x <= y /\ y <= Len(r)
    BY <2>1, <1>1, PlaceFact
  <2>3. q[i] \in Record
    BY <1>1
  <2>4. q[i].id \in Nat /\ q[i].n \in Nat
    BY <2>3 DEF Record
  <2>5. u \in Seq(Unit)
    BY <2>4, UnitsFact
  <2> HIDE DEF x, y, u
  <2>6. v \in Seq(Unit)
    BY <1>1, <2>2, SpanFact
  <2> HIDE DEF v
  <2>7. v \o u \in Seq(Unit)
    BY <2>5, <2>6, CatFact
  <2> QED BY <2>7 DEF Piece, x, y, u, v
<1>3. SubSeq(r, Place(q, h, Len(q)) + 1, m) \in Seq(Unit)
  <2> DEFINE x == Place(q, h, Len(q))
  <2>1. Len(q) \in 0 .. Len(q)
    BY <1>1
  <2>2. x \in Nat /\ x <= m
    BY <2>1, PlaceFact
  <2> HIDE DEF x
  <2>3. SubSeq(r, x + 1, m) \in Seq(Unit)
    BY <1>1, <2>2, SpanFact
  <2> QED BY <2>3 DEF x
<1> QED BY <1>2, <1>3

WovenRun(r, h, q, g) ==
    /\ g \in [0 .. Len(q) -> Seq(Unit)]
    /\ g[0] = <<>>
    /\ \A i \in 1 .. Len(q) : g[i] = g[i - 1] \o Piece(r, h, q, i)

\* The recursion of Woven.
LEMMA WovenFact ==
    ASSUME NEW r, NEW h, NEW q, NEW m, Placed(r, h, q, m)
    PROVE  \E g : WovenRun(r, h, q, g) /\ Woven(r, h, q, m) = g[Len(q)] \o SubSeq(r, Place(q, h, Len(q)) + 1, m)
<1> DEFINE n == Len(q)
           V == Seq(Unit)
           z == <<>>
           piece(i) == Piece(r, h, q, i)
           step == [p \in (1 .. n) \X V |-> p[2] \o piece(p[1])]
           Is(g) == g = [i \in 0 .. n |-> IF i = 0 THEN <<>> ELSE g[i - 1] \o piece(i)]
           f == CHOOSE g : Is(g)
<1>1. n \in Nat /\ \A i \in 1 .. n : piece(i) \in V
  <2>1. q \in Seq(Record)
    BY DEF Placed
  <2> QED BY <2>1, PieceFact
<1>2. step \in Steps(n, V)
  <2> HIDE DEF piece, n
  <2>1. ASSUME NEW p \in (1 .. n) \X V PROVE p[2] \o piece(p[1]) \in V
    <3>1. p[1] \in 1 .. n /\ p[2] \in Seq(Unit) /\ piece(p[1]) \in Seq(Unit)
      BY <1>1
    <3> QED BY <3>1, CatFact
  <2> HIDE DEF V
  <2> QED BY <2>1 DEF Steps
<1>3. z \in V
  OBVIOUS
<1>4. PICK g \in [0 .. n -> V] : RunsFrom(n, z, step, g)
  <2> HIDE DEF n, V, z, step, Is, f, piece
  <2> QED BY <1>1, <1>2, <1>3, RunExists, Zenon
<1>5. ASSUME NEW i \in 1 .. n PROVE g[i] = g[i - 1] \o piece(i)
  <2> HIDE DEF piece, V, n
  <2>1. i - 1 \in 0 .. n
    BY <1>1
  <2>2. <<i, g[i - 1]>> \in (1 .. n) \X V
    BY <1>4, <2>1
  <2>3. step[<<i, g[i - 1]>>] = g[i - 1] \o piece(i)
    BY <2>2
  <2> QED BY <1>4, <2>3 DEF RunsFrom
<1>6. g[0] = <<>>
  BY <1>4 DEF RunsFrom
<1>7. Is(g)
  <2> HIDE DEF V, piece, n
  <2>1. ASSUME NEW i \in 0 .. n PROVE g[i] = IF i = 0 THEN <<>> ELSE g[i - 1] \o piece(i)
    BY <1>1, <1>5, <1>6
  <2> QED BY <1>4, <2>1
<1>8. Is(f)
  BY <1>7
<1>9. f[0] = <<>> /\ \A i \in 1 .. n : f[i] = f[i - 1] \o piece(i)
  <2> DEFINE rule(i) == IF i = 0 THEN <<>> ELSE f[i - 1] \o piece(i)
  <2> HIDE DEF f, piece, n
  <2>1. f = [i \in 0 .. n |-> rule(i)]
    BY <1>8
  <2> HIDE DEF rule
  <2>2. \A i \in 0 .. n : f[i] = rule(i)
    BY <2>1
  <2>3. 0 \in 0 .. n /\ rule(0) = <<>>
    BY <1>1 DEF rule
  <2>4. \A i \in 1 .. n : i \in 0 .. n /\ rule(i) = f[i - 1] \o piece(i)
    BY <1>1 DEF rule
  <2> QED BY <2>2, <2>3, <2>4
<1>10. f \in [0 .. n -> V]
  <2> DEFINE S == {i \in Nat : i <= n => f[i] \in V}
  <2>1. 0 \in S
    <3> HIDE DEF f, n, V
    <3>1. f[0] \in V
      BY <1>3, <1>9
    <3> QED BY <3>1
  <2>2. ASSUME NEW i \in S PROVE i + 1 \in S
    <3>1. i \in Nat
      OBVIOUS
    <3>2. ASSUME i + 1 <= n PROVE f[i + 1] \in V
      <4> DEFINE j == i + 1
      <4>1. j \in 1 .. n /\ i <= n /\ j - 1 = i
        BY <3>1, <3>2, <1>1
      <4>2. f[i] \in V
        BY <4>1
      <4> HIDE DEF f, piece, j, n
      <4>3. f[j] = f[i] \o piece(j) /\ piece(j) \in V
        BY <4>1, <1>1, <1>9
      <4>4. f[i] \o piece(j) \in V
        BY <4>2, <4>3, CatFact
      <4> QED BY <4>3, <4>4 DEF j
    <3> HIDE DEF f, V, n
    <3> QED BY <3>1, <3>2
  <2>3. S = Nat
    <3> HIDE DEF S
    <3>1. S \in SUBSET Nat
      BY DEF S
    <3> QED BY <2>1, <2>2, <3>1, NatInduct
  <2> HIDE DEF f, V, n
  <2>4. \A i \in 0 .. n : f[i] \in V
    BY <2>3, <1>1
  <2>5. DOMAIN f = 0 .. n
    BY <1>8
  <2>6. f = [i \in 0 .. n |-> f[i]]
    BY <1>8
  <2> QED BY <2>4, <2>6
<1>11. Woven(r, h, q, m) = f[n] \o SubSeq(r, Place(q, h, n) + 1, m)
  BY DEF Woven, Piece
<1>12. WovenRun(r, h, q, f)
  <2> HIDE DEF f
  <2> QED BY <1>9, <1>10 DEF WovenRun
<1> HIDE DEF f
<1> QED BY <1>11, <1>12

\* Without retained frames it is the ring.
LEMMA WovenEmpty ==
    ASSUME NEW r \in Seq(Unit), NEW h \in Positions, NEW m \in Nat, m <= Len(r)
    PROVE  Woven(r, h, <<>>, m) = SubSeq(r, 1, m)
<1> DEFINE q == <<>>
           o == 0
<1>1. q \in Seq(Record) /\ Len(q) = 0 /\ Elements(q) = {}
  BY DEF Elements
<1>2. Placed(r, h, q, m)
  BY <1>1 DEF Placed, Ordered
<1> HIDE DEF q
<1>3. PICK g : WovenRun(r, h, q, g) /\ Woven(r, h, q, m) = g[Len(q)] \o SubSeq(r, Place(q, h, Len(q)) + 1, m)
  BY <1>2, WovenFact
<1>4. g[Len(q)] = <<>> /\ Place(q, h, Len(q)) = o
  BY <1>1, <1>3 DEF WovenRun, Place
<1>5. o \in Nat /\ o <= m
  OBVIOUS
<1>6. o + 1 = 1
  OBVIOUS
<1> HIDE DEF o
<1>7. SubSeq(r, o + 1, m) \in Seq(Unit)
  BY <1>5, SpanFact
<1>8. Woven(r, h, q, m) = <<>> \o SubSeq(r, o + 1, m)
  BY <1>3, <1>4
<1>9. <<>> \o SubSeq(r, o + 1, m) = SubSeq(r, o + 1, m)
  BY <1>7, CatEmpty
<1> QED BY <1>6, <1>8, <1>9 DEF q

\* A frame retained last comes after what was there up to its mark.
LEMMA WovenAppend ==
    ASSUME NEW r \in Seq(Unit), NEW h \in Positions, NEW q \in Seq(Record), NEW e \in Record, NEW m \in Nat,
           Placed(r, h, Append(q, e), m)
    PROVE  /\ Woven(r, h, q, Ahead(e, h)) \in Seq(Unit)
           /\ SubSeq(r, Ahead(e, h) + 1, m) \in Seq(Unit)
           /\ Units(e.id, e.n) \in Seq(Unit)
           /\ Woven(r, h, Append(q, e), m) =
                 Woven(r, h, q, Ahead(e, h)) \o (Units(e.id, e.n) \o SubSeq(r, Ahead(e, h) + 1, m))
<1> DEFINE s == Append(q, e)
           n == Len(q)
           d == Ahead(e, h)
           k == n + 1
<1>1. /\ s \in Seq(Record) /\ Len(s) = k /\ n \in Nat /\ n = Len(q) /\ s[k] = e
      /\ \A i \in 1 .. n : s[i] = q[i] /\ q[i] \in Record
  OBVIOUS
<1>2. m <= Len(r) /\ Len(r) \in Nat /\ d \in Nat
  BY AheadFact DEF Placed
<1>3. Placed(r, h, q, d) /\ d <= m
  BY <1>2, PlacedAppend
<1>4. k \in Nat /\ k - 1 = n /\ k = n + 1
  BY <1>1
<1>5. Placed(r, h, s, m)
  OBVIOUS
<1> HIDE DEF s, n, k
<1>6. PICK f : WovenRun(r, h, q, f) /\ Woven(r, h, q, d) = f[n] \o SubSeq(r, Place(q, h, n) + 1, d)
  BY <1>3, WovenFact DEF n
<1>7. PICK g : WovenRun(r, h, s, g) /\ Woven(r, h, s, m) = g[k] \o SubSeq(r, Place(s, h, k) + 1, m)
  BY <1>1, <1>5, WovenFact
<1>8. ASSUME NEW i \in 0 .. n PROVE Place(s, h, i) = Place(q, h, i)
  <2>1. i = 0 \/ i \in 1 .. n
    BY <1>1
  <2> QED BY <2>1, <1>1 DEF Place
<1>9. ASSUME NEW i \in 1 .. n PROVE Piece(r, h, s, i) = Piece(r, h, q, i)
  <2>1. i - 1 \in 0 .. n /\ i \in 0 .. n
    BY <1>1
  <2>2. Place(s, h, i - 1) = Place(q, h, i - 1) /\ Place(s, h, i) = Place(q, h, i) /\ s[i] = q[i]
    BY <1>1, <1>8, <2>1
  <2> QED BY <2>2 DEF Piece
<1>10. g[n] = f[n]
  <2> DEFINE S == {i \in Nat : i <= n => g[i] = f[i]}
  <2>1. 0 \in S
    BY <1>6, <1>7 DEF WovenRun
  <2>2. ASSUME NEW i \in S PROVE i + 1 \in S
    <3>1. i \in Nat
      OBVIOUS
    <3>2. ASSUME i + 1 <= n PROVE g[i + 1] = f[i + 1]
      <4> DEFINE j == i + 1
      <4>1. j \in 1 .. n /\ j \in 1 .. Len(q) /\ j \in 1 .. Len(s) /\ i <= n /\ j - 1 = i
        BY <3>1, <3>2, <1>1, <1>4
      <4>2. g[i] = f[i]
        BY <4>1
      <4> HIDE DEF j
      <4>3. g[j] = g[j - 1] \o Piece(r, h, s, j) /\ f[j] = f[j - 1] \o Piece(r, h, q, j)
        BY <4>1, <1>6, <1>7 DEF WovenRun
      <4>4. g[j] = f[j]
        BY <4>1, <4>2, <4>3, <1>9
      <4> QED BY <4>4 DEF j
    <3> QED BY <3>1, <3>2
  <2>3. S = Nat
    <3> HIDE DEF S
    <3>1. S \in SUBSET Nat
      BY DEF S
    <3> QED BY <2>1, <2>2, <3>1, NatInduct
  <2> QED BY <2>3, <1>1
<1> DEFINE a == f[n]
           b == SubSeq(r, Place(q, h, n) + 1, d)
           u == Units(e.id, e.n)
           c == SubSeq(r, d + 1, m)
<1>11. Place(s, h, k) = d /\ Place(s, h, k - 1) = Place(q, h, n)
  <2>1. n \in 0 .. n
    BY <1>1
  <2>2. k # 0
    BY <1>1, <1>4
  <2>3. Place(s, h, k) = d
    BY <2>2, <1>1 DEF Place, Ahead, d
  <2> QED BY <2>1, <2>3, <1>4, <1>8
<1>12. g[k] = a \o (b \o u)
  <2>1. k \in 1 .. Len(s)
    BY <1>1, <1>4
  <2>2. g[k] = g[k - 1] \o Piece(r, h, s, k)
    BY <2>1, <1>7 DEF WovenRun
  <2>3. Piece(r, h, s, k) = b \o u
    BY <1>1, <1>11 DEF Piece
  <2> QED BY <2>2, <2>3, <1>4, <1>10
<1>13. a \in Seq(Unit) /\ b \in Seq(Unit)
  <2>1. n \in 0 .. Len(q)
    BY <1>1
  <2> QED BY <2>1, <1>1, <1>3, <1>6, PieceFact DEF WovenRun
<1>14. c \in Seq(Unit)
  <2> HIDE DEF d
  <2> QED BY <1>2, <1>3, SpanFact
<1>15. u \in Seq(Unit)
  <2>1. e.id \in Nat /\ e.n \in Nat
    BY DEF Record
  <2> QED BY <2>1, UnitsFact
<1>16. Woven(r, h, q, d) = a \o b /\ Woven(r, h, s, m) = (a \o (b \o u)) \o c
  BY <1>6, <1>7, <1>11, <1>12
<1> HIDE DEF a, b, c, u
<1>17. a \o b \in Seq(Unit) /\ b \o u \in Seq(Unit)
  BY <1>13, <1>15, CatFact
<1>18. (a \o (b \o u)) \o c = (a \o b) \o (u \o c)
  <2>1. a \o (b \o u) = (a \o b) \o u
    BY <1>13, <1>15, CatAssoc, SMTT(30)
  <2> DEFINE x == a \o b
  <2>2. x \in Seq(Unit)
    BY <1>17
  <2> HIDE DEF x
  <2>3. (x \o u) \o c = x \o (u \o c)
    BY <2>2, <1>14, <1>15, CatAssoc, SMTT(30)
  <2> QED BY <2>1, <2>3 DEF x
<1> QED BY <1>14, <1>15, <1>16, <1>17, <1>18 DEF s, u, c, d

\* It goes on as the ring does.
LEMMA WovenMore ==
    ASSUME NEW r \in Seq(Unit), NEW h \in Positions, NEW q \in Seq(Record),
           NEW m \in Nat, NEW k \in Nat, Placed(r, h, q, m), m <= k, k <= Len(r)
    PROVE  /\ Woven(r, h, q, m) \in Seq(Unit)
           /\ SubSeq(r, m + 1, k) \in Seq(Unit)
           /\ Woven(r, h, q, m) \o SubSeq(r, m + 1, k) = Woven(r, h, q, k)
<1> DEFINE Goes(s) == /\ Woven(r, h, s, m) \in Seq(Unit)
                      /\ Woven(r, h, s, m) \o SubSeq(r, m + 1, k) = Woven(r, h, s, k)
           S == {s \in Seq(Record) : Placed(r, h, s, m) => Goes(s)}
           b == SubSeq(r, m + 1, k)
<1>1. b \in Seq(Unit)
  BY SpanFact
<1>2. <<>> \in S
  <2> DEFINE o == 0
  <2>1. Woven(r, h, <<>>, m) = SubSeq(r, 1, m) /\ Woven(r, h, <<>>, k) = SubSeq(r, 1, k)
    <3>1. m <= Len(r)
      BY DEF Placed
    <3> QED BY <3>1, WovenEmpty
  <2>2. o \in Nat /\ o <= m /\ o + 1 = 1 /\ m <= Len(r)
    BY DEF Placed
  <2> HIDE DEF o
  <2>3. SubSeq(r, o + 1, m) \in Seq(Unit) /\ SubSeq(r, o + 1, m) \o b = SubSeq(r, o + 1, k)
    BY <2>2, SpanFact, SpanSplit
  <2>4. Goes(<<>>)
    <3> HIDE DEF b
    <3> QED BY <2>1, <2>2, <2>3 DEF b
  <2> HIDE DEF Goes
  <2> QED BY <2>4
<1>3. ASSUME NEW s \in S, NEW e \in Record PROVE Append(s, e) \in S
  <2>1. s \in Seq(Record) /\ Append(s, e) \in Seq(Record)
    OBVIOUS
  <2>2. ASSUME Placed(r, h, Append(s, e), m) PROVE Goes(Append(s, e))
    <3> DEFINE t == Append(s, e)
               d == Ahead(e, h)
               w == Woven(r, h, s, d)
               u == Units(e.id, e.n)
               x == SubSeq(r, d + 1, m)
               y == SubSeq(r, d + 1, k)
    <3>1. Placed(r, h, t, k) /\ m <= Len(r)
      BY <2>2, PlacedMore DEF Placed
    <3>2. w \in Seq(Unit) /\ x \in Seq(Unit) /\ u \in Seq(Unit) /\ Woven(r, h, t, m) = w \o (u \o x)
      BY <2>1, <2>2, WovenAppend, ZenonT(40)
    <3>3. y \in Seq(Unit) /\ Woven(r, h, t, k) = w \o (u \o y)
      BY <2>1, <3>1, WovenAppend, ZenonT(40)
    <3>4. d \in Nat /\ d <= m
      BY <2>1, <2>2, <3>1, PlacedAppend, AheadFact
    <3>5. x \o b = y
      <4> HIDE DEF d
      <4> QED BY <3>1, <3>4, SpanSplit
    <3> HIDE DEF w, u, x, y, b, t
    <3>6. w \in Seq(Unit) /\ u \in Seq(Unit) /\ x \in Seq(Unit) /\ b \in Seq(Unit)
      BY <1>1, <3>2
    <3>7. w \o (u \o x) \in Seq(Unit) /\ Assoc4(w, u, x, b)
      BY <3>6, CatAssoc4, Zenon
    <3>8. (w \o (u \o x)) \o b = w \o (u \o y)
      BY <3>5, <3>7, Zenon DEF Assoc4
    <3>9. Woven(r, h, t, m) \in Seq(Unit) /\ Woven(r, h, t, m) \o b = Woven(r, h, t, k)
      BY <3>2, <3>3, <3>7, <3>8, Zenon
    <3> QED BY <3>9, Zenon DEF t, b
  <2> HIDE DEF Goes
  <2> QED BY <2>1, <2>2
<1>4. S = Seq(Record)
  <2> HIDE DEF S
  <2>1. S \in SUBSET Seq(Record)
    BY DEF S
  <2> QED BY <1>2, <1>3, <2>1, QueueInduct
<1> HIDE DEF S
<1>5. q \in S
  BY <1>4
<1> QED BY <1>1, <1>5 DEF S, b

\* It is a sequence of units.
LEMMA WovenType ==
    ASSUME NEW r, NEW h, NEW q, NEW m, Placed(r, h, q, m)
    PROVE  Woven(r, h, q, m) \in Seq(Unit)
<1>1. r \in Seq(Unit) /\ h \in Positions /\ q \in Seq(Record) /\ m \in Nat /\ m <= Len(r) /\ m <= m
  BY DEF Placed
<1> QED BY <1>1, WovenMore

\* What is appended to the ring changes nothing of what comes before.
LEMMA WovenGrow ==
    ASSUME NEW r \in Seq(Unit), NEW h \in Positions, NEW q \in Seq(Record), NEW m \in Nat, Placed(r, h, q, m),
           NEW v \in Seq(Unit)
    PROVE  Woven(r \o v, h, q, m) = Woven(r, h, q, m)
<1> DEFINE x == r \o v
           S == {s \in Seq(Record) : \A k \in Nat : Placed(r, h, s, k) => Woven(x, h, s, k) = Woven(r, h, s, k)}
<1>1. /\ x \in Seq(Unit) /\ Len(x) = Len(r) + Len(v) /\ Len(r) \in Nat /\ Len(v) \in Nat
      /\ \A i \in 1 .. Len(r) : x[i] = r[i]
  BY CatFact
<1> HIDE DEF x
<1>2. ASSUME NEW i \in Nat, NEW j \in Nat, i <= j, j <= Len(r) PROVE SubSeq(x, i + 1, j) = SubSeq(r, i + 1, j)
  <2> DEFINE a == SubSeq(x, i + 1, j)
             b == SubSeq(r, i + 1, j)
  <2>1. j <= Len(x)
    BY <1>1, <1>2
  <2>2. a \in Seq(Unit) /\ Len(a) = j - i /\ \A n \in 1 .. j - i : a[n] = x[i + n]
    BY <1>1, <1>2, <2>1, SpanFact
  <2>3. b \in Seq(Unit) /\ Len(b) = j - i /\ \A n \in 1 .. j - i : b[n] = r[i + n]
    BY <1>2, SpanFact
  <2> HIDE DEF a, b
  <2>4. ASSUME NEW n \in 1 .. Len(a) PROVE a[n] = b[n]
    <3>1. n \in 1 .. j - i /\ i + n \in 1 .. Len(r)
      BY <2>2, <1>1, <1>2
    <3> QED BY <3>1, <2>2, <2>3, <1>1
  <2>5. a = b
    BY <2>2, <2>3, <2>4, SameQueue
  <2> QED BY <2>5 DEF a, b
<1>3. <<>> \in S
  <2>1. ASSUME NEW k \in Nat, k <= Len(r) PROVE Woven(x, h, <<>>, k) = Woven(r, h, <<>>, k)
    <3> DEFINE o == 0
    <3>1. Woven(x, h, <<>>, k) = SubSeq(x, 1, k) /\ Woven(r, h, <<>>, k) = SubSeq(r, 1, k)
      BY <2>1, <1>1, WovenEmpty
    <3>2. o \in Nat /\ o <= k /\ o + 1 = 1
      OBVIOUS
    <3> HIDE DEF o
    <3>3. SubSeq(x, o + 1, k) = SubSeq(r, o + 1, k)
      BY <3>2, <2>1, <1>2
    <3> QED BY <3>1, <3>2, <3>3
  <2>2. <<>> \in Seq(Record)
    OBVIOUS
  <2> QED BY <2>1, <2>2 DEF Placed
<1>4. ASSUME NEW s \in S, NEW e \in Record PROVE Append(s, e) \in S
  <2>1. s \in Seq(Record) /\ Append(s, e) \in Seq(Record)
    OBVIOUS
  <2>2. ASSUME NEW k \in Nat, Placed(r, h, Append(s, e), k)
        PROVE  Woven(x, h, Append(s, e), k) = Woven(r, h, Append(s, e), k)
    <3> DEFINE t == Append(s, e)
               d == Ahead(e, h)
    <3>1. k <= Len(r) /\ k <= Len(x) /\ k <= k
      BY <2>2, <1>1 DEF Placed
    <3>2. Placed(x, h, t, k)
      BY <2>2, <3>1, <1>1, PlacedMore
    <3>3. d \in Nat /\ d <= k /\ Placed(r, h, s, d)
      BY <2>1, <2>2, <3>1, PlacedAppend, AheadFact
    <3>4. Woven(r, h, t, k) = Woven(r, h, s, d) \o (Units(e.id, e.n) \o SubSeq(r, d + 1, k))
      BY <2>1, <2>2, WovenAppend, ZenonT(40)
    <3>5. Woven(x, h, t, k) = Woven(x, h, s, d) \o (Units(e.id, e.n) \o SubSeq(x, d + 1, k))
      BY <2>1, <3>2, <1>1, WovenAppend, ZenonT(40)
    <3>6. Woven(x, h, s, d) = Woven(r, h, s, d)
      BY <3>3
    <3> HIDE DEF d
    <3>7. SubSeq(x, d + 1, k) = SubSeq(r, d + 1, k)
      BY <1>2, <3>1, <3>3
    <3> QED BY <3>4, <3>5, <3>6, <3>7
  <2> QED BY <2>1, <2>2
<1>5. S = Seq(Record)
  <2> HIDE DEF S
  <2>1. S \in SUBSET Seq(Record)
    BY DEF S
  <2> QED BY <1>3, <1>4, <2>1, QueueInduct
<1> HIDE DEF S
<1>6. q \in S
  BY <1>5
<1> QED BY <1>6 DEF S, x

WovenStep(r, h, q, e, m) ==
    /\ Woven(r, h, q, Ahead(e, h)) \in Seq(Unit)
    /\ SubSeq(r, Ahead(e, h) + 1, m) \in Seq(Unit)
    /\ Units(e.id, e.n) \in Seq(Unit)
    /\ Woven(r, h, Append(q, e), m) =
          Woven(r, h, q, Ahead(e, h)) \o (Units(e.id, e.n) \o SubSeq(r, Ahead(e, h) + 1, m))

\* WovenAppend as a predicate.
LEMMA WovenSteps ==
    ASSUME NEW r \in Seq(Unit), NEW h \in Positions, NEW q \in Seq(Record), NEW e \in Record, NEW m \in Nat,
           Placed(r, h, Append(q, e), m)
    PROVE  WovenStep(r, h, q, e, m)
  BY WovenAppend, Zenon DEF WovenStep

\* Spans of b, behind a.
LEMMA SpanBehind ==
    ASSUME NEW a \in Seq(Unit), NEW b \in Seq(Unit), NEW i \in Nat, NEW j \in Nat,
           Len(a) <= i, i <= j, j <= Len(a) + Len(b)
    PROVE  /\ SubSeq(a \o b, i + 1, j) = SubSeq(b, i - Len(a) + 1, j - Len(a))
           /\ SubSeq(a \o b, 1, j) = a \o SubSeq(b, 1, j - Len(a))
<1> DEFINE x == a \o b
           k == Len(a)
           o == 0
<1>1. /\ x \in Seq(Unit) /\ Len(x) = k + Len(b) /\ k = Len(a) /\ k \in Nat /\ Len(b) \in Nat
      /\ \A n \in 1 .. k : x[n] = a[n]
      /\ \A n \in 1 .. Len(b) : x[k + n] = b[n]
  BY CatFact
<1> HIDE DEF x, k
<1> DEFINE f == i - k
           g == j - k
<1>2. f \in Nat /\ g \in Nat /\ f <= g /\ g <= Len(b) /\ i = k + f /\ j = k + g
  BY <1>1
<1>3. o \in Nat /\ o <= g /\ o <= j /\ o + 1 = 1
  BY <1>2
<1> HIDE DEF f, g, o
<1>4. SubSeq(x, i + 1, j) = SubSeq(b, f + 1, g)
  <2> DEFINE v == SubSeq(x, i + 1, j)
             w == SubSeq(b, f + 1, g)
  <2>1. j <= Len(x)
    BY <1>1
  <2>2. v \in Seq(Unit) /\ Len(v) = j - i /\ \A n \in 1 .. j - i : v[n] = x[i + n]
    BY <1>1, <2>1, SpanFact
  <2>3. w \in Seq(Unit) /\ Len(w) = g - f /\ \A n \in 1 .. g - f : w[n] = b[f + n]
    BY <1>2, SpanFact
  <2> HIDE DEF v, w
  <2>4. Len(v) = Len(w)
    BY <2>2, <2>3, <1>1, <1>2
  <2>5. ASSUME NEW n \in 1 .. Len(v) PROVE v[n] = w[n]
    <3>1. n \in 1 .. j - i /\ n \in 1 .. g - f /\ f + n \in 1 .. Len(b) /\ i + n = k + (f + n)
      BY <2>2, <1>1, <1>2
    <3>2. x[k + (f + n)] = b[f + n]
      BY <3>1, <1>1
    <3> QED BY <3>1, <3>2, <2>2, <2>3
  <2>6. v = w
    BY <2>2, <2>3, <2>4, <2>5, SameQueue
  <2> QED BY <2>6 DEF v, w
<1>5. SubSeq(x, o + 1, j) = a \o SubSeq(b, o + 1, g)
  <2> DEFINE v == SubSeq(x, o + 1, j)
             w == SubSeq(b, o + 1, g)
  <2>1. j <= Len(x)
    BY <1>1
  <2>2. v \in Seq(Unit) /\ Len(v) = j - o /\ \A n \in 1 .. j - o : v[n] = x[o + n]
    BY <1>1, <1>3, <2>1, SpanFact
  <2>3. w \in Seq(Unit) /\ Len(w) = g - o /\ \A n \in 1 .. g - o : w[n] = b[o + n]
    BY <1>2, <1>3, SpanFact
  <2> HIDE DEF v, w
  <2>4. o = 0
    BY DEF o
  <2> DEFINE y == a \o w
  <2>5. /\ y \in Seq(Unit) /\ Len(y) = Len(a) + Len(w)
        /\ \A n \in 1 .. Len(a) : y[n] = a[n]
        /\ \A n \in 1 .. Len(w) : y[Len(a) + n] = w[n]
    <3>1. w \in Seq(Unit)
      BY <2>3
    <3> QED BY <3>1, CatFact
  <2> HIDE DEF y
  <2>6. Len(v) = Len(y)
    BY <2>2, <2>3, <2>4, <2>5, <1>1, <1>2
  <2>7. ASSUME NEW n \in 1 .. Len(v) PROVE v[n] = y[n]
    <3>1. n \in 1 .. j /\ v[n] = x[n]
      BY <2>2, <2>4
    <3>2. CASE n <= k
      <4>1. n \in 1 .. k
        BY <3>1, <3>2, <1>1
      <4> QED BY <4>1, <3>1, <1>1, <2>5
    <3>3. CASE n > k
      <4> DEFINE l == n - k
      <4>1. l \in 1 .. g /\ l \in 1 .. Len(w) /\ l \in 1 .. Len(b) /\ n = k + l
        BY <3>1, <3>3, <1>1, <1>2, <2>3, <2>4
      <4> HIDE DEF l
      <4>2. y[n] = w[l] /\ w[l] = b[l]
        BY <4>1, <1>1, <2>3, <2>4, <2>5
      <4>3. x[n] = b[l]
        BY <4>1, <1>1
      <4> QED BY <4>2, <4>3, <3>1
    <3> QED BY <3>1, <3>2, <3>3, <1>1
  <2>8. v = y
    BY <2>2, <2>5, <2>6, <2>7, SameQueue
  <2> QED BY <2>8 DEF v, w, y
<1> QED BY <1>3, <1>4, <1>5 DEF x, k, f, g

CutsTo(a, b, h, q, m) ==
    /\ Woven(b, After(h, Len(a)), q, m - Len(a)) \in Seq(Unit)
    /\ Woven(a \o b, h, q, m) = a \o Woven(b, After(h, Len(a)), q, m - Len(a))

\* The bytes a of the ring that leave before the first mark come first.
LEMMA WovenCut ==
    ASSUME NEW a \in Seq(Unit), NEW b \in Seq(Unit), NEW h \in Positions, NEW q \in Seq(Record), NEW m \in Nat,
           Placed(a \o b, h, q, m), Len(a) <= m, Len(a) < Modulus,
           \A p \in Elements(q) : Len(a) <= Ahead(p, h)
    PROVE  CutsTo(a, b, h, q, m)
<1> DEFINE x == a \o b
           k == Len(a)
           c == After(h, k)
           Bound(s, n) == Placed(x, h, s, n) /\ k <= n /\ \A p \in Elements(s) : k <= Ahead(p, h)
           Goes(s, n) == /\ Woven(b, c, s, n - k) \in Seq(Unit)
                         /\ Woven(x, h, s, n) = a \o Woven(b, c, s, n - k)
           S == {s \in Seq(Record) : \A n \in Nat : Bound(s, n) => Goes(s, n)}
<1>1. x \in Seq(Unit) /\ Len(x) = k + Len(b) /\ k = Len(a) /\ k \in Nat /\ Len(b) \in Nat /\ k < Modulus
  BY CatFact
<1>2. c \in Positions
  BY <1>1, AfterFact
<1>3. Len(b) = Len(x) - k
  BY <1>1
<1>4. ASSUME NEW i \in Nat, NEW j \in Nat, k <= i, i <= j, j <= Len(x)
      PROVE  /\ SubSeq(x, i + 1, j) = SubSeq(b, i - k + 1, j - k)
             /\ SubSeq(x, 1, j) = a \o SubSeq(b, 1, j - k)
  <2>1. Len(a) <= i /\ i <= j /\ j <= Len(a) + Len(b)
    BY <1>1, <1>4
  <2> HIDE DEF S, Bound, Goes, c
  <2> QED BY <2>1, SpanBehind, Zenon
<1> HIDE DEF x, k, c
<1>5. ASSUME NEW s \in Seq(Record), NEW n \in Nat, Bound(s, n)
      PROVE  /\ Placed(b, c, s, n - k) /\ n - k \in Nat /\ n <= Len(x)
             /\ \A p \in Elements(s) : Ahead(p, c) = Ahead(p, h) - k
  <2>1. Placed(b, c, s, n - k) /\ \A p \in Elements(s) : Ahead(p, c) = Ahead(p, h) - k
    <3>1. Placed(x, h, s, n) /\ k <= n /\ (\A p \in Elements(s) : k <= Ahead(p, h))
      BY <1>5, Zenon
    <3>2. k \in Nat /\ k < Modulus
      BY <1>1
    <3> HIDE DEF S, Bound, Goes
    <3>3. Placed(b, After(h, k), s, n - k)
      BY <1>3, <3>1, <3>2, PlacedCut
    <3>4. Nearer(s, h, k)
      BY <1>3, <3>1, <3>2, PlacedCut
    <3> QED BY <3>3, <3>4, Zenon DEF c, Nearer
  <2> QED BY <1>1, <1>5, <2>1 DEF Placed
<1>6. <<>> \in S
  <2>1. ASSUME NEW n \in Nat, Bound(<<>>, n) PROVE Goes(<<>>, n)
    <3> DEFINE g == n - k
    <3>1. g \in Nat /\ n <= Len(x) /\ k <= n /\ g <= Len(b)
      <4>1. <<>> \in Seq(Record) /\ k <= n
        BY <2>1
      <4>2. n <= Len(x)
        BY <2>1 DEF Placed
      <4> QED BY <4>1, <4>2, <1>1
    <3>2. Woven(x, h, <<>>, n) = SubSeq(x, 1, n)
      BY <1>1, <3>1, WovenEmpty
    <3> HIDE DEF g
    <3>3. Woven(b, c, <<>>, g) = SubSeq(b, 1, g)
      BY <1>2, <3>1, WovenEmpty
    <3>4. SubSeq(x, 1, n) = a \o SubSeq(b, 1, g)
      BY <1>4, <3>1, SMTT(30) DEF g
    <3>5. SubSeq(b, 1, g) \in Seq(Unit)
      <4> DEFINE o == 0
      <4>1. o \in Nat /\ o <= g /\ o + 1 = 1
        BY <3>1
      <4> HIDE DEF o
      <4>2. SubSeq(b, o + 1, g) \in Seq(Unit)
        BY <3>1, <4>1, SpanFact
      <4> QED BY <4>1, <4>2
    <3> QED BY <3>2, <3>3, <3>4, <3>5 DEF g
  <2>2. <<>> \in Seq(Record)
    OBVIOUS
  <2> HIDE DEF Bound, Goes
  <2> QED BY <2>1, <2>2
<1>7. ASSUME NEW s \in S, NEW e \in Record PROVE Append(s, e) \in S
  <2>1. s \in Seq(Record) /\ Append(s, e) \in Seq(Record)
    OBVIOUS
  <2>2. ASSUME NEW n \in Nat, Bound(Append(s, e), n) PROVE Goes(Append(s, e), n)
    <3> DEFINE t == Append(s, e)
               d == Ahead(e, h)
               l == n - k
               f == Ahead(e, c)
               u == Units(e.id, e.n)
    <3>1. Elements(t) = Elements(s) \cup {e}
      BY <2>1, AppendFact
    <3>2. Placed(b, c, t, l) /\ l \in Nat /\ n <= Len(x) /\ f = d - k /\ k <= d
      BY <2>1, <2>2, <3>1, <1>5
    <3>3. d \in Nat /\ f \in Nat
      BY <1>2, AheadFact
    <3>4. Placed(x, h, t, n)
      BY <2>2
    <3>5. Placed(x, h, s, d) /\ d <= n
      BY <1>1, <2>1, <3>2, <3>4, PlacedAppend
    <3>6. Bound(s, d)
      BY <2>2, <3>1, <3>2, <3>5
    <3>7. Goes(s, d)
      <4> HIDE DEF Bound, Goes
      <4> QED BY <3>3, <3>6
    <3> DEFINE w == Woven(b, c, s, f)
               y == SubSeq(b, f + 1, l)
    <3>8. w \in Seq(Unit) /\ y \in Seq(Unit) /\ u \in Seq(Unit) /\ Woven(b, c, t, l) = w \o (u \o y)
      <4> HIDE DEF l
      <4>1. WovenStep(b, c, s, e, l)
        BY <1>2, <2>1, <3>2, WovenSteps, Zenon
      <4> QED BY <4>1, Zenon DEF WovenStep
    <3>9. Woven(x, h, t, n) = Woven(x, h, s, d) \o (u \o SubSeq(x, d + 1, n))
      <4>1. WovenStep(x, h, s, e, n)
        BY <1>1, <2>1, <3>4, WovenSteps, Zenon
      <4> QED BY <4>1, Zenon DEF WovenStep
    <3> HIDE DEF u
    <3>10. Woven(x, h, s, d) = a \o w
      BY <3>2, <3>7
    <3>11. SubSeq(x, d + 1, n) = y
      <4> HIDE DEF d, l
      <4>1. SubSeq(x, d + 1, n) = SubSeq(b, d - k + 1, n - k)
        BY <1>4, <3>2, <3>3, <3>5
      <4> QED BY <4>1, <3>2 DEF l
    <3> HIDE DEF w, y, t, d, l, f
    <3>12. u \o y \in Seq(Unit)
      BY <3>8, CatFact, Zenon
    <3> DEFINE v == u \o y
    <3> HIDE DEF v
    <3>13. v \in Seq(Unit) /\ w \in Seq(Unit)
      BY <3>8, <3>12 DEF v
    <3>14. Assoc(a, w, v)
      BY <3>13, CatAssociates, Zenon
    <3>15. w \o v \in Seq(Unit)
      BY <3>13, CatFact, Zenon
    <3>16. Woven(x, h, t, n) = (a \o w) \o v
      BY <3>9, <3>10, <3>11 DEF v
    <3>17. Woven(b, c, t, l) = w \o v
      BY <3>8 DEF v
    <3>18. Woven(b, c, t, l) \in Seq(Unit) /\ Woven(x, h, t, n) = a \o Woven(b, c, t, l)
      BY <3>14, <3>15, <3>16, <3>17, Zenon DEF Assoc
    <3> QED BY <3>18, Zenon DEF t, l
  <2> HIDE DEF Bound, Goes
  <2> QED BY <2>1, <2>2
<1>8. S = Seq(Record)
  <2> HIDE DEF S
  <2>1. S \in SUBSET Seq(Record)
    BY DEF S
  <2> QED BY <1>6, <1>7, <2>1, QueueInduct
<1>9. Bound(q, m)
  BY DEF x, k
<1>10. Goes(q, m)
  <2> HIDE DEF Bound, Goes
  <2> QED BY <1>8, <1>9
<1> QED BY <1>10, Zenon DEF x, k, c, CutsTo

\* The tail of a queue with an element more.
LEMMA TailAppend ==
    ASSUME NEW T, NEW q \in Seq(T), NEW e \in T
    PROVE  /\ q = <<>> => Tail(Append(q, e)) = <<>> /\ Append(q, e)[1] = e
           /\ q # <<>> => Tail(Append(q, e)) = Append(Tail(q), e) /\ Append(q, e)[1] = q[1]
  OBVIOUS

\* A retained frame whose mark has been reached comes first.
LEMMA WovenFront ==
    ASSUME NEW r \in Seq(Unit), NEW h \in Positions, NEW q \in Seq(Record), NEW m \in Nat,
           Placed(r, h, q, m), q # <<>>, Ahead(q[1], h) = 0
    PROVE  /\ Units(q[1].id, q[1].n) \in Seq(Unit)
           /\ Woven(r, h, Tail(q), m) \in Seq(Unit)
           /\ Woven(r, h, q, m) = Units(q[1].id, q[1].n) \o Woven(r, h, Tail(q), m)
<1> DEFINE Bound(s, n) == Placed(r, h, s, n) /\ s # <<>> /\ Ahead(s[1], h) = 0
           Goes(s, n) == /\ Units(s[1].id, s[1].n) \in Seq(Unit)
                         /\ Woven(r, h, Tail(s), n) \in Seq(Unit)
                         /\ Woven(r, h, s, n) = Units(s[1].id, s[1].n) \o Woven(r, h, Tail(s), n)
           S == {s \in Seq(Record) : \A n \in Nat : Bound(s, n) => Goes(s, n)}
<1>1. <<>> \in S
  OBVIOUS
<1>2. ASSUME NEW s \in S, NEW e \in Record PROVE Append(s, e) \in S
  <2>1. s \in Seq(Record) /\ Append(s, e) \in Seq(Record)
    OBVIOUS
  <2>2. ASSUME NEW n \in Nat, Bound(Append(s, e), n) PROVE Goes(Append(s, e), n)
    <3> DEFINE t == Append(s, e)
               d == Ahead(e, h)
               u == Units(e.id, e.n)
               y == SubSeq(r, d + 1, n)
    <3>1. Placed(r, h, t, n) /\ Ahead(t[1], h) = 0
      BY <2>2
    <3>2. n <= Len(r) /\ d \in Nat
      BY <3>1, AheadFact DEF Placed
    <3>3. Placed(r, h, s, d) /\ d <= n
      BY <2>1, <3>1, <3>2, PlacedAppend
    <3>4. WovenStep(r, h, s, e, n)
      BY <2>1, <3>1, WovenSteps, Zenon
    <3>5. /\ Woven(r, h, s, d) \in Seq(Unit) /\ y \in Seq(Unit) /\ u \in Seq(Unit)
          /\ Woven(r, h, t, n) = Woven(r, h, s, d) \o (u \o y)
      BY <3>4, Zenon DEF WovenStep
    <3>6. CASE s = <<>>
      <4>1. Tail(t) = <<>> /\ t[1] = e
        BY <2>1, <3>6, TailAppend
      <4>2. d = 0
        BY <3>1, <4>1
      <4>3. Woven(r, h, <<>>, n) = SubSeq(r, 1, n) /\ Woven(r, h, <<>>, d) = SubSeq(r, 1, d)
        BY <3>2, <3>3, WovenEmpty
      <4>4. SubSeq(r, 1, d) = <<>>
        BY <4>2
      <4>5. y = SubSeq(r, 1, n)
        BY <4>2
      <4> HIDE DEF u, y, t
      <4>6. u \o y \in Seq(Unit)
        BY <3>5, CatFact, Zenon
      <4> DEFINE v == u \o y
      <4> HIDE DEF v
      <4>7. v \in Seq(Unit)
        BY <4>6 DEF v
      <4>8. <<>> \o v = v
        BY <4>7, CatEmpty
      <4>9. Woven(r, h, t, n) = <<>> \o v
        BY <3>5, <3>6, <4>3, <4>4 DEF v
      <4>10. Woven(r, h, t, n) = u \o Woven(r, h, <<>>, n) /\ Woven(r, h, <<>>, n) \in Seq(Unit)
        BY <3>5, <4>3, <4>5, <4>8, <4>9 DEF v
      <4> QED BY <4>1, <4>10, <3>5, Zenon DEF t, u
    <3>7. CASE s # <<>>
      <4> DEFINE z == Tail(s)
                 f == Units(s[1].id, s[1].n)
                 w == Woven(r, h, z, d)
      <4>1. Tail(t) = Append(z, e) /\ t[1] = s[1] /\ z \in Seq(Record)
        BY <2>1, <3>7, TailAppend
      <4>2. Bound(s, d)
        BY <3>1, <3>3, <3>7, <4>1
      <4>3. Goes(s, d)
        <5> HIDE DEF Bound, Goes
        <5> QED BY <3>2, <4>2
      <4>4. f \in Seq(Unit) /\ w \in Seq(Unit) /\ Woven(r, h, s, d) = f \o w
        BY <4>3, Zenon
      <4>5. Placed(r, h, Append(z, e), n)
        <5>1. t # <<>>
          BY <2>2
        <5>2. Placed(r, h, Tail(t), n)
          BY <5>1, <3>1, PlacedTail
        <5> QED BY <5>2, <4>1
      <4> HIDE DEF z
      <4>6. WovenStep(r, h, z, e, n)
        BY <4>1, <4>5, WovenSteps, Zenon
      <4>7. Woven(r, h, Append(z, e), n) = w \o (u \o y)
        BY <4>6, Zenon DEF WovenStep
      <4> HIDE DEF f, w, u, y, t
      <4>8. u \o y \in Seq(Unit)
        BY <3>5, CatFact, Zenon
      <4> DEFINE v == u \o y
      <4> HIDE DEF v
      <4>9. v \in Seq(Unit)
        BY <4>8 DEF v
      <4>10. Assoc(f, w, v)
        BY <4>4, <4>9, CatAssociates, Zenon
      <4>11. w \o v \in Seq(Unit)
        BY <4>4, <4>9, CatFact, Zenon
      <4>12. Woven(r, h, t, n) = (f \o w) \o v
        BY <3>5, <4>4 DEF v
      <4>13. Woven(r, h, Tail(t), n) = w \o v
        BY <4>1, <4>7 DEF v
      <4>14. Woven(r, h, t, n) = f \o Woven(r, h, Tail(t), n) /\ Woven(r, h, Tail(t), n) \in Seq(Unit)
        BY <4>10, <4>11, <4>12, <4>13, Zenon DEF Assoc
      <4> QED BY <4>1, <4>4, <4>14, Zenon DEF f, t
    <3> HIDE DEF Goes
    <3> QED BY <3>6, <3>7
  <2> HIDE DEF Bound, Goes
  <2> QED BY <2>1, <2>2
<1>3. S = Seq(Record)
  <2> HIDE DEF S
  <2>1. S \in SUBSET Seq(Record)
    BY DEF S
  <2> QED BY <1>1, <1>2, <2>1, QueueInduct
<1>4. Bound(q, m)
  OBVIOUS
<1>5. Goes(q, m)
  <2> HIDE DEF Bound, Goes
  <2> QED BY <1>3, <1>4
<1> QED BY <1>5, Zenon

\* Its units are the ring's and those of the retained frames, of which it has the first.
LEMMA WovenUnits ==
    ASSUME NEW r \in Seq(Unit), NEW h \in Positions, NEW q \in Seq(Record), NEW m \in Nat, Placed(r, h, q, m)
    PROVE  /\ \A x \in Elements(Woven(r, h, q, m)) :
                 x \in Elements(r) \/ \E p \in Elements(q) : x.id = p.id
           /\ \A p \in Elements(q) : [id |-> p.id, pos |-> 1] \in Elements(Woven(r, h, q, m))
<1> DEFINE From(s, n) == \A x \in Elements(Woven(r, h, s, n)) :
                            x \in Elements(r) \/ \E p \in Elements(s) : x.id = p.id
           Firsts(s, n) == \A p \in Elements(s) : [id |-> p.id, pos |-> 1] \in Elements(Woven(r, h, s, n))
           S == {s \in Seq(Record) : \A n \in Nat : Placed(r, h, s, n) => From(s, n) /\ Firsts(s, n)}
<1>1. ASSUME NEW i \in Nat, NEW j \in Nat, i <= j, j <= Len(r)
      PROVE  SubSeq(r, i + 1, j) \in Seq(Unit) /\ Elements(SubSeq(r, i + 1, j)) \subseteq Elements(r)
  <2> DEFINE a == SubSeq(r, i + 1, j)
  <2>1. a \in Seq(Unit) /\ Len(a) = j - i /\ \A n \in 1 .. j - i : a[n] = r[i + n]
    BY <1>1, SpanFact
  <2> HIDE DEF a
  <2>2. ASSUME NEW x \in Elements(a) PROVE x \in Elements(r)
    <3>1. PICK n \in 1 .. j - i : x = a[n]
      BY <2>1 DEF Elements
    <3>2. i + n \in 1 .. Len(r) /\ x = r[i + n]
      BY <3>1, <2>1, <1>1
    <3> QED BY <3>2 DEF Elements
  <2> QED BY <2>1, <2>2 DEF a
<1>2. <<>> \in S
  <2>1. ASSUME NEW n \in Nat, n <= Len(r) PROVE From(<<>>, n) /\ Firsts(<<>>, n)
    <3> DEFINE o == 0
    <3>1. Woven(r, h, <<>>, n) = SubSeq(r, 1, n)
      BY <2>1, WovenEmpty
    <3>2. o \in Nat /\ o <= n /\ o + 1 = 1
      OBVIOUS
    <3> HIDE DEF o
    <3>3. Elements(SubSeq(r, o + 1, n)) \subseteq Elements(r)
      BY <1>1, <2>1, <3>2
    <3>4. Elements(<<>>) = {}
      BY DEF Elements
    <3> QED BY <3>1, <3>2, <3>3, <3>4
  <2>2. <<>> \in Seq(Record)
    OBVIOUS
  <2> HIDE DEF From, Firsts
  <2> QED BY <2>1, <2>2 DEF Placed
<1>3. ASSUME NEW s \in S, NEW e \in Record PROVE Append(s, e) \in S
  <2>1. s \in Seq(Record) /\ Append(s, e) \in Seq(Record)
    OBVIOUS
  <2>2. ASSUME NEW n \in Nat, Placed(r, h, Append(s, e), n)
        PROVE  From(Append(s, e), n) /\ Firsts(Append(s, e), n)
    <3> DEFINE t == Append(s, e)
               d == Ahead(e, h)
               w == Woven(r, h, s, d)
               u == Units(e.id, e.n)
               y == SubSeq(r, d + 1, n)
               v == u \o y
    <3>1. n <= Len(r) /\ d \in Nat
      BY <2>2, AheadFact DEF Placed
    <3>2. Placed(r, h, s, d) /\ d <= n
      BY <2>1, <2>2, <3>1, PlacedAppend
    <3>3. WovenStep(r, h, s, e, n)
      BY <2>1, <2>2, WovenSteps, Zenon
    <3>4. w \in Seq(Unit) /\ y \in Seq(Unit) /\ u \in Seq(Unit) /\ Woven(r, h, t, n) = w \o (u \o y)
      BY <3>3, Zenon DEF WovenStep
    <3>5. From(s, d) /\ Firsts(s, d)
      <4> HIDE DEF From, Firsts
      <4> QED BY <3>1, <3>2
    <3>6. \A x \in Elements(w) : x \in Elements(r) \/ \E p \in Elements(s) : x.id = p.id
      BY <3>5, Zenon
    <3>7. \A p \in Elements(s) : [id |-> p.id, pos |-> 1] \in Elements(w)
      BY <3>5, Zenon
    <3>8. e.id \in Nat /\ e.n \in Nat /\ e.n > 0
      BY DEF Record
    <3>9. (\A x \in Elements(u) : x.id = e.id) /\ [id |-> e.id, pos |-> 1] \in Elements(u)
      BY <3>8, UnitsFact
    <3>10. Elements(y) \subseteq Elements(r)
      <4> HIDE DEF d
      <4> QED BY <1>1, <3>1, <3>2
    <3>11. Elements(t) = Elements(s) \cup {e}
      BY <2>1, AppendFact
    <3> HIDE DEF w, u, y, t, From, Firsts
    <3>12. v \in Seq(Unit) /\ Elements(v) = Elements(u) \cup Elements(y)
      BY <3>4, ConcatFact, ZenonT(30)
    <3> HIDE DEF v
    <3>13. Elements(w \o v) = Elements(w) \cup Elements(v)
      <4>1. w \in Seq(Unit) /\ v \in Seq(Unit)
        BY <3>4, <3>12
      <4> QED BY <4>1, ConcatFact
    <3>14. Elements(Woven(r, h, t, n)) = Elements(w) \cup (Elements(u) \cup Elements(y))
      BY <3>4, <3>12, <3>13 DEF v
    <3>15. From(t, n)
      BY <3>6, <3>9, <3>10, <3>11, <3>14 DEF From
    <3>16. Firsts(t, n)
      BY <3>7, <3>9, <3>11, <3>14 DEF Firsts
    <3> QED BY <3>15, <3>16 DEF t
  <2> HIDE DEF From, Firsts
  <2> QED BY <2>1, <2>2
<1>4. S = Seq(Record)
  <2> HIDE DEF S
  <2>1. S \in SUBSET Seq(Record)
    BY DEF S
  <2> QED BY <1>2, <1>3, <2>1, QueueInduct
<1>5. From(q, m) /\ Firsts(q, m)
  <2> HIDE DEF From, Firsts
  <2> QED BY <1>4
<1> QED BY <1>5, Zenon

DropsEach(a, b, c, X) == Drop(a \o (b \o c), X) = Drop(a, X) \o (Drop(b, X) \o Drop(c, X))

\* Dropping from three parts put together.
LEMMA DropCat3 ==
    ASSUME NEW T, NEW a \in Seq(T), NEW b \in Seq(T), NEW c \in Seq(T), NEW X
    PROVE  DropsEach(a, b, c, X)
<1> DEFINE v == b \o c
<1>1. v \in Seq(T)
  BY CatFact, Zenon
<1>2. Drop(v, X) = Drop(b, X) \o Drop(c, X)
  BY DropCat
<1> HIDE DEF v
<1>3. Drop(a \o v, X) = Drop(a, X) \o Drop(v, X)
  BY <1>1, DropCat, SMTT(30)
<1> QED BY <1>2, <1>3 DEF v, DropsEach

Sifts(r, q, D, X) ==
    /\ Elements(r) \cap X = {}
    /\ \A p \in Elements(q) :
        /\ p \in D => Elements(Units(p.id, p.n)) \subseteq X
        /\ p \notin D => Elements(Units(p.id, p.n)) \cap X = {}

\* Withdrawing retained frames takes their units out of the wire order, and no others.
LEMMA WovenDrop ==
    ASSUME NEW r \in Seq(Unit), NEW h \in Positions, NEW q \in Seq(Record), NEW m \in Nat, Placed(r, h, q, m),
           NEW D, NEW X, Sifts(r, q, D, X)
    PROVE  Woven(r, h, Drop(q, D), m) = Drop(Woven(r, h, q, m), X)
<1> DEFINE Goes(s, n) == Woven(r, h, Drop(s, D), n) = Drop(Woven(r, h, s, n), X)
           S == {s \in Seq(Record) : \A n \in Nat : Placed(r, h, s, n) /\ Sifts(r, s, D, X) => Goes(s, n)}
<1>1. ASSUME NEW i \in Nat, NEW j \in Nat, i <= j, j <= Len(r)
      PROVE  SubSeq(r, i + 1, j) \in Seq(Unit) /\ Drop(SubSeq(r, i + 1, j), X) = SubSeq(r, i + 1, j)
  <2> DEFINE a == SubSeq(r, i + 1, j)
  <2>1. a \in Seq(Unit) /\ Len(a) = j - i /\ \A n \in 1 .. j - i : a[n] = r[i + n]
    BY <1>1, SpanFact
  <2> HIDE DEF a
  <2>2. ASSUME NEW x \in Elements(a) PROVE x \notin X
    <3>1. PICK n \in 1 .. j - i : x = a[n]
      BY <2>1 DEF Elements
    <3>2. i + n \in 1 .. Len(r) /\ x = r[i + n]
      BY <3>1, <2>1, <1>1
    <3>3. x \in Elements(r)
      BY <3>2 DEF Elements
    <3> QED BY <3>3 DEF Sifts
  <2>3. Elements(a) \cap X = {}
    BY <2>2
  <2>4. Drop(a, X) = a
    BY <2>1, <2>3, DropNone
  <2> QED BY <2>1, <2>4 DEF a
<1>2. <<>> \in S
  <2>1. ASSUME NEW n \in Nat, n <= Len(r) PROVE Goes(<<>>, n)
    <3> DEFINE o == 0
    <3>1. Woven(r, h, <<>>, n) = SubSeq(r, 1, n)
      BY <2>1, WovenEmpty
    <3>2. o \in Nat /\ o <= n /\ o + 1 = 1
      OBVIOUS
    <3> HIDE DEF o
    <3>3. Drop(SubSeq(r, o + 1, n), X) = SubSeq(r, o + 1, n)
      BY <1>1, <2>1, <3>2
    <3>4. Drop(<<>>, D) = <<>>
      BY DropEmpty
    <3> QED BY <3>1, <3>2, <3>3, <3>4
  <2>2. <<>> \in Seq(Record)
    OBVIOUS
  <2> HIDE DEF Goes
  <2> QED BY <2>1, <2>2 DEF Placed
<1>3. ASSUME NEW s \in S, NEW e \in Record PROVE Append(s, e) \in S
  <2>1. s \in Seq(Record) /\ Append(s, e) \in Seq(Record)
    OBVIOUS
  <2>2. ASSUME NEW n \in Nat, Placed(r, h, Append(s, e), n), Sifts(r, Append(s, e), D, X)
        PROVE  Goes(Append(s, e), n)
    <3> DEFINE t == Append(s, e)
               d == Ahead(e, h)
               w == Woven(r, h, s, d)
               u == Units(e.id, e.n)
               y == SubSeq(r, d + 1, n)
               z == Drop(s, D)
               wz == Woven(r, h, z, d)
    <3>1. n <= Len(r) /\ d \in Nat
      BY <2>2, AheadFact DEF Placed
    <3>2. Placed(r, h, s, d) /\ d <= n
      BY <2>1, <2>2, <3>1, PlacedAppend
    <3>3. WovenStep(r, h, s, e, n)
      BY <2>1, <2>2, WovenSteps, Zenon
    <3>4. w \in Seq(Unit) /\ y \in Seq(Unit) /\ u \in Seq(Unit) /\ Woven(r, h, t, n) = w \o (u \o y)
      BY <3>3, Zenon DEF WovenStep
    <3>5. Elements(t) = Elements(s) \cup {e}
      BY <2>1, AppendFact
    <3>6. Sifts(r, s, D, X)
      BY <2>2, <3>5 DEF Sifts
    <3>7. /\ e \in D => Elements(u) \subseteq X
          /\ e \notin D => Elements(u) \cap X = {}
      BY <2>2, <3>5 DEF Sifts
    <3>8. wz = Drop(w, X)
      <4>1. Goes(s, d)
        <5> HIDE DEF Goes
        <5> QED BY <3>1, <3>2, <3>6
      <4> QED BY <4>1, Zenon
    <3>9. Drop(y, X) = y
      <4> HIDE DEF d
      <4> QED BY <1>1, <3>1, <3>2
    <3>10. z \in Seq(Record) /\ Drop(t, D) = IF e \in D THEN z ELSE Append(z, e)
      BY <2>1, DropFact, DropAppend
    <3>11. Placed(r, h, z, d)
      BY <2>1, <3>1, <3>2, PlacedDrop
    <3>12. Placed(r, h, Drop(t, D), n)
      BY <2>1, <2>2, PlacedDrop
    <3> HIDE DEF w, u, y, z, t, d, Goes
    <3>13. w \in Seq(Unit) /\ y \in Seq(Unit) /\ u \in Seq(Unit)
      BY <3>4
    <3>14. Drop(w \o (u \o y), X) = Drop(w, X) \o (Drop(u, X) \o Drop(y, X))
      <4>1. DropsEach(w, u, y, X)
        BY <3>13, DropCat3, Zenon
      <4> QED BY <4>1, Zenon DEF DropsEach
    <3>15. Drop(Woven(r, h, t, n), X) = wz \o (Drop(u, X) \o y)
      BY <3>4, <3>8, <3>9, <3>14
    <3>16. CASE e \in D
      <4>1. Drop(u, X) = <<>>
        BY <3>7, <3>13, <3>16, DropNone
      <4>2. <<>> \o y = y
        BY <3>13, CatEmpty
      <4>3. wz \o y = Woven(r, h, z, n)
        BY <3>1, <3>2, <3>10, <3>11, WovenMore, ZenonT(40) DEF y
      <4>4. Drop(t, D) = z
        BY <3>10, <3>16
      <4>5. Drop(Woven(r, h, t, n), X) = Woven(r, h, Drop(t, D), n)
        BY <3>15, <4>1, <4>2, <4>3, <4>4
      <4> QED BY <4>5 DEF Goes, t
    <3>17. CASE e \notin D
      <4>1. Drop(u, X) = u
        BY <3>7, <3>13, <3>17, DropNone
      <4>2. Drop(t, D) = Append(z, e)
        BY <3>10, <3>17
      <4>3. z \in Seq(Record) /\ Placed(r, h, Append(z, e), n)
        BY <3>10, <3>12, <4>2
      <4>4. WovenStep(r, h, z, e, n)
        BY <4>3, WovenSteps, Zenon
      <4>5. Woven(r, h, Append(z, e), n) = wz \o (u \o y)
        BY <4>4, Zenon DEF WovenStep, u, y, d
      <4>6. Drop(Woven(r, h, t, n), X) = Woven(r, h, Drop(t, D), n)
        BY <3>15, <4>1, <4>2, <4>5
      <4> QED BY <4>6 DEF Goes, t
    <3> QED BY <3>16, <3>17
  <2> HIDE DEF Goes
  <2> QED BY <2>1, <2>2
<1>4. S = Seq(Record)
  <2> HIDE DEF S
  <2>1. S \in SUBSET Seq(Record)
    BY DEF S
  <2> QED BY <1>2, <1>3, <2>1, QueueInduct
<1>5. Goes(q, m)
  <2> HIDE DEF Goes
  <2> QED BY <1>4
<1> QED BY <1>5, Zenon
-----------------------------------------------------------------------------
(* What each operation makes of the wire order. *)

\* Bytes copied to the ring go to the end.
LEMMA GrowWire ==
    ASSUME NEW r \in Seq(Unit), NEW h \in Positions, NEW q \in Seq(Record), Placed(r, h, q, Len(r)),
           NEW v \in Seq(Unit)
    PROVE  /\ r \o v \in Seq(Unit) /\ Len(r \o v) = Len(r) + Len(v)
           /\ Elements(r \o v) = Elements(r) \cup Elements(v)
           /\ Placed(r \o v, h, q, Len(r \o v))
           /\ Woven(r \o v, h, q, Len(r \o v)) = Woven(r, h, q, Len(r)) \o v
<1> DEFINE s == r \o v
           m == Len(r)
           k == Len(s)
<1>1. s \in Seq(Unit) /\ k = m + Len(v) /\ m \in Nat /\ Len(v) \in Nat /\ k \in Nat
  BY CatFact
<1>2. SubSeq(s, m + 1, k) = v
  BY CatCut
<1>3. Elements(s) = Elements(r) \cup Elements(v)
  BY ConcatFact
<1>4. Woven(s, h, q, m) = Woven(r, h, q, m)
  BY <1>1, WovenGrow
<1>5. Placed(r, h, q, m)
  OBVIOUS
<1>6. m <= k /\ k <= Len(s) /\ m <= Len(s) /\ m <= m /\ Len(s) = m + Len(v)
  BY <1>1
<1> HIDE DEF s, m, k
<1>7. Placed(s, h, q, m) /\ Placed(s, h, q, k)
  BY <1>1, <1>5, <1>6, PlacedMore
<1>8. Woven(s, h, q, m) \o SubSeq(s, m + 1, k) = Woven(s, h, q, k)
  BY <1>1, <1>6, <1>7, WovenMore, ZenonT(40)
<1> QED BY <1>1, <1>2, <1>3, <1>4, <1>6, <1>7, <1>8 DEF s, m, k

\* So does a frame retained now, although it is not in the ring.
LEMMA RetainWire ==
    ASSUME NEW r \in Seq(Unit), NEW h \in Positions, NEW q \in Seq(Record), Placed(r, h, q, Len(r)),
           Len(r) < Modulus, NEW e \in Record, e.mark = After(h, Len(r))
    PROVE  /\ Placed(r, h, Append(q, e), Len(r))
           /\ Woven(r, h, Append(q, e), Len(r)) = Woven(r, h, q, Len(r)) \o Units(e.id, e.n)
<1> DEFINE m == Len(r)
           w == Woven(r, h, q, m)
           u == Units(e.id, e.n)
<1>1. m \in Nat /\ m <= Len(r) /\ Ahead(e, h) = m
  BY AfterFact DEF Ahead
<1>2. Placed(r, h, Append(q, e), m)
  BY <1>1, PlacedAppend
<1>3. WovenStep(r, h, q, e, m)
  BY <1>1, <1>2, WovenSteps
<1>4. w \in Seq(Unit) /\ u \in Seq(Unit) /\ Woven(r, h, Append(q, e), m) = w \o (u \o SubSeq(r, m + 1, m))
  BY <1>1, <1>3 DEF WovenStep
<1>5. SubSeq(r, m + 1, m) = <<>>
  BY <1>1
<1>6. u \o <<>> = u
  BY <1>4, CatEmpty
<1> QED BY <1>2, <1>4, <1>5, <1>6

Leaves(r, h, q, n, s) ==
    /\ s \in Seq(Unit) /\ Len(s) = Len(r) - n /\ Elements(s) \subseteq Elements(r)
    /\ SubSeq(r, 1, n) \in Seq(Unit) /\ Len(SubSeq(r, 1, n)) = n
    /\ Placed(s, After(h, n), q, Len(s)) /\ Nearer(q, h, n)
    /\ Woven(s, After(h, n), q, Len(s)) \in Seq(Unit)
    /\ Woven(r, h, q, Len(r)) = SubSeq(r, 1, n) \o Woven(s, After(h, n), q, Len(s))

\* n bytes of the ring that leave, none of them behind a mark, were the first.
LEMMA CutWire ==
    ASSUME NEW r \in Seq(Unit), NEW h \in Positions, NEW q \in Seq(Record), Placed(r, h, q, Len(r)),
           NEW n \in Nat, n <= Len(r), n < Modulus, \A p \in Elements(q) : n <= Ahead(p, h),
           NEW s, s = SubSeq(r, n + 1, Len(r))
    PROVE  Leaves(r, h, q, n, s)
<1> DEFINE m == Len(r)
           o == 0
           a == SubSeq(r, 1, n)
           c == After(h, n)
<1>1. m \in Nat /\ n <= m /\ m <= Len(r)
  OBVIOUS
<1>2. s \in Seq(Unit) /\ Len(s) = m - n
  <2> HIDE DEF m
  <2> QED BY <1>1, SpanFact DEF m
<1>3. Elements(s) \subseteq Elements(r)
  BY CutFact
<1>4. a \in Seq(Unit) /\ Len(a) = n
  <2>1. o \in Nat /\ o <= n /\ o + 1 = 1 /\ n - o = n
    OBVIOUS
  <2> HIDE DEF o
  <2>2. SubSeq(r, o + 1, n) \in Seq(Unit) /\ Len(SubSeq(r, o + 1, n)) = n - o
    BY <2>1, SpanFact
  <2> QED BY <2>1, <2>2
<1>5. a \o s = r
  <2>1. o \in Nat /\ o <= n /\ o + 1 = 1
    OBVIOUS
  <2> HIDE DEF o, m
  <2>2. SubSeq(r, o + 1, n) \o SubSeq(r, n + 1, m) = SubSeq(r, o + 1, m)
    BY <1>1, <2>1, SpanSplit
  <2>3. SubSeq(r, 1, m) = r
    BY DEF m
  <2> QED BY <2>1, <2>2, <2>3 DEF m
<1>6. Placed(r, h, q, m)
  OBVIOUS
<1> HIDE DEF a, m
<1>7. Len(a) <= m /\ Len(a) < Modulus /\ Placed(a \o s, h, q, m)
  BY <1>1, <1>4, <1>5, <1>6
<1>8. \A p \in Elements(q) : Len(a) <= Ahead(p, h)
  BY <1>4
<1>9. /\ Woven(s, After(h, Len(a)), q, m - Len(a)) \in Seq(Unit)
      /\ Woven(a \o s, h, q, m) = a \o Woven(s, After(h, Len(a)), q, m - Len(a))
  <2>1. CutsTo(a, s, h, q, m)
    BY <1>1, <1>2, <1>4, <1>7, <1>8, WovenCut, Zenon
  <2> QED BY <2>1, Zenon DEF CutsTo
<1>10. Woven(s, c, q, Len(s)) \in Seq(Unit) /\ Woven(r, h, q, m) = a \o Woven(s, c, q, Len(s))
  BY <1>2, <1>4, <1>5, <1>9
<1>11. Placed(s, c, q, m - n) /\ Nearer(q, h, n)
  <2>1. Len(s) = Len(r) - n
    BY <1>2 DEF m
  <2> QED BY <2>1, <1>1, <1>2, <1>6, PlacedCut
<1>12. m - n = Len(s)
  BY <1>2
<1> QED BY <1>2, <1>3, <1>4, <1>10, <1>11, <1>12, Zenon DEF a, m, c, Leaves

\* What is left when the first n bytes and the front of q are gone from r.
LeavesWith(r, h, q, n, s) ==
    /\ Placed(s, After(h, n), Tail(q), Len(s))
    /\ Units(q[1].id, q[1].n) \in Seq(Unit)
    /\ SubSeq(r, 1, n) \o Units(q[1].id, q[1].n) \in Seq(Unit)
    /\ Woven(s, After(h, n), Tail(q), Len(s)) \in Seq(Unit)
    /\ Woven(r, h, q, Len(r)) =
          (SubSeq(r, 1, n) \o Units(q[1].id, q[1].n)) \o Woven(s, After(h, n), Tail(q), Len(s))

\* The front of the ledger leaves with the bytes ahead of it.
LEMMA TakeWire ==
    ASSUME NEW r \in Seq(Unit), NEW h \in Positions, NEW q \in Seq(Record), Placed(r, h, q, Len(r)),
           q # <<>>, NEW n \in Nat, n = Ahead(q[1], h), n <= Len(r), n < Modulus,
           NEW s, s = SubSeq(r, n + 1, Len(r))
    PROVE  LeavesWith(r, h, q, n, s)
<1> DEFINE c == After(h, n)
           a == SubSeq(r, 1, n)
           u == Units(q[1].id, q[1].n)
           z == Woven(s, c, Tail(q), Len(s))
<1>1. \A p \in Elements(q) : n <= Ahead(p, h)
  BY PlacedTail
<1>2. /\ s \in Seq(Unit) /\ a \in Seq(Unit) /\ Placed(s, c, q, Len(s)) /\ Nearer(q, h, n)
      /\ Woven(r, h, q, Len(r)) = a \o Woven(s, c, q, Len(s))
  <2>1. Leaves(r, h, q, n, s)
    BY <1>1, CutWire, Zenon
  <2> QED BY <2>1, Zenon DEF Leaves
<1>3. c \in Positions
  BY AfterFact
<1>4. Ahead(q[1], c) = 0
  <2>1. q[1] \in Elements(q)
    BY DEF Elements
  <2>2. Ahead(q[1], c) = n - n
    BY <2>1, <1>2 DEF Nearer
  <2> QED BY <2>2
<1>5. Len(s) \in Nat
  BY <1>2
<1>6. u \in Seq(Unit) /\ z \in Seq(Unit) /\ Woven(s, c, q, Len(s)) = u \o z
  <2> HIDE DEF c
  <2> QED BY <1>2, <1>3, <1>4, <1>5, WovenFront, ZenonT(40)
<1>7. Placed(s, c, Tail(q), Len(s))
  BY <1>2, PlacedTail
<1> HIDE DEF a, u, z, c
<1>8. a \in Seq(Unit) /\ u \in Seq(Unit) /\ z \in Seq(Unit)
  BY <1>2, <1>6
<1>9. Assoc(a, u, z)
  BY <1>8, CatAssociates, Zenon
<1>10. a \o u \in Seq(Unit)
  BY <1>8, CatFact, Zenon
<1>11. Woven(r, h, q, Len(r)) = (a \o u) \o z
  BY <1>2, <1>6, <1>9, Zenon DEF Assoc
<1> QED BY <1>7, <1>8, <1>10, <1>11, Zenon DEF a, u, z, c, LeavesWith
-----------------------------------------------------------------------------
(* Steps of the wire. *)

\* A whole frame at the end.
LEMMA PutStep ==
    ASSUME Merged \in Seq(Unit), NEW id \in Nat, NEW n \in Nat, n > 0,
           \A x \in Elements(Merged) : x.id # id,
           Merged' = Merged \o Units(id, n), taken' = <<>>
    PROVE  Wire!Put
<1> DEFINE m == Merged
           k == Merged'
           u == Units(id, n)
<1>1. u \in Seq(Unit) /\ Len(u) = n /\ \A i \in 1 .. n : u[i] = [id |-> id, pos |-> i]
  BY UnitsFact
<1>2. m \in Seq(Unit) /\ k = m \o u /\ \A x \in Elements(m) : x.id # id
  OBVIOUS
<1> HIDE DEF m, k, u
<1>3. SubSeq(k, Len(m) + 1, Len(k)) = u
  BY <1>1, <1>2, CatCut
<1>4. u # <<>> /\ 1 \in 1 .. n /\ u[1].id = id /\ DOMAIN u = 1 .. n
  BY <1>1
<1>5. \A i \in DOMAIN u : u[i] = [id |-> u[1].id, pos |-> i]
  BY <1>1, <1>4
<1>6. ~ \E i \in DOMAIN m : m[i].id = u[1].id
  BY <1>2, <1>4 DEF Elements
<1>7. u # <<>> /\ k = m \o u
  BY <1>2, <1>4
<1> QED BY <1>3, <1>5, <1>6, <1>7 DEF Wire!Put, Wire!Queued, m, k

\* The oldest units.
LEMMA EmitStep ==
    ASSUME NEW a \in Seq(Unit), a # <<>>, Merged' \in Seq(Unit), Merged = a \o Merged', taken' = a
    PROVE  Wire!Emit
<1> DEFINE m == Merged
           k == Merged'
           n == Len(a)
<1>1. k \in Seq(Unit) /\ m = a \o k
  OBVIOUS
<1> HIDE DEF m, k
<1>2. SubSeq(m, 1, n) = a /\ SubSeq(m, n + 1, Len(m)) = k
  BY <1>1, CatCut
<1>3. Len(m) = n + Len(k) /\ n \in Nat /\ n > 0 /\ Len(k) \in Nat
  BY <1>1, CatFact
<1>4. n \in 1 .. Len(m)
  BY <1>3
<1> HIDE DEF n
<1> QED BY <1>2, <1>4 DEF Wire!Emit, m, k

\* Whole frames, wherever they are.
LEMMA WithdrawStep ==
    ASSUME Merged \in Seq(Unit), NEW ids \in SUBSET Nat,
           \A id \in ids : [id |-> id, pos |-> 1] \in Elements(Merged),
           Merged' = Drop(Merged, {u \in Elements(Merged) : u.id \in ids}), taken' = <<>>
    PROVE  Wire!Withdraw
<1> DEFINE m == Merged
<1>1. \A id \in ids : \E i \in DOMAIN m : m[i] = [id |-> id, pos |-> 1]
  BY DEF Elements
<1>2. ids \in SUBSET {m[i].id : i \in DOMAIN m}
  <2> HIDE DEF m
  <2>1. ASSUME NEW id \in ids PROVE id \in {m[i].id : i \in DOMAIN m}
    <3>1. PICK i \in DOMAIN m : m[i] = [id |-> id, pos |-> 1]
      BY <1>1
    <3>2. m[i].id = id
      BY <3>1
    <3> QED BY <3>2
  <2> QED BY <2>1
<1>3. Wire!Elements(m) = Elements(m)
  BY Zenon DEF Elements, Wire!Elements
<1> DEFINE X == {u \in Elements(m) : u.id \in ids}
<1>4. Wire!Drop(m, X) = Drop(m, X)
  <2> HIDE DEF m, X
  <2> QED BY Zenon DEF Drop, Wire!Drop
<1>5. Merged' = Wire!Drop(m, {u \in Wire!Elements(m) : u.id \in ids})
  BY <1>3, <1>4, Zenon
<1> QED BY <1>1, <1>2, <1>5, Zenon DEF Wire!Withdraw
-----------------------------------------------------------------------------
(* The operations keep the invariant, and each is a step of the wire. *)

\* Records are counted by their length.
LEMMA RecordsCounted == Counted(Record)
  BY DEF Counted, Record

\* What the invariant says of the sizes and of the wire.
LEMMA Sizes ==
    ASSUME IInv
    PROVE  /\ Len(ring) \in Nat /\ Len(ring) < Modulus /\ Len(ledger) \in Nat
           /\ Storage \in Nat /\ Storage < Modulus
           /\ Merged \in Seq(Unit) /\ Merged = Woven(ring, head, ledger, Len(ring))
           /\ \A x \in Elements(Merged) : x.id <= frames /\ x.id \in Nat
<1>1. Len(ring) \in Nat /\ bytes \in Nat /\ Len(ledger) \in Nat /\ Len(ring) + bytes <= Storage
  BY DEF IInv
<1>2. Storage \in Nat /\ Storage < Modulus
  BY Constants DEF Storage
<1>3. Merged \in Seq(Unit)
  BY WovenType DEF IInv, Merged
<1>4. ASSUME NEW x \in Elements(Merged) PROVE x.id <= frames /\ x.id \in Nat
  <2>1. x.id \in Nat
    <3>1. x \in Unit
      BY <1>3 DEF Elements
    <3> QED BY <3>1 DEF Unit
  <2>2. x \in Elements(ring) \/ \E p \in Elements(ledger) : x.id = p.id
    BY <1>1, WovenUnits DEF IInv, Merged
  <2> QED BY <2>1, <2>2 DEF IInv, OwnIds
<1>5. Len(ring) < Modulus
  BY <1>1, <1>2, Constants
<1>6. Merged = Woven(ring, head, ledger, Len(ring))
  BY DEF Merged
<1> QED BY <1>1, <1>2, <1>3, <1>4, <1>5, <1>6

\* A copied frame, if there is room for it.
LEMMA GrowStep ==
    ASSUME IInv, NEW len \in Nat, len > 0,
           ring' = ring \o Units(frames + 1, len), frames' = frames + 1, taken' = <<>>,
           ledger' = ledger, bytes' = bytes, head' = head, terminal' \in {"free", "used"},
           Len(ring) + len + bytes <= Storage'
    PROVE  IInv' /\ Wire!Put
<1> DEFINE id == frames + 1
           v == Units(id, len)
           s == ring \o v
<1>1. id \in Nat /\ frames \in Nat
  BY DEF IInv
<1>2. v \in Seq(Unit) /\ Len(v) = len /\ \A u \in Elements(v) : u.id = id
  BY <1>1, UnitsFact
<1>3. ring \in Seq(Unit) /\ head \in Positions /\ ledger \in Seq(Record) /\ Placed(ring, head, ledger, Len(ring))
  BY DEF IInv
<1> HIDE DEF v
<1>4. /\ s \in Seq(Unit) /\ Len(s) = Len(ring) + Len(v)
      /\ Elements(s) = Elements(ring) \cup Elements(v)
      /\ Placed(s, head, ledger, Len(s))
      /\ Woven(s, head, ledger, Len(s)) = Woven(ring, head, ledger, Len(ring)) \o v
  BY <1>2, <1>3, GrowWire
<1>5. ring' = s
  BY DEF v
<1> HIDE DEF s
<1>6. OwnIds(s, ledger, id)
  <2>1. OwnIds(ring, ledger, frames)
    BY DEF IInv
  <2>2. ASSUME NEW u \in Elements(s) PROVE u.id <= id /\ u.id \in Nat
    <3>1. u \in Unit
      BY <1>4 DEF Elements
    <3>2. u.id \in Nat
      BY <3>1 DEF Unit
    <3> QED BY <3>2, <2>1, <1>1, <1>2, <1>4 DEF OwnIds
  <2>3. ASSUME NEW p \in Elements(ledger) PROVE p.id <= frames /\ p.id > 0 /\ p.id \in Nat
    <3>1. p \in Record
      BY <1>3 DEF Elements
    <3>2. p.id \in Nat
      BY <3>1 DEF Record
    <3> QED BY <3>2, <2>1 DEF OwnIds
  <2>4. ASSUME NEW u \in Elements(s), NEW p \in Elements(ledger) PROVE u.id # p.id
    <3>1. CASE u \in Elements(ring)
      BY <3>1, <2>1 DEF OwnIds
    <3>2. CASE u \in Elements(v)
      BY <3>2, <2>3, <1>1, <1>2
    <3> QED BY <3>1, <3>2, <1>4
  <2>5. \A p \in Elements(ledger) : p.id <= id /\ p.id > 0
    BY <2>3, <1>1
  <2>6. \A p, q \in Elements(ledger) : p.id = q.id => p = q
    BY <2>1 DEF OwnIds
  <2> QED BY <2>2, <2>4, <2>5, <2>6 DEF OwnIds
<1>7. Len(s) + bytes <= Storage'
  <2>1. bytes \in Nat /\ Len(ring) \in Nat
    BY DEF IInv
  <2> QED BY <2>1, <1>2, <1>4
<1>8. IInv'
  <2>1. /\ ledger \in Seq(Record) /\ Distinct(ledger) /\ head \in Positions /\ bytes \in Nat
        /\ Len(ledger) <= Payloads /\ bytes = Amount(ledger, Record)
    BY DEF IInv
  <2>2. ring' = s /\ ledger' = ledger /\ head' = head /\ bytes' = bytes /\ frames' = id
    BY <1>5
  <2>3. Placed(ring', head', ledger', Len(ring')) /\ OwnIds(ring', ledger', frames')
    BY <2>2, <1>4, <1>6
  <2>4. ring' \in Seq(Unit) /\ Len(ring') + bytes' <= Storage' /\ frames' \in Nat
    BY <2>2, <1>1, <1>4, <1>7
  <2> QED BY <2>1, <2>2, <2>3, <2>4 DEF IInv
<1>9. Merged' = Merged \o v
  BY <1>4, <1>5 DEF Merged
<1>10. \A x \in Elements(Merged) : x.id # id
  BY Sizes, <1>1
<1>11. Wire!Put
  <2>1. Merged \in Seq(Unit)
    BY Sizes
  <2>2. Merged' = Merged \o Units(id, len)
    BY <1>9 DEF v
  <2> HIDE DEF id
  <2> QED BY <1>1, <1>10, <2>1, <2>2, PutStep
<1> QED BY <1>8, <1>11

\* Outbound::append and GOAWAY
LEMMA CopyKeeps ==
    ASSUME IInv, NEW len \in Lens, NEW limit \in {Limit, Limit + ResetSlack}, Copy(len, limit)
    PROVE  IInv' /\ Wire!Put
<1>1. len \in Nat /\ len > 0 /\ Limit \in Nat /\ ResetSlack \in Nat /\ TerminalSlack \in Nat
  BY Constants
<1>2. /\ ring' = ring \o Units(frames + 1, len) /\ frames' = frames + 1 /\ taken' = <<>>
      /\ ledger' = ledger /\ bytes' = bytes /\ head' = head /\ terminal' = terminal
      /\ bytes <= limit /\ Len(ring) + len <= limit - bytes
  BY DEF Copy, HasRoom
<1>3. terminal \in {"free", "used"} /\ bytes \in Nat /\ Len(ring) \in Nat
  BY DEF IInv
<1>4. limit \in Nat /\ limit <= Limit + ResetSlack
  BY <1>1
<1>5. Storage' = Storage /\ Limit + ResetSlack <= Storage /\ Storage \in Nat
  BY <1>1, <1>2 DEF Storage
<1>6. Len(ring) + len + bytes <= Storage'
  BY <1>1, <1>2, <1>3, <1>4, <1>5
<1>7. terminal' \in {"free", "used"}
  BY <1>2, <1>3
<1> QED BY <1>1, <1>2, <1>6, <1>7, GrowStep

\* reserve::Ring::finish
LEMMA FinishKeeps ==
    ASSUME IInv, Finish
    PROVE  IInv' /\ Wire!Put
<1> DEFINE len == TerminalSlack
<1>1. len \in Nat /\ len > 0 /\ Limit \in Nat /\ ResetSlack \in Nat
  BY Constants
<1>2. /\ ring' = ring \o Units(frames + 1, len) /\ frames' = frames + 1 /\ taken' = <<>>
      /\ ledger' = ledger /\ bytes' = bytes /\ head' = head /\ terminal = "free" /\ terminal' = "used"
  BY DEF Finish
<1>3. bytes \in Nat /\ Len(ring) \in Nat /\ Len(ring) + bytes <= Storage
  BY DEF IInv
<1>4. Storage = Limit + ResetSlack /\ Storage' = Limit + ResetSlack + len
  BY <1>1, <1>2 DEF Storage
<1> HIDE DEF len
<1>5. Len(ring) + len + bytes <= Storage'
  BY <1>1, <1>3, <1>4
<1>6. terminal' \in {"free", "used"}
  BY <1>2
<1> QED BY <1>1, <1>2, <1>5, <1>6, GrowStep

\* Prepared::bind, Owned::try_new and Entry::insert
LEMMA RetainKeeps ==
    ASSUME IInv, NEW owner \in Nat, NEW headLen \in Nat, NEW body \in Nat, headLen + body > 0,
           Retain(owner, headLen, body)
    PROVE  IInv' /\ Wire!Put
<1> DEFINE id == frames + 1
           n == headLen + body
           e == [id |-> id, owner |-> owner, mark |-> Mark, head |-> headLen, n |-> n]
<1>1. /\ ring \in Seq(Unit) /\ head \in Positions /\ ledger \in Seq(Record) /\ Placed(ring, head, ledger, Len(ring))
      /\ Distinct(ledger) /\ bytes \in Nat /\ frames \in Nat /\ terminal \in {"free", "used"}
      /\ bytes = Amount(ledger, Record) /\ OwnIds(ring, ledger, frames)
  BY DEF IInv
<1>2. Len(ring) \in Nat /\ Len(ring) < Modulus /\ Len(ledger) \in Nat /\ Merged \in Seq(Unit)
      /\ Merged = Woven(ring, head, ledger, Len(ring))
  BY Sizes
<1>3. id \in Nat /\ n \in Nat /\ n > 0 /\ Mark \in Positions
  BY <1>1, <1>2, AfterFact DEF Mark
<1>4. /\ ledger' = Append(ledger, e) /\ bytes' = bytes + n /\ frames' = id /\ taken' = <<>>
      /\ ring' = ring /\ head' = head /\ terminal' = terminal
      /\ Len(ledger) < Payloads /\ Len(ring) + bytes + n <= Limit
  <2>1. Len(ring) + bytes + headLen + body <= Limit
    BY DEF Retain, Size
  <2>2. Len(ring) + bytes + n <= Limit
    BY <2>1, <1>1, <1>2, Constants
  <2>3. bytes' = bytes + n
    BY <1>1 DEF Retain
  <2> QED BY <2>2, <2>3 DEF Retain
<1>5. e \in Record /\ e.id = id /\ e.n = n /\ e.mark = After(head, Len(ring))
  <2>1. n \in Nat \ {0}
    BY <1>3
  <2> HIDE DEF n, id
  <2>2. e \in Record
    BY <1>3, <2>1 DEF Record
  <2>3. e.id = id /\ e.n = n /\ e.mark = Mark
    OBVIOUS
  <2> QED BY <2>2, <2>3 DEF Mark
<1> HIDE DEF e, n, id
<1>6. /\ Placed(ring, head, Append(ledger, e), Len(ring))
      /\ Woven(ring, head, Append(ledger, e), Len(ring)) = Woven(ring, head, ledger, Len(ring)) \o Units(e.id, e.n)
  BY <1>1, <1>2, <1>5, RetainWire
<1>7. ASSUME NEW p \in Elements(ledger) PROVE p.id <= frames /\ p.id > 0 /\ p.id \in Nat /\ p \in Record
  <2>1. p \in Record
    BY <1>1 DEF Elements
  <2>2. p.id \in Nat
    BY <2>1 DEF Record
  <2> QED BY <2>1, <2>2, <1>1 DEF OwnIds
<1>8. id = frames + 1
  BY DEF id
<1>9. e \notin Elements(ledger)
  BY <1>1, <1>5, <1>7, <1>8
<1>10. /\ Append(ledger, e) \in Seq(Record) /\ Len(Append(ledger, e)) = Len(ledger) + 1
       /\ Elements(Append(ledger, e)) = Elements(ledger) \cup {e} /\ Distinct(Append(ledger, e))
  BY <1>1, <1>5, <1>9, AppendFact
<1>11. Amount(Append(ledger, e), Record) = Amount(ledger, Record) + n
  <2>1. Amount(Append(ledger, e), Record) = Amount(ledger, Record) + Weight(e, Record)
    BY <1>1, <1>5, RecordsCounted, AmountAppend
  <2>2. Weight(e, Record) = n
    BY <1>5 DEF Weight
  <2> QED BY <2>1, <2>2
<1>12. OwnIds(ring, Append(ledger, e), id)
  <2>1. ASSUME NEW u \in Elements(ring) PROVE u.id <= frames /\ u.id \in Nat
    <3>1. u \in Unit
      BY <1>1 DEF Elements
    <3>2. u.id \in Nat
      BY <3>1 DEF Unit
    <3> QED BY <3>2, <1>1 DEF OwnIds
  <2>2. ASSUME NEW u \in Elements(ring) PROVE u.id <= id
    <3>1. u.id <= frames /\ u.id \in Nat /\ frames \in Nat
      BY <2>1, <1>1
    <3> QED BY <3>1, <1>8
  <2>3. ASSUME NEW p \in Elements(ledger) \cup {e}
        PROVE  p.id <= id /\ p.id > 0
    BY <1>1, <1>3, <1>5, <1>7, <1>8
  <2>4. ASSUME NEW u \in Elements(ring), NEW p \in Elements(ledger) \cup {e} PROVE u.id # p.id
    <3>1. CASE p = e
      BY <3>1, <2>1, <1>1, <1>5, <1>8
    <3>2. CASE p \in Elements(ledger)
      BY <3>2, <1>1 DEF OwnIds
    <3> QED BY <3>1, <3>2
  <2>5. ASSUME NEW p \in Elements(ledger) \cup {e}, NEW q \in Elements(ledger) \cup {e}, p.id = q.id PROVE p = q
    <3>1. CASE p \in Elements(ledger) /\ q \in Elements(ledger)
      BY <3>1, <2>5, <1>1 DEF OwnIds
    <3>2. CASE p \in Elements(ledger) /\ q = e
      BY <3>2, <2>5, <1>1, <1>5, <1>7, <1>8
    <3>3. CASE p = e /\ q \in Elements(ledger)
      BY <3>3, <2>5, <1>1, <1>5, <1>7, <1>8
    <3> QED BY <3>1, <3>2, <3>3
  <2> QED BY <2>2, <2>3, <2>4, <2>5, <1>10 DEF OwnIds
<1>13. IInv'
  <2>1. ring' = ring /\ ledger' = Append(ledger, e) /\ head' = head /\ bytes' = bytes + n /\ frames' = id
    BY <1>4
  <2>2. Placed(ring', head', ledger', Len(ring')) /\ OwnIds(ring', ledger', frames')
    BY <2>1, <1>6, <1>12
  <2>3. Storage' = Storage /\ Limit <= Storage /\ Storage \in Nat
    BY <1>4, Constants DEF Storage
  <2>4. Len(ring') + bytes' <= Storage' /\ bytes' \in Nat
    <3>1. Limit \in Nat /\ bytes \in Nat /\ n \in Nat /\ Len(ring) \in Nat /\ Len(ring) + bytes + n <= Limit
      BY <1>1, <1>2, <1>3, <1>4, Constants
    <3>2. Len(ring) + (bytes + n) <= Storage /\ bytes + n \in Nat
      BY <3>1, <2>3
    <3> QED BY <3>2, <2>1, <2>3
  <2>5. bytes' = Amount(ledger', Record)
    BY <2>1, <1>1, <1>11
  <2>6. Len(ledger') <= Payloads
    BY <2>1, <1>2, <1>4, <1>10, Constants
  <2> QED BY <2>1, <2>2, <2>4, <2>5, <2>6, <1>1, <1>3, <1>4, <1>10 DEF IInv
<1>14. Merged' = Merged \o Units(id, n)
  BY <1>2, <1>4, <1>5, <1>6 DEF Merged
<1>15. ASSUME NEW x \in Elements(Merged) PROVE x.id # id
  <2>1. x.id <= frames /\ x.id \in Nat /\ frames \in Nat
    BY Sizes, <1>1
  <2> QED BY <2>1, <1>8
<1>16. Wire!Put
  BY <1>2, <1>3, <1>4, <1>14, <1>15, PutStep
<1> QED BY <1>13, <1>16

\* Part of the ring and part of the ledger: ids stay apart.
LEMMA OwnIdsPart ==
    ASSUME NEW r, NEW q, NEW n, OwnIds(r, q, n), NEW s, NEW t,
           Elements(s) \subseteq Elements(r), Elements(t) \subseteq Elements(q)
    PROVE  OwnIds(s, t, n)
<1>1. \A u \in Elements(s) : u \in Elements(r)
  OBVIOUS
<1>2. \A p \in Elements(t) : p \in Elements(q)
  OBVIOUS
<1> QED BY <1>1, <1>2 DEF OwnIds

\* Records that are withdrawn take their units and their charge with them.
LEMMA WithdrawKeeps ==
    ASSUME IInv, NEW D \in SUBSET Elements(ledger),
           ledger' = Drop(ledger, D), bytes' = bytes - Amount(ledger, D), taken' = <<>>,
           ring' = ring, head' = head, terminal' = terminal, frames' = frames
    PROVE  IInv' /\ Wire!Withdraw
<1> DEFINE t == Drop(ledger, D)
<1>1. /\ ring \in Seq(Unit) /\ head \in Positions /\ ledger \in Seq(Record) /\ Placed(ring, head, ledger, Len(ring))
      /\ Distinct(ledger) /\ bytes \in Nat /\ frames \in Nat /\ terminal \in {"free", "used"}
      /\ Len(ledger) <= Payloads /\ Len(ring) + bytes <= Storage
      /\ bytes = Amount(ledger, Record) /\ OwnIds(ring, ledger, frames)
  BY DEF IInv
<1>2. Len(ring) \in Nat /\ Len(ring) < Modulus /\ Len(ledger) \in Nat /\ Merged \in Seq(Unit)
      /\ Merged = Woven(ring, head, ledger, Len(ring)) /\ Storage \in Nat
  BY Sizes
<1>3. \A p \in Elements(ledger) : p \in Record
  BY <1>1 DEF Elements
<1>4. t \in Seq(Record) /\ Elements(t) = Elements(ledger) \ D /\ Distinct(t) /\ Len(t) <= Len(ledger)
  BY <1>1, DropElements, DropDistinct, DropShorter
<1>5. Placed(ring, head, t, Len(ring))
  BY <1>1, <1>2, PlacedDrop
<1>6. OwnIds(ring, t, frames)
  BY <1>1, <1>4, OwnIdsPart
<1>7. Amount(t, Record) = Amount(ledger, Record) - Amount(ledger, D) /\ Amount(t, Record) \in Nat
  <2> DEFINE R == Record \ D
  <2>1. Amount(t, Record) = Amount(ledger, R)
    BY <1>1, RecordsCounted, DropAmount
  <2>2. D \subseteq Record /\ R \cap D = {} /\ R \cup D = Record
    BY <1>3
  <2> HIDE DEF R
  <2>3. Amount(ledger, R \cup D) = Amount(ledger, R) + Amount(ledger, D)
    BY <1>1, <2>2, RecordsCounted, AmountSplit
  <2>4. Amount(ledger, R) \in Int /\ Amount(ledger, D) \in Int
    BY <1>1, RecordsCounted, WeightsFact
  <2>5. \A f \in Record \cap Record : f.n >= 0
    BY DEF Record
  <2>6. Amount(t, Record) \in Nat
    BY <1>4, <2>5, RecordsCounted, AmountNat
  <2>7. Amount(ledger, Record) = Amount(ledger, R) + Amount(ledger, D)
    BY <2>2, <2>3
  <2> HIDE DEF t
  <2> QED BY <2>1, <2>4, <2>6, <2>7
<1>8. Amount(ledger, D) \in Nat
  <2>1. \A f \in Record \cap D : f.n >= 0
    BY DEF Record
  <2> QED BY <2>1, <1>1, RecordsCounted, AmountNat
<1> DEFINE ids == {p.id : p \in D}
           X == {u \in Elements(Merged) : u.id \in ids}
<1>9. ids \in SUBSET Nat /\ \A p \in D : p.id \in ids
  BY <1>3 DEF Record
<1>10. Sifts(ring, ledger, D, {u \in Unit : u.id \in ids})
  <2> DEFINE Y == {u \in Unit : u.id \in ids}
  <2>1. ASSUME NEW u \in Elements(ring), u \in Y PROVE FALSE
    <3>1. PICK p \in D : u.id = p.id
      BY <2>1
    <3>2. p \in Elements(ledger)
      OBVIOUS
    <3> QED BY <3>1, <3>2, <1>1 DEF OwnIds
  <2>2. ASSUME NEW p \in Elements(ledger)
        PROVE  /\ p \in D => Elements(Units(p.id, p.n)) \subseteq Y
               /\ p \notin D => Elements(Units(p.id, p.n)) \cap Y = {}
    <3>1. p.id \in Nat /\ p.n \in Nat
      BY <1>3 DEF Record
    <3> DEFINE v == Units(p.id, p.n)
    <3>2. v \in Seq(Unit) /\ \A u \in Elements(v) : u.id = p.id
      BY <3>1, UnitsFact
    <3> HIDE DEF v
    <3>3. \A u \in Elements(v) : u \in Unit /\ u.id = p.id
      BY <3>2 DEF Elements
    <3>4. p.id \in ids => p \in D
      <4>1. ASSUME p.id \in ids PROVE p \in D
        <5>1. PICK q \in D : p.id = q.id
          BY <4>1
        <5>2. q \in Elements(ledger)
          OBVIOUS
        <5>3. p = q
          BY <5>1, <5>2, <1>1 DEF OwnIds
        <5> QED BY <5>3
      <4> QED BY <4>1
    <3>5. p \in D => p.id \in ids
      BY <1>9
    <3> HIDE DEF ids
    <3>6. p \in D => Elements(v) \subseteq Y
      BY <3>3, <3>5
    <3>7. p \notin D => Elements(v) \cap Y = {}
      BY <3>3, <3>4
    <3> QED BY <3>6, <3>7 DEF v
  <2>3. Elements(ring) \cap Y = {}
    BY <2>1
  <2> HIDE DEF Y
  <2>4. Sifts(ring, ledger, D, Y)
    BY <2>2, <2>3 DEF Sifts
  <2> QED BY <2>4 DEF Y
<1> DEFINE Y == {u \in Unit : u.id \in ids}
<1>11. Sifts(ring, ledger, D, Y)
  BY <1>10
<1>12. Elements(Merged) \cap Y = Elements(Merged) \cap X
  <2>1. \A u \in Elements(Merged) : u \in Unit
    BY <1>2 DEF Elements
  <2> HIDE DEF ids
  <2> QED BY <2>1
<1> HIDE DEF t, ids, X, Y
<1>13. Woven(ring, head, t, Len(ring)) = Drop(Merged, Y)
  BY <1>1, <1>2, <1>11, WovenDrop DEF t
<1>14. Drop(Merged, Y) = Drop(Merged, X)
  BY <1>2, <1>12, DropSame
<1>15. ledger' = t
  BY DEF t
<1>16. Merged' = Drop(Merged, X)
  BY <1>13, <1>14, <1>15 DEF Merged
<1>17. \A id \in ids : [id |-> id, pos |-> 1] \in Elements(Merged)
  <2>1. \A p \in Elements(ledger) : [id |-> p.id, pos |-> 1] \in Elements(Merged)
    BY <1>1, <1>2, WovenUnits
  <2> QED BY <2>1 DEF ids
<1>18. Wire!Withdraw
  BY <1>2, <1>9, <1>16, <1>17, WithdrawStep DEF X
<1>19. IInv'
  <2>1. bytes' = Amount(t, Record) /\ bytes' \in Nat /\ bytes' <= bytes
    BY <1>1, <1>7, <1>8
  <2>2. Storage' = Storage
    BY DEF Storage
  <2>3. Len(ring) + bytes' <= Storage /\ Len(t) <= Payloads
    <3>1. Len(t) \in Nat /\ Payloads \in Nat
      BY <1>4, Constants
    <3> QED BY <3>1, <2>1, <1>1, <1>2, <1>4
  <2>4. Placed(ring', head', ledger', Len(ring')) /\ OwnIds(ring', ledger', frames')
    BY <1>5, <1>6, <1>15
  <2> QED BY <2>1, <2>2, <2>3, <2>4, <1>1, <1>4, <1>15 DEF IInv
<1> QED BY <1>18, <1>19

\* Retained::discard and Retained::cancel
LEMMA CancelKeeps ==
    ASSUME IInv, NEW owner \in Owners, Cancel(owner)
    PROVE  IInv' /\ Wire!Withdraw
<1> DEFINE D == Withdrawn(owner)
<1>1. /\ ledger' = Drop(ledger, D) /\ bytes' = bytes - Amount(ledger, D) /\ taken' = <<>>
      /\ ring' = ring /\ head' = head /\ terminal' = terminal /\ frames' = frames
  BY DEF Cancel, Charge
<1>2. D \in SUBSET Elements(ledger)
  BY DEF Withdrawn
<1> HIDE DEF D
<1> QED BY <1>1, <1>2, WithdrawKeeps

\* Retained::clear
LEMMA ClearKeeps ==
    ASSUME IInv, Clear
    PROVE  IInv' /\ Wire!Withdraw
<1> DEFINE D == Elements(ledger)
<1>1. /\ ledger' = <<>> /\ bytes' = 0 /\ taken' = <<>>
      /\ ring' = ring /\ head' = head /\ terminal' = terminal /\ frames' = frames
  BY DEF Clear
<1>2. ledger \in Seq(Record) /\ bytes = Amount(ledger, Record) /\ bytes \in Nat
  BY DEF IInv
<1>3. D \in SUBSET Elements(ledger) /\ Elements(ledger) \subseteq D
  OBVIOUS
<1>4. Amount(ledger, D) = bytes
  <2>1. \A f \in Elements(ledger) : f \in D <=> f \in Record
    BY <1>2 DEF Elements
  <2> HIDE DEF D
  <2> QED BY <1>2, <2>1, AmountSame
<1> HIDE DEF D
<1>5. Drop(ledger, D) = <<>>
  BY <1>2, <1>3, DropNone
<1>6. ledger' = Drop(ledger, D) /\ bytes' = bytes - Amount(ledger, D)
  BY <1>1, <1>2, <1>4, <1>5
<1> QED BY <1>1, <1>3, <1>6, WithdrawKeeps

\* What is due is in the ring, and no retained frame is closer.
LEMMA DueFact ==
    ASSUME IInv
    PROVE  /\ Due \in Nat /\ Due <= Len(ring)
           /\ \A p \in Elements(ledger) : Due <= Ahead(p, head)
           /\ ledger # <<>> => Due = Ahead(ledger[1], head) /\ ledger[1] \in Elements(ledger) /\ ledger[1] \in Record
<1>1. /\ ring \in Seq(Unit) /\ head \in Positions /\ ledger \in Seq(Record) /\ Placed(ring, head, ledger, Len(ring))
      /\ Len(ring) \in Nat
  BY DEF IInv
<1>2. CASE ledger = <<>>
  <2>1. Elements(ledger) = {}
    BY <1>2 DEF Elements
  <2> QED BY <1>1, <1>2, <2>1 DEF Due
<1>3. CASE ledger # <<>>
  <2>1. ledger[1] \in Elements(ledger) /\ ledger[1] \in Record
    BY <1>1, <1>3 DEF Elements
  <2>2. Due = Ahead(ledger[1], head)
    BY <1>3 DEF Due, Ahead
  <2>3. Ahead(ledger[1], head) \in Nat
    BY <1>1, <2>1, AheadFact
  <2>4. Ahead(ledger[1], head) <= Len(ring)
    BY <1>1, <2>1 DEF Placed
  <2>5. \A p \in Elements(ledger) : Ahead(ledger[1], head) <= Ahead(p, head)
    BY <1>1, <1>3, PlacedTail
  <2> QED BY <2>1, <2>2, <2>3, <2>4, <2>5
<1> QED BY <1>2, <1>3

\* Bytes of the ring leave and the ledger stays.
LEMMA DeferKeeps ==
    ASSUME IInv, NEW n \in Nat, n > 0, n <= Due, n <= Len(ring), Commit(n, "deferred")
    PROVE  IInv' /\ Wire!Emit
<1> DEFINE s == SubSeq(ring, n + 1, Len(ring))
           a == SubSeq(ring, 1, n)
           c == After(head, n)
<1>1. /\ ring \in Seq(Unit) /\ head \in Positions /\ ledger \in Seq(Record) /\ Placed(ring, head, ledger, Len(ring))
      /\ Distinct(ledger) /\ bytes \in Nat /\ frames \in Nat /\ terminal \in {"free", "used"}
      /\ Len(ledger) <= Payloads /\ Len(ring) + bytes <= Storage
      /\ bytes = Amount(ledger, Record) /\ OwnIds(ring, ledger, frames)
  BY DEF IInv
<1>2. Len(ring) \in Nat /\ Len(ring) < Modulus /\ Modulus \in Nat /\ n < Modulus /\ Storage \in Nat
      /\ Merged = Woven(ring, head, ledger, Len(ring))
  <2>1. Len(ring) \in Nat /\ Len(ring) < Modulus /\ Storage \in Nat
        /\ Merged = Woven(ring, head, ledger, Len(ring))
    BY Sizes
  <2>2. n < Modulus /\ Modulus \in Nat
    BY <2>1, Constants
  <2> QED BY <2>1, <2>2
<1>3. ASSUME NEW p \in Elements(ledger) PROVE n <= Ahead(p, head)
  <2>1. p \in Record
    BY <1>1 DEF Elements
  <2>2. Ahead(p, head) \in Nat /\ Due \in Nat /\ Due <= Ahead(p, head)
    BY <1>1, <2>1, AheadFact, DueFact
  <2> QED BY <2>2
<1>4. /\ ring' = s /\ head' = c /\ ledger' = ledger /\ bytes' = bytes /\ terminal' = terminal /\ frames' = frames
      /\ taken' = a \o <<>>
  BY DEF Commit, Advanced
<1>5. Leaves(ring, head, ledger, n, s)
  BY <1>1, <1>2, <1>3, CutWire
<1> HIDE DEF s
<1>6. /\ s \in Seq(Unit) /\ Len(s) = Len(ring) - n /\ Elements(s) \subseteq Elements(ring)
      /\ a \in Seq(Unit) /\ Len(a) = n /\ Placed(s, c, ledger, Len(s))
      /\ Woven(s, c, ledger, Len(s)) \in Seq(Unit)
      /\ Merged = a \o Woven(s, c, ledger, Len(s))
  BY <1>2, <1>5 DEF Leaves
<1>7. c \in Positions
  BY <1>1, <1>2, AfterFact
<1> HIDE DEF a, c
<1>8. Merged' = Woven(s, c, ledger, Len(s))
  BY <1>4 DEF Merged
<1>9. taken' = a /\ a # <<>>
  <2>1. a \o <<>> = a
    BY <1>6, CatEmpty
  <2> QED BY <2>1, <1>4, <1>6
<1>10. Wire!Emit
  BY <1>6, <1>8, <1>9, EmitStep
<1>11. OwnIds(s, ledger, frames)
  BY <1>1, <1>6, OwnIdsPart
<1>12. Len(s) + bytes <= Storage /\ Storage' = Storage
  <2>1. Storage' = Storage
    BY <1>4 DEF Storage
  <2> QED BY <2>1, <1>1, <1>2, <1>6
<1>13. IInv'
  <2>1. Placed(ring', head', ledger', Len(ring')) /\ OwnIds(ring', ledger', frames')
    BY <1>4, <1>6, <1>11
  <2> QED BY <2>1, <1>1, <1>4, <1>6, <1>7, <1>12 DEF IInv
<1> QED BY <1>10, <1>13

\* The front of the ledger leaves behind the bytes that are due before it.
LEMMA TakeKeeps ==
    ASSUME IInv, NEW n \in Nat, n = Due, ledger # <<>>, Commit(n, "taken")
    PROVE  IInv' /\ Wire!Emit
<1> DEFINE s == SubSeq(ring, n + 1, Len(ring))
           a == SubSeq(ring, 1, n)
           c == After(head, n)
           e == ledger[1]
           u == Units(e.id, e.n)
           t == Tail(ledger)
<1>1. /\ ring \in Seq(Unit) /\ head \in Positions /\ ledger \in Seq(Record) /\ Placed(ring, head, ledger, Len(ring))
      /\ Distinct(ledger) /\ bytes \in Nat /\ frames \in Nat /\ terminal \in {"free", "used"}
      /\ Len(ledger) <= Payloads /\ Len(ring) + bytes <= Storage
      /\ bytes = Amount(ledger, Record) /\ OwnIds(ring, ledger, frames)
  BY DEF IInv
<1>2. n <= Len(ring) /\ n = Ahead(e, head) /\ e \in Record /\ \A p \in Elements(ledger) : n <= Ahead(p, head)
  BY DueFact
<1>3. Len(ring) \in Nat /\ Len(ring) < Modulus /\ Modulus \in Nat /\ n < Modulus /\ Storage \in Nat
      /\ Merged = Woven(ring, head, ledger, Len(ring)) /\ Len(ledger) \in Nat
  <2>1. Len(ring) \in Nat /\ Len(ring) < Modulus /\ Storage \in Nat /\ Len(ledger) \in Nat
        /\ Merged = Woven(ring, head, ledger, Len(ring))
    BY Sizes
  <2>2. n < Modulus /\ Modulus \in Nat
    BY <2>1, <1>2, Constants
  <2> QED BY <2>1, <2>2
<1>4. /\ ring' = s /\ head' = c /\ ledger' = t /\ bytes' = bytes - e.n /\ terminal' = terminal /\ frames' = frames
      /\ taken' = a \o u
  BY DEF Commit, Advanced
<1>5. Leaves(ring, head, ledger, n, s)
  BY <1>1, <1>2, <1>3, CutWire
<1>6. /\ Placed(s, c, t, Len(s)) /\ u \in Seq(Unit) /\ a \o u \in Seq(Unit)
      /\ Woven(s, c, t, Len(s)) \in Seq(Unit)
      /\ Woven(ring, head, ledger, Len(ring)) = (a \o u) \o Woven(s, c, t, Len(s))
  <2>1. ledger \in Seq(Record) /\ n = Ahead(ledger[1], head) /\ s = SubSeq(ring, n + 1, Len(ring))
    BY <1>1, <1>2
  <2>2. LeavesWith(ring, head, ledger, n, s)
    <3> HIDE DEF s, a, c, e, u, t
    <3> QED BY <2>1, <1>1, <1>2, <1>3, TakeWire, Zenon
  <2> QED BY <2>2, Zenon DEF LeavesWith
<1> HIDE DEF s
<1>7. s \in Seq(Unit) /\ Len(s) = Len(ring) - n /\ Elements(s) \subseteq Elements(ring) /\ a \in Seq(Unit)
  BY <1>5 DEF Leaves
<1>8. c \in Positions
  BY <1>1, <1>3, AfterFact
<1>9. e = Head(ledger)
  BY <1>1
<1>10. /\ t \in Seq(Record) /\ Len(t) = Len(ledger) - 1 /\ Distinct(t) /\ Elements(t) \subseteq Elements(ledger)
  BY <1>1, TailFact, TailElements
<1>11. Amount(t, Record) = bytes - e.n /\ Amount(t, Record) \in Nat
  <2>1. Amount(t, Record) = Amount(ledger, Record) - Weight(e, Record)
    BY <1>1, <1>9, RecordsCounted, AmountTail
  <2>2. Weight(e, Record) = e.n
    BY <1>2 DEF Weight
  <2>3. \A f \in Record \cap Record : f.n >= 0
    BY DEF Record
  <2> HIDE DEF t
  <2>4. Amount(t, Record) \in Nat
    BY <1>10, <2>3, RecordsCounted, AmountNat
  <2> QED BY <2>1, <2>2, <2>4, <1>1
<1>12. e.id \in Nat /\ e.n \in Nat /\ e.n > 0
  BY <1>2 DEF Record
<1>13. Len(u) > 0
  <2>1. Len(u) = e.n
    BY <1>12, UnitsFact
  <2> QED BY <2>1, <1>12
<1> HIDE DEF a, c, u, t
<1>14. a \o u # <<>>
  <2>1. Len(a \o u) = Len(a) + Len(u) /\ Len(a) \in Nat /\ Len(u) \in Nat
    BY <1>6, <1>7
  <2>2. Len(a \o u) > 0
    BY <2>1, <1>13
  <2> QED BY <2>2
<1> DEFINE v == a \o u
<1> HIDE DEF v
<1>15. v \in Seq(Unit) /\ v # <<>> /\ taken' = v
  BY <1>4, <1>6, <1>14 DEF v
<1>16. Merged' = Woven(s, c, t, Len(s))
  BY <1>4 DEF Merged
<1>17. Merged' \in Seq(Unit) /\ Merged = v \o Merged'
  BY <1>3, <1>6, <1>16 DEF v
<1>18. Wire!Emit
  BY <1>15, <1>17, EmitStep
<1>19. OwnIds(s, t, frames)
  BY <1>1, <1>7, <1>10, OwnIdsPart
<1>20. Len(s) + bytes' <= Storage /\ Storage' = Storage /\ Len(t) <= Payloads
  <2>1. Storage' = Storage
    BY <1>4 DEF Storage
  <2>2. bytes' <= bytes /\ bytes' \in Nat
    BY <1>1, <1>4, <1>11, <1>12
  <2>3. Len(t) <= Payloads
    BY <1>1, <1>3, <1>10, Constants
  <2>4. Len(s) + bytes' <= Storage
    BY <2>2, <1>1, <1>3, <1>7, SMTT(30)
  <2> QED BY <2>1, <2>3, <2>4
<1>21. IInv'
  <2>1. Placed(ring', head', ledger', Len(ring')) /\ OwnIds(ring', ledger', frames')
    BY <1>4, <1>6, <1>19
  <2>2. bytes' = Amount(ledger', Record) /\ bytes' \in Nat
    BY <1>4, <1>11
  <2> QED BY <2>1, <2>2, <1>1, <1>4, <1>7, <1>8, <1>10, <1>20 DEF IInv
<1> QED BY <1>18, <1>21

-----------------------------------------------------------------------------
(* The transport's writes. *)

\* The least of two.
LEMMA LeastOfTwo ==
    ASSUME NEW a \in Nat, NEW b \in Nat
    PROVE  Min({a, b}) \in {a, b} /\ Min({a, b}) <= a /\ Min({a, b}) <= b
<1>1. \E x \in {a, b} : \A y \in {a, b} : x <= y
  <2>1. CASE a <= b
    BY <2>1
  <2>2. CASE b <= a
    BY <2>2
  <2> QED BY <2>1, <2>2
<1> QED BY <1>1 DEF Min

\* The least of three.
LEMMA LeastOfThree ==
    ASSUME NEW a \in Nat, NEW b \in Nat, NEW c \in Nat
    PROVE  /\ Min({a, b, c}) \in {a, b, c}
           /\ Min({a, b, c}) <= a /\ Min({a, b, c}) <= b /\ Min({a, b, c}) <= c
<1>1. \E x \in {a, b, c} : \A y \in {a, b, c} : x <= y
  <2>1. CASE a <= b /\ a <= c
    BY <2>1
  <2>2. CASE b <= a /\ b <= c
    BY <2>2
  <2>3. CASE c <= a /\ c <= b
    BY <2>3
  <2> QED BY <2>1, <2>2, <2>3
<1> QED BY <1>1 DEF Min

\* The prefix never reaches past what is due.
LEMMA PrefixFact ==
    ASSUME IInv, NEW room \in Nat
    PROVE  Prefix(room) \in Nat /\ Prefix(room) <= Due /\ Prefix(room) <= Len(ring)
<1>1. Due \in Nat /\ Len(ring) \in Nat
  BY DueFact, Sizes
<1>2. /\ Prefix(room) \in {room, Due, Len(ring)}
      /\ Prefix(room) <= Due /\ Prefix(room) <= Len(ring)
  BY <1>1, LeastOfThree DEF Prefix
<1> QED BY <1>1, <1>2

\* Selected::finish and Pending::commit
LEMMA WriteKeeps ==
    ASSUME IInv, NEW room \in Rooms, Write(room)
    PROVE  IInv' /\ Wire!Emit
<1> DEFINE n == Prefix(room)
<1>1. n \in Nat /\ n <= Due /\ n <= Len(ring)
  BY Constants, PrefixFact
<1>2. CASE TakesFront(room)
  <2>1. n = Due /\ ledger # <<>> /\ Commit(n, "taken")
    BY <1>2 DEF Write, TakesFront
  <2> HIDE DEF n
  <2> QED BY <2>1, <1>1, TakeKeeps
<1>3. CASE ~TakesFront(room)
  <2>1. n > 0 /\ Commit(n, "deferred")
    BY <1>3 DEF Write
  <2> HIDE DEF n
  <2> QED BY <2>1, <1>1, DeferKeeps
<1> QED BY <1>2, <1>3

\* Pooled::new
LEMMA WriteShortKeeps ==
    ASSUME IInv, NEW room \in Rooms, NEW cursor \in Rooms, WriteShort(room, cursor)
    PROVE  IInv' /\ Wire!Emit
<1> DEFINE p == Prefix(room)
           n == Min({cursor, p})
<1>1. p \in Nat /\ p <= Due /\ p <= Len(ring) /\ cursor \in Nat /\ Due \in Nat /\ Len(ring) \in Nat
  BY Constants, PrefixFact, DueFact, Sizes
<1>2. n > 0 /\ Commit(n, "deferred")
  BY DEF WriteShort
<1>3. n \in {cursor, p} /\ n <= p
  <2> HIDE DEF p
  <2> QED BY <1>1, LeastOfTwo
<1> HIDE DEF n, p
<1>4. n \in Nat /\ n <= Due /\ n <= Len(ring)
  BY <1>1, <1>3
<1> QED BY <1>2, <1>4, DeferKeeps

\* Transfer::drain
LEMMA DrainKeeps ==
    ASSUME IInv, NEW n \in Rooms, Drain(n)
    PROVE  IInv' /\ Wire!Emit
<1>1. n \in Nat /\ n > 0 /\ n <= Due /\ n <= Len(ring) /\ Commit(n, "deferred")
  BY Constants DEF Drain
<1> QED BY <1>1, DeferKeeps

\* Every step.
LEMMA NextKeeps ==
    ASSUME IInv, Next
    PROVE  IInv' /\ Wire!Next
<1>1. CASE \E len \in Lens, limit \in {Limit, Limit + ResetSlack} : Copy(len, limit)
  BY <1>1, CopyKeeps DEF Wire!Next
<1>2. CASE \E o \in Owners, b \in Bodies : Retain(o, HeadLen, b)
  <2>1. PICK o \in Owners, b \in Bodies : Retain(o, HeadLen, b)
    BY <1>2
  <2>2. o \in Nat /\ b \in Nat /\ HeadLen \in Nat /\ HeadLen + b > 0
    BY Constants
  <2> QED BY <2>1, <2>2, RetainKeeps DEF Wire!Next
<1>3. CASE \E b \in Bodies \ {0} : Retain(0, 0, b)
  <2>1. PICK b \in Bodies \ {0} : Retain(0, 0, b)
    BY <1>3
  <2> DEFINE z == 0
  <2>2. z \in Nat /\ b \in Nat /\ z + b > 0 /\ Retain(z, z, b)
    BY <2>1, Constants
  <2> HIDE DEF z
  <2> QED BY <2>2, RetainKeeps DEF Wire!Next
<1>4. CASE \E o \in Owners : Cancel(o)
  BY <1>4, CancelKeeps DEF Wire!Next
<1>5. CASE \E p \in Rooms : Write(p)
  BY <1>5, WriteKeeps DEF Wire!Next
<1>6. CASE \E p \in Rooms, r \in Rooms : WriteShort(p, r)
  BY <1>6, WriteShortKeeps DEF Wire!Next
<1>7. CASE \E n \in Rooms : Drain(n)
  BY <1>7, DrainKeeps DEF Wire!Next
<1>8. CASE Finish
  BY <1>8, FinishKeeps DEF Wire!Next
<1>9. CASE Clear
  BY <1>9, ClearKeeps DEF Wire!Next
<1> QED BY <1>1, <1>2, <1>3, <1>4, <1>5, <1>6, <1>7, <1>8, <1>9 DEF Next

\* And when nothing happens.
LEMMA StutterKeeps ==
    ASSUME IInv, UNCHANGED vars
    PROVE  IInv' /\ UNCHANGED <<Merged, taken>>
<1>1. /\ ring' = ring /\ ledger' = ledger /\ bytes' = bytes /\ head' = head
      /\ terminal' = terminal /\ frames' = frames /\ taken' = taken
  BY DEF vars
<1>2. Merged' = Merged
  BY <1>1 DEF Merged
<1>3. Storage' = Storage
  BY <1>1 DEF Storage
<1>4. Placed(ring', head', ledger', Len(ring')) /\ OwnIds(ring', ledger', frames')
  BY <1>1 DEF IInv
<1> QED BY <1>1, <1>2, <1>3, <1>4 DEF IInv

\* An empty output.
LEMMA InitKeeps ==
    ASSUME Init
    PROVE  IInv /\ Wire!Init
<1>1. /\ ring = <<>> /\ ledger = <<>> /\ bytes = 0 /\ head = 0 /\ terminal = "free"
      /\ frames = 0 /\ taken = <<>>
  BY DEF Init
<1>2. Elements(ring) = {} /\ Elements(ledger) = {} /\ Distinct(ledger) /\ Len(ring) = 0 /\ Len(ledger) = 0
  BY <1>1 DEF Elements, Distinct
<1>3. ring \in Seq(Unit) /\ ledger \in Seq(Record) /\ head \in Positions /\ 0 < Modulus
  BY <1>1, Constants DEF Positions
<1>4. Amount(ledger, Record) = 0
  BY <1>1, AmountEmpty
<1>5. Storage \in Nat
  BY <1>1, Constants DEF Storage
<1>6. Placed(ring, head, ledger, Len(ring))
  <2>1. Ordered(ledger, head)
    BY <1>2 DEF Ordered
  <2> QED BY <2>1, <1>2, <1>3 DEF Placed
<1>7. OwnIds(ring, ledger, frames)
  BY <1>2 DEF OwnIds
<1>8. IInv
  BY <1>1, <1>2, <1>3, <1>4, <1>5, <1>6, <1>7, Constants DEF IInv
<1>9. Merged = <<>>
  <2>1. Merged \in Seq(Unit)
    BY <1>8, Sizes
  <2>2. ASSUME NEW x \in Elements(Merged) PROVE FALSE
    <3>1. Len(ring) \in Nat /\ Merged = Woven(ring, head, ledger, Len(ring))
      BY <1>2 DEF Merged
    <3>2. x \in Elements(ring) \/ \E p \in Elements(ledger) : x.id = p.id
      BY <3>1, <2>2, <1>3, <1>6, WovenUnits
    <3> QED BY <3>2, <1>2
  <2>3. Len(Merged) = 0
    <3> DEFINE m == Merged
    <3>1. m \in Seq(Unit) /\ \A x \in Elements(m) : FALSE
      BY <2>1, <2>2
    <3> HIDE DEF m
    <3>2. Len(m) = 0
      <4>1. ASSUME Len(m) # 0 PROVE m[1] \in Elements(m)
        BY <4>1, <3>1 DEF Elements
      <4> QED BY <3>1, <4>1
    <3> QED BY <3>2 DEF m
  <2> QED BY <2>1, <2>3
<1> QED BY <1>1, <1>8, <1>9 DEF Wire!Init

\* The invariant holds what the run checks.
LEMMA InvariantSays ==
    ASSUME IInv
    PROVE  LedgerExact
<1>1. /\ ring \in Seq(Unit) /\ head \in Positions /\ ledger \in Seq(Record) /\ Placed(ring, head, ledger, Len(ring))
      /\ bytes \in Nat /\ terminal \in {"free", "used"} /\ Len(ledger) <= Payloads
      /\ Len(ring) + bytes <= Storage /\ bytes = Amount(ledger, Record)
  BY DEF IInv
<1>2. TypeOK
  BY <1>1 DEF TypeOK, Size, Storage, Positions
<1>3. bytes = Charge(Elements(ledger))
  <2>1. \A f \in Elements(ledger) : f \in Elements(ledger) <=> f \in Record
    BY <1>1 DEF Elements
  <2>2. Amount(ledger, Elements(ledger)) = Amount(ledger, Record)
    BY <1>1, <2>1, AmountSame
  <2> QED BY <1>1, <2>2 DEF Charge
<1>4. ASSUME NEW i \in DOMAIN ledger
      PROVE  /\ Distance(ledger[i].mark, head) <= Len(ring)
             /\ i > 1 => Distance(ledger[i - 1].mark, head) <= Distance(ledger[i].mark, head)
  <2>1. i \in 1 .. Len(ledger) /\ i \in Nat /\ ledger[i] \in Elements(ledger)
    BY <1>1 DEF Elements
  <2>2. Ahead(ledger[i], head) <= Len(ring)
    BY <1>1, <2>1 DEF Placed
  <2>3. ASSUME i > 1 PROVE Ahead(ledger[i - 1], head) <= Ahead(ledger[i], head)
    <3>1. i - 1 \in 1 .. Len(ledger) /\ i - 1 <= i
      BY <1>1, <2>1, <2>3
    <3> QED BY <3>1, <2>1, <1>1 DEF Placed, Ordered
  <2> QED BY <2>2, <2>3 DEF Ahead
<1> QED BY <1>2, <1>3, <1>4 DEF LedgerExact
-----------------------------------------------------------------------------
(* What is proved. *)

\* The inductive invariant: the account, the marks and the frames' ids stay in order
\* through every operation of the output (conn/outputs).
THEOREM OutboundInvariant == Spec => []IInv
<1>1. Init => IInv
  BY InitKeeps
<1>2. IInv /\ [Next]_vars => IInv'
  BY NextKeeps, StutterKeeps
<1> QED BY <1>1, <1>2, PTL DEF Spec

\* The ledger's account is the sum of its records, its marks run forward through the
\* ring's bytes wherever the position has wrapped, and the output stays within its
\* storage (Ledger, Mark::distance, reserve::Append).
THEOREM AccountExact == Spec => []LedgerExact
<1>1. IInv => LedgerExact
  BY InvariantSays
<1> QED BY <1>1, OutboundInvariant, PTL

\* However writes are cut and frames withdrawn, the transport gets frames whole and in
\* the order they were queued: ring and ledger implement H2Wire (Transfer::select).
THEOREM WireKept == Spec => WireOrder
<1>1. Init => Wire!Init
  BY InitKeeps
<1>2. IInv /\ [Next]_vars => [Wire!Next]_(Wire!vars)
  BY NextKeeps, StutterKeeps DEF Wire!vars
<1> QED BY <1>1, <1>2, OutboundInvariant, PTL DEF Spec, WireOrder, Wire!Spec
=============================================================================
