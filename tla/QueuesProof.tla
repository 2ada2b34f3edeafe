----------------------------- MODULE QueuesProof ----------------------------
(***************************************************************************)
(* What the operators of Queues return, for every queue.  The recursive    *)
(* ones need induction: NatInduct and QueueInduct state it for sets, which *)
(* the provers can instantiate.                                            *)
(***************************************************************************)
EXTENDS Queues, TLAPS, WellFoundedInduction, SequenceTheorems

-----------------------------------------------------------------------------
(* Taking from a queue and putting into it. *)

\* A ring without its front.
LEMMA TailFact ==
    ASSUME NEW T, NEW q \in Seq(T), q # <<>>
    PROVE  /\ Tail(q) \in Seq(T) /\ Len(Tail(q)) = Len(q) - 1 /\ DOMAIN Tail(q) = 1 .. Len(q) - 1
           /\ \A i \in 1 .. Len(q) - 1 : Tail(q)[i] = q[i + 1]
  OBVIOUS

\* Unlinking an element leaves the others as they were; the front one, the tail.
LEMMA UnlinkFact ==
    ASSUME NEW T, NEW q \in Seq(T), Distinct(q), NEW e
    PROVE  /\ Unlink(q, e) \in Seq(T)
           /\ Distinct(Unlink(q, e))
           /\ Elements(Unlink(q, e)) = Elements(q) \ {e}
           /\ e \notin Elements(q) => Unlink(q, e) = q
           /\ q # <<>> /\ e = Head(q) => Unlink(q, e) = Tail(q)
<1>1. CASE e \notin Elements(q)
  <2>1. Unlink(q, e) = q
    BY <1>1 DEF Unlink
  <2>2. q # <<>> => Head(q) \in Elements(q)
    BY DEF Elements
  <2> QED BY <1>1, <2>1, <2>2
<1>2. CASE e \in Elements(q)
  <2> DEFINE at == CHOOSE i \in DOMAIN q : q[i] = e
             r == [i \in 1 .. Len(q) - 1 |-> IF i < at THEN q[i] ELSE q[i + 1]]
  <2>1. at \in DOMAIN q /\ q[at] = e
    BY <1>2 DEF Elements
  <2>2. Unlink(q, e) = r
    BY <1>2 DEF Unlink
  <2>3. Len(q) \in Nat /\ DOMAIN q = 1 .. Len(q) /\ at \in 1 .. Len(q)
    BY <2>1
  <2> HIDE DEF at
  <2>4. r \in Seq(T) /\ Len(r) = Len(q) - 1 /\ DOMAIN r = 1 .. Len(q) - 1
    BY <2>3
  <2>5. Distinct(r)
    BY <2>3, <2>4 DEF Distinct
  <2>6. Elements(r) = Elements(q) \ {e}
    <3>1. ASSUME NEW x \in Elements(r) PROVE x \in Elements(q) \ {e}
      <4>1. PICK i \in 1 .. Len(q) - 1 : x = r[i]
        BY <2>4 DEF Elements
      <4>2. CASE i < at
        BY <4>1, <4>2, <2>1, <2>3 DEF Elements, Distinct
      <4>3. CASE ~(i < at)
        BY <4>1, <4>3, <2>1, <2>3 DEF Elements, Distinct
      <4> QED BY <4>2, <4>3
    <3>2. ASSUME NEW x \in Elements(q) \ {e} PROVE x \in Elements(r)
      <4>1. PICK i \in 1 .. Len(q) : x = q[i]
        BY <2>3 DEF Elements
      <4>2. i # at
        BY <4>1, <2>1
      <4>3. CASE i < at
        <5>1. i \in 1 .. Len(q) - 1 /\ r[i] = x
          BY <4>1, <4>3, <2>3
        <5> QED BY <5>1, <2>4 DEF Elements
      <4>4. CASE ~(i < at)
        <5>1. i - 1 \in 1 .. Len(q) - 1 /\ r[i - 1] = x
          BY <4>1, <4>2, <4>4, <2>3
        <5> QED BY <5>1, <2>4 DEF Elements
      <4> QED BY <4>3, <4>4
    <3> QED BY <3>1, <3>2
  <2>7. ASSUME q # <<>>, e = Head(q) PROVE r = Tail(q)
    <3>1. at = 1
      BY <2>1, <2>3, <2>7 DEF Distinct
    <3>2. Tail(q) \in Seq(T) /\ Len(Tail(q)) = Len(q) - 1
      BY <2>3, <2>7
    <3>3. \A i \in 1 .. Len(q) - 1 : Tail(q)[i] = q[i + 1] /\ r[i] = q[i + 1]
      BY <3>1, <2>3, <2>7
    <3> HIDE DEF r
    <3> QED BY <3>2, <3>3, <2>4
  <2> QED BY <1>2, <2>2, <2>4, <2>5, <2>6, <2>7
<1> QED BY <1>1, <1>2

\* Putting an element at the back.
LEMMA AppendFact ==
    ASSUME NEW T, NEW q \in Seq(T), NEW e \in T
    PROVE  /\ Append(q, e) \in Seq(T)
           /\ Elements(Append(q, e)) = Elements(q) \cup {e}
           /\ Distinct(q) /\ e \notin Elements(q) => Distinct(Append(q, e))
<1>1. Append(q, e) \in Seq(T) /\ Len(Append(q, e)) = Len(q) + 1 /\ Len(q) \in Nat
  OBVIOUS
<1>2. \A i \in 1 .. Len(q) : Append(q, e)[i] = q[i]
  OBVIOUS
<1>3. Append(q, e)[Len(q) + 1] = e
  OBVIOUS
<1>4. Elements(Append(q, e)) = Elements(q) \cup {e}
  BY <1>1, <1>2, <1>3 DEF Elements
<1>5. ASSUME Distinct(q), e \notin Elements(q) PROVE Distinct(Append(q, e))
  BY <1>1, <1>2, <1>3, <1>5 DEF Elements, Distinct
<1> QED BY <1>1, <1>4, <1>5

\* Putting one queue behind another.
LEMMA ConcatFact ==
    ASSUME NEW T, NEW q \in Seq(T), NEW r \in Seq(T)
    PROVE  /\ q \o r \in Seq(T)
           /\ Elements(q \o r) = Elements(q) \cup Elements(r)
           /\ Distinct(q) /\ Distinct(r) /\ Elements(q) \cap Elements(r) = {} => Distinct(q \o r)
<1>1. q \o r \in Seq(T) /\ Len(q \o r) = Len(q) + Len(r) /\ Len(q) \in Nat /\ Len(r) \in Nat
  OBVIOUS
<1>2. \A i \in 1 .. Len(q) : (q \o r)[i] = q[i]
  OBVIOUS
<1>3. \A i \in 1 .. Len(r) : (q \o r)[Len(q) + i] = r[i]
  OBVIOUS
<1>4. \A i \in 1 .. Len(q) + Len(r) :
         \/ i \in 1 .. Len(q)
         \/ i - Len(q) \in 1 .. Len(r) /\ (q \o r)[i] = r[i - Len(q)]
  BY <1>1, <1>3
<1>5. Elements(q \o r) = Elements(q) \cup Elements(r)
  <2>1. ASSUME NEW x \in Elements(q \o r) PROVE x \in Elements(q) \cup Elements(r)
    BY <1>1, <1>2, <1>4 DEF Elements
  <2>2. ASSUME NEW x \in Elements(q) PROVE x \in Elements(q \o r)
    BY <1>1, <1>2 DEF Elements
  <2>3. ASSUME NEW x \in Elements(r) PROVE x \in Elements(q \o r)
    <3>1. PICK i \in 1 .. Len(r) : x = r[i]
      BY DEF Elements
    <3>2. Len(q) + i \in 1 .. Len(q) + Len(r) /\ (q \o r)[Len(q) + i] = x
      BY <3>1, <1>1, <1>3
    <3> QED BY <3>2, <1>1 DEF Elements
  <2> QED BY <2>1, <2>2, <2>3
<1>6. ASSUME Distinct(q), Distinct(r), Elements(q) \cap Elements(r) = {},
             NEW i \in 1 .. Len(q) + Len(r), NEW j \in 1 .. Len(q) + Len(r),
             (q \o r)[i] = (q \o r)[j]
      PROVE  i = j
  <2>1. \A m \in 1 .. Len(q), n \in 1 .. Len(r) : q[m] # r[n]
    <3> SUFFICES ASSUME NEW m \in 1 .. Len(q), NEW n \in 1 .. Len(r), q[m] = r[n] PROVE FALSE
      OBVIOUS
    <3>1. q[m] \in Elements(q) /\ r[n] \in Elements(r)
      BY DEF Elements
    <3> QED BY <3>1, <1>6
  <2>2. CASE i \in 1 .. Len(q) /\ j \in 1 .. Len(q)
    BY <2>2, <1>2, <1>6 DEF Distinct
  <2>3. CASE i - Len(q) \in 1 .. Len(r) /\ j - Len(q) \in 1 .. Len(r)
    <3>1. r[i - Len(q)] = r[j - Len(q)]
      BY <1>3, <1>6, <2>3, <1>1
    <3>2. i - Len(q) = j - Len(q)
      BY <1>6, <2>3, <3>1, <1>1 DEF Distinct
    <3> QED BY <3>2, <1>1
  <2>4. CASE i \in 1 .. Len(q) /\ j - Len(q) \in 1 .. Len(r)
    BY <2>1, <2>4, <1>2, <1>4, <1>6, <1>1
  <2>5. CASE j \in 1 .. Len(q) /\ i - Len(q) \in 1 .. Len(r)
    BY <2>1, <2>5, <1>2, <1>4, <1>6, <1>1
  <2> QED BY <1>4, <2>2, <2>3, <2>4, <2>5
<1> QED BY <1>1, <1>5, <1>6 DEF Distinct
-----------------------------------------------------------------------------
(* Induction, stated for sets. *)

\* A set of naturals with 0 in it that is closed under successor is all of them.
LEMMA NatInduct ==
    ASSUME NEW S \in SUBSET Nat, 0 \in S, \A n \in S : n + 1 \in S
    PROVE  S = Nat
<1> DEFINE T == Nat \ S
<1> SUFFICES ASSUME T # {} PROVE FALSE
  OBVIOUS
<1>1. IsWellFoundedOn(OpToRel(<, Nat), Nat)
  BY NatLessThanWellFounded
<1>2. PICK x \in T : \A y \in T : ~(<<y, x>> \in OpToRel(<, Nat))
  <2> HIDE DEF T
  <2>1. T \subseteq Nat
    BY DEF T
  <2> QED BY <1>1, <2>1, WFMin
<1>3. \A y \in T : ~(y < x)
  BY <1>2 DEF OpToRel
<1> QED BY <1>3

\* A set of naturals that is not empty has a least member.
LEMMA LeastFact ==
    ASSUME NEW S \in SUBSET Nat, S # {}
    PROVE  \E x \in S : \A y \in S : x <= y
<1>1. IsWellFoundedOn(OpToRel(<, Nat), Nat)
  BY NatLessThanWellFounded
<1>2. PICK x \in S : \A y \in S : ~(<<y, x>> \in OpToRel(<, Nat))
  BY <1>1, WFMin
<1>3. \A y \in S : ~(y < x)
  BY <1>2 DEF OpToRel
<1> QED BY <1>3

\* A set of queues with the empty one in it that is closed under Append is all of them.
LEMMA QueueInduct ==
    ASSUME NEW T, NEW S \in SUBSET Seq(T), <<>> \in S, \A q \in S, e \in T : Append(q, e) \in S
    PROVE  S = Seq(T)
<1> DEFINE N == {n \in Nat : \A q \in Seq(T) : Len(q) = n => q \in S}
<1>1. 0 \in N
  OBVIOUS
<1>2. ASSUME NEW n \in N PROVE n + 1 \in N
  <2> SUFFICES ASSUME NEW q \in Seq(T), Len(q) = n + 1 PROVE q \in S
    BY DEF N
  <2> DEFINE r == SubSeq(q, 1, n)
  <2>1. r \in Seq(T) /\ Len(r) = n /\ q[n + 1] \in T
    OBVIOUS
  <2>2. q = Append(r, q[n + 1])
    <3>1. Append(r, q[n + 1]) \in Seq(T) /\ Len(Append(r, q[n + 1])) = n + 1
      BY <2>1, SMTT(30)
    <3>2. \A i \in 1 .. n + 1 : Append(r, q[n + 1])[i] = q[i]
      BY <2>1, SMTT(30)
    <3> DEFINE u == Append(r, q[n + 1])
    <3>3. u \in Seq(T) /\ Len(u) = Len(q) /\ Len(q) \in Nat /\ \A i \in 1 .. Len(q) : u[i] = q[i]
      BY <3>1, <3>2, SMTT(30)
    <3> HIDE DEF u
    <3>4. u = q
      BY <3>3
    <3> QED BY <3>4 DEF u
  <2>3. r \in S
    BY <2>1
  <2> QED BY <2>1, <2>2, <2>3
<1>3. N = Nat
  <2> HIDE DEF N
  <2>1. N \in SUBSET Nat
    BY DEF N
  <2> QED BY <1>1, <1>2, <2>1, NatInduct
<1>4. ASSUME NEW q \in Seq(T) PROVE q \in S
  <2>1. Len(q) \in N
    BY <1>3
  <2> QED BY <2>1
<1> QED BY <1>4

\* What a recursive definition does from one place to the next.
Steps(n, V) == [(1 .. n) \X V -> V]

\* g takes n such steps, from z.
RunsFrom(n, z, step, g) == g[0] = z /\ \A i \in 1 .. n : g[i] = step[<<i, g[i - 1]>>]

\* A function of 0 .. n given by its first value and by a step from each to the next.
LEMMA RunExists ==
    ASSUME NEW n \in Nat, NEW V, NEW z \in V, NEW step \in Steps(n, V)
    PROVE  \E g \in [0 .. n -> V] : RunsFrom(n, z, step, g)
<1> USE DEF RunsFrom
<1> DEFINE Runs(m, g) == RunsFrom(m, z, step, g)
           S == {m \in Nat : m <= n => \E g \in [0 .. m -> V] : Runs(m, g)}
<1>1. 0 \in S
  <2>1. [i \in 0 .. 0 |-> z] \in [0 .. 0 -> V] /\ Runs(0, [i \in 0 .. 0 |-> z])
    OBVIOUS
  <2> QED BY <2>1
<1>2. ASSUME NEW m \in S PROVE m + 1 \in S
  <2> SUFFICES ASSUME m + 1 <= n PROVE \E g \in [0 .. m + 1 -> V] : Runs(m + 1, g)
    BY DEF S
  <2>1. m \in Nat /\ m <= n
    OBVIOUS
  <2>2. PICK g \in [0 .. m -> V] : Runs(m, g)
    BY <2>1
  <2> DEFINE h == [i \in 0 .. m + 1 |-> IF i = m + 1 THEN step[<<m + 1, g[m]>>] ELSE g[i]]
  <2>3. g[m] \in V /\ step[<<m + 1, g[m]>>] \in V
    BY <2>1, <2>2 DEF Steps
  <2>4. h \in [0 .. m + 1 -> V]
    BY <2>1, <2>3
  <2>5. h[0] = z
    BY <2>1, <2>2
  <2>6. ASSUME NEW i \in 1 .. m + 1 PROVE h[i] = step[<<i, h[i - 1]>>]
    <3>1. CASE i = m + 1
      <4>1. h[m + 1] = step[<<m + 1, g[m]>>] /\ h[m] = g[m] /\ i - 1 = m
        BY <2>1, <3>1
      <4> QED BY <3>1, <4>1
    <3>2. CASE i # m + 1
      <4>1. i \in 1 .. m /\ h[i] = g[i] /\ h[i - 1] = g[i - 1]
        BY <2>1, <3>2
      <4> QED BY <2>2, <4>1
    <3> QED BY <3>1, <3>2
  <2> HIDE DEF h
  <2> QED BY <2>4, <2>5, <2>6
<1>3. S = Nat
  <2> HIDE DEF S
  <2>1. S \in SUBSET Nat
    BY DEF S
  <2> QED BY <1>1, <1>2, <2>1, NatInduct
<1>4. n \in S
  <2> HIDE DEF S
  <2> QED BY <1>3
<1> QED BY <1>4
-----------------------------------------------------------------------------
(* Adding up a queue of integers. *)

\* The sums are what their recursive definition says.
LEMMA SumsFact ==
    ASSUME NEW q \in Seq(Int)
    PROVE  /\ Sums(q) \in [0 .. Len(q) -> Int] /\ Sums(q)[0] = 0
           /\ \A i \in 1 .. Len(q) : Sums(q)[i] = Sums(q)[i - 1] + q[i]
           /\ SumOf(q) \in Int
<1> DEFINE n == Len(q)
           step == [p \in (1 .. n) \X Int |-> p[2] + q[p[1]]]
           Is(g) == g = [i \in 0 .. n |-> IF i = 0 THEN 0 ELSE g[i - 1] + q[i]]
           f == CHOOSE g : Is(g)
<1>1. n \in Nat /\ step \in [(1 .. n) \X Int -> Int]
  OBVIOUS
<1>2. PICK g \in [0 .. n -> Int] : g[0] = 0 /\ \A i \in 1 .. n : g[i] = step[<<i, g[i - 1]>>]
  <2> DEFINE z == 0
             V == Int
  <2>1. z \in V /\ n \in Nat /\ step \in Steps(n, V)
    BY <1>1 DEF Steps
  <2> HIDE DEF n, step, z, V, Is, f
  <2>2. \E g \in [0 .. n -> V] : RunsFrom(n, z, step, g)
    BY <2>1, RunExists, Zenon
  <2> QED BY <2>2 DEF z, V, RunsFrom
<1>3. Is(g)
  <2>1. ASSUME NEW i \in 0 .. n PROVE g[i] = IF i = 0 THEN 0 ELSE g[i - 1] + q[i]
    <3>1. CASE i = 0
      BY <1>2, <3>1
    <3>2. CASE i # 0
      <4>1. i \in 1 .. n /\ i - 1 \in 0 .. n /\ <<i, g[i - 1]>> \in (1 .. n) \X Int
        BY <1>1, <1>2, <3>2, SMTT(30)
      <4> QED BY <1>2, <3>2, <4>1
    <3> QED BY <3>1, <3>2
  <2> QED BY <1>2, <2>1
<1>4. Is(f)
  BY <1>3
<1>5. Sums(q) = f
  BY DEF Sums
<1> HIDE DEF f
<1>6. f[0] = 0 /\ \A i \in 1 .. n : f[i] = f[i - 1] + q[i]
  <2>1. DOMAIN f = 0 .. n
    BY <1>4
  <2>2. \A i \in 0 .. n : f[i] = IF i = 0 THEN 0 ELSE f[i - 1] + q[i]
    BY <1>4
  <2> QED BY <1>1, <2>2
<1>7. \A i \in 0 .. n : f[i] \in Int
  <2> DEFINE S == {i \in Nat : i <= n => f[i] \in Int}
  <2>1. 0 \in S
    BY <1>6
  <2>2. ASSUME NEW i \in S PROVE i + 1 \in S
    <3> SUFFICES ASSUME i + 1 <= n PROVE f[i + 1] \in Int
      OBVIOUS
    <3>1. i + 1 \in 1 .. n /\ q[i + 1] \in Int /\ f[i] \in Int /\ (i + 1) - 1 = i
      BY <1>1
    <3>2. f[i + 1] = f[i] + q[i + 1]
      BY <1>6, <3>1
    <3> QED BY <3>1, <3>2
  <2>3. S = Nat
    <3> HIDE DEF S
    <3>1. S \in SUBSET Nat
      BY DEF S
    <3> QED BY <2>1, <2>2, <3>1, NatInduct
  <2>4. ASSUME NEW i \in 0 .. n PROVE f[i] \in Int
    <3>1. i \in S
      <4> HIDE DEF S
      <4> QED BY <1>1, <2>3
    <3> QED BY <1>1, <3>1
  <2> QED BY <2>4
<1>8. f \in [0 .. n -> Int]
  BY <1>4, <1>7
<1> QED BY <1>1, <1>5, <1>6, <1>8 DEF SumOf
\* Two queues that begin alike have the same sums so far.
LEMMA SumsPrefix ==
    ASSUME NEW q \in Seq(Int), NEW r \in Seq(Int), NEW n \in Nat, n <= Len(q), n <= Len(r),
           \A i \in 1 .. n : q[i] = r[i]
    PROVE  \A i \in 0 .. n : Sums(q)[i] = Sums(r)[i]
<1> DEFINE S == {i \in Nat : i <= n => Sums(q)[i] = Sums(r)[i]}
<1>1. 0 \in S
  BY SumsFact
<1>2. ASSUME NEW i \in S PROVE i + 1 \in S
  <2> SUFFICES ASSUME i + 1 <= n PROVE Sums(q)[i + 1] = Sums(r)[i + 1]
    OBVIOUS
  <2>1. i + 1 \in 1 .. Len(q) /\ i + 1 \in 1 .. Len(r) /\ i + 1 \in 1 .. n /\ (i + 1) - 1 = i
    OBVIOUS
  <2>2. Sums(q)[i] = Sums(r)[i]
    BY <2>1
  <2>3. Sums(q)[i + 1] = Sums(q)[i] + q[i + 1] /\ Sums(r)[i + 1] = Sums(r)[i] + r[i + 1]
    BY <2>1, SumsFact
  <2> QED BY <2>1, <2>2, <2>3
<1>3. S = Nat
  <2> HIDE DEF S
  <2>1. S \in SUBSET Nat
    BY DEF S
  <2> QED BY <1>1, <1>2, <2>1, NatInduct
<1>4. ASSUME NEW i \in 0 .. n PROVE Sums(q)[i] = Sums(r)[i]
  <2>1. i \in S
    <3> HIDE DEF S
    <3> QED BY <1>3
  <2> QED BY <2>1
<1> QED BY <1>4

\* The sum grows by what is put at the back, and the sums before it stay.
LEMMA SumAppend ==
    ASSUME NEW q \in Seq(Int), NEW x \in Int
    PROVE  /\ Append(q, x) \in Seq(Int)
           /\ \A i \in 0 .. Len(q) : Sums(Append(q, x))[i] = Sums(q)[i]
           /\ Sums(Append(q, x))[Len(q) + 1] = SumOf(q) + x
           /\ SumOf(Append(q, x)) = SumOf(q) + x
<1> DEFINE r == Append(q, x)
<1>1. /\ r \in Seq(Int) /\ Len(r) = Len(q) + 1 /\ Len(q) \in Nat
      /\ \A i \in 1 .. Len(q) : r[i] = q[i]
      /\ r[Len(q) + 1] = x
  OBVIOUS
<1> HIDE DEF r
<1>2. \A i \in 0 .. Len(q) : Sums(r)[i] = Sums(q)[i]
  <2>1. Len(q) <= Len(q) /\ Len(q) <= Len(r)
    BY <1>1
  <2> QED BY <1>1, <2>1, SumsPrefix
<1>3. Sums(r)[Len(r)] = Sums(r)[Len(q)] + x
  <2>1. Len(r) \in 1 .. Len(r) /\ Len(r) - 1 = Len(q) /\ r[Len(r)] = x
    BY <1>1
  <2> QED BY <1>1, <2>1, SumsFact
<1>4. Sums(r)[Len(q)] = Sums(q)[Len(q)]
  BY <1>1, <1>2
<1> QED BY <1>1, <1>2, <1>3, <1>4 DEF SumOf, r

\* It shrinks by what is taken from the front.
LEMMA SumTail ==
    ASSUME NEW q \in Seq(Int), q # <<>>
    PROVE  /\ \A i \in 1 .. Len(q) : Sums(Tail(q))[i - 1] = Sums(q)[i] - q[1]
           /\ SumOf(Tail(q)) = SumOf(q) - q[1]
<1> DEFINE r == Tail(q)
           n == Len(q)
<1>1. /\ r \in Seq(Int) /\ Len(r) = n - 1 /\ n \in Nat \ {0} /\ q[1] \in Int
      /\ \A i \in 1 .. n - 1 : r[i] = q[i + 1]
  BY TailFact
<1> DEFINE S == {i \in Nat : i + 1 <= n => Sums(r)[i] = Sums(q)[i + 1] - q[1]}
<1> HIDE DEF r
<1>2. 0 \in S
  <2>1. Sums(q)[1] = Sums(q)[1 - 1] + q[1] /\ 1 - 1 = 0 /\ 0 + 1 = 1
    <3>1. 1 \in 1 .. Len(q)
      BY <1>1
    <3> QED BY <3>1, SumsFact
  <2>2. Sums(q)[0] = 0 /\ Sums(r)[0] = 0
    BY <1>1, SumsFact
  <2>3. Sums(r)[0] = Sums(q)[0 + 1] - q[1]
    BY <1>1, <2>1, <2>2
  <2> QED BY <2>3
<1>3. ASSUME NEW i \in S PROVE i + 1 \in S
  <2> SUFFICES ASSUME (i + 1) + 1 <= n PROVE Sums(r)[i + 1] = Sums(q)[(i + 1) + 1] - q[1]
    OBVIOUS
  <2>1. Sums(r)[i] = Sums(q)[i + 1] - q[1] /\ i \in Nat
    BY <1>1
  <2>2. /\ i + 1 \in 1 .. Len(r) /\ (i + 1) - 1 = i
        /\ (i + 1) + 1 \in 1 .. Len(q) /\ ((i + 1) + 1) - 1 = i + 1
        /\ i + 1 \in 0 .. Len(q) /\ i + 1 \in 1 .. n - 1
    BY <1>1
  <2>3. Sums(r)[i + 1] = Sums(r)[i] + r[i + 1] /\ Sums(q)[(i + 1) + 1] = Sums(q)[i + 1] + q[(i + 1) + 1]
    BY <1>1, <2>2, SumsFact
  <2>4. Sums(q)[i + 1] \in Int /\ r[i + 1] = q[(i + 1) + 1] /\ r[i + 1] \in Int
    <3>1. Sums(q) \in [0 .. Len(q) -> Int]
      BY SumsFact
    <3>2. Sums(q)[i + 1] \in Int
      BY <2>2, <3>1
    <3>3. r[i + 1] = q[(i + 1) + 1] /\ r[i + 1] \in Int
      BY <1>1, <2>2
    <3> QED BY <3>2, <3>3
  <2> QED BY <1>1, <2>1, <2>3, <2>4
<1>4. S = Nat
  <2> HIDE DEF S
  <2>1. S \in SUBSET Nat
    BY DEF S
  <2> QED BY <1>2, <1>3, <2>1, NatInduct
<1>5. ASSUME NEW i \in 1 .. n PROVE Sums(r)[i - 1] = Sums(q)[i] - q[1]
  <2>1. i - 1 \in S
    <3> HIDE DEF S
    <3> QED BY <1>1, <1>4
  <2>2. (i - 1) + 1 = i /\ (i - 1) + 1 <= n
    BY <1>1
  <2> QED BY <2>1, <2>2
<1>6. SumOf(r) = SumOf(q) - q[1]
  <2>1. n \in 1 .. n
    BY <1>1
  <2> QED BY <1>1, <1>5, <2>1 DEF SumOf
<1> QED BY <1>5, <1>6 DEF r
-----------------------------------------------------------------------------
(* Dropping from a queue. *)

\* g runs through q and ends with what Drop leaves of it.
DropRun(q, S, g) ==
    /\ g[0] = <<>> /\ g[Len(q)] = Drop(q, S)
    /\ \A i \in 1 .. Len(q) : g[i] = IF q[i] \in S THEN g[i - 1] ELSE Append(g[i - 1], q[i])

\* The recursion of Drop, by the back of the queue.
LEMMA DropFact ==
    ASSUME NEW T, NEW q \in Seq(T), NEW S
    PROVE  /\ Drop(q, S) \in Seq(T)
           /\ \E g : DropRun(q, S, g)
<1> DEFINE n == Len(q)
           V == Seq(T)
           step == [p \in (1 .. n) \X V |-> IF q[p[1]] \in S THEN p[2] ELSE Append(p[2], q[p[1]])]
           Is(g) == g = [i \in 0 .. n |-> IF i = 0 THEN <<>>
                                          ELSE IF q[i] \in S THEN g[i - 1] ELSE Append(g[i - 1], q[i])]
           f == CHOOSE g : Is(g)
<1>1. n \in Nat /\ step \in Steps(n, V)
  <2>1. ASSUME NEW p \in (1 .. n) \X V
        PROVE  (IF q[p[1]] \in S THEN p[2] ELSE Append(p[2], q[p[1]])) \in V
    <3>1. p[1] \in 1 .. n /\ p[2] \in Seq(T) /\ q[p[1]] \in T
      OBVIOUS
    <3> QED BY <3>1
  <2> HIDE DEF V
  <2> QED BY <2>1 DEF Steps
<1>2. PICK g \in [0 .. n -> V] : g[0] = <<>> /\ \A i \in 1 .. n : g[i] = step[<<i, g[i - 1]>>]
  <2> DEFINE z == <<>>
  <2>1. z \in V
    OBVIOUS
  <2> HIDE DEF n, step, z, V, Is, f
  <2>2. \E g \in [0 .. n -> V] : RunsFrom(n, z, step, g)
    BY <1>1, <2>1, RunExists, Zenon
  <2> QED BY <2>2 DEF z, RunsFrom
<1> DEFINE next(h, i) == IF q[i] \in S THEN h[i - 1] ELSE Append(h[i - 1], q[i])
<1>3. \A i \in 1 .. n : g[i] = next(g, i)
  <2> SUFFICES ASSUME NEW i \in 1 .. n PROVE g[i] = next(g, i)
    OBVIOUS
  <2>1. i - 1 \in 0 .. n
    BY <1>1
  <2> HIDE DEF V
  <2>2. <<i, g[i - 1]>> \in (1 .. n) \X V
    BY <1>2, <2>1
  <2>3. step[<<i, g[i - 1]>>] = next(g, i)
    BY <2>2
  <2> QED BY <1>2, <2>3
<1>4. Is(g)
  <2> HIDE DEF V, next
  <2>1. ASSUME NEW i \in 0 .. n PROVE g[i] = IF i = 0 THEN <<>> ELSE next(g, i)
    BY <1>1, <1>2, <1>3
  <2>2. g = [i \in 0 .. n |-> IF i = 0 THEN <<>> ELSE next(g, i)]
    BY <1>2, <2>1
  <2> QED BY <2>2 DEF next
<1>5. Is(f)
  BY <1>4
<1>6. Drop(q, S) = f[n]
  BY DEF Drop
<1> HIDE DEF f
<1>7. DOMAIN f = 0 .. n /\ f[0] = <<>> /\ \A i \in 1 .. n : f[i] = next(f, i)
  <2>1. \A i \in 0 .. n : f[i] = IF i = 0 THEN <<>> ELSE next(f, i)
    BY <1>5
  <2>2. DOMAIN f = 0 .. n
    BY <1>5
  <2> HIDE DEF next, Is
  <2>3. 0 \in 0 .. n /\ \A i \in 1 .. n : i \in 0 .. n /\ i # 0
    BY <1>1
  <2> QED BY <2>1, <2>2, <2>3
<1>8. \A i \in 0 .. n : f[i] \in Seq(T)
  <2> DEFINE N == {i \in Nat : i <= n => f[i] \in Seq(T)}
  <2>1. 0 \in N
    <3>1. f[0] \in Seq(T)
      BY <1>7
    <3> QED BY <3>1
  <2>2. ASSUME NEW i \in N PROVE i + 1 \in N
    <3> SUFFICES ASSUME i + 1 <= n PROVE f[i + 1] \in Seq(T)
      OBVIOUS
    <3>1. i + 1 \in 1 .. n /\ q[i + 1] \in T /\ f[i] \in Seq(T) /\ (i + 1) - 1 = i
      BY <1>1
    <3>2. f[i + 1] = IF q[i + 1] \in S THEN f[i] ELSE Append(f[i], q[i + 1])
      BY <1>7, <3>1
    <3> QED BY <3>1, <3>2
  <2>3. N = Nat
    <3> HIDE DEF N
    <3>1. N \in SUBSET Nat
      BY DEF N
    <3> QED BY <2>1, <2>2, <3>1, NatInduct
  <2>4. ASSUME NEW i \in 0 .. n PROVE f[i] \in Seq(T)
    <3>1. i \in N
      <4> HIDE DEF N
      <4> QED BY <1>1, <2>3
    <3> QED BY <1>1, <3>1
  <2> QED BY <2>4
<1>9. f[n] \in Seq(T)
  BY <1>1, <1>8
<1>10. DropRun(q, S, f)
  BY <1>6, <1>7 DEF DropRun
<1> QED BY <1>6, <1>9, <1>10
\* There is nothing to drop from an empty queue.
LEMMA DropEmpty ==
    ASSUME NEW S
    PROVE  Drop(<<>>, S) = <<>>
<1>1. <<>> \in Seq({}) /\ Len(<<>>) = 0
  OBVIOUS
<1>2. PICK g : DropRun(<<>>, S, g)
  BY <1>1, DropFact
<1> QED BY <1>1, <1>2 DEF DropRun

\* Dropping from a queue with an element more.
LEMMA DropAppend ==
    ASSUME NEW T, NEW q \in Seq(T), NEW S, NEW e \in T
    PROVE  Drop(Append(q, e), S) = IF e \in S THEN Drop(q, S) ELSE Append(Drop(q, S), e)
<1> DEFINE r == Append(q, e)
           n == Len(q)
<1>2. /\ r \in Seq(T) /\ Len(r) = n + 1 /\ n \in Nat
      /\ \A i \in 1 .. n : r[i] = q[i]
      /\ r[n + 1] = e
  OBVIOUS
<1> HIDE DEF r
<1>3. PICK f : DropRun(q, S, f)
  BY DropFact
<1>4. PICK g : DropRun(r, S, g)
  BY <1>2, DropFact
<1>5. f[n] = g[n]
  <2> DEFINE N == {i \in Nat : i <= n => f[i] = g[i]}
  <2>1. 0 \in N
    BY <1>3, <1>4 DEF DropRun
  <2>2. ASSUME NEW i \in N PROVE i + 1 \in N
    <3> SUFFICES ASSUME i + 1 <= n PROVE f[i + 1] = g[i + 1]
      OBVIOUS
    <3>1. i + 1 \in 1 .. n /\ i + 1 \in 1 .. Len(r) /\ (i + 1) - 1 = i /\ f[i] = g[i] /\ r[i + 1] = q[i + 1]
      BY <1>2
    <3>2. f[i + 1] = IF q[i + 1] \in S THEN f[i] ELSE Append(f[i], q[i + 1])
      BY <1>3, <3>1 DEF DropRun
    <3>3. g[i + 1] = IF r[i + 1] \in S THEN g[i] ELSE Append(g[i], r[i + 1])
      BY <1>4, <3>1 DEF DropRun
    <3> QED BY <3>1, <3>2, <3>3
  <2>3. N = Nat
    <3> HIDE DEF N
    <3>1. N \in SUBSET Nat
      BY DEF N
    <3> QED BY <2>1, <2>2, <3>1, NatInduct
  <2>4. n \in N
    <3> HIDE DEF N
    <3> QED BY <1>2, <2>3
  <2> QED BY <1>2, <2>4
<1>6. g[n + 1] = IF e \in S THEN g[n] ELSE Append(g[n], e)
  <2>1. n + 1 \in 1 .. Len(r) /\ (n + 1) - 1 = n
    BY <1>2
  <2> QED BY <1>2, <1>4, <2>1 DEF DropRun
<1>7. f[n] = Drop(q, S) /\ g[n + 1] = Drop(r, S)
  BY <1>2, <1>3, <1>4 DEF DropRun
<1> QED BY <1>5, <1>6, <1>7 DEF r

\* What is left is what was not to be dropped.
LEMMA DropElements ==
    ASSUME NEW T, NEW q \in Seq(T), NEW D
    PROVE  Drop(q, D) \in Seq(T) /\ Elements(Drop(q, D)) = Elements(q) \ D
<1> DEFINE S == {r \in Seq(T) : Elements(Drop(r, D)) = Elements(r) \ D}
<1>1. <<>> \in S
  <2>1. Drop(<<>>, D) = <<>>
    BY DropEmpty
  <2>2. Elements(<<>>) = {}
    BY DEF Elements
  <2>3. <<>> \in Seq(T)
    OBVIOUS
  <2> QED BY <2>1, <2>2, <2>3
<1>2. ASSUME NEW r \in S, NEW e \in T PROVE Append(r, e) \in S
  <2>1. r \in Seq(T) /\ Elements(Drop(r, D)) = Elements(r) \ D
    OBVIOUS
  <2>2. Drop(Append(r, e), D) = IF e \in D THEN Drop(r, D) ELSE Append(Drop(r, D), e)
    BY <2>1, DropAppend
  <2>3. Drop(r, D) \in Seq(T)
    BY <2>1, DropFact
  <2>4. Append(r, e) \in Seq(T) /\ Elements(Append(r, e)) = Elements(r) \cup {e}
    BY <2>1, AppendFact
  <2>5. Elements(Append(Drop(r, D), e)) = Elements(Drop(r, D)) \cup {e}
    BY <2>3, AppendFact
  <2>6. Elements(Drop(Append(r, e), D)) = Elements(Append(r, e)) \ D
    BY <2>1, <2>2, <2>4, <2>5
  <2> QED BY <2>4, <2>6
<1>3. S = Seq(T)
  <2> HIDE DEF S
  <2>1. S \in SUBSET Seq(T)
    BY DEF S
  <2> QED BY <1>1, <1>2, <2>1, QueueInduct
<1>4. q \in S
  <2> HIDE DEF S
  <2> QED BY <1>3
<1> QED BY <1>4, DropFact

\* Dropping makes no queue longer.
LEMMA DropShorter ==
    ASSUME NEW T, NEW q \in Seq(T), NEW D
    PROVE  Len(Drop(q, D)) <= Len(q)
<1> DEFINE S == {r \in Seq(T) : Len(Drop(r, D)) <= Len(r)}
<1>1. <<>> \in S
  BY DropEmpty
<1>2. ASSUME NEW r \in S, NEW e \in T PROVE Append(r, e) \in S
  <2>1. r \in Seq(T) /\ Append(r, e) \in Seq(T) /\ Drop(r, D) \in Seq(T)
    BY DropFact
  <2>2. Drop(Append(r, e), D) = IF e \in D THEN Drop(r, D) ELSE Append(Drop(r, D), e)
    BY <2>1, DropAppend
  <2>3. Len(Append(r, e)) = Len(r) + 1 /\ Len(Append(Drop(r, D), e)) = Len(Drop(r, D)) + 1
    BY <2>1
  <2>4. Len(Drop(r, D)) <= Len(r) /\ Len(r) \in Nat /\ Len(Drop(r, D)) \in Nat
    BY <2>1
  <2>5. Len(Drop(Append(r, e), D)) <= Len(Append(r, e))
    BY <2>2, <2>3, <2>4
  <2> QED BY <2>1, <2>5
<1>3. S = Seq(T)
  <2> HIDE DEF S
  <2>1. S \in SUBSET Seq(T)
    BY DEF S
  <2> QED BY <1>1, <1>2, <2>1, QueueInduct
<1> HIDE DEF S
<1>4. q \in S
  BY <1>3
<1> QED BY <1>4 DEF S

\* Dropping makes nothing appear twice.
LEMMA DropDistinct ==
    ASSUME NEW T, NEW q \in Seq(T), NEW D, Distinct(q)
    PROVE  Distinct(Drop(q, D))
<1> DEFINE S == {r \in Seq(T) : Distinct(r) => Distinct(Drop(r, D))}
<1>1. <<>> \in S
  BY DropEmpty DEF Distinct
<1>2. ASSUME NEW r \in S, NEW e \in T PROVE Append(r, e) \in S
  <2>1. r \in Seq(T) /\ (Distinct(r) => Distinct(Drop(r, D))) /\ Append(r, e) \in Seq(T)
    OBVIOUS
  <2>2. ASSUME Distinct(Append(r, e)) PROVE Distinct(Drop(Append(r, e), D))
    <3>1. DOMAIN r = 1 .. Len(r) /\ DOMAIN Append(r, e) = 1 .. Len(r) + 1 /\ Len(r) \in Nat
      BY <2>1
    <3>2. Append(r, e)[Len(r) + 1] = e /\ \A i \in 1 .. Len(r) : Append(r, e)[i] = r[i]
      BY <2>1
    <3>3. Distinct(r) /\ e \notin Elements(r)
      <4>1. \A i \in 1 .. Len(r) : i \in 1 .. Len(r) + 1 /\ i # Len(r) + 1
        BY <3>1
      <4>2. Len(r) + 1 \in 1 .. Len(r) + 1
        BY <3>1
      <4> QED BY <2>2, <3>1, <3>2, <4>1, <4>2 DEF Distinct, Elements
    <3>4. Drop(r, D) \in Seq(T) /\ Distinct(Drop(r, D)) /\ e \notin Elements(Drop(r, D))
      BY <2>1, <3>3, DropElements
    <3>5. Distinct(Append(Drop(r, D), e))
      BY <3>4, AppendFact
    <3>6. Drop(Append(r, e), D) = IF e \in D THEN Drop(r, D) ELSE Append(Drop(r, D), e)
      BY <2>1, DropAppend
    <3>7. CASE e \in D
      BY <3>4, <3>6, <3>7
    <3>8. CASE e \notin D
      BY <3>5, <3>6, <3>8
    <3> QED BY <3>7, <3>8
  <2> QED BY <2>1, <2>2
<1>3. S = Seq(T)
  <2> HIDE DEF S
  <2>1. S \in SUBSET Seq(T)
    BY DEF S
  <2> QED BY <1>1, <1>2, <2>1, QueueInduct
<1>4. q \in S
  <2> HIDE DEF S
  <2> QED BY <1>3
<1> QED BY <1>4

\* What is taken from the front of a queue and what stays make up the queue.
LEMMA TailElements ==
    ASSUME NEW T, NEW q \in Seq(T), q # <<>>
    PROVE  /\ Tail(q) \in Seq(T) /\ Head(q) \in T
           /\ Elements(q) = Elements(Tail(q)) \cup {Head(q)}
           /\ Distinct(q) => Distinct(Tail(q)) /\ Head(q) \notin Elements(Tail(q))
<1>1. DOMAIN q = 1 .. Len(q) /\ Len(q) \in Nat /\ Len(q) > 0 /\ Head(q) = q[1] /\ 1 \in 1 .. Len(q) /\ Head(q) \in T
  OBVIOUS
<1>2. Tail(q) \in Seq(T) /\ DOMAIN Tail(q) = 1 .. Len(q) - 1 /\ \A i \in 1 .. Len(q) - 1 : Tail(q)[i] = q[i + 1]
  BY TailFact
<1>3. \A i \in 1 .. Len(q) : i = 1 \/ (i - 1 \in 1 .. Len(q) - 1 /\ q[i] = Tail(q)[i - 1])
  BY <1>1, <1>2
<1>4. \A i \in 1 .. Len(q) - 1 : i + 1 \in 1 .. Len(q) /\ i + 1 # 1
  BY <1>1
<1>5. \A i, j \in 1 .. Len(q) - 1 : i + 1 = j + 1 => i = j
  BY <1>1
<1> DEFINE t == Tail(q)
<1> HIDE DEF t
<1>6. ASSUME NEW e \in Elements(q) PROVE e \in Elements(t) \cup {Head(q)}
  <2>1. PICK i \in 1 .. Len(q) : e = q[i]
    BY <1>1 DEF Elements
  <2>2. i = 1 \/ (i - 1 \in DOMAIN t /\ q[i] = t[i - 1])
    BY <1>2, <1>3 DEF t
  <2> QED BY <1>1, <2>1, <2>2 DEF Elements
<1>7. Elements(t) \cup {Head(q)} \subseteq Elements(q)
  BY <1>1, <1>2, <1>4 DEF Elements, t
<1>8. Distinct(q) => Distinct(t) /\ Head(q) \notin Elements(t)
  BY <1>1, <1>2, <1>4, <1>5 DEF Distinct, Elements, t
<1> QED BY <1>1, <1>2, <1>6, <1>7, <1>8 DEF t

\* The last of a queue of two or more is the last of its tail.
LEMMA LastTail ==
    ASSUME NEW T, NEW q \in Seq(T), q # <<>>, q[1] # q[Len(q)]
    PROVE  Tail(q) # <<>> /\ Tail(q)[Len(Tail(q))] = q[Len(q)]
<1> DEFINE n == Len(q)
           t == Tail(q)
<1>1. n \in Nat /\ n >= 1 /\ n # 1
  OBVIOUS
<1>2. t \in Seq(T) /\ Len(t) = n - 1 /\ \A i \in 1 .. n - 1 : t[i] = q[i + 1]
  BY TailFact
<1> HIDE DEF n, t
<1>3. n - 1 \in 1 .. n - 1 /\ (n - 1) + 1 = n
  BY <1>1
<1>4. t[n - 1] = q[(n - 1) + 1]
  BY <1>2, <1>3
<1>5. t[Len(t)] = q[n]
  BY <1>2, <1>3, <1>4
<1>6. t # <<>>
  <2>1. Len(<<>>) = 0
    OBVIOUS
  <2> QED BY <1>1, <1>2, <2>1
<1> QED BY <1>5, <1>6 DEF n, t

\* What follows the first m of a queue, and the others.
LEMMA CutFact ==
    ASSUME NEW T, NEW q \in Seq(T), NEW m \in 0 .. Len(q)
    PROVE  LET r == SubSeq(q, m + 1, Len(q))
           IN  /\ r \in Seq(T)
               /\ Elements(q) = Elements(r) \cup {q[i] : i \in 1 .. m}
               /\ Distinct(q) => Distinct(r) /\ Elements(r) \cap {q[i] : i \in 1 .. m} = {}
<1> DEFINE r == SubSeq(q, m + 1, Len(q))
           front == {q[i] : i \in 1 .. m}
<1>1. Len(q) \in Nat /\ DOMAIN q = 1 .. Len(q) /\ m \in Nat /\ m <= Len(q)
  OBVIOUS
<1>2. r \in Seq(T) /\ DOMAIN r = 1 .. Len(q) - m /\ \A i \in 1 .. Len(q) - m : r[i] = q[i + m]
  BY <1>1
<1>3. \A i \in 1 .. Len(q) - m : i + m \in 1 .. Len(q) /\ i + m \notin 1 .. m
  BY <1>1
<1>4. \A i \in 1 .. Len(q) : i \in 1 .. m \/ (i - m \in 1 .. Len(q) - m /\ q[i] = r[i - m])
  BY <1>1, <1>2
<1>5. \A i, j \in 1 .. Len(q) - m : i + m = j + m => i = j
  BY <1>1
<1>6. \A i \in 1 .. m : i \in 1 .. Len(q)
  BY <1>1
<1> HIDE DEF r
<1>7. ASSUME NEW e \in Elements(q) PROVE e \in Elements(r) \cup front
  <2>1. PICK i \in 1 .. Len(q) : e = q[i]
    BY <1>1 DEF Elements
  <2> QED BY <1>2, <1>4, <2>1 DEF Elements
<1>8. Elements(r) \cup front \subseteq Elements(q)
  BY <1>1, <1>2, <1>3, <1>6 DEF Elements
<1>9. Distinct(q) => Distinct(r)
  BY <1>1, <1>2, <1>3, <1>5 DEF Distinct
<1>10. ASSUME Distinct(q), NEW e \in Elements(r), e \in front PROVE FALSE
  <2>1. PICK i \in 1 .. Len(q) - m : e = q[i + m]
    BY <1>2 DEF Elements
  <2>2. PICK j \in 1 .. m : e = q[j]
    BY <1>10
  <2> QED BY <1>1, <1>3, <1>6, <1>10, <2>1, <2>2, ZenonT(40) DEF Distinct
<1> QED BY <1>2, <1>7, <1>8, <1>9, <1>10 DEF r
-----------------------------------------------------------------------------
(* Amounts. *)

\* Elements that can be added up.
Counted(T) == \A f \in T : f.n \in Int

\* What an element counts for.
Weight(f, S) == IF f \in S THEN f.n ELSE 0

Weights(q, S) == [i \in DOMAIN q |-> Weight(q[i], S)]

\* The sum of the first i.
Partial(q, S, i) == Sums(Weights(q, S))[i]

\* The weights of a queue are a queue.
LEMMA WeightsFact ==
    ASSUME NEW T, Counted(T), NEW q \in Seq(T), NEW S
    PROVE  /\ Weights(q, S) \in Seq(Int) /\ Len(Weights(q, S)) = Len(q)
           /\ \A i \in 1 .. Len(q) : Weights(q, S)[i] = Weight(q[i], S)
           /\ Amount(q, S) = SumOf(Weights(q, S)) /\ Amount(q, S) \in Int
           /\ Amount(q, S) = Partial(q, S, Len(q))
           /\ \A i \in 0 .. Len(q) : Partial(q, S, i) \in Int
<1>1. \A f \in T : Weight(f, S) \in Int
  BY DEF Weight, Counted
<1>2. \A i \in 1 .. Len(q) : q[i] \in T
  OBVIOUS
<1>3. /\ Weights(q, S) \in Seq(Int) /\ Len(Weights(q, S)) = Len(q)
      /\ \A i \in 1 .. Len(q) : Weights(q, S)[i] = Weight(q[i], S)
  BY <1>1, <1>2 DEF Weights
<1>4. Amount(q, S) = SumOf(Weights(q, S))
  BY DEF Amount, Weights, Weight
<1>5. SumOf(Weights(q, S)) \in Int /\ \A i \in 0 .. Len(q) : Partial(q, S, i) \in Int
  BY <1>3, SumsFact DEF Partial
<1>6. Amount(q, S) = Partial(q, S, Len(q))
  BY <1>3, <1>4 DEF SumOf, Partial
<1> QED BY <1>3, <1>4, <1>5, <1>6

\* An empty queue amounts to nothing.
LEMMA AmountEmpty ==
    ASSUME NEW S
    PROVE  Amount(<<>>, S) = 0
<1>1. Counted({}) /\ <<>> \in Seq({}) /\ Len(<<>>) = 0
  BY DEF Counted
<1>2. Weights(<<>>, S) \in Seq(Int) /\ Len(Weights(<<>>, S)) = 0 /\ Amount(<<>>, S) = SumOf(Weights(<<>>, S))
  BY <1>1, WeightsFact
<1>3. Sums(Weights(<<>>, S))[0] = 0
  BY <1>2, SumsFact
<1> QED BY <1>2, <1>3 DEF SumOf

\* One element more, at the back.
LEMMA AmountAppend ==
    ASSUME NEW T, Counted(T), NEW q \in Seq(T), NEW f \in T, NEW S
    PROVE  /\ Amount(Append(q, f), S) = Amount(q, S) + Weight(f, S)
           /\ \A i \in 0 .. Len(q) : Partial(Append(q, f), S, i) = Partial(q, S, i)
<1> DEFINE r == Append(q, f)
           v == Weights(q, S)
           u == Append(v, Weight(f, S))
<1>1. v \in Seq(Int) /\ Len(v) = Len(q) /\ \A i \in 1 .. Len(q) : v[i] = Weight(q[i], S)
  BY WeightsFact
<1>2. /\ r \in Seq(T) /\ Len(r) = Len(q) + 1 /\ Len(q) \in Nat
      /\ r[Len(q) + 1] = f /\ \A i \in 1 .. Len(q) : r[i] = q[i]
  OBVIOUS
<1>3. Weight(f, S) \in Int
  BY DEF Weight, Counted
<1> HIDE DEF r, v
<1>4. /\ u \in Seq(Int) /\ Len(u) = Len(q) + 1 /\ u[Len(q) + 1] = Weight(f, S)
      /\ \A i \in 1 .. Len(q) : u[i] = v[i]
  BY <1>1, <1>3
<1> HIDE DEF u
<1>5. Weights(r, S) = u
  <2>1. /\ Weights(r, S) \in Seq(Int) /\ Len(Weights(r, S)) = Len(r)
        /\ \A i \in 1 .. Len(r) : Weights(r, S)[i] = Weight(r[i], S)
    BY <1>2, WeightsFact
  <2>2. ASSUME NEW i \in 1 .. Len(r) PROVE Weights(r, S)[i] = u[i]
    <3>1. CASE i = Len(q) + 1
      BY <1>2, <1>4, <2>1, <3>1
    <3>2. CASE i # Len(q) + 1
      <4>1. i \in 1 .. Len(q)
        BY <1>2, <3>2
      <4> QED BY <1>1, <1>2, <1>4, <2>1, <4>1
    <3> QED BY <3>1, <3>2
  <2> QED BY <1>2, <1>4, <2>1, <2>2
<1>6. SumOf(u) = SumOf(v) + Weight(f, S) /\ \A i \in 0 .. Len(v) : Sums(u)[i] = Sums(v)[i]
  BY <1>1, <1>3, SumAppend DEF u
<1>7. Amount(r, S) = SumOf(Weights(r, S)) /\ Amount(q, S) = SumOf(v)
  BY <1>2, WeightsFact DEF v
<1> QED BY <1>1, <1>5, <1>6, <1>7 DEF Partial, r, v

\* One element less, from the front.
LEMMA AmountTail ==
    ASSUME NEW T, Counted(T), NEW q \in Seq(T), q # <<>>, NEW S
    PROVE  /\ Amount(Tail(q), S) = Amount(q, S) - Weight(Head(q), S)
           /\ \A i \in 1 .. Len(q) : Partial(Tail(q), S, i - 1) = Partial(q, S, i) - Weight(Head(q), S)
<1> DEFINE r == Tail(q)
           v == Weights(q, S)
<1>1. v \in Seq(Int) /\ Len(v) = Len(q) /\ \A i \in 1 .. Len(q) : v[i] = Weight(q[i], S)
  BY WeightsFact
<1>2. /\ r \in Seq(T) /\ Len(r) = Len(q) - 1 /\ Len(q) \in Nat \ {0} /\ Head(q) = q[1]
      /\ \A i \in 1 .. Len(q) - 1 : r[i] = q[i + 1]
  BY TailFact
<1> HIDE DEF r, v
<1>3. v # <<>>
  BY <1>1, <1>2
<1>4. /\ Tail(v) \in Seq(Int) /\ Len(Tail(v)) = Len(q) - 1
      /\ \A i \in 1 .. Len(q) - 1 : Tail(v)[i] = v[i + 1]
  BY <1>1, <1>3, TailFact
<1>5. Weights(r, S) = Tail(v)
  <2>1. /\ Weights(r, S) \in Seq(Int) /\ Len(Weights(r, S)) = Len(r)
        /\ \A i \in 1 .. Len(r) : Weights(r, S)[i] = Weight(r[i], S)
    BY <1>2, WeightsFact
  <2>2. \A i \in 1 .. Len(r) : Weights(r, S)[i] = Tail(v)[i]
    BY <1>1, <1>2, <1>4, <2>1
  <2> DEFINE u == Tail(v)
             x == Weights(r, S)
  <2>3. u \in Seq(Int) /\ x \in Seq(Int) /\ Len(u) = Len(x) /\ \A i \in 1 .. Len(x) : x[i] = u[i]
    BY <1>2, <1>4, <2>1, <2>2
  <2> HIDE DEF u, x
  <2>4. u = x
    BY <2>3
  <2> QED BY <2>4 DEF u, x
<1>6. /\ SumOf(Tail(v)) = SumOf(v) - v[1]
      /\ \A i \in 1 .. Len(v) : Sums(Tail(v))[i - 1] = Sums(v)[i] - v[1]
  BY <1>1, <1>3, SumTail
<1>7. Amount(r, S) = SumOf(Weights(r, S)) /\ Amount(q, S) = SumOf(v)
  BY <1>2, WeightsFact DEF v
<1>8. v[1] = Weight(Head(q), S)
  BY <1>1, <1>2
<1> QED BY <1>1, <1>5, <1>6, <1>7, <1>8 DEF Partial, r, v
\* Two sets that have nothing in common are added up apart.
LEMMA AmountSplit ==
    ASSUME NEW T, Counted(T), NEW q \in Seq(T), NEW A, NEW B, A \cap B = {}
    PROVE  Amount(q, A \cup B) = Amount(q, A) + Amount(q, B)
<1> DEFINE S == {r \in Seq(T) : Amount(r, A \cup B) = Amount(r, A) + Amount(r, B)}
<1>1. <<>> \in S
  <2>1. <<>> \in Seq(T) /\ Amount(<<>>, A \cup B) = Amount(<<>>, A) + Amount(<<>>, B)
    BY AmountEmpty
  <2> QED BY <2>1
<1>2. ASSUME NEW r \in S, NEW f \in T PROVE Append(r, f) \in S
  <2>1. r \in Seq(T) /\ Amount(r, A \cup B) = Amount(r, A) + Amount(r, B) /\ Append(r, f) \in Seq(T)
    OBVIOUS
  <2>2. /\ Amount(Append(r, f), A \cup B) = Amount(r, A \cup B) + Weight(f, A \cup B)
        /\ Amount(Append(r, f), A) = Amount(r, A) + Weight(f, A)
        /\ Amount(Append(r, f), B) = Amount(r, B) + Weight(f, B)
    BY <2>1, AmountAppend
  <2>3. /\ Weight(f, A \cup B) = Weight(f, A) + Weight(f, B)
        /\ Weight(f, A) \in Int /\ Weight(f, B) \in Int
    BY DEF Weight, Counted
  <2>4. Amount(r, A) \in Int /\ Amount(r, B) \in Int
    BY <2>1, WeightsFact
  <2>5. Amount(Append(r, f), A \cup B) = Amount(Append(r, f), A) + Amount(Append(r, f), B)
    BY <2>1, <2>2, <2>3, <2>4
  <2> QED BY <2>1, <2>5
<1>3. S = Seq(T)
  <2> HIDE DEF S
  <2>1. S \in SUBSET Seq(T)
    BY DEF S
  <2> QED BY <1>1, <1>2, <2>1, QueueInduct
<1>4. q \in S
  <2> HIDE DEF S
  <2> QED BY <1>3
<1> QED BY <1>4

\* Amounts of elements none of which is negative.
LEMMA AmountNat ==
    ASSUME NEW T, Counted(T), NEW q \in Seq(T), NEW A, \A f \in T \cap A : f.n >= 0
    PROVE  Amount(q, A) \in Nat
<1> DEFINE S == {r \in Seq(T) : Amount(r, A) \in Nat}
<1>1. <<>> \in S
  <2>1. <<>> \in Seq(T) /\ Amount(<<>>, A) \in Nat
    BY AmountEmpty
  <2> QED BY <2>1
<1>2. ASSUME NEW r \in S, NEW f \in T PROVE Append(r, f) \in S
  <2>1. r \in Seq(T) /\ Amount(r, A) \in Nat /\ Append(r, f) \in Seq(T)
    OBVIOUS
  <2>2. Amount(Append(r, f), A) = Amount(r, A) + Weight(f, A)
    BY <2>1, AmountAppend
  <2>3. Weight(f, A) \in Nat
    BY DEF Weight, Counted
  <2>4. Amount(Append(r, f), A) \in Nat
    BY <2>1, <2>2, <2>3
  <2> QED BY <2>1, <2>4
<1>3. S = Seq(T)
  <2> HIDE DEF S
  <2>1. S \in SUBSET Seq(T)
    BY DEF S
  <2> QED BY <1>1, <1>2, <2>1, QueueInduct
<1>4. q \in S
  <2> HIDE DEF S
  <2> QED BY <1>3
<1> QED BY <1>4

\* Sets that pick the same elements of a queue amount to the same.
LEMMA AmountSame ==
    ASSUME NEW T, NEW q \in Seq(T), NEW A, NEW B, \A f \in Elements(q) : f \in A <=> f \in B
    PROVE  Amount(q, A) = Amount(q, B)
<1>1. \A i \in DOMAIN q : q[i] \in A <=> q[i] \in B
  BY DEF Elements
<1>2. [i \in DOMAIN q |-> IF q[i] \in A THEN q[i].n ELSE 0] = [i \in DOMAIN q |-> IF q[i] \in B THEN q[i].n ELSE 0]
  BY <1>1
<1> QED BY <1>2 DEF Amount

\* What is dropped no longer counts.
LEMMA DropAmount ==
    ASSUME NEW T, Counted(T), NEW q \in Seq(T), NEW D, NEW A
    PROVE  Amount(Drop(q, D), A) = Amount(q, A \ D)
<1> DEFINE S == {r \in Seq(T) : Amount(Drop(r, D), A) = Amount(r, A \ D)}
<1>1. <<>> \in S
  <2>1. <<>> \in Seq(T) /\ Amount(Drop(<<>>, D), A) = Amount(<<>>, A \ D)
    BY AmountEmpty, DropEmpty
  <2> QED BY <2>1
<1>2. ASSUME NEW r \in S, NEW f \in T PROVE Append(r, f) \in S
  <2>1. r \in Seq(T) /\ Amount(Drop(r, D), A) = Amount(r, A \ D) /\ Append(r, f) \in Seq(T)
    OBVIOUS
  <2>2. Amount(Append(r, f), A \ D) = Amount(r, A \ D) + Weight(f, A \ D)
    BY <2>1, AmountAppend
  <2>3. Drop(Append(r, f), D) = IF f \in D THEN Drop(r, D) ELSE Append(Drop(r, D), f)
    BY <2>1, DropAppend
  <2>4. Drop(r, D) \in Seq(T)
    BY <2>1, DropFact
  <2>5. Amount(Append(Drop(r, D), f), A) = Amount(Drop(r, D), A) + Weight(f, A)
    BY <2>4, AmountAppend
  <2>6. Amount(r, A \ D) \in Int
    BY <2>1, WeightsFact
  <2>7. Amount(Drop(Append(r, f), D), A) = Amount(Append(r, f), A \ D)
    <3>1. CASE f \in D
      <4>1. Weight(f, A \ D) = 0
        BY <3>1 DEF Weight
      <4> QED BY <2>1, <2>2, <2>3, <2>6, <3>1, <4>1
    <3>2. CASE f \notin D
      <4>1. Weight(f, A \ D) = Weight(f, A)
        BY <3>2 DEF Weight
      <4> QED BY <2>1, <2>2, <2>3, <2>5, <3>2, <4>1
    <3> QED BY <3>1, <3>2
  <2> QED BY <2>1, <2>7
<1>3. S = Seq(T)
  <2> HIDE DEF S
  <2>1. S \in SUBSET Seq(T)
    BY DEF S
  <2> QED BY <1>1, <1>2, <2>1, QueueInduct
<1>4. q \in S
  <2> HIDE DEF S
  <2> QED BY <1>3
<1> QED BY <1>4
-----------------------------------------------------------------------------
(* A budget that the members of P add to and the members of M draw on, in  *)
(* the order of the queue.                                                 *)

\* Every draw finds what it takes.
Fits(q, w, P, M) ==
    \A i \in 1 .. Len(q) : q[i] \in M /\ q[i].n > 0 => w + Partial(q, P, i) - Partial(q, M, i) >= 0

\* A draw at the back must find its amount in what the whole queue leaves.
LEMMA FitsAppend ==
    ASSUME NEW T, Counted(T), NEW q \in Seq(T), NEW f \in T, NEW w \in Int, NEW P, NEW M
    PROVE  Fits(Append(q, f), w, P, M) <=>
              /\ Fits(q, w, P, M)
              /\ f \in M /\ f.n > 0 =>
                    w + Amount(q, P) + Weight(f, P) - (Amount(q, M) + f.n) >= 0
<1> DEFINE r == Append(q, f)
           n == Len(q)
<1>1. /\ r \in Seq(T) /\ Len(r) = n + 1 /\ n \in Nat
      /\ r[n + 1] = f /\ \A i \in 1 .. n : r[i] = q[i]
  OBVIOUS
<1> HIDE DEF r
<1>2. \A i \in 1 .. n : Partial(r, P, i) = Partial(q, P, i) /\ Partial(r, M, i) = Partial(q, M, i)
  <2>1. \A i \in 0 .. n : Partial(r, P, i) = Partial(q, P, i) /\ Partial(r, M, i) = Partial(q, M, i)
    BY AmountAppend DEF r
  <2>2. \A i \in 1 .. n : i \in 0 .. n
    BY <1>1
  <2> QED BY <2>1, <2>2
<1>3. /\ Partial(r, P, n + 1) = Amount(q, P) + Weight(f, P)
      /\ Partial(r, M, n + 1) = Amount(q, M) + Weight(f, M)
  <2>1. Partial(r, P, n + 1) = Amount(r, P) /\ Partial(r, M, n + 1) = Amount(r, M)
    BY <1>1, WeightsFact
  <2> QED BY <2>1, AmountAppend DEF r
<1>4. f \in M => Weight(f, M) = f.n
  BY DEF Weight
<1> DEFINE ok(i) == r[i] \in M /\ r[i].n > 0 => w + Partial(r, P, i) - Partial(r, M, i) >= 0
<1>5. (\A i \in 1 .. n + 1 : ok(i)) <=> (\A i \in 1 .. n : ok(i)) /\ ok(n + 1)
  <2> HIDE DEF ok
  <2>1. n + 1 \in 1 .. n + 1 /\ \A i \in 1 .. n + 1 : i \in 1 .. n \/ i = n + 1
    BY <1>1
  <2>2. 1 .. n \subseteq 1 .. n + 1
    BY <1>1
  <2> QED BY <2>1, <2>2
<1>6. Fits(r, w, P, M) <=> \A i \in 1 .. n + 1 : ok(i)
  BY <1>1 DEF Fits
<1>7. Fits(q, w, P, M) <=> \A i \in 1 .. n : ok(i)
  BY <1>1, <1>2 DEF Fits
<1>8. ok(n + 1) <=> (f \in M /\ f.n > 0 => w + (Amount(q, P) + Weight(f, P)) - (Amount(q, M) + f.n) >= 0)
  BY <1>1, <1>3, <1>4
<1>9. Amount(q, P) \in Int /\ Amount(q, M) \in Int /\ Weight(f, P) \in Int /\ f.n \in Int
  BY WeightsFact DEF Weight, Counted
<1> HIDE DEF ok
<1>10. w + (Amount(q, P) + Weight(f, P)) - (Amount(q, M) + f.n) = w + Amount(q, P) + Weight(f, P) - (Amount(q, M) + f.n)
  BY <1>9
<1> QED BY <1>5, <1>6, <1>7, <1>8, <1>10 DEF r

\* The front one draws, or adds, and the rest fits what it leaves.
LEMMA FitsTail ==
    ASSUME NEW T, Counted(T), NEW q \in Seq(T), q # <<>>, NEW w \in Int, NEW P, NEW M, Fits(q, w, P, M)
    PROVE  /\ Fits(Tail(q), w + Weight(Head(q), P) - Weight(Head(q), M), P, M)
           /\ Head(q) \in M /\ Head(q).n > 0 => w + Weight(Head(q), P) - Head(q).n >= 0
<1> DEFINE r == Tail(q)
           h == Head(q)
<1>1. /\ r \in Seq(T) /\ Len(r) = Len(q) - 1 /\ Len(q) \in Nat \ {0} /\ h = q[1] /\ h \in T
      /\ \A i \in 1 .. Len(q) - 1 : r[i] = q[i + 1]
  BY TailFact
<1>2. Weight(h, P) \in Int /\ Weight(h, M) \in Int
  BY <1>1 DEF Weight, Counted
<1>3. \A i \in 1 .. Len(q) : /\ Partial(r, P, i - 1) = Partial(q, P, i) - Weight(h, P)
                             /\ Partial(r, M, i - 1) = Partial(q, M, i) - Weight(h, M)
  BY AmountTail
<1>4. \A i \in 0 .. Len(q) : Partial(q, P, i) \in Int /\ Partial(q, M, i) \in Int
  BY WeightsFact
<1> HIDE DEF r, h
<1>5. ASSUME NEW i \in 1 .. Len(r), r[i] \in M, r[i].n > 0
      PROVE  (w + Weight(h, P) - Weight(h, M)) + Partial(r, P, i) - Partial(r, M, i) >= 0
  <2>1. /\ i + 1 \in 1 .. Len(q) /\ i + 1 \in 0 .. Len(q) /\ (i + 1) - 1 = i
        /\ r[i] = q[i + 1]
    BY <1>1
  <2>2. w + Partial(q, P, i + 1) - Partial(q, M, i + 1) >= 0
    BY <1>5, <2>1 DEF Fits
  <2>3. /\ Partial(r, P, i) = Partial(q, P, i + 1) - Weight(h, P)
        /\ Partial(r, M, i) = Partial(q, M, i + 1) - Weight(h, M)
    BY <1>3, <2>1
  <2>4. Partial(q, P, i + 1) \in Int /\ Partial(q, M, i + 1) \in Int
    BY <1>4, <2>1
  <2> QED BY <1>2, <2>2, <2>3, <2>4
<1>6. ASSUME h \in M, h.n > 0 PROVE w + Weight(h, P) - h.n >= 0
  <2>1. 1 \in 1 .. Len(q) /\ 1 \in 0 .. Len(q) /\ 1 - 1 = 0
    BY <1>1
  <2>2. w + Partial(q, P, 1) - Partial(q, M, 1) >= 0
    BY <1>1, <1>6, <2>1 DEF Fits
  <2>3. Partial(r, P, 0) = 0 /\ Partial(r, M, 0) = 0
    BY <1>1, WeightsFact, SumsFact DEF Partial
  <2>4. Partial(r, P, 0) = Partial(q, P, 1) - Weight(h, P) /\ Partial(r, M, 0) = Partial(q, M, 1) - Weight(h, M)
    BY <1>3, <2>1
  <2>5. Weight(h, M) = h.n
    BY <1>6 DEF Weight
  <2>6. Partial(q, P, 1) \in Int /\ Partial(q, M, 1) \in Int
    BY <1>4, <2>1
  <2> QED BY <1>2, <2>2, <2>3, <2>4, <2>5, <2>6
<1> QED BY <1>5, <1>6 DEF Fits, r, h

\* Draws that are dropped leave more for the others; nothing else need be drawn on.
LEMMA FitsDrop ==
    ASSUME NEW T, Counted(T), NEW q \in Seq(T), NEW w \in Int, NEW P, NEW M, NEW D,
           D \cap P = {}, \A f \in T \cap M : f.n >= 0, Fits(q, w, P, M)
    PROVE  Fits(Drop(q, D), w, P, M)
<1> DEFINE S == {r \in Seq(T) : Fits(r, w, P, M) => Fits(Drop(r, D), w, P, M)}
<1>1. <<>> \in S
  BY DropEmpty
<1>2. ASSUME NEW r \in S, NEW f \in T PROVE Append(r, f) \in S
  <2>1. r \in Seq(T) /\ (Fits(r, w, P, M) => Fits(Drop(r, D), w, P, M)) /\ Append(r, f) \in Seq(T)
    OBVIOUS
  <2> DEFINE d == Drop(r, D)
  <2>2. d \in Seq(T) /\ Drop(Append(r, f), D) = IF f \in D THEN d ELSE Append(d, f)
    BY <2>1, DropAppend, DropFact
  <2>3. Amount(d, P) = Amount(r, P) /\ Amount(d, M) <= Amount(r, M) /\ Amount(d, M) \in Int
        /\ Amount(r, P) \in Int /\ Amount(r, M) \in Int
    <3>1. P \ D = P
      OBVIOUS
    <3>2. Amount(d, P) = Amount(r, P) /\ Amount(d, M) = Amount(r, M \ D)
      BY <2>1, <3>1, DropAmount
    <3>3. M = (M \ D) \cup (M \cap D) /\ (M \ D) \cap (M \cap D) = {}
      OBVIOUS
    <3>4. Amount(r, M) = Amount(r, M \ D) + Amount(r, M \cap D)
      BY <2>1, <3>3, AmountSplit
    <3>5. Amount(r, M \cap D) \in Nat
      <4>1. \A g \in T \cap (M \cap D) : g.n >= 0
        OBVIOUS
      <4> QED BY <2>1, <4>1, AmountNat
    <3>6. Amount(r, P) \in Int /\ Amount(r, M \ D) \in Int
      BY <2>1, WeightsFact
    <3> QED BY <3>2, <3>4, <3>5, <3>6
  <2> HIDE DEF d
  <2>4. ASSUME Fits(Append(r, f), w, P, M) PROVE Fits(Drop(Append(r, f), D), w, P, M)
    <3>1. /\ Fits(r, w, P, M)
          /\ f \in M /\ f.n > 0 => w + Amount(r, P) + Weight(f, P) - (Amount(r, M) + f.n) >= 0
      BY <2>1, <2>4, FitsAppend
    <3>2. Fits(d, w, P, M)
      BY <2>1, <3>1 DEF d
    <3>3. CASE f \in D
      BY <2>2, <3>2, <3>3
    <3>4. CASE f \notin D
      <4>1. Weight(f, P) \in Int /\ f.n \in Int
        BY DEF Weight, Counted
      <4>2. f \in M /\ f.n > 0 => w + Amount(d, P) + Weight(f, P) - (Amount(d, M) + f.n) >= 0
        BY <2>3, <3>1, <4>1
      <4>3. Fits(Append(d, f), w, P, M)
        BY <2>2, <3>2, <4>2, FitsAppend
      <4> QED BY <2>2, <3>4, <4>3
    <3> QED BY <3>3, <3>4
  <2> QED BY <2>1, <2>4
<1>3. S = Seq(T)
  <2> HIDE DEF S
  <2>1. S \in SUBSET Seq(T)
    BY DEF S
  <2> QED BY <1>1, <1>2, <2>1, QueueInduct
<1>4. q \in S
  <2> HIDE DEF S
  <2> QED BY <1>3
<1> QED BY <1>4

\* A larger budget will do as well.
LEMMA FitsMore ==
    ASSUME NEW T, Counted(T), NEW q \in Seq(T), NEW w \in Int, NEW v \in Int, w <= v, NEW P, NEW M,
           Fits(q, w, P, M)
    PROVE  Fits(q, v, P, M)
<1>1. \A i \in 1 .. Len(q) : Partial(q, P, i) \in Int /\ Partial(q, M, i) \in Int
  <2>1. \A i \in 0 .. Len(q) : Partial(q, P, i) \in Int /\ Partial(q, M, i) \in Int
    BY WeightsFact
  <2>2. \A i \in 1 .. Len(q) : i \in 0 .. Len(q)
    OBVIOUS
  <2> QED BY <2>1, <2>2
<1> QED BY <1>1 DEF Fits
-----------------------------------------------------------------------------
(* Spans of a queue, and queues put together. *)

\* The span from i to j.
LEMMA SpanFact ==
    ASSUME NEW T, NEW q \in Seq(T), NEW i \in Nat, NEW j \in Nat, i <= j, j <= Len(q)
    PROVE  /\ SubSeq(q, i + 1, j) \in Seq(T)
           /\ Len(SubSeq(q, i + 1, j)) = j - i
           /\ \A k \in 1 .. j - i : SubSeq(q, i + 1, j)[k] = q[i + k]
<1>1. Len(q) \in Nat /\ \A k \in i + 1 .. j : q[k] \in T
  OBVIOUS
<1>2. SubSeq(q, i + 1, j) \in Seq(T)
  BY <1>1
<1>3. Len(SubSeq(q, i + 1, j)) = j - i
  BY <1>1
<1>4. \A k \in 1 .. j - i : SubSeq(q, i + 1, j)[k] = q[i + k]
  BY <1>1
<1> QED BY <1>2, <1>3, <1>4

\* What a queue behind another has where.
LEMMA CatFact ==
    ASSUME NEW T, NEW a \in Seq(T), NEW b \in Seq(T)
    PROVE  /\ a \o b \in Seq(T) /\ Len(a \o b) = Len(a) + Len(b)
           /\ \A i \in 1 .. Len(a) : (a \o b)[i] = a[i]
           /\ \A i \in 1 .. Len(b) : (a \o b)[Len(a) + i] = b[i]
           /\ \A i \in 1 .. Len(a) + Len(b) :
                (a \o b)[i] = IF i <= Len(a) THEN a[i] ELSE b[i - Len(a)]
  OBVIOUS

\* Two queues with the same elements in the same places.
LEMMA SameQueue ==
    ASSUME NEW T, NEW a \in Seq(T), NEW b \in Seq(T), Len(a) = Len(b), \A i \in 1 .. Len(a) : a[i] = b[i]
    PROVE  a = b
  OBVIOUS

\* Nothing in front or behind.
LEMMA CatEmpty ==
    ASSUME NEW T, NEW a \in Seq(T)
    PROVE  a \o <<>> = a /\ <<>> \o a = a
  OBVIOUS

\* Putting together is associative.
LEMMA CatAssoc ==
    ASSUME NEW T, NEW a \in Seq(T), NEW b \in Seq(T), NEW c \in Seq(T)
    PROVE  (a \o b) \o c = a \o (b \o c)
<1> DEFINE x == a \o b
           y == b \o c
<1>1. /\ x \in Seq(T) /\ Len(x) = Len(a) + Len(b)
      /\ \A i \in 1 .. Len(a) + Len(b) : x[i] = IF i <= Len(a) THEN a[i] ELSE b[i - Len(a)]
  BY CatFact
<1>2. /\ y \in Seq(T) /\ Len(y) = Len(b) + Len(c)
      /\ \A i \in 1 .. Len(b) + Len(c) : y[i] = IF i <= Len(b) THEN b[i] ELSE c[i - Len(b)]
  BY CatFact
<1> HIDE DEF x, y
<1> DEFINE l == x \o c
           r == a \o y
<1>3. /\ l \in Seq(T) /\ Len(l) = Len(x) + Len(c)
      /\ \A i \in 1 .. Len(x) + Len(c) : l[i] = IF i <= Len(x) THEN x[i] ELSE c[i - Len(x)]
  BY <1>1, CatFact
<1>4. /\ r \in Seq(T) /\ Len(r) = Len(a) + Len(y)
      /\ \A i \in 1 .. Len(a) + Len(y) : r[i] = IF i <= Len(a) THEN a[i] ELSE y[i - Len(a)]
  <2> HIDE DEF l
  <2>1. y \in Seq(T)
    BY <1>2
  <2> QED BY <2>1, CatFact
<1>5. Len(a) \in Nat /\ Len(b) \in Nat /\ Len(c) \in Nat
  OBVIOUS
<1> HIDE DEF l, r
<1>6. ASSUME NEW i \in 1 .. Len(l) PROVE l[i] = r[i]
  <2>1. CASE i <= Len(a)
    <3>1. i \in 1 .. Len(a) + Len(b) /\ i \in 1 .. Len(a) + Len(y) /\ i \in 1 .. Len(x) + Len(c) /\ i <= Len(x)
      BY <2>1, <1>1, <1>2, <1>3, <1>5
    <3>2. l[i] = x[i] /\ x[i] = a[i]
      BY <2>1, <3>1, <1>1, <1>3
    <3>3. r[i] = a[i]
      BY <2>1, <3>1, <1>4
    <3> QED BY <3>2, <3>3
  <2>2. CASE Len(a) < i /\ i <= Len(a) + Len(b)
    <3> DEFINE k == i - Len(a)
    <3>1. l[i] = b[k]
      BY <2>2, <1>1, <1>3, <1>5
    <3>2. r[i] = y[k]
      BY <2>2, <1>2, <1>4, <1>5
    <3>3. k \in 1 .. Len(b) + Len(c) /\ k <= Len(b)
      BY <2>2, <1>5
    <3> HIDE DEF k
    <3>4. y[k] = b[k]
      BY <3>3, <1>2
    <3> QED BY <3>1, <3>2, <3>4
  <2>3. CASE Len(a) + Len(b) < i
    <3> DEFINE k == i - Len(a)
    <3>1. l[i] = c[i - (Len(a) + Len(b))]
      BY <2>3, <1>1, <1>3, <1>5
    <3>2. k \in 1 .. Len(b) + Len(c) /\ ~(k <= Len(b)) /\ k - Len(b) = i - (Len(a) + Len(b)) /\ i \in 1 .. Len(a) + Len(y) /\ ~(i <= Len(a))
      BY <2>3, <1>1, <1>2, <1>3, <1>5
    <3>3. r[i] = y[k]
      BY <3>2, <1>4
    <3> HIDE DEF k
    <3>4. y[k] = c[k - Len(b)]
      BY <3>2, <1>2
    <3> QED BY <3>1, <3>2, <3>3, <3>4
  <2> QED BY <2>1, <2>2, <2>3, <1>5
<1>7. Len(l) = Len(r)
  BY <1>1, <1>2, <1>3, <1>4, <1>5
<1>8. l = r
  BY <1>3, <1>4, <1>6, <1>7, SameQueue
<1> QED BY <1>8 DEF l, r, x, y

\* A span is one part of it and then the other.
LEMMA SpanSplit ==
    ASSUME NEW T, NEW q \in Seq(T), NEW i \in Nat, NEW j \in Nat, NEW k \in Nat, i <= j, j <= k, k <= Len(q)
    PROVE  SubSeq(q, i + 1, j) \o SubSeq(q, j + 1, k) = SubSeq(q, i + 1, k)
<1> DEFINE a == SubSeq(q, i + 1, j)
           b == SubSeq(q, j + 1, k)
           c == SubSeq(q, i + 1, k)
<1>1. a \in Seq(T) /\ Len(a) = j - i /\ \A n \in 1 .. j - i : a[n] = q[i + n]
  BY SpanFact
<1>2. b \in Seq(T) /\ Len(b) = k - j /\ \A n \in 1 .. k - j : b[n] = q[j + n]
  BY SpanFact
<1>3. c \in Seq(T) /\ Len(c) = k - i /\ \A n \in 1 .. k - i : c[n] = q[i + n]
  BY SpanFact
<1> HIDE DEF a, b, c
<1> DEFINE d == a \o b
<1>4. /\ d \in Seq(T) /\ Len(d) = Len(a) + Len(b)
      /\ \A n \in 1 .. Len(a) + Len(b) : d[n] = IF n <= Len(a) THEN a[n] ELSE b[n - Len(a)]
  BY <1>1, <1>2, CatFact
<1> HIDE DEF d
<1>5. ASSUME NEW n \in 1 .. k - i PROVE d[n] = c[n]
  <2>1. CASE n <= j - i
    BY <2>1, <1>1, <1>2, <1>3, <1>4
  <2>2. CASE n > j - i
    <3>1. d[n] = b[n - (j - i)] /\ n - (j - i) \in 1 .. k - j
      BY <2>2, <1>1, <1>2, <1>4
    <3>2. b[n - (j - i)] = q[j + (n - (j - i))] /\ j + (n - (j - i)) = i + n
      BY <3>1, <1>2
    <3> QED BY <3>1, <3>2, <1>3
  <2> QED BY <2>1, <2>2
<1>6. d = c
  <2>1. Len(d) = k - i /\ Len(c) = k - i
    BY <1>1, <1>2, <1>3, <1>4
  <2>2. Len(d) = Len(c) /\ \A n \in 1 .. Len(d) : d[n] = c[n]
    BY <2>1, <1>5
  <2> QED BY <1>3, <1>4, <2>2, SameQueue
<1> QED BY <1>6 DEF a, b, c, d

\* The parts of a queue put together are where they were put.
LEMMA CatCut ==
    ASSUME NEW T, NEW a \in Seq(T), NEW b \in Seq(T)
    PROVE  /\ SubSeq(a \o b, 1, Len(a)) = a
           /\ SubSeq(a \o b, Len(a) + 1, Len(a \o b)) = b
<1> DEFINE c == a \o b
           n == Len(a)
           m == Len(c)
           o == 0
<1>1. /\ c \in Seq(T) /\ m = n + Len(b) /\ n \in Nat /\ Len(b) \in Nat /\ n = Len(a) /\ m = Len(c)
      /\ \A i \in 1 .. n : c[i] = a[i]
      /\ \A i \in 1 .. Len(b) : c[n + i] = b[i]
  BY CatFact
<1> HIDE DEF c, n, m
<1>2. o \in Nat /\ o <= n /\ n <= Len(c) /\ n <= m /\ m <= Len(c) /\ m \in Nat
  BY <1>1
<1> HIDE DEF o
<1>3. /\ SubSeq(c, o + 1, n) \in Seq(T) /\ Len(SubSeq(c, o + 1, n)) = n - o
      /\ \A k \in 1 .. n - o : SubSeq(c, o + 1, n)[k] = c[o + k]
  BY <1>1, <1>2, SpanFact
<1>4. /\ SubSeq(c, n + 1, m) \in Seq(T) /\ Len(SubSeq(c, n + 1, m)) = m - n
      /\ \A k \in 1 .. m - n : SubSeq(c, n + 1, m)[k] = c[n + k]
  BY <1>1, <1>2, SpanFact
<1>5. SubSeq(c, o + 1, n) = a
  BY <1>1, <1>3, SameQueue DEF o
<1>6. SubSeq(c, n + 1, m) = b
  BY <1>1, <1>4, SameQueue
<1>7. o + 1 = 1
  BY DEF o
<1> QED BY <1>5, <1>6, <1>7 DEF c, n, m

\* An element behind both is behind the second.
LEMMA CatAppend ==
    ASSUME NEW T, NEW a \in Seq(T), NEW b \in Seq(T), NEW e \in T
    PROVE  a \o Append(b, e) = Append(a \o b, e)
<1> DEFINE x == Append(b, e)
           y == a \o b
<1>1. /\ x \in Seq(T) /\ Len(x) = Len(b) + 1 /\ x[Len(b) + 1] = e
      /\ \A i \in 1 .. Len(b) : x[i] = b[i]
  OBVIOUS
<1>2. /\ y \in Seq(T) /\ Len(y) = Len(a) + Len(b)
      /\ \A i \in 1 .. Len(a) : y[i] = a[i]
      /\ \A i \in 1 .. Len(b) : y[Len(a) + i] = b[i]
  BY CatFact
<1> HIDE DEF x, y
<1> DEFINE l == a \o x
           r == Append(y, e)
<1>3. /\ l \in Seq(T) /\ Len(l) = Len(a) + Len(x)
      /\ \A i \in 1 .. Len(a) : l[i] = a[i]
      /\ \A i \in 1 .. Len(x) : l[Len(a) + i] = x[i]
  <2> HIDE DEF r
  <2>1. x \in Seq(T)
    BY <1>1
  <2> QED BY <2>1, CatFact
<1>4. /\ r \in Seq(T) /\ Len(r) = Len(y) + 1 /\ r[Len(y) + 1] = e
      /\ \A i \in 1 .. Len(y) : r[i] = y[i]
  BY <1>2
<1>5. Len(a) \in Nat /\ Len(b) \in Nat
  OBVIOUS
<1> HIDE DEF l, r
<1>6. Len(l) = Len(r) /\ Len(l) = Len(a) + Len(b) + 1
  BY <1>1, <1>2, <1>3, <1>4, <1>5
<1>7. ASSUME NEW i \in 1 .. Len(l) PROVE l[i] = r[i]
  <2>1. CASE i <= Len(a)
    <3>1. i \in 1 .. Len(a) /\ i \in 1 .. Len(y)
      BY <2>1, <1>2, <1>5, <1>6
    <3> QED BY <3>1, <1>2, <1>3, <1>4
  <2>2. CASE i > Len(a) /\ i <= Len(a) + Len(b)
    <3> DEFINE k == i - Len(a)
    <3>1. k \in 1 .. Len(b) /\ k \in 1 .. Len(x) /\ i = Len(a) + k /\ i \in 1 .. Len(y)
      BY <2>2, <1>1, <1>2, <1>5, <1>6
    <3> HIDE DEF k
    <3>2. l[i] = x[k] /\ x[k] = b[k]
      BY <3>1, <1>1, <1>3
    <3>3. r[i] = y[i] /\ y[i] = b[k]
      BY <3>1, <1>2, <1>4
    <3> QED BY <3>2, <3>3
  <2>3. CASE i = Len(a) + Len(b) + 1
    <3>1. i = Len(a) + (Len(b) + 1) /\ Len(b) + 1 \in 1 .. Len(x) /\ i = Len(y) + 1
      BY <2>3, <1>1, <1>2, <1>5
    <3>2. l[i] = x[Len(b) + 1]
      BY <3>1, <1>3
    <3> QED BY <3>1, <3>2, <1>1, <1>4
  <2> QED BY <2>1, <2>2, <2>3, <1>5, <1>6
<1>8. l = r
  BY <1>3, <1>4, <1>6, <1>7, SameQueue
<1> QED BY <1>8 DEF l, r, x, y

\* Dropping from two queues put together.
LEMMA DropCat ==
    ASSUME NEW T, NEW a \in Seq(T), NEW b \in Seq(T), NEW D
    PROVE  Drop(a \o b, D) = Drop(a, D) \o Drop(b, D)
<1> DEFINE S == {r \in Seq(T) : Drop(a \o r, D) = Drop(a, D) \o Drop(r, D)}
<1>1. <<>> \in S
  <2>1. a \o <<>> = a /\ Drop(<<>>, D) = <<>> /\ Drop(a, D) \in Seq(T) /\ <<>> \in Seq(T)
    BY CatEmpty, DropEmpty, DropFact
  <2>2. Drop(a, D) \o <<>> = Drop(a, D)
    BY <2>1, CatEmpty
  <2> QED BY <2>1, <2>2
<1>2. ASSUME NEW r \in S, NEW e \in T PROVE Append(r, e) \in S
  <2>1. r \in Seq(T) /\ Append(r, e) \in Seq(T) /\ Drop(a \o r, D) = Drop(a, D) \o Drop(r, D)
    OBVIOUS
  <2>2. a \o r \in Seq(T) /\ a \o Append(r, e) = Append(a \o r, e)
    BY <2>1, CatFact, CatAppend
  <2>3. Drop(a, D) \in Seq(T) /\ Drop(r, D) \in Seq(T)
    BY <2>1, DropFact
  <2>4. Drop(Append(r, e), D) = IF e \in D THEN Drop(r, D) ELSE Append(Drop(r, D), e)
    BY <2>1, DropAppend
  <2>5. Drop(Append(a \o r, e), D) = IF e \in D THEN Drop(a \o r, D) ELSE Append(Drop(a \o r, D), e)
    <3> DEFINE c == a \o r
    <3>1. c \in Seq(T)
      BY <2>2
    <3> HIDE DEF c
    <3>2. Drop(Append(c, e), D) = IF e \in D THEN Drop(c, D) ELSE Append(Drop(c, D), e)
      BY <3>1, DropAppend
    <3> QED BY <3>2 DEF c
  <2>6. Drop(a, D) \o Append(Drop(r, D), e) = Append(Drop(a, D) \o Drop(r, D), e)
    BY <2>3, CatAppend
  <2>7. Drop(a \o Append(r, e), D) = Drop(a, D) \o Drop(Append(r, e), D)
    <3>1. CASE e \in D
      BY <3>1, <2>1, <2>2, <2>4, <2>5, Zenon
    <3>2. CASE e \notin D
      BY <3>2, <2>1, <2>2, <2>4, <2>5, <2>6, Zenon
    <3> QED BY <3>1, <3>2
  <2> QED BY <2>1, <2>7
<1>3. S = Seq(T)
  <2> HIDE DEF S
  <2>1. S \in SUBSET Seq(T)
    BY DEF S
  <2> QED BY <1>1, <1>2, <2>1, QueueInduct
<1> HIDE DEF S
<1>4. b \in S
  BY <1>3
<1> QED BY <1>4 DEF S

\* Dropping what is not there, and all there is.
LEMMA DropNone ==
    ASSUME NEW T, NEW q \in Seq(T), NEW D
    PROVE  /\ Elements(q) \cap D = {} => Drop(q, D) = q
           /\ Elements(q) \subseteq D => Drop(q, D) = <<>>
<1> DEFINE S == {r \in Seq(T) : /\ Elements(r) \cap D = {} => Drop(r, D) = r
                                /\ Elements(r) \subseteq D => Drop(r, D) = <<>>}
<1>1. <<>> \in S
  BY DropEmpty
<1>2. ASSUME NEW r \in S, NEW e \in T PROVE Append(r, e) \in S
  <2>1. r \in Seq(T) /\ Append(r, e) \in Seq(T) /\ Elements(Append(r, e)) = Elements(r) \cup {e}
    BY AppendFact
  <2>2. Drop(Append(r, e), D) = IF e \in D THEN Drop(r, D) ELSE Append(Drop(r, D), e)
    BY <2>1, DropAppend
  <2>3. ASSUME Elements(r) \cup {e} \subseteq D PROVE Drop(Append(r, e), D) = <<>>
    <3>1. e \in D /\ Elements(r) \subseteq D
      BY <2>3
    <3> QED BY <3>1, <2>2
  <2>4. ASSUME (Elements(r) \cup {e}) \cap D = {} PROVE Drop(Append(r, e), D) = Append(r, e)
    <3>1. e \notin D /\ Elements(r) \cap D = {}
      BY <2>4
    <3>2. Drop(r, D) = r
      BY <3>1
    <3> QED BY <3>1, <3>2, <2>2
  <2> QED BY <2>1, <2>3, <2>4
<1>3. S = Seq(T)
  <2> HIDE DEF S
  <2>1. S \in SUBSET Seq(T)
    BY DEF S
  <2> QED BY <1>1, <1>2, <2>1, QueueInduct
<1> HIDE DEF S
<1>4. q \in S
  BY <1>3
<1> QED BY <1>4 DEF S

\* Dropping goes by what is in the queue.
LEMMA DropSame ==
    ASSUME NEW T, NEW q \in Seq(T), NEW D, NEW E, Elements(q) \cap D = Elements(q) \cap E
    PROVE  Drop(q, D) = Drop(q, E)
<1> DEFINE S == {r \in Seq(T) : Elements(r) \cap D = Elements(r) \cap E => Drop(r, D) = Drop(r, E)}
<1>1. <<>> \in S
  BY DropEmpty
<1>2. ASSUME NEW r \in S, NEW e \in T PROVE Append(r, e) \in S
  <2>1. r \in Seq(T) /\ Append(r, e) \in Seq(T) /\ Elements(Append(r, e)) = Elements(r) \cup {e}
    BY AppendFact
  <2>2. Drop(Append(r, e), D) = IF e \in D THEN Drop(r, D) ELSE Append(Drop(r, D), e)
    BY <2>1, DropAppend
  <2>3. Drop(Append(r, e), E) = IF e \in E THEN Drop(r, E) ELSE Append(Drop(r, E), e)
    BY <2>1, DropAppend
  <2>4. ASSUME (Elements(r) \cup {e}) \cap D = (Elements(r) \cup {e}) \cap E
        PROVE  Drop(Append(r, e), D) = Drop(Append(r, e), E)
    <3>1. e \in D <=> e \in E
      BY <2>4
    <3>2. Elements(r) \cap D = Elements(r) \cap E
      BY <2>4
    <3>3. Drop(r, D) = Drop(r, E)
      BY <3>2
    <3> QED BY <3>1, <3>3, <2>2, <2>3
  <2> QED BY <2>1, <2>4
<1>3. S = Seq(T)
  <2> HIDE DEF S
  <2>1. S \in SUBSET Seq(T)
    BY DEF S
  <2> QED BY <1>1, <1>2, <2>1, QueueInduct
<1> HIDE DEF S
<1>4. q \in S
  BY <1>3
<1> QED BY <1>4 DEF S

Assoc(a, b, c) == (a \o b) \o c = a \o (b \o c)

\* The same as a predicate, which the provers instantiate more readily.
LEMMA CatAssociates ==
    ASSUME NEW T, NEW a \in Seq(T), NEW b \in Seq(T), NEW c \in Seq(T)
    PROVE  Assoc(a, b, c)
  BY CatAssoc DEF Assoc

Assoc4(a, b, c, d) == (a \o (b \o c)) \o d = a \o (b \o (c \o d))

\* Four put together, from the left and from the right.
LEMMA CatAssoc4 ==
    ASSUME NEW T, NEW a \in Seq(T), NEW b \in Seq(T), NEW c \in Seq(T), NEW d \in Seq(T)
    PROVE  a \o (b \o c) \in Seq(T) /\ Assoc4(a, b, c, d)
<1> DEFINE v == b \o c
<1>1. Assoc(b, c, d)
  BY CatAssociates, Zenon
<1>2. v \in Seq(T)
  BY CatFact, Zenon
<1>3. v \o d = b \o (c \o d)
  BY <1>1, Zenon DEF Assoc
<1> HIDE DEF v
<1>4. Assoc(a, v, d)
  BY <1>2, CatAssociates, Zenon
<1>5. a \o v \in Seq(T)
  BY <1>2, CatFact, Zenon
<1>6. (a \o v) \o d = a \o (b \o (c \o d))
  BY <1>3, <1>4, Zenon DEF Assoc
<1> QED BY <1>5, <1>6, Zenon DEF v, Assoc4
-----------------------------------------------------------------------------
(* A queue sifted in place. *)

\* One turn gives a queue.
LEMMA SiftFact ==
    ASSUME NEW T, NEW q \in Seq(T), NEW S
    PROVE  Sift(q, S) \in Seq(T)
<1>1. CASE q = <<>>
  BY <1>1 DEF Sift
<1>2. CASE q # <<>>
  <2>1. Tail(q) \in Seq(T) /\ Head(q) \in T
    BY <1>2
  <2>2. Append(Tail(q), Head(q)) \in Seq(T)
    BY <2>1
  <2> QED BY <1>2, <2>1, <2>2 DEF Sift
<1> QED BY <1>1, <1>2

\* g is q, turn by turn.
SiftRun(q, S, g) == g[0] = q /\ \A i \in 1 .. Len(q) : g[i] = Sift(g[i - 1], S)

\* The turns are what their recursive definition says.
LEMMA SiftedFact ==
    ASSUME NEW T, NEW q \in Seq(T), NEW S
    PROVE  SiftRun(q, S, Sifted(q, S))
<1> DEFINE n == Len(q)
           V == Seq(T)
           step == [p \in (1 .. n) \X V |-> Sift(p[2], S)]
           Is(g) == g = [i \in 0 .. n |-> IF i = 0 THEN q ELSE Sift(g[i - 1], S)]
           f == CHOOSE g : Is(g)
<1>1. n \in Nat /\ step \in Steps(n, V)
  <2>1. ASSUME NEW p \in (1 .. n) \X V PROVE Sift(p[2], S) \in V
    <3>1. p[2] \in Seq(T)
      OBVIOUS
    <3> QED BY <3>1, SiftFact
  <2> HIDE DEF V
  <2> QED BY <2>1 DEF Steps
<1>2. PICK g \in [0 .. n -> V] : g[0] = q /\ \A i \in 1 .. n : g[i] = step[<<i, g[i - 1]>>]
  <2> DEFINE z == q
  <2>1. z \in V
    OBVIOUS
  <2> HIDE DEF n, step, z, V, Is, f
  <2>2. \E g \in [0 .. n -> V] : RunsFrom(n, z, step, g)
    BY <1>1, <2>1, RunExists, Zenon
  <2> QED BY <2>2 DEF z, RunsFrom
<1>3. \A i \in 1 .. n : g[i] = Sift(g[i - 1], S)
  <2> SUFFICES ASSUME NEW i \in 1 .. n PROVE g[i] = Sift(g[i - 1], S)
    OBVIOUS
  <2>1. i - 1 \in 0 .. n
    BY <1>1
  <2> HIDE DEF V
  <2>2. <<i, g[i - 1]>> \in (1 .. n) \X V
    BY <1>2, <2>1
  <2>3. step[<<i, g[i - 1]>>] = Sift(g[i - 1], S)
    BY <2>2
  <2> QED BY <1>2, <2>3
<1>4. Is(g)
  <2> HIDE DEF V
  <2>1. ASSUME NEW i \in 0 .. n PROVE g[i] = IF i = 0 THEN q ELSE Sift(g[i - 1], S)
    BY <1>1, <1>2, <1>3
  <2> QED BY <1>2, <2>1
<1>5. Is(f)
  BY <1>4
<1>6. Sifted(q, S) = f
  BY DEF Sifted
<1> HIDE DEF f
<1>7. f[0] = q /\ \A i \in 1 .. n : f[i] = Sift(f[i - 1], S)
  <2>1. \A i \in 0 .. n : f[i] = IF i = 0 THEN q ELSE Sift(f[i - 1], S)
    BY <1>5
  <2> HIDE DEF Is
  <2>2. 0 \in 0 .. n /\ \A i \in 1 .. n : i \in 0 .. n /\ i # 0
    BY <1>1
  <2> QED BY <2>1, <2>2
<1> QED BY <1>6, <1>7 DEF SiftRun

\* A turn of e, then b, then d: e goes from the front to behind d, or goes.
Passes(e, b, d, S) == Sift((<<e>> \o b) \o d, S) = b \o (IF e \in S THEN d ELSE Append(d, e))

\* That is what a turn does.
LEMMA SiftCat ==
    ASSUME NEW T, NEW e \in T, NEW b \in Seq(T), NEW d \in Seq(T), NEW S
    PROVE  Passes(e, b, d, S)
<1> DEFINE c == b \o d
           r == (<<e>> \o b) \o d
           a == <<e>>
<1>1. a \in Seq(T) /\ c \in Seq(T) /\ Len(a) = 1 /\ a[1] = e
  BY CatFact
<1>2. r = a \o c
  <2> HIDE DEF a
  <2>1. (a \o b) \o d = a \o (b \o d)
    BY <1>1, CatAssoc
  <2> QED BY <2>1 DEF a
<1> HIDE DEF a, c, r
<1>3. /\ r \in Seq(T) /\ Len(r) = 1 + Len(c) /\ Len(c) \in Nat
      /\ r[1] = e /\ \A i \in 1 .. Len(c) : r[1 + i] = c[i]
  <2>1. /\ a \o c \in Seq(T) /\ Len(a \o c) = Len(a) + Len(c)
        /\ \A i \in 1 .. Len(a) : (a \o c)[i] = a[i]
        /\ \A i \in 1 .. Len(c) : (a \o c)[Len(a) + i] = c[i]
    <3>1. a \in Seq(T) /\ c \in Seq(T)
      BY <1>1
    <3> QED BY <3>1, CatFact
  <2>2. 1 \in 1 .. Len(a) /\ Len(c) \in Nat
    BY <1>1
  <2> QED BY <1>1, <1>2, <2>1, <2>2
<1>4. r # <<>> /\ Head(r) = e
  BY <1>3
<1>5. Tail(r) = c
  <2>1. /\ Tail(r) \in Seq(T) /\ Len(Tail(r)) = Len(r) - 1
        /\ \A i \in 1 .. Len(r) - 1 : Tail(r)[i] = r[i + 1]
    BY <1>3, <1>4, TailFact
  <2>2. Len(Tail(r)) = Len(c)
    BY <1>3, <2>1
  <2>3. \A i \in 1 .. Len(Tail(r)) : Tail(r)[i] = c[i]
    BY <1>3, <2>1
  <2> QED BY <1>1, <2>1, <2>2, <2>3, SameQueue
<1>6. Sift(r, S) = IF e \in S THEN c ELSE Append(c, e)
  BY <1>4, <1>5 DEF Sift
<1>7. b \o Append(d, e) = Append(c, e)
  BY CatAppend DEF c
<1>8. CASE e \in S
  BY <1>6, <1>8 DEF c, r, Passes
<1>9. CASE e \notin S
  BY <1>6, <1>7, <1>9 DEF r, Passes
<1> QED BY <1>8, <1>9

\* After i turns: what was not reached yet, and behind it what is left of the first i.
LEMMA SiftedSplit ==
    ASSUME NEW T, NEW q \in Seq(T), NEW S, NEW i \in 0 .. Len(q)
    PROVE  Sifted(q, S)[i] = SubSeq(q, i + 1, Len(q)) \o Drop(SubSeq(q, 1, i), S)
<1> DEFINE n == Len(q)
           f == Sifted(q, S)
           Done(j) == f[j] = SubSeq(q, j + 1, n) \o Drop(SubSeq(q, 1, j), S)
           N == {j \in Nat : j <= n => Done(j)}
<1>1. n \in Nat /\ SiftRun(q, S, f)
  BY SiftedFact
<1> HIDE DEF f
<1>2. 0 \in N
  <2>1. SubSeq(q, 0 + 1, n) = q /\ SubSeq(q, 1, 0) = <<>>
    OBVIOUS
  <2>2. q \o <<>> = q /\ Drop(<<>>, S) = <<>>
    BY CatEmpty, DropEmpty
  <2>3. f[0] = q
    BY <1>1 DEF SiftRun
  <2>4. Done(0)
    BY <2>1, <2>2, <2>3
  <2> QED BY <2>4
<1>3. ASSUME NEW j \in N PROVE j + 1 \in N
  <2>a. j \in Nat /\ j + 1 \in Nat /\ (j <= n => Done(j))
    <3> HIDE DEF Done
    <3> QED OBVIOUS
  <2> SUFFICES ASSUME j + 1 <= n PROVE Done(j + 1)
    <3> HIDE DEF Done
    <3> QED BY <2>a
  <2> DEFINE k == j + 1
             e == q[k]
             a == SubSeq(q, 1, j)
             b == SubSeq(q, k + 1, n)
             d == Drop(a, S)
  <2>1. j \in Nat /\ k \in 1 .. n /\ k \in Nat /\ k - 1 = j /\ e \in T /\ Done(j) /\ j <= n
    <3>1. j <= n
      BY <1>1, <2>a
    <3>2. Done(j)
      BY <2>a, <3>1
    <3> HIDE DEF Done
    <3> QED BY <1>1, <2>a, <3>1, <3>2
  <2>2. a \in Seq(T) /\ b \in Seq(T) /\ d \in Seq(T)
    <3>1. a \in Seq(T)
      BY <2>1
    <3>2. b \in Seq(T)
      BY <2>1
    <3> QED BY <3>1, <3>2, DropFact
  <2>3. SubSeq(q, j + 1, n) = <<e>> \o b
    <3>1. SubSeq(q, j + 1, k) \o SubSeq(q, k + 1, n) = SubSeq(q, j + 1, n)
      BY <1>1, <2>1, SpanSplit
    <3>2. SubSeq(q, j + 1, k) = <<e>>
      <4>1. /\ SubSeq(q, j + 1, k) \in Seq(T) /\ Len(SubSeq(q, j + 1, k)) = k - j
            /\ \A m \in 1 .. k - j : SubSeq(q, j + 1, k)[m] = q[j + m]
        BY <1>1, <2>1, SpanFact
      <4> DEFINE x == SubSeq(q, j + 1, k)
      <4>2. x \in Seq(T) /\ Len(x) = 1 /\ x[1] = e
        BY <2>1, <4>1
      <4> HIDE DEF x, e, k
      <4>3. x = <<e>>
        BY <2>1, <4>2
      <4> QED BY <4>3 DEF x
    <3> QED BY <3>1, <3>2
  <2>4. SubSeq(q, 1, k) = Append(a, e)
    <3> DEFINE x == SubSeq(q, 1, k)
               y == Append(a, e)
    <3>1. x \in Seq(T) /\ Len(x) = k /\ \A m \in 1 .. k : x[m] = q[m]
      BY <2>1
    <3>2. Len(a) = j /\ \A m \in 1 .. j : a[m] = q[m]
      BY <2>1
    <3>3. /\ y \in Seq(T) /\ Len(y) = Len(a) + 1 /\ y[Len(a) + 1] = e
          /\ \A m \in 1 .. Len(a) : y[m] = a[m]
      <4> HIDE DEF a, e
      <4> QED BY <2>1, <2>2
    <3> HIDE DEF x, y, a
    <3>4. Len(y) = k /\ \A m \in 1 .. k : y[m] = q[m]
      BY <2>1, <3>2, <3>3
    <3>5. x = y
      BY <3>1, <3>3, <3>4, SameQueue
    <3> QED BY <3>5 DEF x, y
  <2>5. Drop(SubSeq(q, 1, k), S) = IF e \in S THEN d ELSE Append(d, e)
    <3> HIDE DEF a, e
    <3>1. Drop(Append(a, e), S) = IF e \in S THEN Drop(a, S) ELSE Append(Drop(a, S), e)
      BY <2>1, <2>2, DropAppend
    <3> QED BY <2>4, <3>1
  <2>6. f[k] = Sift(f[j], S)
    BY <1>1, <2>1 DEF SiftRun
  <2>7. f[j] = (<<e>> \o b) \o d
    BY <2>1, <2>3
  <2> HIDE DEF b, d, e, N, k
  <2>8. Sift((<<e>> \o b) \o d, S) = b \o (IF e \in S THEN d ELSE Append(d, e))
    <3>1. e \in T /\ b \in Seq(T) /\ d \in Seq(T)
      BY <2>1, <2>2
    <3>2. Passes(e, b, d, S)
      BY <3>1, SiftCat
    <3> QED BY <3>2 DEF Passes
  <2>9. f[k] = b \o Drop(SubSeq(q, 1, k), S)
    BY <2>5, <2>6, <2>7, <2>8
  <2> QED BY <2>9 DEF b, k
<1>4. N = Nat
  <2> HIDE DEF N
  <2>1. N \in SUBSET Nat
    BY DEF N
  <2> QED BY <1>2, <1>3, <2>1, NatInduct
<1>5. i \in N
  <2> HIDE DEF N
  <2> QED BY <1>1, <1>4
<1>6. i <= n
  BY <1>1
<1>7. Done(i)
  <2> HIDE DEF Done
  <2> QED BY <1>5, <1>6
<1> QED BY <1>7 DEF f

\* Sifting in place, one turn for each element, leaves the others in their order.
LEMMA SiftedDrop ==
    ASSUME NEW T, NEW q \in Seq(T), NEW S
    PROVE  Sifted(q, S)[Len(q)] = Drop(q, S)
<1> DEFINE n == Len(q)
<1>1. n \in 0 .. Len(q) /\ SubSeq(q, n + 1, n) = <<>> /\ SubSeq(q, 1, n) = q
  OBVIOUS
<1>2. Sifted(q, S)[n] = SubSeq(q, n + 1, Len(q)) \o Drop(SubSeq(q, 1, n), S)
  <2> HIDE DEF n
  <2> QED BY <1>1, SiftedSplit
<1>3. Drop(q, S) \in Seq(T) /\ <<>> \o Drop(q, S) = Drop(q, S)
  BY DropFact, CatEmpty
<1> QED BY <1>1, <1>2, <1>3
=============================================================================
