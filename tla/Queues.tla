------------------------------- MODULE Queues -------------------------------
(***************************************************************************)
(* Sequences as the intrusive lists and rings of the code use them: an     *)
(* element is unlinked from where it is, members are sifted out in place,  *)
(* and amounts are added up along the queue.  The community modules have   *)
(* all of these as folds; here they are functions of positions, which a    *)
(* proof can unfold (QueuesProof).                                         *)
(***************************************************************************)
EXTENDS Integers, Sequences

Elements(q) == {q[i] : i \in DOMAIN q}

Distinct(q) == \A i, j \in DOMAIN q : q[i] = q[j] => i = j

\* q without e: the neighbours of e are linked to each other.
Unlink(q, e) ==
    IF e \in Elements(q)
    THEN LET at == CHOOSE i \in DOMAIN q : q[i] = e
         IN  [i \in 1 .. Len(q) - 1 |-> IF i < at THEN q[i] ELSE q[i + 1]]
    ELSE q

\* The sums of the first 0, 1, ... elements of a queue of integers, and the last of them.
Sums(q) ==
    LET sum[i \in 0 .. Len(q)] == IF i = 0 THEN 0 ELSE sum[i - 1] + q[i]
    IN  sum

SumOf(q) == Sums(q)[Len(q)]

\* What the members of S among the elements of q amount to, by their field n.
Amount(q, S) == SumOf([i \in DOMAIN q |-> IF q[i] \in S THEN q[i].n ELSE 0])

\* q without the members of S.
Drop(q, S) ==
    LET kept[i \in 0 .. Len(q)] ==
            IF i = 0 THEN <<>>
            ELSE IF q[i] \in S THEN kept[i - 1] ELSE Append(kept[i - 1], q[i])
    IN  kept[Len(q)]

\* One turn of a queue sifted in place: its front leaves, and comes back behind unless it is in S.
Sift(q, S) ==
    IF q = <<>> THEN q
    ELSE IF Head(q) \in S THEN Tail(q) ELSE Append(Tail(q), Head(q))

\* q after 0, 1, ... turns, as many as it has elements.
Sifted(q, S) ==
    LET sifted[i \in 0 .. Len(q)] == IF i = 0 THEN q ELSE Sift(sifted[i - 1], S)
    IN  sifted
=============================================================================
