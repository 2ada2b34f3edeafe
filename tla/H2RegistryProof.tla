-------------------------- MODULE H2RegistryProof ---------------------------
(***************************************************************************)
(* Proofs about the stream lifecycle (H2Stream) and about the registry     *)
(* built on it (H2Registry).                                               *)
(*                                                                         *)
(* The lifecycle is symmetric and its two directions are independent.  The *)
(* connection relies on it: a response head that finds no output is        *)
(* retained and takes effect later, on whatever state the frames received  *)
(* meanwhile have left (Sending::apply).                                   *)
(*                                                                         *)
(* The registry's invariants hold together or not at all: an event may be  *)
(* queued only because the record agrees with the events queued before it, *)
(* a record may change only because no other record has its id, and so on. *)
(* IInv is their conjunction with what they need of each other; every      *)
(* action is a change of one slot, or a flush of the chain of resets, plus *)
(* what happens to the queues, so there is one lemma for each of these and *)
(* each part of IInv.                                                      *)
(***************************************************************************)
EXTENDS H2Registry, QueuesProof, FiniteSetTheorems

\* A head applied at once does exactly what sending it does.
LEMMA ApplyIsSend ==
    ASSUME NEW state \in States, NEW boundary \in Boundaries,
           Send(state, "Headers", boundary) \in States
    PROVE  Apply(boundary, state) = Send(state, "Headers", boundary)
  BY DEF Send, Directional, Apply, States, Boundaries

\* A head that was legal when it was retained stays legal, and its late effect is
\* what sending it then would be, after any one frame received in between
\* (Sending::apply against State::send and State::recv).
THEOREM RetainedHeadExact ==
    ASSUME NEW state \in States, NEW boundary \in Boundaries,
           NEW frame \in Frames, NEW other \in Boundaries,
           Send(state, "Headers", boundary) \in States,
           Recv(state, frame, other) \in States
    PROVE  LET next == Recv(state, frame, other)
           IN  /\ Send(next, "Headers", boundary) \in States
               /\ Apply(boundary, next) = Send(next, "Headers", boundary)
<1> DEFINE next == Recv(state, frame, other)
<1>1. Send(next, "Headers", boundary) \in States
  <2>1. CASE state = "Idle" \/ state = "Open"
    BY <2>1 DEF Send, Recv, Directional, States, Boundaries
  <2>2. CASE state \notin {"Idle", "Open"}
    BY <2>2 DEF Send, Recv, Directional, States, Boundaries
  <2> QED BY <2>1, <2>2
<1>2. Apply(boundary, next) = Send(next, "Headers", boundary)
  BY <1>1, ApplyIsSend
<1> QED BY <1>1, <1>2

\* The two directions commute: wherever both ends may act, the state reached does
\* not depend on who acts first, so no interleaving of the application's frames
\* with the peer's leaves the stream in a different state.
THEOREM DirectionsCommute ==
    ASSUME NEW state \in States,
           NEW f \in Frames, NEW b \in Boundaries, NEW g \in Frames, NEW c \in Boundaries,
           Send(state, f, b) \in States,
           Recv(state, g, c) \in States
    PROVE  /\ Send(Recv(state, g, c), f, b) = Recv(Send(state, f, b), g, c)
           /\ Send(Recv(state, g, c), f, b) \in States
<1>1. state \in {"Idle", "Open"}
  BY DEF Send, Recv, Directional, States
<1>2. CASE state = "Idle"
  <2>1. f = "Headers" /\ g = "Headers"
    BY <1>2 DEF Send, Recv, Directional, States
  <2> QED BY <1>2, <2>1 DEF Send, Recv, Directional, States, Boundaries
<1>3. CASE state = "Open"
  BY <1>3 DEF Send, Recv, Directional, States, Boundaries
<1> QED BY <1>1, <1>2, <1>3

\* A stream closes only when both ends have ended it: every legal step into
\* "Closed" carries END_STREAM and finds the other direction already ended, or the
\* stream reserved and never opened on the other side.
THEOREM ClosedNeedsBothEnds ==
    ASSUME NEW state \in States, NEW frame \in Frames, NEW boundary \in Boundaries
    PROVE  /\ Send(state, frame, boundary) = "Closed" =>
                  boundary = "End" /\ state \in {"HalfClosedRemote", "ReservedLocal"}
           /\ Recv(state, frame, boundary) = "Closed" =>
                  boundary = "End" /\ state \in {"HalfClosedLocal", "ReservedRemote"}
  BY DEF Send, Recv, Directional, States, Frames, Boundaries
-----------------------------------------------------------------------------
(* The inductive invariant, in parts that say which of the registry's      *)
(* structures they relate.                                                 *)

\* The keys that name a record of one of the kinds, and those that name any.
Of(R, kinds) == {k \in Keys : R[k.slot].kind \in kinds /\ R[k.slot].id = k.id}

Named(R) == {k \in Keys : R[k.slot].id = k.id}

\* For each key, the phase that owns its slot.
Mine(R) == [k \in Keys |-> IF R[k.slot].id = k.id THEN R[k.slot].live ELSE "None"]

\* What the fields of one record say of each other.
Fit(r) ==
    /\ r \in Record /\ r.live # "Unreachable"
    /\ r.kind = "Free" => r = Free
    /\ r.kind # "Free" => r.id \in Ids
    /\ r.kind = "Active" =>
          /\ r.live \in Live
          /\ r.live = "Initial" => r.state = "Idle"
          /\ r.live \in {"End", "DuplexEnd"} => r.state = "HalfClosedRemote"
    /\ r.kind = "Closed" => r.live \in Closed
    /\ r.kind = "Reset" => r.live \in Closed \cup {"None"}

\* No id names two records, and none is newer than the history.
Slab(R, n) ==
    /\ R \in [Slots -> Record]
    /\ \A s \in Slots : Fit(R[s])
    /\ \A j, k \in Named(R) : j.id = k.id => j = k
    /\ n \in 0 .. MaxId
    /\ \A k \in Named(R) : k.id <= n

\* The index, the count and the chain of resets against the records.
Booked(R, I, p, Q) ==
    /\ I = Of(R, {"Active", "Reset"})
    /\ IsFiniteSet(Of(R, {"Active"}))
    /\ p = Cardinality(Of(R, {"Active"})) /\ p <= MaxActive
    /\ Q \in Seq(Keys) /\ Distinct(Q)
    /\ Elements(Q) = Of(R, {"Reset"})

Event == [key : Keys \cup {None}, what : {"More", "End", "Reset", "Settings"}]

\* f may be queued after e.
Follows(e, f) ==
    e.key = f.key /\ e.key # None => e.what = "More" \/ (e.what = "End" /\ f.what = "Reset")

InOrder(E) == \A i, j \in DOMAIN E : i < j => Follows(E[i], E[j])

\* The queued events: each is of a stream there was, under the key of its record if
\* there still is one.
Told(R, n, E) ==
    /\ E \in Seq(Event) /\ InOrder(E)
    /\ \A e \in Elements(E) :
          /\ e.key = None <=> e.what = "Settings"
          /\ e.key.id <= n
          /\ \A k \in Named(R) : e.key.id = k.id => e.key = k

IsQueued(E, k, what) == [key |-> k, what |-> what] \in Elements(E)

Ends    == {"End", "DuplexEnd"}
Resets  == {"Reset", "DuplexReset"}
Duplexes == {"Duplex", "DuplexEnd", "DuplexReset"}
Sessions == {"duplexHead", "duplex"}

\* The owner v of the slot of k against the queued events of k and its exchange a.
OwnedKey(v, k, E, a) ==
    /\ v \in Resets <=> IsQueued(E, k, "Reset")
    /\ IsQueued(E, k, "End") => v \in Ends \cup Resets
    /\ v \in Ends => IsQueued(E, k, "End")
    /\ v \in Duplexes => a \in Sessions
    /\ v = "Initial" => a = "unseen" /\ \A e \in Elements(E) : e.key # k

\* The owners of the slots against the queued events and the sessions.
Owned(m, E, A) ==
    /\ \A k \in Keys : OwnedKey(m[k], k, E, A[k.id])
    /\ \A id \in Ids : A[id] \in Sessions => \E k \in Keys : k.id = id /\ m[k] \in Duplexes

\* What the application may not have heard, or hear.
Silent(R, n, E, A) ==
    /\ A \in [Ids -> Apps]
    /\ \A id \in Ids : id > n => A[id] = "unseen"
    /\ \A k \in Of(R, {"Active"}) : A[k.id] # "cancelled"
    /\ \A e \in Elements(E) : e.key # None => A[e.key.id] # "cancelled"

\* The retained head.
Headed(R, h, A) ==
    /\ h \in {NoHead} \cup [key : Keys, boundary : Boundaries]
    /\ h # NoHead =>
          /\ h.key \in Of(R, {"Active"})
          /\ Send(R[h.key.slot].state, "Headers", h.boundary) \in States
          /\ A[h.key.id] \in {"head", "duplexHead"}

\* The wake queue and those who wait for it.
Waked(R, n, W, B) ==
    /\ W \in Seq(Keys) /\ Distinct(W) /\ Elements(W) \subseteq Of(R, {"Active"})
    /\ B \subseteq {k \in Keys : k.id <= n}
    /\ \A k \in B : k \in Of(R, {"Active"}) /\ R[k.slot].credit = "Open" => k \in Elements(W)

\* The output: the reserve for one RST_STREAM, and the barrier.
Reserved(Q, u, b, md, ph) ==
    /\ u \in Nat
    /\ b = IF Q = <<>> THEN "Open" ELSE "Blocked"
    /\ md \in {"app", "decode", "failed"} /\ ph \in {"Open", "Draining"}
    /\ md = "decode" => Q = <<>> /\ u <= Limit
    /\ u <= Limit + RstLen + (IF ph = "Open" THEN 0 ELSE 1)

\* What nothing else depends on.
Typed(pb, pr) ==
    /\ pb \in {NoBlock} \cup [id : Ids, boundary : Boundaries, action : {"Deliver", "Reset"}]
    /\ pr \in 0 .. MaxResets

IInv ==
    /\ Slab(rec, lastPeer)
    /\ Booked(rec, index, peerCount, resets)
    /\ Told(rec, lastPeer, events)
    /\ Owned(Mine(rec), events, app)
    /\ Silent(rec, lastPeer, events, app)
    /\ Headed(rec, head, app)
    /\ Waked(rec, lastPeer, wakes, waiting)
    /\ Reserved(resets, used, barrier, mode, phase)
    /\ Typed(pending, peerResets) /\ Len(events) <= EventCap

-----------------------------------------------------------------------------
(* The queue of events. *)

\* An event that may follow all that are queued is queued in order.
LEMMA OrderAppend ==
    ASSUME NEW q \in Seq(Event), NEW e \in Event, InOrder(q), \A x \in Elements(q) : Follows(x, e)
    PROVE  InOrder(Append(q, e))
<1>1. /\ Len(q) \in Nat /\ DOMAIN q = 1 .. Len(q)
      /\ DOMAIN Append(q, e) = 1 .. Len(q) + 1
      /\ \A i \in 1 .. Len(q) : Append(q, e)[i] = q[i]
      /\ Append(q, e)[Len(q) + 1] = e
  OBVIOUS
<1> SUFFICES ASSUME NEW i \in 1 .. Len(q) + 1, NEW j \in 1 .. Len(q) + 1, i < j
             PROVE  Follows(Append(q, e)[i], Append(q, e)[j])
  BY <1>1 DEF InOrder
<1>2. CASE j = Len(q) + 1
  BY <1>1, <1>2 DEF Elements
<1>3. CASE j # Len(q) + 1
  BY <1>1, <1>3 DEF InOrder
<1> QED BY <1>2, <1>3

\* Taking the first event leaves the rest in order.
LEMMA OrderTail ==
    ASSUME NEW q \in Seq(Event), q # <<>>, InOrder(q)
    PROVE  InOrder(Tail(q)) /\ \A x \in Elements(Tail(q)) : Follows(Head(q), x)
<1>1. /\ Len(q) \in Nat /\ Len(q) > 0 /\ DOMAIN q = 1 .. Len(q) /\ Head(q) = q[1]
      /\ DOMAIN Tail(q) = 1 .. Len(q) - 1
      /\ \A i \in 1 .. Len(q) - 1 : Tail(q)[i] = q[i + 1]
  BY TailFact
<1>2. InOrder(Tail(q))
  BY <1>1 DEF InOrder
<1>3. ASSUME NEW x \in Elements(Tail(q)) PROVE Follows(Head(q), x)
  <2>1. PICK i \in 1 .. Len(q) - 1 : x = q[i + 1]
    BY <1>1 DEF Elements
  <2>2. 1 < i + 1 /\ i + 1 \in DOMAIN q /\ 1 \in DOMAIN q
    BY <1>1
  <2> QED BY <1>1, <2>1, <2>2 DEF InOrder
<1> QED BY <1>2, <1>3

\* An ordered queue can be read back from its last element.
LEMMA OrderFront ==
    ASSUME NEW q \in Seq(Event), NEW e \in Event, InOrder(Append(q, e))
    PROVE  InOrder(q) /\ \A x \in Elements(q) : Follows(x, e)
<1>1. /\ Len(q) \in Nat /\ DOMAIN q = 1 .. Len(q)
      /\ DOMAIN Append(q, e) = 1 .. Len(q) + 1
      /\ \A i \in 1 .. Len(q) : Append(q, e)[i] = q[i]
      /\ Append(q, e)[Len(q) + 1] = e
  OBVIOUS
<1>2. InOrder(q)
  BY <1>1 DEF InOrder
<1>3. ASSUME NEW x \in Elements(q) PROVE Follows(x, e)
  <2>1. PICK i \in 1 .. Len(q) : x = q[i]
    BY <1>1 DEF Elements
  <2> QED BY <1>1, <2>1 DEF InOrder
<1> QED BY <1>2, <1>3

\* Events withdrawn from the middle leave the rest in order (Events::cancel).
LEMMA OrderDrop ==
    ASSUME NEW q \in Seq(Event), NEW D, InOrder(q)
    PROVE  InOrder(Drop(q, D))
<1> DEFINE S == {p \in Seq(Event) : InOrder(p) => InOrder(Drop(p, D))}
<1>1. <<>> \in S
  BY DropEmpty
<1>2. ASSUME NEW p \in S, NEW e \in Event PROVE Append(p, e) \in S
  <2> SUFFICES ASSUME InOrder(Append(p, e)) PROVE InOrder(Drop(Append(p, e), D))
    OBVIOUS
  <2>1. p \in Seq(Event) /\ InOrder(p) /\ \A x \in Elements(p) : Follows(x, e)
    BY OrderFront
  <2>2. InOrder(Drop(p, D)) /\ Drop(p, D) \in Seq(Event) /\ Elements(Drop(p, D)) \subseteq Elements(p)
    BY <2>1, DropElements
  <2>3. Drop(Append(p, e), D) = IF e \in D THEN Drop(p, D) ELSE Append(Drop(p, D), e)
    BY <2>1, DropAppend
  <2>4. InOrder(Append(Drop(p, D), e))
    BY <2>1, <2>2, OrderAppend
  <2> QED BY <2>2, <2>3, <2>4
<1>3. S = Seq(Event)
  <2> HIDE DEF S
  <2>1. S \subseteq Seq(Event)
    BY DEF S
  <2> QED BY <1>1, <1>2, <2>1, QueueInduct
<1> QED BY <1>3

-----------------------------------------------------------------------------
(* One slot of the slab changes. *)

\* A key is its id and its slot; id 0 is nobody's.
LEMMA KeyFact ==
    /\ \A k \in Keys : k.id \in Ids /\ k.slot \in Slots /\ k.id \in Nat /\ k.id # 0
    /\ \A j, k \in Keys : j.id = k.id /\ j.slot = k.slot => j = k
    /\ \A id \in Ids, s \in Slots : [id |-> id, slot |-> s] \in Keys
    /\ None \notin Keys /\ None.id = 0
    /\ \A id \in Ids : id \in Nat /\ id <= MaxId /\ id # 0
    /\ MaxId \in Nat
<1>1. MaxId \in Nat
  BY RegistryAssumption
<1> QED BY <1>1 DEF Keys, Ids, None

\* Free fits, and so does an owner of the right kind.
LEMMA FreeFits == Fit(Free) /\ Free.kind = "Free" /\ Free.id = 0 /\ Free.live = "None"
  BY KeyFact DEF Fit, Free, Record, States

\* A record's kind says which of the slab's sets its key is in.
LEMMA OfFact ==
    ASSUME NEW R, NEW n, Slab(R, n)
    PROVE  /\ \A K : "Free" \notin K => Of(R, K) \subseteq Named(R)
           /\ \A k \in Named(R) : R[k.slot].kind # "Free" /\ Fit(R[k.slot]) /\ R[k.slot].id = k.id
                                  /\ k \in Keys /\ k.slot \in Slots
           /\ \A K : \A k \in Named(R) : k \in Of(R, K) <=> R[k.slot].kind \in K
           /\ Mine(R) \in [Keys -> Live \cup Closed \cup {"None"}]
           /\ \A k \in Named(R) : Mine(R)[k] = R[k.slot].live
           /\ \A k \in Keys \ Named(R) : Mine(R)[k] = "None"
<1>1. \A s \in Slots : Fit(R[s]) /\ R[s] \in Record
  BY DEF Slab, Fit
<1>2. \A k \in Keys : R[k.slot] \in Record /\ R[k.slot].live \in Live \cup Closed \cup {"None"} /\ Fit(R[k.slot])
  BY <1>1, KeyFact DEF Fit, Record
<1>3. \A k \in Named(R) : R[k.slot].kind # "Free"
  BY <1>2, KeyFact, FreeFits DEF Named, Fit
<1>4. Mine(R) \in [Keys -> Live \cup Closed \cup {"None"}]
  BY <1>2 DEF Mine
<1> QED BY <1>1, <1>2, <1>3, <1>4, KeyFact DEF Named, Of, Mine

Counts == {{"Active"}, {"Reset"}, {"Active", "Reset"}}

\* R1 is R with the record r in the slot of k, which R names.
Swap(R, R1, n, k, r) ==
    /\ Slab(R1, n)
    /\ Named(R1) \subseteq Named(R)
    /\ R1[k.slot] = r /\ \A j \in Named(R) \ {k} : R1[j.slot] = R[j.slot]
    /\ \A K \in Counts : Of(R1, K) = IF r.kind \in K THEN Of(R, K) \cup {k} ELSE Of(R, K) \ {k}
    /\ Mine(R1) = [Mine(R) EXCEPT ![k] = r.live]

\* R1 is R with the record r of the new stream k.
Grow(R, R1, k, r) ==
    /\ Slab(R1, k.id)
    /\ Named(R1) = Named(R) \cup {k} /\ k \notin Named(R)
    /\ R1[k.slot] = r /\ \A j \in Named(R) : R1[j.slot] = R[j.slot]
    /\ \A K \in Counts : Of(R1, K) = IF r.kind \in K THEN Of(R, K) \cup {k} ELSE Of(R, K)
    /\ Mine(R1) = [Mine(R) EXCEPT ![k] = r.live]

\* A named record changes, and keeps its name or frees its slot.
LEMMA OneSlot ==
    ASSUME NEW R, NEW n, Slab(R, n), NEW k \in Named(R), NEW r, Fit(r), r.id = k.id \/ r = Free
    PROVE  Swap(R, [R EXCEPT ![k.slot] = r], n, k, r)
<1> DEFINE R1 == [R EXCEPT ![k.slot] = r]
<1>1. /\ k \in Keys /\ k.slot \in Slots /\ R[k.slot].id = k.id /\ k.id # 0 /\ R \in [Slots -> Record]
      /\ r \in Record
  BY KeyFact DEF Named, Slab, Fit
<1>2. R1 \in [Slots -> Record] /\ R1[k.slot] = r /\ \A s \in Slots \ {k.slot} : R1[s] = R[s]
  BY <1>1
<1>3. \A j \in Keys : j.slot = k.slot /\ j # k => R[j.slot].id # j.id
  BY <1>1, KeyFact
<1>4. \A j \in Keys : j.slot = k.slot /\ j # k => R1[j.slot].id # j.id
  BY <1>1, <1>2, KeyFact, FreeFits
<1> HIDE DEF R1
<1>5. \A j \in Keys \ {k} : (R1[j.slot].id = j.id <=> R[j.slot].id = j.id)
                            /\ (R1[j.slot].id = j.id => R1[j.slot] = R[j.slot] /\ j.slot # k.slot)
  BY <1>2, <1>3, <1>4, KeyFact
<1>6. Named(R1) \subseteq Named(R)
  BY <1>1, <1>5 DEF Named
<1>7. Slab(R1, n)
  BY <1>2, <1>6 DEF Slab
<1>8. ASSUME NEW K \in Counts
      PROVE Of(R1, K) = IF r.kind \in K THEN Of(R, K) \cup {k} ELSE Of(R, K) \ {k}
  <2>1. r.kind \in K => r.id = k.id
    BY FreeFits DEF Counts
  <2> QED BY <1>1, <1>2, <1>5, <2>1 DEF Of
<1>9. Mine(R1) = [Mine(R) EXCEPT ![k] = r.live]
  <2>1. r.id # k.id => r.live = "None"
    BY FreeFits
  <2> QED BY <1>1, <1>2, <1>5, <2>1 DEF Mine
<1>10. \A j \in Named(R) \ {k} : R1[j.slot] = R[j.slot]
  BY <1>5 DEF Named
<1> QED BY <1>2, <1>6, <1>7, <1>8, <1>9, <1>10 DEF R1, Swap

\* A free slot takes a record whose id is newer than all the slab has seen.
LEMMA NewSlot ==
    ASSUME NEW R, NEW n, Slab(R, n), NEW k \in Keys, R[k.slot] = Free, k.id > n,
           NEW r, Fit(r), r.id = k.id
    PROVE  Grow(R, [R EXCEPT ![k.slot] = r], k, r)
<1> DEFINE R1 == [R EXCEPT ![k.slot] = r]
<1>1. /\ k.slot \in Slots /\ k.id \in Nat /\ k.id # 0 /\ k.id <= MaxId /\ R \in [Slots -> Record]
      /\ r \in Record /\ n \in Nat
  BY KeyFact DEF Slab, Fit
<1>2. R1 \in [Slots -> Record] /\ R1[k.slot] = r /\ \A s \in Slots \ {k.slot} : R1[s] = R[s]
  BY <1>1
<1>3. \A j \in Keys : j.slot = k.slot => R[j.slot].id # j.id
  BY <1>1, KeyFact, FreeFits
<1>4. \A j \in Keys : j.slot = k.slot /\ j # k => R1[j.slot].id # j.id
  BY <1>1, <1>2, KeyFact
<1> HIDE DEF R1
<1>5. \A j \in Keys \ {k} : (R1[j.slot].id = j.id <=> R[j.slot].id = j.id)
                            /\ (R1[j.slot].id = j.id => R1[j.slot] = R[j.slot] /\ j.slot # k.slot)
  BY <1>2, <1>3, <1>4, KeyFact
<1>6. Named(R1) = Named(R) \cup {k} /\ k \notin Named(R)
  BY <1>2, <1>3, <1>5 DEF Named
<1>7. \A j \in Named(R) : j.id <= n /\ j.id \in Nat
  BY KeyFact DEF Slab, Named
<1>8. Slab(R1, k.id)
  <2>1. \A j \in Named(R1) : j.id <= k.id
    BY <1>1, <1>6, <1>7
  <2>2. \A i, j \in Named(R1) : i.id = j.id => i = j
    <3>1. \A j \in Named(R) : j.id # k.id
      BY <1>1, <1>7
    <3>2. \A i, j \in Named(R) : i.id = j.id => i = j
      BY DEF Slab
    <3> QED BY <3>1, <3>2, <1>6
  <2>3. \A s \in Slots : Fit(R1[s])
    BY <1>2 DEF Slab
  <2>4. k.id \in 0 .. MaxId
    BY <1>1, KeyFact
  <2> QED BY <2>1, <2>2, <2>3, <2>4, <1>2 DEF Slab
<1>9. ASSUME NEW K \in Counts
      PROVE Of(R1, K) = IF r.kind \in K THEN Of(R, K) \cup {k} ELSE Of(R, K)
  BY <1>2, <1>3, <1>5 DEF Of
<1>10. Mine(R1) = [Mine(R) EXCEPT ![k] = r.live]
  BY <1>2, <1>3, <1>5, ZenonT(40) DEF Mine
<1>11. \A j \in Named(R) : R1[j.slot] = R[j.slot]
  BY <1>5, <1>6 DEF Named
<1> QED BY <1>2, <1>6, <1>8, <1>9, <1>10, <1>11 DEF R1, Grow

-----------------------------------------------------------------------------
(* The books. *)

\* Nothing the books count changes.
LEMMA BookedSame ==
    ASSUME NEW R, NEW R1, NEW I, NEW p, NEW Q, Booked(R, I, p, Q),
           Of(R1, {"Active"}) = Of(R, {"Active"}), Of(R1, {"Reset"}) = Of(R, {"Reset"}),
           Of(R1, {"Active", "Reset"}) = Of(R, {"Active", "Reset"})
    PROVE  Booked(R1, I, p, Q)
  BY DEF Booked

\* An active stream leaves (Transition::remove).
LEMMA BookedRemove ==
    ASSUME NEW R, NEW R1, NEW I, NEW p, NEW Q, Booked(R, I, p, Q),
           NEW k \in Of(R, {"Active"}),
           Of(R1, {"Active"}) = Of(R, {"Active"}) \ {k}, Of(R1, {"Reset"}) = Of(R, {"Reset"}) \ {k},
           Of(R1, {"Active", "Reset"}) = Of(R, {"Active", "Reset"}) \ {k}
    PROVE  Booked(R1, I \ {k}, p - 1, Q)
<1>1. Of(R, {"Reset"}) \ {k} = Of(R, {"Reset"})
  BY DEF Of
<1>2. IsFiniteSet(Of(R1, {"Active"})) /\ Cardinality(Of(R1, {"Active"})) = p - 1 /\ p \in Nat
  BY FS_RemoveElement, FS_CardinalityType DEF Booked
<1>3. MaxActive \in Nat
  BY RegistryAssumption
<1>4. p - 1 <= MaxActive
  BY <1>2, <1>3 DEF Booked
<1> QED BY <1>1, <1>2, <1>4 DEF Booked

\* An active stream joins the chain of resets (Transition::reset).
LEMMA BookedReset ==
    ASSUME NEW R, NEW R1, NEW I, NEW p, NEW Q, Booked(R, I, p, Q),
           NEW k \in Of(R, {"Active"}),
           Of(R1, {"Active"}) = Of(R, {"Active"}) \ {k}, Of(R1, {"Reset"}) = Of(R, {"Reset"}) \cup {k},
           Of(R1, {"Active", "Reset"}) = Of(R, {"Active", "Reset"}) \cup {k}
    PROVE  Booked(R1, I, p - 1, <<k>> \o Q)
<1>1. k \notin Of(R, {"Reset"}) /\ k \in Keys /\ k \in Of(R, {"Active", "Reset"})
  BY DEF Of
<1>2. IsFiniteSet(Of(R1, {"Active"})) /\ Cardinality(Of(R1, {"Active"})) = p - 1 /\ p \in Nat
  BY FS_RemoveElement, FS_CardinalityType DEF Booked
<1>3. MaxActive \in Nat
  BY RegistryAssumption
<1>4. p - 1 <= MaxActive
  BY <1>2, <1>3 DEF Booked
<1>5. <<k>> \in Seq(Keys) /\ Distinct(<<k>>) /\ Elements(<<k>>) = {k}
  BY <1>1 DEF Distinct, Elements
<1>6. Q \in Seq(Keys) /\ Distinct(Q) /\ Elements(Q) = Of(R, {"Reset"})
  BY DEF Booked
<1>7. <<k>> \o Q \in Seq(Keys) /\ Distinct(<<k>> \o Q) /\ Elements(<<k>> \o Q) = {k} \cup Elements(Q)
  <2> DEFINE one == <<k>>
  <2>1. one \in Seq(Keys) /\ Distinct(one) /\ Elements(one) = {k} /\ Elements(one) \cap Elements(Q) = {}
    BY <1>1, <1>5, <1>6
  <2> HIDE DEF one
  <2>2. one \o Q \in Seq(Keys) /\ Distinct(one \o Q) /\ Elements(one \o Q) = Elements(one) \cup Elements(Q)
    BY <2>1, <1>6, ConcatFact
  <2> QED BY <2>1, <2>2 DEF one
<1> QED BY <1>1, <1>2, <1>4, <1>6, <1>7 DEF Booked

\* A stream is admitted (Vacant::insert).
LEMMA BookedInsert ==
    ASSUME NEW R, NEW R1, NEW I, NEW p, NEW Q, Booked(R, I, p, Q), p < MaxActive,
           NEW k, k \notin Of(R, {"Active"}),
           Of(R1, {"Active"}) = Of(R, {"Active"}) \cup {k}, Of(R1, {"Reset"}) = Of(R, {"Reset"}),
           Of(R1, {"Active", "Reset"}) = Of(R, {"Active", "Reset"}) \cup {k}
    PROVE  Booked(R1, I \cup {k}, p + 1, Q)
<1>1. IsFiniteSet(Of(R1, {"Active"})) /\ Cardinality(Of(R1, {"Active"})) = p + 1 /\ p \in Nat
  BY FS_AddElement, FS_CardinalityType DEF Booked
<1>2. MaxActive \in Nat
  BY RegistryAssumption
<1>3. p + 1 <= MaxActive
  BY <1>1, <1>2
<1> QED BY <1>1, <1>3 DEF Booked

\* R1 names no more than R; the active streams are the same but for those in gone,
\* and their records but for those in touched.
Less(R, R1, gone, touched) ==
    /\ Named(R1) \subseteq Named(R)
    /\ Of(R1, {"Active"}) = Of(R, {"Active"}) \ gone
    /\ \A j \in Of(R1, {"Active"}) \ touched : R1[j.slot] = R[j.slot]

\* A record's phase changes to v, with all else that follows.
Moved(R, R1, n, k, r) ==
    /\ Slab(R1, n)
    /\ Mine(R1) = [Mine(R) EXCEPT ![k] = r.live]
    /\ R1[k.slot] = r

\* An active stream stays active.
LEMMA StepKeep ==
    ASSUME NEW R, NEW n, Slab(R, n), NEW I, NEW p, NEW Q, Booked(R, I, p, Q),
           NEW k \in Of(R, {"Active"}), NEW r, Fit(r), r.id = k.id, r.kind = "Active",
           NEW R1, R1 = [R EXCEPT ![k.slot] = r]
    PROVE  Booked(R1, I, p, Q) /\ Less(R, R1, {}, {k}) /\ Moved(R, R1, n, k, r)
<1>1. k \in Named(R) /\ k \in Of(R, {"Active", "Reset"}) /\ k \notin Of(R, {"Reset"})
  BY DEF Named, Of
<1>3. Swap(R, R1, n, k, r)
  BY <1>1, OneSlot
<1>4. Of(R1, {"Active"}) = Of(R, {"Active"}) /\ Of(R1, {"Reset"}) = Of(R, {"Reset"})
  <2>1. Of(R1, {"Active"}) = Of(R, {"Active"}) \cup {k}
    BY <1>3 DEF Swap, Counts
  <2>2. Of(R1, {"Reset"}) = Of(R, {"Reset"}) \ {k}
    BY <1>3 DEF Swap, Counts
  <2> QED BY <1>1, <2>1, <2>2
<1>5. Of(R1, {"Active", "Reset"}) = Of(R, {"Active", "Reset"})
  BY <1>1, <1>3, ZenonT(40) DEF Swap, Counts
<1>6. Booked(R1, I, p, Q)
  BY <1>4, <1>5, BookedSame
<1>7. Of(R, {"Active"}) \subseteq Named(R)
  BY DEF Of, Named
<1> QED BY <1>1, <1>3, <1>4, <1>6, <1>7 DEF Less, Moved, Swap

\* An active stream leaves its slot to an owner, or free.
LEMMA StepRemove ==
    ASSUME NEW R, NEW n, Slab(R, n), NEW I, NEW p, NEW Q, Booked(R, I, p, Q),
           NEW k \in Of(R, {"Active"}), NEW r, Fit(r), r = Free \/ (r.id = k.id /\ r.kind = "Closed"),
           NEW R1, R1 = [R EXCEPT ![k.slot] = r]
    PROVE  Booked(R1, I \ {k}, p - 1, Q) /\ Less(R, R1, {k}, {}) /\ Moved(R, R1, n, k, r)
<1>1. k \in Named(R) /\ r.kind \in {"Free", "Closed"}
  BY FreeFits DEF Named, Of
<1>3. Swap(R, R1, n, k, r)
  BY <1>1, OneSlot
<1>4. Of(R1, {"Active"}) = Of(R, {"Active"}) \ {k} /\ Of(R1, {"Reset"}) = Of(R, {"Reset"}) \ {k}
  BY <1>1, <1>3 DEF Swap, Counts
<1>5. Of(R1, {"Active", "Reset"}) = Of(R, {"Active", "Reset"}) \ {k}
  BY <1>1, <1>3 DEF Swap, Counts
<1>6. Booked(R1, I \ {k}, p - 1, Q)
  BY <1>4, <1>5, BookedRemove
<1>7. Of(R, {"Active"}) \subseteq Named(R)
  BY DEF Of, Named
<1> QED BY <1>1, <1>3, <1>4, <1>6, <1>7 DEF Less, Moved, Swap

\* An active stream starts to be reset.
LEMMA StepReset ==
    ASSUME NEW R, NEW n, Slab(R, n), NEW I, NEW p, NEW Q, Booked(R, I, p, Q),
           NEW k \in Of(R, {"Active"}), NEW r, Fit(r), r.id = k.id, r.kind = "Reset",
           NEW R1, R1 = [R EXCEPT ![k.slot] = r]
    PROVE  Booked(R1, I, p - 1, <<k>> \o Q) /\ Less(R, R1, {k}, {}) /\ Moved(R, R1, n, k, r)
<1>1. k \in Named(R)
  BY DEF Named, Of
<1>3. Swap(R, R1, n, k, r)
  BY <1>1, OneSlot
<1>4. Of(R1, {"Active"}) = Of(R, {"Active"}) \ {k} /\ Of(R1, {"Reset"}) = Of(R, {"Reset"}) \cup {k}
  BY <1>1, <1>3 DEF Swap, Counts
<1>5. Of(R1, {"Active", "Reset"}) = Of(R, {"Active", "Reset"}) \cup {k}
  BY <1>1, <1>3 DEF Swap, Counts
<1>6. Booked(R1, I, p - 1, <<k>> \o Q)
  BY <1>4, <1>5, BookedReset
<1>7. Of(R, {"Active"}) \subseteq Named(R)
  BY DEF Of, Named
<1> QED BY <1>1, <1>3, <1>4, <1>6, <1>7 DEF Less, Moved, Swap

\* An owner lets go of a stream that is no longer active.
LEMMA StepOwner ==
    ASSUME NEW R, NEW n, Slab(R, n), NEW I, NEW p, NEW Q, Booked(R, I, p, Q),
           NEW k \in Named(R), NEW r, Fit(r),
           \/ r.id = k.id /\ r.kind = R[k.slot].kind /\ r.kind \in {"Reset", "Closed"}
           \/ r = Free /\ R[k.slot].kind = "Closed",
           NEW R1, R1 = [R EXCEPT ![k.slot] = r]
    PROVE  Booked(R1, I, p, Q) /\ Less(R, R1, {}, {}) /\ Moved(R, R1, n, k, r)
<1>1. /\ Of(R, {"Active"}) \subseteq Named(R)
      /\ \A K : k \in Of(R, K) <=> R[k.slot].kind \in K
  BY OfFact
<1>2. Swap(R, R1, n, k, r)
  BY OneSlot
<1>3. \/ r.kind = R[k.slot].kind
      \/ r.kind = "Free" /\ R[k.slot].kind = "Closed"
  BY FreeFits
<1>4. ASSUME NEW K \in Counts PROVE Of(R1, K) = Of(R, K)
  <2>1. r.kind \in K <=> k \in Of(R, K)
    BY <1>1, <1>3 DEF Counts
  <2>3. Of(R1, K) = IF r.kind \in K THEN Of(R, K) \cup {k} ELSE Of(R, K) \ {k}
    BY <1>2 DEF Swap
  <2> QED BY <2>1, <2>3
<1>5. Of(R1, {"Active"}) = Of(R, {"Active"}) /\ Of(R1, {"Reset"}) = Of(R, {"Reset"})
  BY <1>4 DEF Counts
<1>6. Of(R1, {"Active", "Reset"}) = Of(R, {"Active", "Reset"})
  BY <1>4 DEF Counts
<1>7. Booked(R1, I, p, Q)
  BY <1>5, <1>6, BookedSame
<1>8. Of(R, {"Active"}) \subseteq Named(R) /\ k \notin Of(R, {"Active"})
  BY <1>1, FreeFits
<1> QED BY <1>2, <1>5, <1>7, <1>8 DEF Less, Moved, Swap

\* A stream is admitted.
LEMMA StepInsert ==
    ASSUME NEW R, NEW n, Slab(R, n), NEW I, NEW p, NEW Q, Booked(R, I, p, Q), p < MaxActive,
           NEW k \in Keys, R[k.slot] = Free, k.id > n, NEW r, Fit(r), r.id = k.id, r.kind = "Active",
           NEW R1, R1 = [R EXCEPT ![k.slot] = r]
    PROVE  Booked(R1, I \cup {k}, p + 1, Q) /\ Grow(R, R1, k, r)
<1>1. Grow(R, R1, k, r)
  BY NewSlot
<1>2. k \notin Of(R, {"Active"})
  BY FreeFits DEF Of
<1>3. Of(R1, {"Active"}) = Of(R, {"Active"}) \cup {k} /\ Of(R1, {"Reset"}) = Of(R, {"Reset"})
  BY <1>1 DEF Grow, Counts
<1>4. Of(R1, {"Active", "Reset"}) = Of(R, {"Active", "Reset"}) \cup {k}
  BY <1>1 DEF Grow, Counts
<1> QED BY <1>1, <1>2, <1>3, <1>4, BookedInsert

-----------------------------------------------------------------------------
(* The flush of the chain of resets (State::flush_resets). *)

\* As many RST_STREAMs are written as fit, and no more (Reset::write).
LEMMA WritableFact ==
    ASSUME NEW n \in Nat, NEW base \in Nat
    PROVE  LET i == Writable(n, base)
           IN  /\ i \in 0 .. n
               /\ base + i * RstLen \in Nat
               /\ base + i * RstLen = base \/ base + i * RstLen <= Limit + RstLen
               /\ i = n \/ base + i * RstLen > Limit
<1> DEFINE Fitting(i) == i = 0 \/ base + i * RstLen <= Limit + RstLen
           Stopping(i) == i = n \/ base + (i + 1) * RstLen > Limit + RstLen
           S == {i \in 0 .. n : Stopping(i)}
<1>1. Limit \in Nat /\ RstLen \in Nat
  BY RegistryAssumption
<1>2. n \in S /\ S \in SUBSET Nat
  OBVIOUS
<1>3. PICK x \in S : \A y \in S : x <= y
  BY <1>2, LeastFact
<1>4. Fitting(x)
  <2> SUFFICES ASSUME x # 0 PROVE base + x * RstLen <= Limit + RstLen
    OBVIOUS
  <2>1. x - 1 \in 0 .. n /\ x - 1 \notin S /\ x \in Nat
    BY <1>3
  <2>2. base + ((x - 1) + 1) * RstLen <= Limit + RstLen
    <3>1. ~(base + ((x - 1) + 1) * RstLen > Limit + RstLen)
      BY <2>1
    <3>2. (x - 1) + 1 = x
      BY <2>1
    <3>3. x * RstLen \in Nat
      BY <2>1, <1>1
    <3> QED BY <3>1, <3>2, <3>3, <1>1
  <2>3. (x - 1) + 1 = x
    BY <2>1
  <2> QED BY <2>2, <2>3
<1> DEFINE w == Writable(n, base)
<1>5. w \in 0 .. n /\ Fitting(w) /\ Stopping(w)
  BY <1>3, <1>4 DEF Writable
<1> HIDE DEF w
<1>6. w \in Nat /\ w * RstLen \in Nat /\ (w + 1) * RstLen = w * RstLen + RstLen /\ 0 * RstLen = 0
  BY <1>1, <1>5
<1>7. base + w * RstLen = base \/ base + w * RstLen <= Limit + RstLen
  BY <1>5, <1>6, <1>1
<1>8. w = n \/ base + w * RstLen > Limit
  BY <1>5, <1>6, <1>1
<1>9. base + w * RstLen \in Nat
  BY <1>6
<1> QED BY <1>5, <1>7, <1>8, <1>9 DEF w

\* The records whose reset is written close; what they own stays owned.
LEMMA CloseFits ==
    ASSUME NEW r, Fit(r), r.kind = "Reset"
    PROVE  LET c == Close(r.id, r.live)
           IN  /\ Fit(c) /\ (c = Free \/ (c.id = r.id /\ c.kind = "Closed"))
               /\ c.live = r.live
  BY KeyFact DEF Fit, Close, Owner, Free, Record, States, Live, Closed, Ids

\* The slab after the records of done have closed.
Shut(R, done) ==
    [s \in Slots |-> IF \E k \in done : k.slot = s THEN Close(R[s].id, R[s].live) ELSE R[s]]

\* Closing records that were being reset takes nothing from the active ones.
LEMMA ShutFact ==
    ASSUME NEW R, NEW n, Slab(R, n), NEW done, done \subseteq Of(R, {"Reset"})
    PROVE  LET R1 == Shut(R, done)
           IN  /\ Slab(R1, n) /\ Less(R, R1, {}, {}) /\ Mine(R1) = Mine(R)
               /\ Of(R1, {"Reset"}) = Of(R, {"Reset"}) \ done
               /\ Of(R1, {"Active", "Reset"}) = Of(R, {"Active", "Reset"}) \ done
<1> DEFINE R1 == Shut(R, done)
<1>1. R \in [Slots -> Record] /\ \A s \in Slots : Fit(R[s])
  BY DEF Slab
<1>2. \A k \in done : k \in Keys /\ k.slot \in Slots /\ R[k.slot].kind = "Reset" /\ R[k.slot].id = k.id
  BY KeyFact DEF Of
<1>3. ASSUME NEW k \in done
      PROVE  /\ Fit(R1[k.slot]) /\ (R1[k.slot] = Free \/ (R1[k.slot].id = k.id /\ R1[k.slot].kind = "Closed"))
             /\ R1[k.slot].live = R[k.slot].live
  <2>1. R1[k.slot] = Close(R[k.slot].id, R[k.slot].live)
    BY <1>2, <1>3 DEF Shut
  <2> QED BY <1>1, <1>2, <2>1, CloseFits
<1>4. \A s \in Slots : (\E k \in done : k.slot = s) \/ R1[s] = R[s]
  BY DEF Shut
<1>5. R1 = [s \in Slots |-> R1[s]]
  BY DEF Shut
<1> HIDE DEF R1
<1>6. \A s \in Slots : Fit(R1[s])
  BY <1>1, <1>3, <1>4
<1>7. R1 \in [Slots -> Record]
  BY <1>5, <1>6 DEF Fit
<1>8. ASSUME NEW j \in Keys, j \notin done
      PROVE  /\ R1[j.slot].id = j.id <=> R[j.slot].id = j.id
             /\ R1[j.slot].id = j.id => R1[j.slot] = R[j.slot]
  <2>1. CASE \E k \in done : k.slot = j.slot
    <3>1. PICK k \in done : k.slot = j.slot
      BY <2>1
    <3>2. j.id # k.id /\ j.id # 0
      BY <1>2, <1>8, <3>1, KeyFact
    <3> QED BY <1>2, <1>3, <3>1, <3>2, FreeFits
  <2>2. CASE ~\E k \in done : k.slot = j.slot
    BY <1>4, <2>2, KeyFact
  <2> QED BY <2>1, <2>2
<1>9. Named(R1) \subseteq Named(R)
  BY <1>2, <1>8 DEF Named
<1>10. Slab(R1, n)
  BY <1>6, <1>7, <1>9 DEF Slab
<1>11. \A k \in done : R1[k.slot].kind \notin {"Active", "Reset"}
  BY <1>3, FreeFits
<1>12. Of(R1, {"Active"}) = Of(R, {"Active"})
  BY <1>2, <1>8, <1>11 DEF Of
<1>13. Of(R1, {"Reset"}) = Of(R, {"Reset"}) \ done
  BY <1>2, <1>8, <1>11 DEF Of
<1>14. Of(R1, {"Active", "Reset"}) = Of(R, {"Active", "Reset"}) \ done
  BY <1>2, <1>8, <1>11 DEF Of
<1>15. Mine(R1) = Mine(R)
  <2>1. ASSUME NEW j \in Keys PROVE Mine(R1)[j] = Mine(R)[j]
    <3>1. CASE j \in done
      <4>1. R1[j.slot].live = R[j.slot].live /\ R[j.slot].id = j.id
        BY <1>2, <1>3, <3>1
      <4>2. R1[j.slot].id = j.id \/ R1[j.slot].live = "None"
        BY <1>3, <3>1, FreeFits
      <4> QED BY <4>1, <4>2 DEF Mine
    <3>2. CASE j \notin done
      BY <1>8, <3>2 DEF Mine
    <3> QED BY <3>1, <3>2
  <2> QED BY <2>1 DEF Mine
<1>16. Less(R, R1, {}, {})
  BY <1>8, <1>9, <1>11, <1>12 DEF Less, Of
<1> QED BY <1>10, <1>13, <1>14, <1>15, <1>16 DEF R1

\* What a flush of the chain Q over the slab R and the output base leaves.
FlushedFrom(R, n, p, base) ==
    /\ Slab(rec', n) /\ Booked(rec', index', p, resets')
    /\ Less(R, rec', {}, {}) /\ Mine(rec') = Mine(R)
    /\ used' \in Nat /\ (used' = base \/ used' <= Limit + RstLen)
    /\ barrier' = IF resets' = <<>> THEN "Open" ELSE "Blocked"
    /\ resets' # <<>> => used' > Limit

\* A flush keeps the books, and stops only for want of output.
LEMMA FlushFact ==
    ASSUME NEW R, NEW n, Slab(R, n), NEW I, NEW p, NEW Q, Booked(R, I, p, Q), NEW base \in Nat,
           Flush(R, I, Q, base)
    PROVE  FlushedFrom(R, n, p, base)
<1> DEFINE w == Writable(Len(Q), base)
           done == {Q[i] : i \in 1 .. w}
<1>1. Q \in Seq(Keys) /\ Distinct(Q) /\ Elements(Q) = Of(R, {"Reset"}) /\ Len(Q) \in Nat
  BY DEF Booked
<1>2. /\ w \in 0 .. Len(Q) /\ base + w * RstLen \in Nat
      /\ base + w * RstLen = base \/ base + w * RstLen <= Limit + RstLen
      /\ w = Len(Q) \/ base + w * RstLen > Limit
  BY <1>1, WritableFact
<1>3. /\ resets' = SubSeq(Q, w + 1, Len(Q)) /\ index' = I \ done /\ rec' = Shut(R, done)
      /\ used' = base + w * RstLen
      /\ barrier' = IF w = Len(Q) THEN "Open" ELSE "Blocked"
  BY DEF Flush, Flushed, Shut
<1> HIDE DEF w
<1>4. /\ resets' \in Seq(Keys) /\ Elements(Q) = Elements(resets') \cup done
      /\ Distinct(resets') /\ Elements(resets') \cap done = {}
  BY <1>1, <1>2, <1>3, CutFact
<1>5. Len(resets') = Len(Q) - w
  BY <1>1, <1>2, <1>3, SpanFact
<1>6. resets' = <<>> <=> w = Len(Q)
  BY <1>1, <1>2, <1>4, <1>5
<1> HIDE DEF done
<1>7. done \subseteq Of(R, {"Reset"})
  BY <1>1, <1>4
<1>8. /\ Slab(rec', n) /\ Less(R, rec', {}, {}) /\ Mine(rec') = Mine(R)
      /\ Of(rec', {"Reset"}) = Of(R, {"Reset"}) \ done
      /\ Of(rec', {"Active", "Reset"}) = Of(R, {"Active", "Reset"}) \ done
  BY <1>3, <1>7, ShutFact
<1>9. Of(rec', {"Active"}) = Of(R, {"Active"})
  BY <1>8 DEF Less
<1>10. Elements(resets') = Of(rec', {"Reset"})
  BY <1>1, <1>4, <1>8
<1>11. Booked(rec', index', p, resets')
  BY <1>3, <1>4, <1>8, <1>9, <1>10 DEF Booked
<1> QED BY <1>2, <1>3, <1>6, <1>8, <1>11 DEF FlushedFrom

-----------------------------------------------------------------------------
(* What the other parts of the invariant keep when the slab names less. *)

\* One change after another.
LEMMA LessThen ==
    ASSUME NEW R, NEW R1, NEW R2, NEW gone, NEW touched,
           Less(R, R1, gone, touched), Less(R1, R2, {}, {})
    PROVE  Less(R, R2, gone, touched)
  BY DEF Less

\* The queued events keep their streams.
LEMMA ToldLess ==
    ASSUME NEW R, NEW R1, NEW gone, NEW touched, Less(R, R1, gone, touched), NEW n, NEW E, Told(R, n, E)
    PROVE  Told(R1, n, E)
  BY DEF Told, Less

\* The application hears no more than before.
LEMMA SilentLess ==
    ASSUME NEW R, NEW R1, NEW gone, NEW touched, Less(R, R1, gone, touched),
           NEW n, NEW E, NEW A, Silent(R, n, E, A)
    PROVE  Silent(R1, n, E, A)
  BY DEF Silent, Less

\* A head stays good unless its own stream changes.
LEMMA HeadedLess ==
    ASSUME NEW R, NEW R1, NEW gone, NEW touched, Less(R, R1, gone, touched),
           NEW h, NEW A, Headed(R, h, A), h = NoHead \/ h.key \notin gone \cup touched
    PROVE  Headed(R1, h, A)
  BY DEF Headed, Less

\* No wake is lost when no active record changes, when a stream leaves with its wake,
\* and when a record that changes gains no credit.
LEMMA WakedLess ==
    ASSUME NEW R, NEW R1, NEW touched, Less(R, R1, {}, touched), NEW n, NEW W, NEW B, Waked(R, n, W, B),
           \A k \in touched : R1[k.slot].credit = "Open" /\ k \in B => k \in Elements(W)
    PROVE  Waked(R1, n, W, B)
  BY DEF Waked, Less

\* A stream leaves with its wake (Wake::clear).
LEMMA WakedUnlink ==
    ASSUME NEW R, NEW R1, NEW k, Less(R, R1, {k}, {}), NEW n, NEW W, NEW B, Waked(R, n, W, B)
    PROVE  Waked(R1, n, Unlink(W, k), B)
<1>1. W \in Seq(Keys) /\ Distinct(W)
  BY DEF Waked
<1>2. Unlink(W, k) \in Seq(Keys) /\ Distinct(Unlink(W, k)) /\ Elements(Unlink(W, k)) = Elements(W) \ {k}
  BY <1>1, UnlinkFact
<1> QED BY <1>2 DEF Waked, Less

-----------------------------------------------------------------------------
(* Events are queued and taken. *)

\* Another event of an active stream, or of none (Events::vacant).
LEMMA ToldEmit ==
    ASSUME NEW R, NEW n, Slab(R, n), NEW E, Told(R, n, E), NEW e \in Event,
           e.key = None <=> e.what = "Settings", e.key \in Named(R) \cup {None},
           \A x \in Elements(E) : Follows(x, e)
    PROVE  Told(R, n, Append(E, e)) /\ Elements(Append(E, e)) = Elements(E) \cup {e}
<1>1. E \in Seq(Event) /\ InOrder(E)
  BY DEF Told
<1>2. Append(E, e) \in Seq(Event) /\ Elements(Append(E, e)) = Elements(E) \cup {e}
  BY <1>1, AppendFact
<1>3. InOrder(Append(E, e))
  BY <1>1, OrderAppend
<1>4. n \in Nat /\ e.key.id <= n /\ \A k \in Named(R) : e.key.id = k.id => e.key = k
  <2>1. CASE e.key = None
    BY <2>1, KeyFact DEF Slab, Named
  <2>2. CASE e.key \in Named(R)
    BY <2>2, KeyFact DEF Slab, Named
  <2> QED BY <2>1, <2>2
<1> QED BY <1>2, <1>3, <1>4 DEF Told

\* The first event is taken; of a terminal one no other is queued.
LEMMA ToldTail ==
    ASSUME NEW R, NEW n, NEW E, Told(R, n, E), E # <<>>
    PROVE  /\ Told(R, n, Tail(E)) /\ Head(E) \in Event /\ Head(E) \in Elements(E)
           /\ Len(Tail(E)) <= Len(E)
           /\ Elements(E) = Elements(Tail(E)) \cup {Head(E)}
           /\ Head(E).what \in {"End", "Reset"} => Head(E) \notin Elements(Tail(E))
           /\ \A x \in Elements(Tail(E)) : Follows(Head(E), x)
<1>1. E \in Seq(Event) /\ InOrder(E)
  BY DEF Told
<1>2. /\ Tail(E) \in Seq(Event) /\ Head(E) \in Event
      /\ Elements(E) = Elements(Tail(E)) \cup {Head(E)}
  BY <1>1, TailElements
<1>3. InOrder(Tail(E)) /\ \A x \in Elements(Tail(E)) : Follows(Head(E), x)
  BY <1>1, OrderTail
<1>4. Head(E).key = None <=> Head(E).what = "Settings"
  BY <1>2 DEF Told
<1>5. Head(E).what \in {"End", "Reset"} => Head(E) \notin Elements(Tail(E))
  BY <1>3, <1>4 DEF Follows
<1>6. Len(Tail(E)) <= Len(E)
  BY <1>1
<1> QED BY <1>2, <1>3, <1>5, <1>6 DEF Told

\* Events are withdrawn.
LEMMA ToldDrop ==
    ASSUME NEW R, NEW n, NEW E, Told(R, n, E), NEW D
    PROVE  /\ Told(R, n, Drop(E, D)) /\ Elements(Drop(E, D)) = Elements(E) \ D
           /\ Len(Drop(E, D)) <= Len(E)
<1>1. E \in Seq(Event) /\ InOrder(E)
  BY DEF Told
<1>2. Drop(E, D) \in Seq(Event) /\ Elements(Drop(E, D)) = Elements(E) \ D
  BY <1>1, DropElements
<1>3. InOrder(Drop(E, D)) /\ Len(Drop(E, D)) <= Len(E)
  BY <1>1, OrderDrop, DropShorter
<1> QED BY <1>2, <1>3 DEF Told

-----------------------------------------------------------------------------
(* Owners. *)

\* E1 differs from E in events of k only.
Beyond(k, E, E1) ==
    /\ \A j \in Keys \ {k}, w \in {"End", "Reset"} : IsQueued(E1, j, w) <=> IsQueued(E, j, w)
    /\ \A e \in Elements(E1) : e \in Elements(E) \/ e.key = k

\* The owner of one slot, its events and its exchange change together.
LEMMA OwnedAt ==
    ASSUME NEW m \in [Keys -> Live \cup Closed \cup {"None"}], NEW E, NEW A \in [Ids -> Apps], Owned(m, E, A),
           NEW k \in Keys, NEW v, NEW E1, Beyond(k, E, E1), NEW a \in Apps,
           \A j \in Keys : j.id = k.id /\ j # k => m[j] = "None",
           OwnedKey(v, k, E1, a), a \in Sessions => v \in Duplexes
    PROVE  Owned([m EXCEPT ![k] = v], E1, [A EXCEPT ![k.id] = a])
<1> DEFINE m1 == [m EXCEPT ![k] = v]
           A1 == [A EXCEPT ![k.id] = a]
<1>1. k.id \in Ids
  BY KeyFact
<1>2. /\ m1[k] = v /\ \A j \in Keys \ {k} : m1[j] = m[j]
      /\ A1[k.id] = a /\ \A id \in Ids \ {k.id} : A1[id] = A[id]
  BY <1>1
<1> HIDE DEF m1, A1
<1>3. ASSUME NEW j \in Keys, j # k PROVE OwnedKey(m1[j], j, E1, A1[j.id])
  <2>1. OwnedKey(m[j], j, E, A[j.id]) /\ j.id \in Ids
    BY KeyFact DEF Owned
  <2>2. m1[j] = m[j]
    BY <1>2, <1>3
  <2>3. /\ IsQueued(E1, j, "End") <=> IsQueued(E, j, "End")
        /\ IsQueued(E1, j, "Reset") <=> IsQueued(E, j, "Reset")
    BY <1>3 DEF Beyond
  <2>4. (\A e \in Elements(E) : e.key # j) => \A e \in Elements(E1) : e.key # j
    BY <1>3 DEF Beyond
  <2>5. CASE j.id = k.id
    <3>1. m[j] = "None"
      BY <1>3, <2>5
    <3> QED BY <2>1, <2>2, <2>3, <3>1 DEF OwnedKey, Ends, Resets, Duplexes
  <2>6. CASE j.id # k.id
    <3>1. A1[j.id] = A[j.id]
      BY <1>2, <2>1, <2>6
    <3> QED BY <2>1, <2>2, <2>3, <2>4, <3>1 DEF OwnedKey
  <2> QED BY <2>5, <2>6
<1>4. OwnedKey(m1[k], k, E1, A1[k.id])
  BY <1>2
<1>5. ASSUME NEW id \in Ids, A1[id] \in Sessions
      PROVE \E j \in Keys : j.id = id /\ m1[j] \in Duplexes
  <2>1. CASE id = k.id
    BY <1>2, <1>5, <2>1
  <2>2. CASE id # k.id
    <3>1. PICK j \in Keys : j.id = id /\ m[j] \in Duplexes
      BY <1>2, <1>5, <2>2 DEF Owned
    <3> QED BY <1>2, <2>2, <3>1
  <2> QED BY <2>1, <2>2
<1>6. Owned(m1, E1, A1)
  BY <1>3, <1>4, <1>5 DEF Owned
<1> QED BY <1>6 DEF m1, A1

\* No other key of a record's id owns anything.
LEMMA Alone ==
    ASSUME NEW R, NEW n, Slab(R, n), NEW k \in Named(R)
    PROVE  \A j \in Keys : j.id = k.id /\ j # k => Mine(R)[j] = "None"
<1>1. \A j \in Keys : j.id = k.id /\ j # k => j \notin Named(R)
  BY DEF Slab
<1> QED BY <1>1, OfFact

\* What follows the queued events of a stream that has no terminal one among them.
LEMMA EmitFollows ==
    ASSUME NEW R, NEW n, NEW E, Told(R, n, E), NEW k \in Keys, NEW v, NEW a, OwnedKey(v, k, E, a),
           v \notin Resets, NEW w \in {"More", "End", "Reset"}, w = "Reset" \/ v \notin Ends
    PROVE  \A x \in Elements(E) : Follows(x, [key |-> k, what |-> w])
<1> SUFFICES ASSUME NEW x \in Elements(E), x.key = k
             PROVE  x.what = "More" \/ (x.what = "End" /\ w = "Reset")
  BY DEF Follows
<1>1. x \in Event
  BY DEF Told, Elements
<1>2. x = [key |-> k, what |-> x.what] /\ x.what \in {"More", "End", "Reset", "Settings"}
  BY <1>1 DEF Event
<1>3. x.what # "Settings"
  BY KeyFact DEF Told
<1>4. x.what # "Reset"
  BY <1>2 DEF OwnedKey, IsQueued
<1>5. x.what = "End" => v \in Ends
  BY <1>2 DEF OwnedKey, IsQueued
<1> QED BY <1>2, <1>3, <1>4, <1>5

\* Queueing an event of k changes what is queued of k only.
LEMMA EmitBeyond ==
    ASSUME NEW k, NEW w, NEW E, NEW E1, Elements(E1) = Elements(E) \cup {[key |-> k, what |-> w]}
    PROVE  /\ Beyond(k, E, E1)
           /\ \A u : IsQueued(E1, k, u) <=> IsQueued(E, k, u) \/ u = w
  BY DEF Beyond, IsQueued

\* The head of a stream that leaves goes with it (State::retire_write).
LEMMA HeadedDrop ==
    ASSUME NEW R, NEW R1, NEW k, Less(R, R1, {k}, {}), NEW A, Headed(R, head, A), DropHead(k.id)
    PROVE  Headed(R1, head', A)
<1>1. CASE head.key.id = k.id
  BY <1>1 DEF DropHead, Headed
<1>2. CASE head.key.id # k.id
  <2>1. head' = head /\ head.key # k
    BY <1>2 DEF DropHead
  <2>2. Headed(R1, head, A)
    BY <2>1, HeadedLess
  <2> QED BY <2>1, <2>2
<1> QED BY <1>1, <1>2

-----------------------------------------------------------------------------
(* The steps of the registry. *)

\* The stream k leaves, and v owns its slot.
Left(k, v) ==
    /\ Slab(rec', lastPeer) /\ Less(rec, rec', {k}, {})
    /\ Mine(rec') = [Mine(rec) EXCEPT ![k] = v]
    /\ Waked(rec', lastPeer, wakes', waiting)

\* The stream k stays active with the record r.
Stayed(k, r) ==
    /\ Slab(rec', lastPeer) /\ Less(rec, rec', {}, {k}) /\ rec'[k.slot] = r
    /\ Mine(rec') = [Mine(rec) EXCEPT ![k] = r.live]
    /\ Waked(rec', lastPeer, wakes', waiting)

\* What outlives an active stream is a phase of a closed one, or nothing.
LEMMA RetireFits ==
    ASSUME NEW live \in Live, NEW reset \in BOOLEAN, NEW k \in Keys
    PROVE  LET v == Retire(live, reset)
           IN  /\ v \in Closed \cup {"None"}
               /\ LET c == Close(k.id, v)
                  IN  Fit(c) /\ (c = Free \/ (c.id = k.id /\ c.kind = "Closed")) /\ c.live = v
               /\ LET c == Owner(k.id, "Reset", v)
                  IN  Fit(c) /\ c.id = k.id /\ c.kind = "Reset" /\ c.live = v
<1>1. Retire(live, reset) \in Closed \cup {"None"}
  BY DEF Retire, Live, Closed
<1> DEFINE v == Retire(live, reset)
<1> HIDE DEF v
<1>2. k.id \in Ids /\ k.id \in 0 .. MaxId
  BY KeyFact
<1>3. v \in Closed \cup {"None"}
  BY <1>1 DEF v
<1>4. LET c == Owner(k.id, "Reset", v)
      IN  Fit(c) /\ c.id = k.id /\ c.kind = "Reset" /\ c.live = v
  BY <1>2, <1>3 DEF Owner, Fit, Record, States, Closed
<1>5. v # "None" => LET c == Owner(k.id, "Closed", v)
                   IN  Fit(c) /\ c.id = k.id /\ c.kind = "Closed" /\ c.live = v
  BY <1>2, <1>3 DEF Owner, Fit, Record, States, Closed
<1>6. LET c == Close(k.id, v)
      IN  Fit(c) /\ (c = Free \/ (c.id = k.id /\ c.kind = "Closed")) /\ c.live = v
  BY <1>5, FreeFits DEF Close
<1> QED BY <1>3, <1>4, <1>6 DEF v

\* Transition::remove
LEMMA RemoveFact ==
    ASSUME Slab(rec, lastPeer), Booked(rec, index, peerCount, resets), Waked(rec, lastPeer, wakes, waiting),
           NEW k \in Of(rec, {"Active"}), NEW r, r.live \in Live, NEW reset \in BOOLEAN,
           RemoveKey(k, r, reset)
    PROVE  Left(k, Retire(r.live, reset)) /\ Booked(rec', index', peerCount', resets)
<1> DEFINE c == Close(k.id, Retire(r.live, reset))
<1>1. k \in Keys
  BY DEF Of
<1>2. Fit(c) /\ (c = Free \/ (c.id = k.id /\ c.kind = "Closed")) /\ c.live = Retire(r.live, reset)
  BY <1>1, RetireFits
<1>3. /\ index' = index \ {k} /\ rec' = [rec EXCEPT ![k.slot] = c]
      /\ wakes' = Unlink(wakes, k) /\ peerCount' = peerCount - 1
  BY DEF RemoveKey
<1> HIDE DEF c
<1>4. Booked(rec', index', peerCount', resets) /\ Less(rec, rec', {k}, {}) /\ Moved(rec, rec', lastPeer, k, c)
  BY <1>2, <1>3, StepRemove
<1>5. Waked(rec', lastPeer, wakes', waiting)
  BY <1>3, <1>4, WakedUnlink
<1> QED BY <1>2, <1>4, <1>5 DEF Left, Moved

\* Registry::remove_key, or the record's next value.
LEMMA AdvanceFact ==
    ASSUME Slab(rec, lastPeer), Booked(rec, index, peerCount, resets), Waked(rec, lastPeer, wakes, waiting),
           NEW k \in Of(rec, {"Active"}), NEW r, r.live \in Live, r.id = k.id, r.kind = "Active",
           r.state # "Closed" => Fit(r),
           r.credit = "Open" => rec[k.slot].credit = "Open",
           Advance(k, r)
    PROVE  /\ Booked(rec', index', peerCount', resets)
           /\ r.state = "Closed" => Left(k, Retire(r.live, FALSE))
           /\ r.state # "Closed" => Stayed(k, r)
<1>1. CASE r.state = "Closed"
  <2>1. RemoveKey(k, r, FALSE)
    BY <1>1 DEF Advance
  <2> QED BY <1>1, <2>1, RemoveFact
<1>2. CASE r.state # "Closed"
  <2>1. /\ rec' = [rec EXCEPT ![k.slot] = r] /\ index' = index /\ peerCount' = peerCount
        /\ wakes' = wakes
    BY <1>2 DEF Advance
  <2>2. Booked(rec', index, peerCount, resets) /\ Less(rec, rec', {}, {k}) /\ Moved(rec, rec', lastPeer, k, r)
    BY <1>2, <2>1, StepKeep
  <2>3. rec'[k.slot].credit = "Open" /\ k \in waiting => k \in Elements(wakes)
    BY <2>2 DEF Moved, Waked
  <2>4. Waked(rec', lastPeer, wakes, waiting)
    BY <2>2, <2>3, WakedLess
  <2> QED BY <1>2, <2>1, <2>2, <2>4 DEF Stayed, Moved
<1> QED BY <1>1, <1>2

\* What a flush leaves of the output.
Flowed(base) ==
    /\ used' \in Nat /\ (used' = base \/ used' <= Limit + RstLen)
    /\ barrier' = IF resets' = <<>> THEN "Open" ELSE "Blocked"
    /\ resets' # <<>> => used' > Limit

\* Registry::begin_reset and the flush after it.
LEMMA BeginResetFact ==
    ASSUME Slab(rec, lastPeer), Booked(rec, index, peerCount, resets), Waked(rec, lastPeer, wakes, waiting),
           used \in Nat,
           NEW k \in Of(rec, {"Active"}), NEW x, x.live \in Live, NEW notify \in BOOLEAN,
           NEW recs, recs = [rec EXCEPT ![k.slot] = x], BeginReset(recs, k, notify)
    PROVE  /\ Left(k, Retire(x.live, notify)) /\ Booked(rec', index', peerCount', resets')
           /\ Flowed(used)
<1> DEFINE c == Owner(k.id, "Reset", Retire(x.live, notify))
           R1 == [rec EXCEPT ![k.slot] = c]
<1>1. k \in Keys /\ k.slot \in Slots /\ rec \in [Slots -> Record]
  BY KeyFact DEF Of, Slab
<1>2. Fit(c) /\ c.id = k.id /\ c.kind = "Reset" /\ c.live = Retire(x.live, notify)
  BY <1>1, RetireFits
<1>3. R1 = [recs EXCEPT ![k.slot] = Owner(k.id, "Reset", Retire(@.live, notify))]
  BY <1>1
<1>4. /\ Flush(R1, index, <<k>> \o resets, used)
      /\ wakes' = Unlink(wakes, k) /\ peerCount' = peerCount - 1
  BY <1>3 DEF BeginReset
<1> HIDE DEF c
<1>5. /\ Booked(R1, index, peerCount - 1, <<k>> \o resets) /\ Less(rec, R1, {k}, {})
      /\ Moved(rec, R1, lastPeer, k, c)
  BY <1>2, StepReset
<1>6. Slab(R1, lastPeer) /\ Mine(R1) = [Mine(rec) EXCEPT ![k] = Retire(x.live, notify)]
  BY <1>2, <1>5 DEF Moved
<1> HIDE DEF R1
<1>7. FlushedFrom(R1, lastPeer, peerCount - 1, used)
  BY <1>4, <1>5, <1>6, FlushFact
<1>8. Less(rec, rec', {k}, {})
  BY <1>5, <1>7, LessThen DEF FlushedFrom
<1>9. Waked(rec', lastPeer, wakes', waiting)
  BY <1>4, <1>8, WakedUnlink
<1>10. Mine(rec') = [Mine(rec) EXCEPT ![k] = Retire(x.live, notify)]
  BY <1>6, <1>7 DEF FlushedFrom
<1> QED BY <1>4, <1>7, <1>8, <1>9, <1>10 DEF FlushedFrom, Left, Flowed

-----------------------------------------------------------------------------
(* A record, its events and its exchange change together. *)

\* A record's owner is what the slab says.
LEMMA MineAt ==
    ASSUME NEW R, NEW n, Slab(R, n), NEW E, NEW A, Owned(Mine(R), E, A), NEW k \in Named(R)
    PROVE  /\ OwnedKey(R[k.slot].live, k, E, A[k.id])
           /\ A[k.id] \in Sessions => R[k.slot].live \in Duplexes
           /\ Mine(R)[k] = R[k.slot].live /\ k \in Keys /\ k.id \in Ids /\ k.id <= n
<1>1. k \in Keys /\ Mine(R)[k] = R[k.slot].live /\ k.id \in Ids /\ k.id <= n
  BY OfFact, KeyFact DEF Slab
<1>2. OwnedKey(R[k.slot].live, k, E, A[k.id])
  BY <1>1 DEF Owned
<1>3. ASSUME A[k.id] \in Sessions PROVE R[k.slot].live \in Duplexes
  <2>1. PICK j \in Keys : j.id = k.id /\ Mine(R)[j] \in Duplexes
    BY <1>1, <1>3 DEF Owned
  <2>2. j = k
    BY <2>1, Alone DEF Duplexes
  <2> QED BY <1>1, <2>1, <2>2
<1> QED BY <1>1, <1>2, <1>3

\* The owner of k is now v, its events those of E1, its exchange a.
LEMMA TurnOwned ==
    ASSUME NEW R, NEW n, Slab(R, n), NEW E, NEW A \in [Ids -> Apps], Owned(Mine(R), E, A),
           NEW k \in Named(R), NEW R1, NEW v, Mine(R1) = [Mine(R) EXCEPT ![k] = v],
           NEW E1, Beyond(k, E, E1), NEW a \in Apps, OwnedKey(v, k, E1, a), a \in Sessions => v \in Duplexes,
           NEW A1, A1 = [A EXCEPT ![k.id] = a]
    PROVE  Owned(Mine(R1), E1, A1)
<1>1. Mine(R) \in [Keys -> Live \cup Closed \cup {"None"}] /\ k \in Keys
  BY OfFact
<1>2. \A j \in Keys : j.id = k.id /\ j # k => Mine(R)[j] = "None"
  BY Alone
<1>3. Owned([Mine(R) EXCEPT ![k] = v], E1, A1)
  BY <1>1, <1>2, OwnedAt
<1> QED BY <1>3

\* The application hears of an active stream.
LEMMA TurnSilent ==
    ASSUME NEW R, NEW n, Slab(R, n), NEW E, NEW A, Silent(R, n, E, A), NEW k \in Named(R),
           NEW R1, NEW gone, NEW touched, Less(R, R1, gone, touched),
           NEW E1, Beyond(k, E, E1), NEW a \in Apps, a # "cancelled",
           NEW A1, A1 = [A EXCEPT ![k.id] = a]
    PROVE  Silent(R1, n, E1, A1)
<1>1. k \in Keys /\ k.id \in Ids /\ k.id <= n /\ k.id \in Nat /\ n \in Nat /\ \A id \in Ids : id \in Nat
  BY KeyFact DEF Slab, Named
<1>2. A1 \in [Ids -> Apps] /\ A1[k.id] = a /\ \A id \in Ids \ {k.id} : A1[id] = A[id]
  BY <1>1 DEF Silent
<1>3. \A id \in Ids : id > n => A1[id] = "unseen"
  BY <1>1, <1>2 DEF Silent
<1>4. \A j \in Of(R1, {"Active"}) : A1[j.id] # "cancelled"
  <2> SUFFICES ASSUME NEW j \in Of(R1, {"Active"}) PROVE A1[j.id] # "cancelled"
    OBVIOUS
  <2>1. j \in Of(R, {"Active"}) /\ j.id \in Ids
    BY KeyFact DEF Less, Of
  <2> QED BY <1>2, <2>1 DEF Silent
<1>5. ASSUME NEW e \in Elements(E1), e.key # None PROVE A1[e.key.id] # "cancelled"
  <2>1. CASE e.key = k
    BY <1>2, <2>1
  <2>2. CASE e.key # k
    <3>1. e \in Elements(E) /\ A[e.key.id] # "cancelled"
      BY <1>5, <2>2 DEF Beyond, Silent
    <3>2. e.key.id = k.id => A1[e.key.id] # "cancelled"
      BY <1>2
    <3>3. A1 = [A EXCEPT ![k.id] = a] /\ (e.key.id # k.id => A1[e.key.id] = A[e.key.id])
      BY <1>1 DEF Silent
    <3> QED BY <3>1, <3>2, <3>3
  <2> QED BY <2>1, <2>2
<1> QED BY <1>2, <1>3, <1>4, <1>5 DEF Silent

\* Nothing happens to the exchange.
LEMMA SameApp ==
    ASSUME NEW A \in [Ids -> Apps], NEW id \in Ids
    PROVE  A = [A EXCEPT ![id] = A[id]] /\ A[id] \in Apps
  OBVIOUS

\* Nothing is queued.
LEMMA SameBeyond ==
    ASSUME NEW k, NEW E
    PROVE  Beyond(k, E, E)
  BY DEF Beyond

\* An event of an active stream is queued.
LEMMA EmitFact ==
    ASSUME Slab(rec, lastPeer), Told(rec, lastPeer, events), Owned(Mine(rec), events, app),
           NEW k \in Of(rec, {"Active"}), NEW w \in {"More", "End", "Reset"},
           w = "Reset" \/ rec[k.slot].live \notin Ends, Emit(k, w), EventRoom
    PROVE  /\ Told(rec, lastPeer, events') /\ Beyond(k, events, events') /\ Len(events') <= EventCap
           /\ IsQueued(events', k, "End") <=> IsQueued(events, k, "End") \/ w = "End"
           /\ IsQueued(events', k, "Reset") <=> IsQueued(events, k, "Reset") \/ w = "Reset"
<1> DEFINE e == [key |-> k, what |-> w]
<1>1. k \in Named(rec) /\ k \in Keys /\ rec[k.slot].kind = "Active" /\ k.slot \in Slots
  BY KeyFact DEF Of, Named
<1>2. OwnedKey(rec[k.slot].live, k, events, app[k.id])
  BY <1>1, MineAt
<1>3. rec[k.slot].live \in Live
  BY <1>1, OfFact DEF Fit
<1>4. rec[k.slot].live \notin Resets
  BY <1>3 DEF Live, Resets
<1>5. \A x \in Elements(events) : Follows(x, e)
  BY <1>1, <1>2, <1>4, EmitFollows
<1>6. e \in Event /\ (e.key = None <=> e.what = "Settings") /\ e.key \in Named(rec) \cup {None}
  BY <1>1, KeyFact DEF Event
<1>7. events' = Append(events, e)
  BY DEF Emit
<1> HIDE DEF e
<1>8. Told(rec, lastPeer, events') /\ Elements(events') = Elements(events) \cup {e}
  BY <1>5, <1>6, <1>7, ToldEmit
<1>9. Elements(events') = Elements(events) \cup {[key |-> k, what |-> w]}
  BY <1>8 DEF e
<1>10. Beyond(k, events, events') /\ \A u : IsQueued(events', k, u) <=> IsQueued(events, k, u) \/ u = w
  BY <1>9, EmitBeyond
<1>11. Len(events') <= EventCap
  <2>1. events \in Seq(Event) /\ EventCap \in Nat /\ Len(events) < EventCap
    BY RegistryAssumption DEF Told, EventRoom
  <2>2. e \in Event
    BY <1>6
  <2>3. Len(events') = Len(events) + 1 /\ Len(events) \in Nat
    BY <1>7, <2>1, <2>2
  <2> QED BY <2>1, <2>3
<1> QED BY <1>8, <1>10, <1>11

\* What the queues and the exchanges are after a step on k that leaves app alone.
Settled ==
    /\ Told(rec', lastPeer, events')
    /\ Owned(Mine(rec'), events', app)
    /\ Silent(rec', lastPeer, events', app)

\* The stream is reset and its application told (Reset::commit).
LEMMA LeftTold ==
    ASSUME Slab(rec, lastPeer), Told(rec, lastPeer, events), Owned(Mine(rec), events, app),
           Silent(rec, lastPeer, events, app),
           NEW k \in Of(rec, {"Active"}), Left(k, Retire(rec[k.slot].live, TRUE)),
           Emit(k, "Reset"), EventRoom
    PROVE  Settled /\ Len(events') <= EventCap
<1> DEFINE live == rec[k.slot].live
           v == Retire(live, TRUE)
<1>1. k \in Named(rec) /\ k \in Keys /\ rec[k.slot].kind = "Active" /\ k.slot \in Slots
  BY KeyFact DEF Of, Named
<1>2. live \in Live
  BY <1>1, OfFact DEF Fit
<1>3. OwnedKey(live, k, events, app[k.id]) /\ (app[k.id] \in Sessions => live \in Duplexes) /\ k.id \in Ids
  BY <1>1, MineAt
<1>4. /\ Told(rec, lastPeer, events') /\ Beyond(k, events, events') /\ Len(events') <= EventCap
      /\ IsQueued(events', k, "End") <=> IsQueued(events, k, "End")
      /\ IsQueued(events', k, "Reset")
  BY EmitFact
<1>5. /\ v \in Resets /\ (v \in Duplexes <=> live \in Duplexes) /\ v \notin Ends /\ v # "Initial"
  BY <1>2 DEF Retire, Live, Resets, Duplexes, Ends
<1> HIDE DEF live, v
<1>6. OwnedKey(v, k, events', app[k.id])
  BY <1>3, <1>4, <1>5 DEF OwnedKey
<1>7. Less(rec, rec', {k}, {}) /\ Mine(rec') = [Mine(rec) EXCEPT ![k] = v]
  BY DEF Left, live, v
<1>8. app \in [Ids -> Apps] /\ app = [app EXCEPT ![k.id] = app[k.id]] /\ app[k.id] \in Apps
  BY <1>3, SameApp DEF Silent
<1>9. app[k.id] # "cancelled"
  BY DEF Silent
<1>10. Owned(Mine(rec'), events', app)
  <2>1. (app[k.id] \in Sessions => v \in Duplexes)
    BY <1>3, <1>5
  <2>2. Owned(Mine(rec'), events', [app EXCEPT ![k.id] = app[k.id]])
    BY <1>1, <1>4, <1>6, <1>7, <1>8, <2>1, TurnOwned, ZenonT(40)
  <2> QED BY <1>8, <2>2
<1>11. Silent(rec', lastPeer, events', app)
  BY <1>1, <1>4, <1>7, <1>8, <1>9, TurnSilent
<1>12. Told(rec', lastPeer, events')
  BY <1>4, <1>7, ToldLess
<1> QED BY <1>4, <1>10, <1>11, <1>12 DEF Settled

\* The stream leaves and nobody is told.
LEMMA LeftQuiet ==
    ASSUME Slab(rec, lastPeer), Told(rec, lastPeer, events), Owned(Mine(rec), events, app),
           Silent(rec, lastPeer, events, app),
           NEW k \in Of(rec, {"Active"}), Left(k, Retire(rec[k.slot].live, FALSE)),
           events' = events, NEW a \in Apps, a # "cancelled", a \in Sessions <=> app[k.id] \in Sessions,
           NEW A1, A1 = [app EXCEPT ![k.id] = a]
    PROVE  Told(rec', lastPeer, events') /\ Owned(Mine(rec'), events', A1) /\ Silent(rec', lastPeer, events', A1)
<1> DEFINE live == rec[k.slot].live
           v == Retire(live, FALSE)
<1>1. k \in Named(rec) /\ k \in Keys /\ rec[k.slot].kind = "Active" /\ k.slot \in Slots
  BY KeyFact DEF Of, Named
<1>2. live \in Live
  BY <1>1, OfFact DEF Fit
<1>3. OwnedKey(live, k, events, app[k.id]) /\ (app[k.id] \in Sessions => live \in Duplexes)
  BY <1>1, MineAt
<1>4. (v \in Resets <=> live \in Resets) /\ (v \in Duplexes <=> live \in Duplexes)
      /\ (v \in Ends <=> live \in Ends) /\ v # "Initial"
  BY <1>2 DEF Retire, Live, Resets, Duplexes, Ends
<1> HIDE DEF live, v
<1>5. OwnedKey(v, k, events, a)
  BY <1>3, <1>4 DEF OwnedKey
<1>6. Less(rec, rec', {k}, {}) /\ Mine(rec') = [Mine(rec) EXCEPT ![k] = v]
  BY DEF Left, live, v
<1>7. Beyond(k, events, events) /\ app \in [Ids -> Apps]
  BY SameBeyond DEF Silent
<1>8. Owned(Mine(rec'), events, A1)
  BY <1>1, <1>3, <1>4, <1>5, <1>6, <1>7, TurnOwned
<1>9. Silent(rec', lastPeer, events, A1)
  BY <1>1, <1>6, <1>7, TurnSilent
<1>10. Told(rec', lastPeer, events)
  BY <1>6, ToldLess
<1> QED BY <1>8, <1>9, <1>10

\* The record r takes the state next and the phase l.
Phased(r, next, l, boundary) ==
    LET n == [r EXCEPT !.state = next, !.live = l]
    IN  /\ r.live \in {"Initial", "Trailing", "Duplex"}
        /\ l = IF boundary = "End" THEN (IF r.live = "Duplex" THEN "DuplexEnd" ELSE "End")
               ELSE IF r.live = "Duplex" THEN "Duplex" ELSE "Trailing"
        /\ next = "Closed" => Retire(l, FALSE) = l
        /\ n.live = l /\ n.state = next /\ n.id = r.id /\ n.kind = "Active" /\ n.credit = r.credit
        /\ l \in Live /\ (next # "Closed" => Fit(n))

\* The phase after a frame that a stream may receive.
LEMMA ReceivedPhase ==
    ASSUME NEW r, Fit(r), r.kind = "Active", NEW frame \in Frames, NEW boundary \in Boundaries,
           Recv(r.state, frame, boundary) \in States,
           NEW live, live = IF frame = "Headers" THEN CompleteHead(r.live) ELSE r.live
    PROVE  Phased(r, Recv(r.state, frame, boundary), QueueEnd(live, boundary), boundary)
<1> DEFINE next == Recv(r.state, frame, boundary)
           l    == QueueEnd(live, boundary)
           n    == [r EXCEPT !.state = next, !.live = l]
<1>1. r \in Record /\ r.live \in Live /\ r.state \in States /\ r.id \in Ids
  BY DEF Fit, Record
<1>2. r.live \notin {"End", "DuplexEnd"}
  BY <1>1 DEF Fit, Recv, Directional, States
<1>3. r.live = "Initial" => frame = "Headers"
  BY <1>1 DEF Fit, Recv, Directional, States, Frames
<1>4. r.live \in {"Initial", "Trailing", "Duplex"}
  BY <1>1, <1>2 DEF Live
<1>5. l = IF boundary = "End" THEN (IF r.live = "Duplex" THEN "DuplexEnd" ELSE "End")
          ELSE IF r.live = "Duplex" THEN "Duplex" ELSE "Trailing"
  BY <1>3, <1>4 DEF QueueEnd, CompleteHead, Boundaries, Frames
<1>6. next = "Closed" => boundary = "End"
  BY <1>1, ClosedNeedsBothEnds
<1>7. boundary = "End" /\ next # "Closed" => next = "HalfClosedRemote"
  BY <1>1 DEF Recv, Directional, States
<1>8. next \in States
  OBVIOUS
<1> HIDE DEF next, l
<1>9. l \in {"Trailing", "Duplex", "End", "DuplexEnd"} /\ l \in Live
  BY <1>5 DEF Live
<1>10. next = "Closed" => Retire(l, FALSE) = l
  BY <1>5, <1>6 DEF Retire
<1>11. /\ n \in Record /\ n.live = l /\ n.state = next /\ n.id = r.id /\ n.kind = "Active"
       /\ n.credit = r.credit
  BY <1>1, <1>8, <1>9 DEF Record
<1>12. l \in {"End", "DuplexEnd"} => boundary = "End"
  BY <1>5
<1> HIDE DEF n
<1>13. next # "Closed" => Fit(n)
  BY <1>1, <1>7, <1>9, <1>11, <1>12 DEF Fit
<1> QED BY <1>4, <1>5, <1>9, <1>10, <1>11, <1>13 DEF n, l, next, Phased

\* What a step on k leaves of everything but the output.
Done ==
    /\ Slab(rec', lastPeer) /\ Waked(rec', lastPeer, wakes', waiting)
    /\ Headed(rec', head', app) /\ Settled /\ Len(events') <= EventCap
    /\ Of(rec', {"Active"}) \subseteq Of(rec, {"Active"})

\* A stream receives what its state allows (headers::complete, data::apply).
LEMMA Received ==
    ASSUME Slab(rec, lastPeer), Booked(rec, index, peerCount, resets), Waked(rec, lastPeer, wakes, waiting),
           Told(rec, lastPeer, events), Owned(Mine(rec), events, app), Silent(rec, lastPeer, events, app),
           Headed(rec, head, app), head' = head,
           NEW k \in Of(rec, {"Active"}), NEW frame \in Frames, NEW boundary \in Boundaries,
           Recv(rec[k.slot].state, frame, boundary) \in States,
           NEW live, live = IF frame = "Headers" THEN CompleteHead(rec[k.slot].live) ELSE rec[k.slot].live,
           Advance(k, [rec[k.slot] EXCEPT !.state = Recv(rec[k.slot].state, frame, boundary),
                                          !.live = QueueEnd(live, boundary)]),
           Emit(k, boundary), EventRoom
    PROVE  Done /\ Booked(rec', index', peerCount', resets)
<1> DEFINE r == rec[k.slot]
           next == Recv(r.state, frame, boundary)
           l == QueueEnd(live, boundary)
           n == [r EXCEPT !.state = next, !.live = l]
<1>1. k \in Named(rec) /\ k \in Keys /\ r.kind = "Active" /\ k.slot \in Slots /\ r.id = k.id
  BY KeyFact DEF Of, Named
<1>2. Fit(r)
  BY <1>1, OfFact
<1>3. /\ r.live \in {"Initial", "Trailing", "Duplex"}
      /\ l = IF boundary = "End" THEN (IF r.live = "Duplex" THEN "DuplexEnd" ELSE "End")
             ELSE IF r.live = "Duplex" THEN "Duplex" ELSE "Trailing"
      /\ next = "Closed" => Retire(l, FALSE) = l
      /\ n.live = l /\ n.state = next /\ n.id = r.id /\ n.kind = "Active" /\ n.credit = r.credit
      /\ l \in Live /\ (next # "Closed" => Fit(n))
  <2>1. Phased(r, next, l, boundary)
    <3> HIDE DEF r
    <3> QED BY <1>1, <1>2, ReceivedPhase DEF r
  <2> QED BY <2>1 DEF Phased
<1>4. Advance(k, n)
  OBVIOUS
<1>5. next \in States /\ r.state \in States
  BY <1>2 DEF Fit, Record
<1>6. \A b \in Boundaries : Send(r.state, "Headers", b) \in States =>
          next # "Closed" /\ Send(next, "Headers", b) \in States
  <2> SUFFICES ASSUME NEW b \in Boundaries, Send(r.state, "Headers", b) \in States
               PROVE  next # "Closed" /\ Send(next, "Headers", b) \in States
    OBVIOUS
  <2>1. Send(next, "Headers", b) \in States
    BY <1>5, RetainedHeadExact
  <2>2. Send("Closed", "Headers", b) \notin States
    BY DEF Send, Directional, States
  <2> QED BY <2>1, <2>2
<1> HIDE DEF r, next, l, n
<1>7. /\ Booked(rec', index', peerCount', resets)
      /\ next = "Closed" => Left(k, l)
      /\ next # "Closed" => Stayed(k, n)
  BY <1>1, <1>3, <1>4, AdvanceFact DEF r
<1>8. /\ Slab(rec', lastPeer) /\ Waked(rec', lastPeer, wakes', waiting)
      /\ Mine(rec') = [Mine(rec) EXCEPT ![k] = l]
  BY <1>3, <1>7 DEF Left, Stayed
<1>9. PICK gone, touched : Less(rec, rec', gone, touched)
  BY <1>7 DEF Left, Stayed
<1>10. OwnedKey(r.live, k, events, app[k.id]) /\ (app[k.id] \in Sessions => r.live \in Duplexes) /\ k.id \in Ids
  BY <1>1, MineAt DEF r
<1>11. /\ Told(rec, lastPeer, events') /\ Beyond(k, events, events') /\ Len(events') <= EventCap
       /\ IsQueued(events', k, "End") <=> IsQueued(events, k, "End") \/ boundary = "End"
       /\ IsQueued(events', k, "Reset") <=> IsQueued(events, k, "Reset")
  <2>1. boundary \in {"More", "End", "Reset"} /\ boundary # "Reset"
    BY DEF Boundaries
  <2>2. rec[k.slot].live \notin Ends
    BY <1>3 DEF r, Ends
  <2> QED BY <2>1, <2>2, EmitFact
<1>12. OwnedKey(l, k, events', app[k.id]) /\ (app[k.id] \in Sessions => l \in Duplexes)
  <2>1. /\ l \notin Resets /\ l # "Initial" /\ (l \in Ends <=> boundary = "End")
        /\ (l \in Duplexes <=> r.live \in Duplexes) /\ r.live \notin Ends /\ r.live \notin Resets
    BY <1>3 DEF Ends, Resets, Duplexes, Boundaries
  <2> QED BY <1>10, <1>11, <2>1 DEF OwnedKey
<1>13. app \in [Ids -> Apps] /\ app = [app EXCEPT ![k.id] = app[k.id]] /\ app[k.id] \in Apps
       /\ app[k.id] # "cancelled"
  BY <1>10, SameApp DEF Silent
<1>14. Owned(Mine(rec'), events', app)
  <2>1. Owned(Mine(rec'), events', [app EXCEPT ![k.id] = app[k.id]])
    BY <1>1, <1>8, <1>11, <1>12, <1>13, TurnOwned
  <2> QED BY <1>13, <2>1
<1>15. Silent(rec', lastPeer, events', app)
  BY <1>1, <1>9, <1>11, <1>13, TurnSilent
<1>16. Told(rec', lastPeer, events')
  BY <1>9, <1>11, ToldLess
<1>17. Headed(rec', head, app)
  <2>1. CASE head = NoHead \/ head.key # k
    <3>1. CASE next = "Closed"
      <4>1. Less(rec, rec', {k}, {})
        BY <1>7, <3>1 DEF Left
      <4> QED BY <2>1, <4>1, HeadedLess
    <3>2. CASE next # "Closed"
      <4>1. Less(rec, rec', {}, {k})
        BY <1>7, <3>2 DEF Stayed
      <4> QED BY <2>1, <4>1, HeadedLess
    <3> QED BY <3>1, <3>2
  <2>2. CASE head # NoHead /\ head.key = k
    <3>1. head.boundary \in Boundaries /\ Send(r.state, "Headers", head.boundary) \in States
      BY <2>2 DEF Headed, r
    <3>2. next # "Closed" /\ Send(next, "Headers", head.boundary) \in States
      BY <1>6, <3>1
    <3>3. rec'[k.slot] = n /\ Less(rec, rec', {}, {k})
      BY <1>7, <3>2 DEF Stayed
    <3>4. k \in Of(rec', {"Active"})
      BY <3>3 DEF Less
    <3> QED BY <1>3, <2>2, <3>2, <3>3, <3>4 DEF Headed
  <2> QED BY <2>1, <2>2
<1>18. Of(rec', {"Active"}) \subseteq Of(rec, {"Active"})
  BY <1>9 DEF Less
<1> QED BY <1>7, <1>8, <1>11, <1>14, <1>15, <1>16, <1>17, <1>18 DEF Done, Settled

-----------------------------------------------------------------------------
(* Looking a stream up. *)

\* Store::lookup as a function of what it reads.
Sought(R, I, n, id) ==
    IF \E k \in I : k.id = id
    THEN LET k == CHOOSE k \in I : k.id = id
         IN  IF R[k.slot].kind = "Active" /\ R[k.slot].id = k.id THEN "Active" ELSE "Closed"
    ELSE IF id <= n THEN "Closed" ELSE "Idle"

\* An id is active when a record says so, and spent when the history says so.
LEMMA SoughtFact ==
    ASSUME NEW R, NEW n, Slab(R, n), NEW I, NEW p, NEW Q, Booked(R, I, p, Q), NEW id \in Ids
    PROVE  /\ Sought(R, I, n, id) = "Active" =>
                 LET k == CHOOSE k \in I : k.id = id IN k \in Of(R, {"Active"}) /\ k.id = id
           /\ Sought(R, I, n, id) = "Closed" <=> id <= n /\ \A k \in Of(R, {"Active"}) : k.id # id
<1>1. I = Of(R, {"Active", "Reset"}) /\ Of(R, {"Active"}) \subseteq I
  BY DEF Booked, Of
<1>2. \A k \in I : k \in Named(R) /\ k.id <= n /\ k \in Keys
  BY <1>1 DEF Slab, Of, Named
<1>3. CASE \E k \in I : k.id = id
  <2> DEFINE k == CHOOSE k \in I : k.id = id
  <2>1. k \in I /\ k.id = id
    BY <1>3
  <2>2. Sought(R, I, n, id) = IF R[k.slot].kind = "Active" /\ R[k.slot].id = k.id THEN "Active" ELSE "Closed"
    BY <1>3 DEF Sought
  <2> HIDE DEF k
  <2>3. Sought(R, I, n, id) = "Active" <=> k \in Of(R, {"Active"})
    BY <1>2, <2>1, <2>2 DEF Of
  <2>4. Sought(R, I, n, id) \in {"Active", "Closed"}
    BY <2>2
  <2>5. \A j \in Of(R, {"Active"}) : j.id = id => j = k
    BY <1>1, <1>2, <2>1 DEF Slab
  <2>6. id <= n
    BY <1>2, <2>1
  <2> QED BY <2>1, <2>3, <2>4, <2>5, <2>6 DEF k
<1>4. CASE ~\E k \in I : k.id = id
  <2>1. Sought(R, I, n, id) = IF id <= n THEN "Closed" ELSE "Idle"
    BY <1>4 DEF Sought
  <2> QED BY <1>1, <1>4, <2>1
<1> QED BY <1>3, <1>4

\* The same of the registry's lookup.
LEMMA Looked ==
    ASSUME Slab(rec, lastPeer), Booked(rec, index, peerCount, resets), NEW id \in Ids, Lookup(id) = "Active"
    PROVE  KeyOf(id) \in Of(rec, {"Active"}) /\ KeyOf(id).id = id
<1>1. Lookup(id) = Sought(rec, index, lastPeer, id)
  BY DEF Lookup, Sought, KeyOf, IsActive, IsKey
<1> QED BY <1>1, SoughtFact DEF KeyOf

\* The ids that are active come from the ids that were, and from new ones.
Forward ==
    /\ lastPeer <= lastPeer'
    /\ \A k \in Of(rec', {"Active"}) : k \in Of(rec, {"Active"}) \/ k.id > lastPeer

\* A spent id stays spent.
LEMMA ForwardFact ==
    ASSUME IInv, IInv', Forward, NEW id \in Ids, Lookup(id) = "Closed"
    PROVE  Lookup(id)' = "Closed"
<1>1. Lookup(id) = Sought(rec, index, lastPeer, id) /\ Lookup(id)' = Sought(rec', index', lastPeer', id)
  BY DEF Lookup, Sought, KeyOf, IsActive, IsKey
<1>2. Slab(rec, lastPeer) /\ Booked(rec, index, peerCount, resets)
  BY DEF IInv
<1>3. Slab(rec', lastPeer') /\ Booked(rec', index', peerCount', resets')
  BY DEF IInv
<1>4. id <= lastPeer /\ \A k \in Of(rec, {"Active"}) : k.id # id
  BY <1>1, <1>2, SoughtFact
<1>5. id \in Nat /\ lastPeer \in Nat /\ lastPeer' \in Nat
  BY <1>2, <1>3, KeyFact DEF Slab
<1>6. id <= lastPeer'
  BY <1>4, <1>5 DEF Forward
<1>7. \A k \in Of(rec', {"Active"}) : k.id # id
  BY <1>4, <1>5 DEF Forward
<1> QED BY <1>1, <1>3, <1>6, <1>7, SoughtFact

-----------------------------------------------------------------------------
(* Steps on one stream that leave the application alone. *)

\* The parts of the invariant once more, when app, waiting and the history stay.
LEMMA DoneInv ==
    ASSUME IInv, Done, Booked(rec', index', peerCount', resets'),
           Reserved(resets', used', barrier', mode', phase'), Typed(pending', peerResets'),
           lastPeer' = lastPeer, app' = app, waiting' = waiting
    PROVE  IInv' /\ Forward
<1>1. lastPeer <= lastPeer'
  BY DEF IInv, Slab
<1> QED BY <1>1 DEF IInv, Forward, Done, Settled

\* A reset begun while frames are decoded ends with an empty chain, or ends the drive.
LEMMA ReservedFlush ==
    ASSUME Reserved(resets, used, barrier, mode, phase), mode = "decode", Flowed(used), Checked
    PROVE  Reserved(resets', used', barrier', mode', phase)
<1>1. Limit \in Nat /\ RstLen \in Nat
  BY RegistryAssumption
<1> QED BY <1>1 DEF Reserved, Flowed, Checked

\* Action::Reset through the entry, then State::finish_reset.
LEMMA ResetEntryFact ==
    ASSUME IInv, mode = "decode", NEW k \in Of(rec, {"Active"}), NEW notify \in BOOLEAN,
           EventRoom, ResetEntry(k, notify)
    PROVE  /\ Done /\ Booked(rec', index', peerCount', resets')
           /\ Reserved(resets', used', barrier', mode', phase)
<1>1. /\ Slab(rec, lastPeer) /\ Booked(rec, index, peerCount, resets) /\ Waked(rec, lastPeer, wakes, waiting)
      /\ Told(rec, lastPeer, events) /\ Owned(Mine(rec), events, app) /\ Silent(rec, lastPeer, events, app)
      /\ Headed(rec, head, app) /\ Reserved(resets, used, barrier, mode, phase)
      /\ Len(events) <= EventCap
  BY DEF IInv
<1>2. /\ BeginReset(rec, k, notify) /\ DropHead(k.id) /\ Checked
      /\ IF notify THEN Emit(k, "Reset") ELSE events' = events
  BY DEF ResetEntry
<1> DEFINE r == rec[k.slot]
<1>3. k \in Named(rec) /\ k \in Keys /\ r.kind = "Active" /\ k.slot \in Slots /\ k.id \in Ids
  BY KeyFact DEF Of, Named
<1>4. r.live \in Live
  BY <1>1, <1>3, OfFact DEF Fit
<1>5. rec = [rec EXCEPT ![k.slot] = r]
  BY <1>1, <1>3 DEF Slab
<1>6. used \in Nat
  BY <1>1 DEF Reserved
<1>7. Left(k, Retire(r.live, notify)) /\ Booked(rec', index', peerCount', resets') /\ Flowed(used)
  <2> HIDE DEF r
  <2> QED BY <1>1, <1>2, <1>4, <1>5, <1>6, BeginResetFact
<1>8. Reserved(resets', used', barrier', mode', phase)
  BY <1>1, <1>2, <1>7, ReservedFlush
<1>9. Less(rec, rec', {k}, {}) /\ Slab(rec', lastPeer) /\ Waked(rec', lastPeer, wakes', waiting)
  BY <1>7 DEF Left
<1>10. Headed(rec', head', app)
  BY <1>1, <1>2, <1>9, HeadedDrop
<1>11. Settled /\ Len(events') <= EventCap
  <2>1. CASE notify
    <3>1. Left(k, Retire(rec[k.slot].live, TRUE)) /\ Emit(k, "Reset")
      BY <1>2, <1>7, <2>1
    <3> QED BY <1>1, <3>1, LeftTold
  <2>2. CASE ~notify
    <3>1. Left(k, Retire(rec[k.slot].live, FALSE)) /\ events' = events
      BY <1>2, <1>7, <2>2
    <3>2. app \in [Ids -> Apps] /\ app = [app EXCEPT ![k.id] = app[k.id]] /\ app[k.id] \in Apps
          /\ app[k.id] # "cancelled"
      BY <1>1, <1>3, SameApp DEF Silent
    <3>3. Settled
      BY <1>1, <3>1, <3>2, LeftQuiet DEF Settled
    <3> QED BY <1>1, <3>1, <3>3
  <2> QED BY <2>1, <2>2
<1>12. Of(rec', {"Active"}) \subseteq Of(rec, {"Active"})
  BY <1>9 DEF Less
<1> QED BY <1>7, <1>8, <1>9, <1>10, <1>11, <1>12 DEF Done

\* headers::complete
LEMMA CompleteFact ==
    ASSUME IInv, mode = "decode", NEW k \in Of(rec, {"Active"}), NEW boundary \in Boundaries,
           NEW valid \in BOOLEAN, Complete(k, boundary, valid)
    PROVE  /\ Done /\ Booked(rec', index', peerCount', resets')
           /\ Reserved(resets', used', barrier', mode', phase)
<1> DEFINE r == rec[k.slot]
           next == Recv(r.state, "Headers", boundary)
<1>1. EventRoom
  BY DEF Complete
<1>2. CASE ResetEntry(k, Section(r.live) = "Trailing")
  BY <1>1, <1>2, ResetEntryFact
<1>3. CASE /\ next \in States
           /\ Advance(k, [r EXCEPT !.state = next, !.live = QueueEnd(CompleteHead(@), boundary)])
           /\ Emit(k, boundary) /\ UNCHANGED <<outVars, head, mode>>
  <2>1. resets' = resets /\ used' = used /\ barrier' = barrier /\ head' = head /\ mode' = mode
    BY <1>3 DEF outVars
  <2>2. /\ Slab(rec, lastPeer) /\ Booked(rec, index, peerCount, resets) /\ Waked(rec, lastPeer, wakes, waiting)
        /\ Told(rec, lastPeer, events) /\ Owned(Mine(rec), events, app) /\ Silent(rec, lastPeer, events, app)
        /\ Headed(rec, head, app) /\ Reserved(resets, used, barrier, mode, phase)
    BY DEF IInv
  <2>3. "Headers" \in Frames /\ next \in States
    BY <1>3 DEF Frames
  <2> DEFINE live == CompleteHead(r.live)
  <2>4. live = IF "Headers" = "Headers" THEN CompleteHead(rec[k.slot].live) ELSE rec[k.slot].live
    OBVIOUS
  <2>5. Advance(k, [r EXCEPT !.state = next, !.live = QueueEnd(live, boundary)]) /\ Emit(k, boundary)
    BY <1>3
  <2> HIDE DEF live
  <2>6. Done /\ Booked(rec', index', peerCount', resets)
    BY <1>1, <2>1, <2>2, <2>3, <2>4, <2>5, Received
  <2> QED BY <2>1, <2>2, <2>6
<1> QED BY <1>2, <1>3 DEF Complete

-----------------------------------------------------------------------------
(* The frames: each handler keeps the invariant and moves the ids forward. *)

\* The history grows and the slab stays (history.rs).
LEMMA Aged ==
    ASSUME NEW R, NEW n, NEW n1 \in 0 .. MaxId, n <= n1, Slab(R, n), NEW E, Told(R, n, E),
           NEW A, Silent(R, n, E, A), NEW W, NEW B, Waked(R, n, W, B)
    PROVE  Slab(R, n1) /\ Told(R, n1, E) /\ Silent(R, n1, E, A) /\ Waked(R, n1, W, B)
<1>1. n \in Nat /\ n1 \in Nat /\ \A id \in Ids : id \in Nat
  BY KeyFact DEF Slab
<1>2. Slab(R, n1)
  <2>1. \A k \in Named(R) : k.id \in Nat
    BY KeyFact DEF Named
  <2> QED BY <1>1, <2>1 DEF Slab
<1>3. Told(R, n1, E)
  <2>1. \A e \in Elements(E) : e.key.id \in Nat
    <3> SUFFICES ASSUME NEW e \in Elements(E) PROVE e.key.id \in Nat
      OBVIOUS
    <3>1. e \in Event
      BY DEF Told, Elements
    <3>2. e.key = None \/ e.key \in Keys
      BY <3>1 DEF Event
    <3> QED BY <3>2, KeyFact
  <2> QED BY <1>1, <2>1 DEF Told
<1>4. Silent(R, n1, E, A)
  BY <1>1 DEF Silent
<1>5. Waked(R, n1, W, B)
  <2>1. \A k \in Keys : k.id \in Nat
    BY KeyFact
  <2> QED BY <1>1, <2>1 DEF Waked
<1> QED BY <1>2, <1>3, <1>4, <1>5

\* A step that touches no stream.
LEMMA Still ==
    ASSUME IInv, rec' = rec, index' = index, peerCount' = peerCount, wakes' = wakes, resets' = resets,
           events' = events, app' = app, waiting' = waiting, head' = head,
           lastPeer <= lastPeer', lastPeer' \in 0 .. MaxId,
           Reserved(resets, used', barrier', mode', phase'), Typed(pending', peerResets')
    PROVE  IInv' /\ Forward
<1>1. /\ Slab(rec, lastPeer') /\ Told(rec, lastPeer', events) /\ Silent(rec, lastPeer', events, app)
      /\ Waked(rec, lastPeer', wakes, waiting)
  BY Aged DEF IInv
<1> QED BY <1>1 DEF IInv, Forward

\* The bounds are naturals.
LEMMA BoundsFact == {MaxId, MaxActive, EventCap, Limit, RstLen, MaxResets} \subseteq Nat /\ RstLen > 0
  BY RegistryAssumption

\* An RST_STREAM goes into the reserve (Outbound::reset, Outbound::check).
LEMMA ReservedWrite ==
    ASSUME Reserved(resets, used, barrier, mode, phase), mode = "decode", WriteReset, Checked
    PROVE  Reserved(resets, used', barrier, mode', phase)
  BY BoundsFact DEF Reserved, WriteReset, Checked

\* A frame within the limit.
LEMMA ReservedRoom ==
    ASSUME Reserved(resets, used, barrier, mode, phase), NEW n \in Nat, n = 0 \/ Room(n), used' = used + n
    PROVE  Reserved(resets, used', barrier, mode, phase)
  BY BoundsFact DEF Reserved, Room

\* What the type of lastPeer and of the block under assembly are.
LEMMA HistoryFact ==
    ASSUME IInv
    PROVE  /\ lastPeer \in 0 .. MaxId /\ lastPeer \in Nat /\ lastPeer <= lastPeer
           /\ Typed(pending, peerResets) /\ Typed(NoBlock, peerResets)
           /\ Reserved(resets, used, barrier, mode, phase)
           /\ \A id \in Ids : id \in 0 .. MaxId
  BY KeyFact DEF IInv, Slab, Typed

\* The handler modelled by HeadersRefuse keeps the invariant.
LEMMA StepHeadersRefuse ==
    ASSUME IInv, NEW id \in Ids, NEW cause, HeadersRefuse(id, cause)
    PROVE  IInv' /\ Forward
<1>1. /\ mode = "decode" /\ id > lastPeer /\ lastPeer' = id /\ WriteReset /\ Checked
      /\ rec' = rec /\ index' = index /\ peerCount' = peerCount /\ wakes' = wakes /\ resets' = resets
      /\ barrier' = barrier /\ pending' = pending /\ head' = head /\ events' = events /\ phase' = phase
      /\ peerResets' = peerResets /\ app' = app /\ waiting' = waiting
  BY DEF HeadersRefuse, Decoding, storeVars
<1>2. lastPeer <= lastPeer' /\ lastPeer' \in 0 .. MaxId /\ Typed(pending', peerResets')
  BY <1>1, HistoryFact
<1>3. Reserved(resets, used', barrier', mode', phase')
  BY <1>1, HistoryFact, ReservedWrite
<1> QED BY <1>1, <1>2, <1>3, Still

\* The handler modelled by HeadersPast keeps the invariant.
LEMMA StepHeadersPast ==
    ASSUME IInv, NEW id \in Ids, HeadersPast(id)
    PROVE  IInv' /\ Forward
<1>1. /\ mode = "decode" /\ lastPeer' = lastPeer /\ WriteReset /\ Checked
      /\ rec' = rec /\ index' = index /\ peerCount' = peerCount /\ wakes' = wakes /\ resets' = resets
      /\ barrier' = barrier /\ pending' = pending /\ head' = head /\ events' = events /\ phase' = phase
      /\ peerResets' = peerResets /\ app' = app /\ waiting' = waiting
  BY DEF HeadersPast, Decoding, storeVars
<1>2. lastPeer <= lastPeer' /\ lastPeer' \in 0 .. MaxId /\ Typed(pending', peerResets')
  BY <1>1, HistoryFact
<1>3. Reserved(resets, used', barrier', mode', phase')
  BY <1>1, HistoryFact, ReservedWrite
<1> QED BY <1>1, <1>2, <1>3, Still

\* The handler modelled by HeadersBeginReset keeps the invariant.
LEMMA StepHeadersBeginReset ==
    ASSUME IInv, NEW id \in Ids, HeadersBeginReset(id)
    PROVE  IInv' /\ Forward
<1>1. /\ lastPeer' = lastPeer \/ (id > lastPeer /\ lastPeer' = id)
      /\ pending' = [id |-> id, boundary |-> "More", action |-> "Reset"]
      /\ rec' = rec /\ index' = index /\ peerCount' = peerCount /\ wakes' = wakes /\ resets' = resets
      /\ barrier' = barrier /\ used' = used /\ head' = head /\ events' = events /\ phase' = phase
      /\ mode' = mode /\ peerResets' = peerResets /\ app' = app /\ waiting' = waiting
  BY DEF HeadersBeginReset, storeVars, outVars
<1>2. lastPeer <= lastPeer' /\ lastPeer' \in 0 .. MaxId
  BY <1>1, HistoryFact
<1>3. Typed(pending', peerResets')
  BY <1>1, HistoryFact DEF Typed, Boundaries
<1>4. Reserved(resets, used', barrier', mode', phase')
  BY <1>1, HistoryFact
<1> QED BY <1>1, <1>2, <1>3, <1>4, Still

\* The handler modelled by TrailersBegin keeps the invariant.
LEMMA StepTrailersBegin ==
    ASSUME IInv, NEW id \in Ids, NEW boundary \in Boundaries, TrailersBegin(id, boundary)
    PROVE  IInv' /\ Forward
<1>1. /\ lastPeer' = lastPeer
      /\ pending' = [id |-> id, boundary |-> boundary, action |-> IF boundary = "More" THEN "Reset" ELSE "Deliver"]
      /\ rec' = rec /\ index' = index /\ peerCount' = peerCount /\ wakes' = wakes /\ resets' = resets
      /\ barrier' = barrier /\ used' = used /\ head' = head /\ events' = events /\ phase' = phase
      /\ mode' = mode /\ peerResets' = peerResets /\ app' = app /\ waiting' = waiting
  BY DEF TrailersBegin, storeVars, outVars
<1>2. lastPeer <= lastPeer' /\ lastPeer' \in 0 .. MaxId
  BY <1>1, HistoryFact
<1>3. Typed(pending', peerResets')
  BY <1>1, HistoryFact DEF Typed
<1>4. Reserved(resets, used', barrier', mode', phase')
  BY <1>1, HistoryFact
<1> QED BY <1>1, <1>2, <1>3, <1>4, Still

\* The handler modelled by DataPast keeps the invariant.
LEMMA StepDataPast ==
    ASSUME IInv, NEW id \in Ids, NEW update \in 0 .. 1, DataPast(id, update)
    PROVE  IInv' /\ Forward
<1>1. /\ lastPeer' = lastPeer /\ Room(RstLen + update) /\ used' = used + RstLen + update
      /\ rec' = rec /\ index' = index /\ peerCount' = peerCount /\ wakes' = wakes /\ resets' = resets
      /\ barrier' = barrier /\ pending' = pending /\ head' = head /\ events' = events /\ phase' = phase
      /\ mode' = mode /\ peerResets' = peerResets /\ app' = app /\ waiting' = waiting
  BY DEF DataPast, storeVars
<1>2. lastPeer <= lastPeer' /\ lastPeer' \in 0 .. MaxId /\ Typed(pending', peerResets')
  BY <1>1, HistoryFact
<1>3. Reserved(resets, used', barrier', mode', phase')
  <2>1. RstLen + update \in Nat /\ used' = used + (RstLen + update)
    BY <1>1, HistoryFact, BoundsFact DEF Reserved
  <2> QED BY <1>1, <2>1, HistoryFact, ReservedRoom
<1> QED BY <1>1, <1>2, <1>3, Still

\* The handler modelled by ConnectionError keeps the invariant.
LEMMA StepConnectionError ==
    ASSUME IInv, NEW id \in Ids, ConnectionError(id)
    PROVE  IInv' /\ Forward
<1>1. /\ lastPeer' = lastPeer /\ mode' = "failed"
      /\ rec' = rec /\ index' = index /\ peerCount' = peerCount /\ wakes' = wakes /\ resets' = resets
      /\ barrier' = barrier /\ used' = used /\ pending' = pending /\ head' = head /\ events' = events
      /\ phase' = phase /\ peerResets' = peerResets /\ app' = app /\ waiting' = waiting
  BY DEF ConnectionError, storeVars, outVars
<1>2. lastPeer <= lastPeer' /\ lastPeer' \in 0 .. MaxId /\ Typed(pending', peerResets')
  BY <1>1, HistoryFact
<1>3. Reserved(resets, used', barrier', mode', phase')
  BY <1>1, HistoryFact DEF Reserved
<1> QED BY <1>1, <1>2, <1>3, Still

\* Trailers in one frame keep the invariant.
LEMMA StepTrailers ==
    ASSUME IInv, NEW id \in Ids, NEW boundary \in Boundaries, NEW valid \in BOOLEAN,
           Trailers(id, boundary, valid)
    PROVE  IInv' /\ Forward
<1>1. /\ mode = "decode" /\ Lookup(id) = "Active" /\ lastPeer' = lastPeer /\ pending' = pending
      /\ phase' = phase /\ peerResets' = peerResets /\ app' = app /\ waiting' = waiting
      /\ IF boundary = "More" THEN EventRoom /\ ResetEntry(KeyOf(id), TRUE)
         ELSE Complete(KeyOf(id), boundary, valid)
  BY DEF Trailers, Decoding
<1>2. KeyOf(id) \in Of(rec, {"Active"})
  BY <1>1, Looked DEF IInv
<1>3. Done /\ Booked(rec', index', peerCount', resets') /\ Reserved(resets', used', barrier', mode', phase)
  <2>1. CASE boundary = "More"
    BY <1>1, <1>2, <2>1, ResetEntryFact
  <2>2. CASE boundary # "More"
    BY <1>1, <1>2, <2>2, CompleteFact
  <2> QED BY <2>1, <2>2
<1>4. Typed(pending', peerResets')
  BY <1>1, HistoryFact
<1> QED BY <1>1, <1>3, <1>4, DoneInv

\* The CONTINUATION that ends a block keeps the invariant.
LEMMA StepContinue ==
    ASSUME IInv, NEW valid \in BOOLEAN, Continue(valid)
    PROVE  IInv' /\ Forward
<1>1. /\ mode = "decode" /\ pending # NoBlock /\ pending' = NoBlock /\ lastPeer' = lastPeer
      /\ phase' = phase /\ peerResets' = peerResets /\ app' = app /\ waiting' = waiting
  BY DEF Continue
<1>2. pending.id \in Ids /\ pending.boundary \in Boundaries
  BY <1>1 DEF IInv, Typed
<1>3. Typed(pending', peerResets')
  BY <1>1, HistoryFact
<1>4. CASE Lookup(pending.id) = "Active"
  <2>1. IF pending.action = "Reset" THEN EventRoom /\ ResetEntry(KeyOf(pending.id), TRUE)
        ELSE Complete(KeyOf(pending.id), pending.boundary, valid)
    BY <1>4 DEF Continue
  <2>2. KeyOf(pending.id) \in Of(rec, {"Active"})
    BY <1>2, <1>4, Looked DEF IInv
  <2>3. Done /\ Booked(rec', index', peerCount', resets') /\ Reserved(resets', used', barrier', mode', phase)
    <3>1. CASE pending.action = "Reset"
      BY <1>1, <2>1, <2>2, <3>1, ResetEntryFact
    <3>2. CASE pending.action # "Reset"
      BY <1>1, <1>2, <2>1, <2>2, <3>2, CompleteFact
    <3> QED BY <3>1, <3>2
  <2> QED BY <1>1, <1>3, <2>3, DoneInv
<1>5. CASE Lookup(pending.id) # "Active"
  <2>1. /\ IF pending.action = "Reset" THEN WriteReset /\ Checked ELSE used' = used /\ mode' = mode
        /\ rec' = rec /\ index' = index /\ peerCount' = peerCount /\ wakes' = wakes /\ resets' = resets
        /\ barrier' = barrier /\ head' = head /\ events' = events
    BY <1>5 DEF Continue, storeVars
  <2>2. Reserved(resets, used', barrier', mode', phase')
    <3>1. CASE pending.action = "Reset"
      BY <1>1, <2>1, <3>1, HistoryFact, ReservedWrite
    <3>2. CASE pending.action # "Reset"
      BY <1>1, <2>1, <3>2, HistoryFact
    <3> QED BY <3>1, <3>2
  <2>3. lastPeer <= lastPeer' /\ lastPeer' \in 0 .. MaxId
    BY <1>1, HistoryFact
  <2> QED BY <1>1, <1>3, <2>1, <2>2, <2>3, Still
<1> QED BY <1>4, <1>5

\* An active stream is removed and the application told (Transition::remove with a notice).
LEMMA RemoveTold ==
    ASSUME IInv, NEW k \in Of(rec, {"Active"}), RemoveKey(k, rec[k.slot], TRUE), DropHead(k.id),
           Emit(k, "Reset"), EventRoom
    PROVE  Done /\ Booked(rec', index', peerCount', resets)
<1>1. /\ Slab(rec, lastPeer) /\ Booked(rec, index, peerCount, resets) /\ Waked(rec, lastPeer, wakes, waiting)
      /\ Told(rec, lastPeer, events) /\ Owned(Mine(rec), events, app) /\ Silent(rec, lastPeer, events, app)
      /\ Headed(rec, head, app)
  BY DEF IInv
<1>2. k \in Named(rec) /\ rec[k.slot].kind = "Active" /\ k.slot \in Slots
  BY KeyFact DEF Of, Named
<1>3. rec[k.slot].live \in Live
  BY <1>1, <1>2, OfFact DEF Fit
<1>4. Left(k, Retire(rec[k.slot].live, TRUE)) /\ Booked(rec', index', peerCount', resets)
  BY <1>1, <1>3, RemoveFact
<1>5. Settled /\ Len(events') <= EventCap
  BY <1>1, <1>4, LeftTold
<1>6. Less(rec, rec', {k}, {}) /\ Slab(rec', lastPeer) /\ Waked(rec', lastPeer, wakes', waiting)
  BY <1>4 DEF Left
<1>7. Headed(rec', head', app)
  BY <1>1, <1>6, HeadedDrop
<1>8. Of(rec', {"Active"}) \subseteq Of(rec, {"Active"})
  BY <1>6 DEF Less
<1> QED BY <1>4, <1>5, <1>6, <1>7, <1>8 DEF Done

\* RST_STREAM from the peer keeps the invariant.
LEMMA StepPeerReset ==
    ASSUME IInv, NEW id \in Ids, PeerReset(id)
    PROVE  IInv' /\ Forward
<1> DEFINE k == KeyOf(id)
<1>1. /\ EventRoom /\ Lookup(id) = "Active" /\ peerResets < MaxResets /\ peerResets' = peerResets + 1
      /\ DropHead(id) /\ RemoveKey(k, rec[k.slot], TRUE) /\ Emit(k, "Reset")
      /\ resets' = resets /\ used' = used /\ barrier' = barrier /\ lastPeer' = lastPeer
      /\ pending' = pending /\ mode' = mode /\ phase' = phase /\ app' = app /\ waiting' = waiting
  BY DEF PeerReset, outVars
<1> HIDE DEF k
<1>2. k \in Of(rec, {"Active"}) /\ k.id = id
  BY <1>1, Looked DEF IInv, k
<1>3. Done /\ Booked(rec', index', peerCount', resets')
  BY <1>1, <1>2, RemoveTold
<1>4. Typed(pending', peerResets')
  BY <1>1, HistoryFact, BoundsFact DEF Typed
<1>5. Reserved(resets', used', barrier', mode', phase')
  BY <1>1, HistoryFact
<1> QED BY <1>1, <1>3, <1>4, <1>5, DoneInv

\* DATA of an active stream keeps the invariant.
LEMMA StepData ==
    ASSUME IInv, NEW id \in Ids, NEW boundary \in Boundaries, NEW valid \in BOOLEAN, NEW update \in 0 .. 1,
           Data(id, boundary, valid, update)
    PROVE  IInv' /\ Forward
<1> DEFINE k == KeyOf(id)
           r == rec[k.slot]
           next == Recv(r.state, "Data", boundary)
<1>1. /\ EventRoom /\ Lookup(id) = "Active" /\ resets' = resets /\ barrier' = barrier
      /\ lastPeer' = lastPeer /\ pending' = pending /\ mode' = mode /\ phase' = phase
      /\ peerResets' = peerResets /\ app' = app /\ waiting' = waiting
  BY DEF Data
<1>2. k \in Of(rec, {"Active"}) /\ k.id = id
  BY <1>1, Looked DEF IInv
<1>3. Typed(pending', peerResets')
  BY <1>1, HistoryFact
<1>4. CASE /\ Room(RstLen + update) /\ used' = used + RstLen + update
           /\ DropHead(id) /\ RemoveKey(k, r, TRUE) /\ Emit(k, "Reset")
  <2>1. Reserved(resets', used', barrier', mode', phase')
    <3>1. RstLen + update \in Nat /\ used' = used + (RstLen + update)
      BY <1>4, HistoryFact, BoundsFact DEF Reserved
    <3>2. Reserved(resets, used', barrier, mode, phase)
      BY <1>4, <3>1, HistoryFact, ReservedRoom
    <3> QED BY <1>1, <3>2
  <2> HIDE DEF k
  <2>2. Done /\ Booked(rec', index', peerCount', resets')
    BY <1>1, <1>2, <1>4, RemoveTold
  <2> QED BY <1>1, <1>3, <2>1, <2>2, DoneInv
<1>5. CASE /\ next \in States /\ (update = 0 \/ Room(update)) /\ used' = used + update
           /\ Advance(k, [r EXCEPT !.state = next, !.live = QueueEnd(@, boundary)])
           /\ Emit(k, boundary) /\ head' = head
  <2>1. Reserved(resets', used', barrier', mode', phase')
    <3>1. update \in Nat
      OBVIOUS
    <3>2. Reserved(resets, used', barrier, mode, phase)
      BY <1>5, <3>1, HistoryFact, ReservedRoom
    <3> QED BY <1>1, <3>2
  <2>2. /\ Slab(rec, lastPeer) /\ Booked(rec, index, peerCount, resets) /\ Waked(rec, lastPeer, wakes, waiting)
        /\ Told(rec, lastPeer, events) /\ Owned(Mine(rec), events, app) /\ Silent(rec, lastPeer, events, app)
        /\ Headed(rec, head, app)
    BY DEF IInv
  <2> DEFINE live == r.live
  <2>3. live = IF "Data" = "Headers" THEN CompleteHead(rec[k.slot].live) ELSE rec[k.slot].live
    OBVIOUS
  <2>4. Advance(k, [rec[k.slot] EXCEPT !.state = next, !.live = QueueEnd(live, boundary)])
    BY <1>5
  <2>5. "Data" \in Frames
    BY DEF Frames
  <2> HIDE DEF live, k
  <2>6. Done /\ Booked(rec', index', peerCount', resets)
    BY <1>1, <1>2, <1>5, <2>2, <2>3, <2>4, <2>5, Received
  <2>7. Booked(rec', index', peerCount', resets')
    BY <1>1, <2>6
  <2> QED BY <1>1, <1>3, <2>1, <2>6, <2>7, DoneInv
<1> QED BY <1>4, <1>5 DEF Data

\* A new id has no record, no event and no exchange yet.
LEMMA Unheard ==
    ASSUME NEW R, NEW n, Slab(R, n), NEW E, Told(R, n, E), NEW A, Silent(R, n, E, A),
           NEW k \in Keys, k.id > n
    PROVE  /\ A[k.id] = "unseen" /\ \A e \in Elements(E) : e.key.id # k.id /\ e.key # k
           /\ \A j \in Keys : j.id = k.id => Mine(R)[j] = "None" /\ j \notin Named(R)
<1>1. n \in Nat /\ k.id \in Nat /\ k.id \in Ids
  BY KeyFact DEF Slab
<1>2. \A e \in Elements(E) : e.key.id # k.id /\ e.key # k
  BY <1>1 DEF Told
<1>3. \A j \in Keys : j.id = k.id => j \notin Named(R)
  BY <1>1 DEF Slab
<1> QED BY <1>1, <1>2, <1>3, OfFact DEF Silent

\* A stream is admitted: with no event yet, or with the first one of its request.
LEMMA InsertFact ==
    ASSUME IInv, NEW k \in Keys, k.id > lastPeer, Admits, rec[k.slot] = Free,
           NEW state \in States, NEW live \in {"Initial", "Trailing", "End"}, Insert(k, state, live),
           live = "Initial" => state = "Idle", live = "End" => state = "HalfClosedRemote",
           lastPeer' = k.id, wakes' = wakes, resets' = resets, head' = head, app' = app, waiting' = waiting,
           \/ live = "Initial" /\ events' = events
           \/ live = "Trailing" /\ Emit(k, "More") /\ EventRoom
           \/ live = "End" /\ Emit(k, "End") /\ EventRoom,
           Reserved(resets', used', barrier', mode', phase'), Typed(pending', peerResets')
    PROVE  IInv' /\ Forward
<1> DEFINE r == [kind |-> "Active", id |-> k.id, state |-> state, live |-> live, credit |-> "Open"]
<1>1. /\ Slab(rec, lastPeer) /\ Booked(rec, index, peerCount, resets) /\ Waked(rec, lastPeer, wakes, waiting)
      /\ Told(rec, lastPeer, events) /\ Owned(Mine(rec), events, app) /\ Silent(rec, lastPeer, events, app)
      /\ Headed(rec, head, app) /\ Len(events) <= EventCap
  BY DEF IInv
<1>2. Fit(r) /\ r.id = k.id /\ r.kind = "Active" /\ r.live = live
  <2>1. k.id \in Ids /\ k.id \in 0 .. MaxId
    BY KeyFact
  <2> QED BY <2>1 DEF Fit, Record, Live
<1>3. /\ rec' = [rec EXCEPT ![k.slot] = r] /\ index' = index \cup {k} /\ peerCount' = peerCount + 1
      /\ peerCount < MaxActive
  BY DEF Insert, Admits
<1> HIDE DEF r
<1>4. Booked(rec', index', peerCount', resets) /\ Grow(rec, rec', k, r)
  BY <1>1, <1>2, <1>3, StepInsert
<1>5. /\ Slab(rec', k.id) /\ Named(rec') = Named(rec) \cup {k} /\ k \notin Named(rec)
      /\ \A j \in Named(rec) : rec'[j.slot] = rec[j.slot]
      /\ Of(rec', {"Active"}) = Of(rec, {"Active"}) \cup {k}
      /\ Mine(rec') = [Mine(rec) EXCEPT ![k] = live]
  BY <1>2, <1>4 DEF Grow, Counts
<1>6. /\ app[k.id] = "unseen" /\ \A e \in Elements(events) : e.key.id # k.id /\ e.key # k
      /\ \A j \in Keys : j.id = k.id => Mine(rec)[j] = "None" /\ j \notin Named(rec)
  BY <1>1, Unheard
<1>7. lastPeer \in Nat /\ k.id \in Nat /\ k.id \in 0 .. MaxId /\ lastPeer <= k.id /\ k.id \in Ids
  BY <1>1, KeyFact DEF Slab
<1>8. /\ Told(rec, k.id, events) /\ Silent(rec, k.id, events, app) /\ Waked(rec, k.id, wakes, waiting)
  BY <1>1, <1>7, Aged
<1>9. Told(rec', k.id, events)
  BY <1>5, <1>6, <1>8 DEF Told
<1>10. /\ Told(rec', k.id, events') /\ Beyond(k, events, events') /\ Len(events') <= EventCap
       /\ IsQueued(events', k, "End") <=> live = "End"
       /\ ~IsQueued(events', k, "Reset")
  <2>0. ~IsQueued(events, k, "End") /\ ~IsQueued(events, k, "Reset")
    BY <1>6 DEF IsQueued
  <2>1. CASE live = "Initial" /\ events' = events
    BY <1>1, <1>9, <2>0, <2>1, SameBeyond
  <2>2. ASSUME NEW w \in {"More", "End"}, Emit(k, w), EventRoom, w = "End" <=> live = "End"
        PROVE  /\ Told(rec', k.id, events') /\ Beyond(k, events, events') /\ Len(events') <= EventCap
               /\ IsQueued(events', k, "End") <=> live = "End"
               /\ ~IsQueued(events', k, "Reset")
    <3> DEFINE e == [key |-> k, what |-> w]
    <3>1. /\ e \in Event /\ (e.key = None <=> e.what = "Settings") /\ e.key \in Named(rec') \cup {None}
          /\ \A x \in Elements(events) : Follows(x, e)
      BY <1>5, <1>6, KeyFact DEF Event, Follows
    <3>2. events' = Append(events, e)
      BY <2>2 DEF Emit
    <3> HIDE DEF e
    <3>3. Told(rec', k.id, events') /\ Elements(events') = Elements(events) \cup {e}
      BY <1>5, <1>9, <3>1, <3>2, ToldEmit
    <3>4. Elements(events') = Elements(events) \cup {[key |-> k, what |-> w]}
      BY <3>3 DEF e
    <3>5. Beyond(k, events, events') /\ \A u : IsQueued(events', k, u) <=> IsQueued(events, k, u) \/ u = w
      BY <3>4, EmitBeyond
    <3>6. Len(events') <= EventCap
      <4>1. events \in Seq(Event) /\ EventCap \in Nat /\ Len(events) < EventCap /\ e \in Event
        BY <1>1, <2>2, <3>1, BoundsFact DEF Told, EventRoom
      <4>2. Len(events') = Len(events) + 1 /\ Len(events) \in Nat
        BY <3>2, <4>1
      <4> QED BY <4>1, <4>2
    <3>7. w # "Reset"
      BY <2>2
    <3> QED BY <2>0, <2>2, <3>3, <3>5, <3>6, <3>7
  <2> QED BY <2>1, <2>2
<1>11. Owned(Mine(rec'), events', app)
  <2>1. OwnedKey(live, k, events', app[k.id])
    <3>1. live = "Initial" => \A e \in Elements(events') : e.key # k
      BY <1>6
    <3>2. live \notin Resets /\ live \notin Duplexes /\ (live \in Ends <=> live = "End")
      BY DEF Resets, Duplexes, Ends
    <3> QED BY <1>6, <1>10, <3>1, <3>2 DEF OwnedKey
  <2>2. app \in [Ids -> Apps] /\ app = [app EXCEPT ![k.id] = app[k.id]] /\ app[k.id] \in Apps
        /\ app[k.id] \notin Sessions
    BY <1>1, <1>6, <1>7, SameApp DEF Silent, Sessions
  <2>3. Mine(rec) \in [Keys -> Live \cup Closed \cup {"None"}]
    BY <1>1, OfFact
  <2>4. Owned([Mine(rec) EXCEPT ![k] = live], events', [app EXCEPT ![k.id] = app[k.id]])
    BY <1>1, <1>6, <1>10, <2>1, <2>2, <2>3, OwnedAt
  <2> QED BY <1>5, <2>2, <2>4
<1>12. Silent(rec', k.id, events', app)
  <2>1. \A e \in Elements(events') : e.key # None => app[e.key.id] # "cancelled"
    BY <1>6, <1>8, <1>10 DEF Beyond, Silent
  <2> QED BY <1>5, <1>6, <1>8, <2>1 DEF Silent
<1>13. Headed(rec', head, app)
  BY <1>1, <1>5 DEF Headed, Of, Named
<1>14. Waked(rec', k.id, wakes, waiting)
  <2>1. k \notin waiting
    BY <1>1, <1>7 DEF Waked
  <2>2. Of(rec, {"Active"}) \subseteq Named(rec)
    BY DEF Of, Named
  <2> QED BY <1>5, <1>8, <2>1, <2>2 DEF Waked
<1>15. Forward
  BY <1>5, <1>7 DEF Forward
<1> QED BY <1>4, <1>5, <1>10, <1>11, <1>12, <1>13, <1>14, <1>15 DEF IInv

\* HEADERS that open a stream and need CONTINUATION keep the invariant.
LEMMA StepHeadersBegin ==
    ASSUME IInv, NEW k \in Keys, NEW boundary \in Boundaries, HeadersBegin(k, boundary)
    PROVE  IInv' /\ Forward
<1>1. /\ k.id > lastPeer /\ Admits /\ rec[k.slot] = Free /\ Insert(k, "Idle", "Initial")
      /\ lastPeer' = k.id /\ pending' = [id |-> k.id, boundary |-> boundary, action |-> "Deliver"]
      /\ wakes' = wakes /\ resets' = resets /\ used' = used /\ barrier' = barrier /\ head' = head
      /\ events' = events /\ mode' = mode /\ phase' = phase /\ peerResets' = peerResets
      /\ app' = app /\ waiting' = waiting
  BY DEF HeadersBegin, outVars
<1>2. Typed(pending', peerResets')
  BY <1>1, HistoryFact, KeyFact DEF Typed
<1>3. Reserved(resets', used', barrier', mode', phase')
  BY <1>1, HistoryFact
<1>4. "Idle" \in States
  BY DEF States
<1> QED BY <1>1, <1>2, <1>3, <1>4, InsertFact

\* HEADERS that open a stream at once keep the invariant.
LEMMA StepHeadersOpen ==
    ASSUME IInv, NEW k \in Keys, NEW boundary \in Boundaries, HeadersOpen(k, boundary)
    PROVE  IInv' /\ Forward
<1>1. /\ k.id > lastPeer /\ Admits /\ rec[k.slot] = Free /\ EventRoom
      /\ Insert(k, OpenRemote(boundary), IF boundary = "End" THEN "End" ELSE "Trailing")
      /\ lastPeer' = k.id /\ Emit(k, boundary)
      /\ wakes' = wakes /\ resets' = resets /\ used' = used /\ barrier' = barrier /\ head' = head
      /\ pending' = pending /\ mode' = mode /\ phase' = phase /\ peerResets' = peerResets
      /\ app' = app /\ waiting' = waiting
  BY DEF HeadersOpen, outVars
<1>2. Typed(pending', peerResets') /\ Reserved(resets', used', barrier', mode', phase')
  BY <1>1, HistoryFact
<1>3. CASE boundary = "End"
  <2>1. "HalfClosedRemote" \in States /\ Insert(k, "HalfClosedRemote", "End") /\ Emit(k, "End")
    BY <1>1, <1>3 DEF States, OpenRemote
  <2> QED BY <1>1, <1>2, <2>1, InsertFact
<1>4. CASE boundary = "More"
  <2>1. "Open" \in States /\ Insert(k, "Open", "Trailing") /\ Emit(k, "More")
    BY <1>1, <1>4 DEF States, OpenRemote
  <2> QED BY <1>1, <1>2, <2>1, InsertFact
<1> QED BY <1>3, <1>4 DEF Boundaries

-----------------------------------------------------------------------------
(* Credit: windows cross zero. *)

\* R1 differs from R in the credit of records only.
Recredited(R, R1) ==
    /\ R1 \in [Slots -> Record]
    /\ \A s \in Slots : /\ R1[s].kind = R[s].kind /\ R1[s].id = R[s].id
                        /\ R1[s].live = R[s].live /\ R1[s].state = R[s].state
                        /\ R[s].kind # "Active" => R1[s] = R[s]

\* Credit concerns nobody but the wake queue.
LEMMA CreditFact ==
    ASSUME NEW R, NEW n, Slab(R, n), NEW R1, Recredited(R, R1), NEW I, NEW p, NEW Q, Booked(R, I, p, Q),
           NEW E, Told(R, n, E), NEW A, Silent(R, n, E, A), NEW h, Headed(R, h, A)
    PROVE  /\ Slab(R1, n) /\ Booked(R1, I, p, Q) /\ Told(R1, n, E) /\ Silent(R1, n, E, A)
           /\ Headed(R1, h, A) /\ Mine(R1) = Mine(R) /\ Of(R1, {"Active"}) = Of(R, {"Active"})
<1>1. \A k \in Keys : k.slot \in Slots
  BY KeyFact
<1>2. Named(R1) = Named(R) /\ Mine(R1) = Mine(R)
  BY <1>1 DEF Recredited, Named, Mine
<1>3. \A K : Of(R1, K) = Of(R, K)
  BY <1>1 DEF Recredited, Of
<1>4. ASSUME NEW s \in Slots PROVE Fit(R1[s])
  <2>1. CASE R[s].kind # "Active"
    <3>1. R1[s] = R[s]
      BY <2>1 DEF Recredited
    <3> QED BY <3>1 DEF Slab
  <2>2. CASE R[s].kind = "Active"
    <3>1. R1[s] \in Record /\ Fit(R[s])
      BY DEF Recredited, Slab
    <3>2. R1[s].kind = "Active" /\ R1[s].id = R[s].id /\ R1[s].live = R[s].live /\ R1[s].state = R[s].state
      BY <2>2 DEF Recredited
    <3> QED BY <2>2, <3>1, <3>2 DEF Fit
  <2> QED BY <2>1, <2>2
<1>5. Slab(R1, n)
  BY <1>2, <1>4 DEF Slab, Recredited
<1>6. Of(R1, {"Active"}) = Of(R, {"Active"}) /\ Of(R1, {"Reset"}) = Of(R, {"Reset"})
  BY <1>3
<1>7. Of(R1, {"Active", "Reset"}) = Of(R, {"Active", "Reset"})
  BY <1>3
<1>8. Booked(R1, I, p, Q)
  BY <1>6, <1>7, BookedSame
<1>9. Told(R1, n, E)
  BY <1>2 DEF Told
<1>10. Silent(R1, n, E, A)
  BY <1>6 DEF Silent
<1>11. Headed(R1, h, A)
  <2>1. h # NoHead => h.key.slot \in Slots
    BY <1>1 DEF Headed, Of
  <2>2. h # NoHead => R1[h.key.slot].state = R[h.key.slot].state
    BY <2>1 DEF Recredited
  <2> QED BY <1>6, <2>2 DEF Headed
<1> QED BY <1>2, <1>5, <1>6, <1>8, <1>9, <1>10, <1>11

\* The keys of the slots in moved.
KeysAt(R, moved) == {[id |-> R[s].id, slot |-> s] : s \in moved}

\* Every stream that opens is queued, behind the others and once (Wake::update).
LEMMA OpenedFact ==
    ASSUME wakes \in Seq(Keys), Distinct(wakes), NEW moved, IsFiniteSet(Of(rec, {"Active"})),
           KeysAt(rec, moved) \subseteq Of(rec, {"Active"}), Opened(moved)
    PROVE  /\ wakes' \in Seq(Keys) /\ Distinct(wakes')
           /\ Elements(wakes') = Elements(wakes) \cup KeysAt(rec, moved)
<1> DEFINE new == KeysAt(rec, moved) \ Elements(wakes)
<1>1. PICK q \in [1 .. Cardinality(new) -> new] :
          /\ Elements(q) = new
          /\ \A i, j \in DOMAIN q : i < j => q[i].slot < q[j].slot
          /\ wakes' = wakes \o q
  BY DEF Opened, KeysAt
<1>2. IsFiniteSet(new) /\ Cardinality(new) \in Nat
  <2>1. new \subseteq Of(rec, {"Active"})
    OBVIOUS
  <2> QED BY <2>1, FS_Subset, FS_CardinalityType
<1>3. new \subseteq Keys /\ new \cap Elements(wakes) = {}
  BY DEF Of
<1> HIDE DEF new
<1> DEFINE size == Cardinality(new)
<1>4. q \in Seq(Keys) /\ DOMAIN q = 1 .. size /\ size \in Nat /\ \A i \in DOMAIN q : q[i] \in Keys
  <2>1. q \in [1 .. size -> new] /\ size \in Nat
    BY <1>1, <1>2
  <2> HIDE DEF size
  <2>2. q \in [1 .. size -> Keys]
    BY <1>3, <2>1
  <2>3. DOMAIN q = 1 .. size /\ \A i \in 1 .. size : q[i] \in Keys
    BY <2>2
  <2>4. q = [i \in 1 .. size |-> q[i]]
    BY <2>1
  <2>5. [i \in 1 .. size |-> q[i]] \in Seq(Keys)
    BY <2>1, <2>3
  <2> QED BY <2>1, <2>3, <2>4, <2>5
<1>5. \A i \in DOMAIN q : q[i].slot \in Nat
  BY <1>4, KeyFact, RegistryAssumption
<1>6. Distinct(q)
  <2> SUFFICES ASSUME NEW i \in DOMAIN q, NEW j \in DOMAIN q, q[i] = q[j] PROVE i = j
    BY DEF Distinct
  <2>1. i \in Nat /\ j \in Nat /\ q[i].slot \in Nat /\ q[i].slot = q[j].slot
    BY <1>4, <1>5
  <2>2. ~(i < j) /\ ~(j < i)
    BY <1>1, <2>1
  <2> QED BY <2>1, <2>2
<1>7. wakes \o q \in Seq(Keys) /\ Elements(wakes \o q) = Elements(wakes) \cup Elements(q) /\ Distinct(wakes \o q)
  BY <1>1, <1>3, <1>4, <1>6, ConcatFact
<1>8. Elements(wakes') = Elements(wakes) \cup new
  BY <1>1, <1>7
<1> QED BY <1>1, <1>7, <1>8 DEF new

\* Windows that open wake their streams; windows that close wake nobody.
LEMMA WakedCredit ==
    ASSUME Waked(rec, lastPeer, wakes, waiting), NEW R1, Recredited(rec, R1), NEW moved \in SUBSET Slots,
           NEW W, W \in Seq(Keys), Distinct(W), Of(R1, {"Active"}) = Of(rec, {"Active"}),
           NEW credit, \A s \in Slots : R1[s].credit = IF s \in moved THEN credit ELSE rec[s].credit,
           KeysAt(rec, moved) \subseteq Of(rec, {"Active"}),
           IF credit = "Open" THEN Elements(W) = Elements(wakes) \cup KeysAt(rec, moved) ELSE W = wakes
    PROVE  Waked(R1, lastPeer, W, waiting)
<1>1. Elements(W) \subseteq Of(R1, {"Active"}) /\ Elements(wakes) \subseteq Elements(W)
  BY DEF Waked
<1>2. ASSUME NEW k \in waiting, k \in Of(R1, {"Active"}), R1[k.slot].credit = "Open" PROVE k \in Elements(W)
  <2>1. k \in Keys /\ k.slot \in Slots /\ rec[k.slot].id = k.id /\ k \in Of(rec, {"Active"})
    BY <1>2, KeyFact DEF Of
  <2>2. CASE k.slot \in moved
    <3>1. credit = "Open"
      BY <1>2, <2>1, <2>2
    <3>2. [id |-> rec[k.slot].id, slot |-> k.slot] \in KeysAt(rec, moved)
      BY <2>2 DEF KeysAt
    <3>3. k = [id |-> rec[k.slot].id, slot |-> k.slot]
      BY <2>1 DEF Keys
    <3> QED BY <3>1, <3>2, <3>3
  <2>3. CASE k.slot \notin moved
    BY <1>1, <1>2, <2>1, <2>3 DEF Waked
  <2> QED BY <2>2, <2>3
<1> QED BY <1>1, <1>2 DEF Waked

\* The records of the slots in moved take the credit c.
Paid(R, moved, c) == [s \in Slots |-> IF s \in moved THEN [R[s] EXCEPT !.credit = c] ELSE R[s]]

\* Which is a change of credit, to c where it changes.
LEMMA CreditMoves ==
    ASSUME NEW R, NEW n, Slab(R, n), NEW moved, moved \subseteq {s \in Slots : R[s].kind = "Active"},
           NEW c \in {"Open", "Stalled"},
           NEW R1, R1 = Paid(R, moved, c)
    PROVE  /\ Recredited(R, R1)
           /\ \A s \in Slots : R1[s].credit = IF s \in moved THEN c ELSE R[s].credit
           /\ KeysAt(R, moved) \subseteq Of(R, {"Active"})
<1>1. R \in [Slots -> Record] /\ \A s \in Slots : Fit(R[s])
  BY DEF Slab
<1>2. ASSUME NEW s \in Slots
      PROVE  /\ R1[s] \in Record /\ R1[s].kind = R[s].kind /\ R1[s].id = R[s].id
             /\ R1[s].live = R[s].live /\ R1[s].state = R[s].state
             /\ R1[s].credit = (IF s \in moved THEN c ELSE R[s].credit)
             /\ (R[s].kind # "Active" => R1[s] = R[s])
  <2>1. CASE s \in moved
    <3>1. R1[s] = [R[s] EXCEPT !.credit = c] /\ R[s] \in Record /\ R[s].kind = "Active"
      BY <1>1, <2>1 DEF Paid
    <3> QED BY <2>1, <3>1 DEF Record
  <2>2. CASE s \notin moved
    BY <1>1, <2>2 DEF Paid
  <2> QED BY <2>1, <2>2
<1>3. R1 \in [Slots -> Record]
  BY <1>2 DEF Paid
<1>4. KeysAt(R, moved) \subseteq Of(R, {"Active"})
  <2> SUFFICES ASSUME NEW s \in moved PROVE [id |-> R[s].id, slot |-> s] \in Of(R, {"Active"})
    BY DEF KeysAt
  <2>1. s \in Slots /\ R[s].kind = "Active" /\ R[s].id \in Ids
    BY <1>1 DEF Fit
  <2> QED BY <2>1, KeyFact DEF Of
<1> QED BY <1>2, <1>3, <1>4 DEF Recredited

\* WINDOW_UPDATE keeps the invariant.
LEMMA StepWindowUpdate ==
    ASSUME IInv, NEW id \in Ids, WindowUpdate(id)
    PROVE  IInv' /\ Forward
<1> DEFINE k == KeyOf(id)
<1>1. /\ Lookup(id) = "Active" /\ rec' = [rec EXCEPT ![k.slot].credit = "Open"] /\ Opened({k.slot})
      /\ index' = index /\ peerCount' = peerCount /\ resets' = resets /\ used' = used /\ barrier' = barrier
      /\ lastPeer' = lastPeer /\ pending' = pending /\ head' = head /\ events' = events /\ mode' = mode
      /\ phase' = phase /\ peerResets' = peerResets /\ app' = app /\ waiting' = waiting
  BY DEF WindowUpdate, outVars
<1>2. /\ Slab(rec, lastPeer) /\ Booked(rec, index, peerCount, resets) /\ Waked(rec, lastPeer, wakes, waiting)
      /\ Told(rec, lastPeer, events) /\ Owned(Mine(rec), events, app) /\ Silent(rec, lastPeer, events, app)
      /\ Headed(rec, head, app)
  BY DEF IInv
<1> HIDE DEF k
<1>3. k \in Of(rec, {"Active"}) /\ k.slot \in Slots /\ rec[k.slot].kind = "Active" /\ rec \in [Slots -> Record]
  BY <1>1, <1>2, Looked, KeyFact DEF Of, k, Slab
<1> DEFINE moved == {k.slot}
<1>4. /\ moved \subseteq {s \in Slots : rec[s].kind = "Active"} /\ "Open" \in {"Open", "Stalled"}
      /\ rec' = Paid(rec, moved, "Open")
  BY <1>1, <1>3 DEF Paid
<1> HIDE DEF moved
<1>5. /\ Recredited(rec, rec') /\ KeysAt(rec, moved) \subseteq Of(rec, {"Active"})
      /\ \A s \in Slots : rec'[s].credit = IF s \in moved THEN "Open" ELSE rec[s].credit
  BY <1>2, <1>4, CreditMoves
<1>6. /\ Slab(rec', lastPeer) /\ Booked(rec', index, peerCount, resets) /\ Told(rec', lastPeer, events)
      /\ Silent(rec', lastPeer, events, app) /\ Headed(rec', head, app) /\ Mine(rec') = Mine(rec)
      /\ Of(rec', {"Active"}) = Of(rec, {"Active"})
  BY <1>2, <1>5, CreditFact
<1>7. wakes \in Seq(Keys) /\ Distinct(wakes) /\ IsFiniteSet(Of(rec, {"Active"})) /\ Opened(moved)
  BY <1>1, <1>2 DEF Waked, Booked, moved
<1>8. wakes' \in Seq(Keys) /\ Distinct(wakes') /\ Elements(wakes') = Elements(wakes) \cup KeysAt(rec, moved)
  BY <1>5, <1>7, OpenedFact
<1>9. moved \in SUBSET Slots
  BY <1>4
<1>10. Waked(rec', lastPeer, wakes', waiting)
  BY <1>2, <1>5, <1>6, <1>8, <1>9, WakedCredit
<1>11. Forward
  BY <1>1, <1>6, HistoryFact DEF Forward
<1>12. Owned(Mine(rec'), events, app)
  BY <1>2, <1>6
<1>13. Typed(pending, peerResets) /\ Reserved(resets, used, barrier, mode, phase) /\ Len(events) <= EventCap
  BY DEF IInv
<1> QED BY <1>1, <1>6, <1>10, <1>11, <1>12, <1>13 DEF IInv

\* An event that is of no stream.
LEMMA SettingsTold ==
    ASSUME NEW R, NEW n, Slab(R, n), NEW E, Told(R, n, E), NEW m, NEW A, Owned(m, E, A), Silent(R, n, E, A),
           NEW e, e = [key |-> None, what |-> "Settings"]
    PROVE  Told(R, n, Append(E, e)) /\ Owned(m, Append(E, e), A) /\ Silent(R, n, Append(E, e), A)
<1>1. e \in Event /\ e.key = None /\ e.what = "Settings" /\ \A x \in Elements(E) : Follows(x, e)
  BY DEF Event, Follows
<1>2. Told(R, n, Append(E, e)) /\ Elements(Append(E, e)) = Elements(E) \cup {e}
  BY <1>1, ToldEmit
<1> DEFINE E1 == Append(E, e)
<1> HIDE DEF E1
<1>3. Elements(E1) = Elements(E) \cup {e}
  BY <1>2 DEF E1
<1>4. \A k \in Keys : k # None
  BY KeyFact
<1>5. \A k \in Keys, w \in {"End", "Reset"} : IsQueued(E1, k, w) <=> IsQueued(E, k, w)
  BY <1>1, <1>3, <1>4 DEF IsQueued
<1>6. \A k \in Keys : (\A x \in Elements(E) : x.key # k) => \A x \in Elements(E1) : x.key # k
  BY <1>1, <1>3, <1>4
<1>7. Owned(m, E1, A)
  BY <1>5, <1>6 DEF Owned, OwnedKey
<1>8. Silent(R, n, E1, A)
  BY <1>1, <1>3 DEF Silent
<1> QED BY <1>2, <1>7, <1>8 DEF E1

\* SETTINGS keep the invariant.
LEMMA StepSettings ==
    ASSUME IInv, NEW credit \in {"Open", "Stalled"}, NEW moved \in SUBSET Slots, Settings(credit, moved)
    PROVE  IInv' /\ Forward
<1>1. /\ EventRoom /\ Room(1) /\ moved \subseteq {s \in Slots : rec[s].kind = "Active"}
      /\ rec' = Paid(rec, moved, credit)
      /\ IF credit = "Open" THEN Opened(moved) ELSE wakes' = wakes
      /\ used' = used + 1 /\ Emit(None, "Settings")
      /\ index' = index /\ peerCount' = peerCount /\ resets' = resets /\ barrier' = barrier
      /\ lastPeer' = lastPeer /\ pending' = pending /\ head' = head /\ mode' = mode
      /\ phase' = phase /\ peerResets' = peerResets /\ app' = app /\ waiting' = waiting
  BY DEF Settings, Paid
<1>2. /\ Slab(rec, lastPeer) /\ Booked(rec, index, peerCount, resets) /\ Waked(rec, lastPeer, wakes, waiting)
      /\ Told(rec, lastPeer, events) /\ Owned(Mine(rec), events, app) /\ Silent(rec, lastPeer, events, app)
      /\ Headed(rec, head, app)
  BY DEF IInv
<1>3. /\ Recredited(rec, rec') /\ KeysAt(rec, moved) \subseteq Of(rec, {"Active"})
      /\ \A s \in Slots : rec'[s].credit = IF s \in moved THEN credit ELSE rec[s].credit
  BY <1>1, <1>2, CreditMoves
<1>4. /\ Slab(rec', lastPeer) /\ Booked(rec', index, peerCount, resets) /\ Told(rec', lastPeer, events)
      /\ Silent(rec', lastPeer, events, app) /\ Headed(rec', head, app) /\ Mine(rec') = Mine(rec)
      /\ Of(rec', {"Active"}) = Of(rec, {"Active"})
  BY <1>2, <1>3, CreditFact
<1>5. wakes \in Seq(Keys) /\ Distinct(wakes) /\ IsFiniteSet(Of(rec, {"Active"}))
  BY <1>2 DEF Waked, Booked
<1>6. /\ wakes' \in Seq(Keys) /\ Distinct(wakes')
      /\ IF credit = "Open" THEN Elements(wakes') = Elements(wakes) \cup KeysAt(rec, moved) ELSE wakes' = wakes
  <2>1. CASE credit = "Open"
    BY <1>1, <1>3, <1>5, <2>1, OpenedFact
  <2>2. CASE credit # "Open"
    BY <1>1, <1>5, <2>2
  <2> QED BY <2>1, <2>2
<1>7. Waked(rec', lastPeer, wakes', waiting)
  BY <1>2, <1>3, <1>4, <1>6, WakedCredit
<1> DEFINE e == [key |-> None, what |-> "Settings"]
<1>8. events' = Append(events, e)
  BY <1>1 DEF Emit
<1>9. Owned(Mine(rec'), events, app)
  BY <1>2, <1>4
<1>10. Len(events') <= EventCap
  <2>1. events \in Seq(Event) /\ e \in Event /\ Len(events) < EventCap
    BY <1>1, <1>2 DEF Told, Event, EventRoom
  <2> HIDE DEF e
  <2>2. Len(events') = Len(events) + 1 /\ Len(events) \in Nat
    BY <1>8, <2>1
  <2> QED BY <2>1, <2>2, BoundsFact
<1>11. Told(rec', lastPeer, events') /\ Owned(Mine(rec'), events', app) /\ Silent(rec', lastPeer, events', app)
  BY <1>4, <1>8, <1>9, SettingsTold
<1>12. Forward
  BY <1>1, <1>4, HistoryFact DEF Forward
<1>13. Reserved(resets', used', barrier', mode', phase')
  <2>1. Reserved(resets, used', barrier, mode, phase)
    BY <1>1, HistoryFact, ReservedRoom
  <2> QED BY <1>1, <2>1
<1>14. Typed(pending', peerResets')
  BY <1>1, HistoryFact
<1> QED BY <1>1, <1>4, <1>7, <1>10, <1>11, <1>12, <1>13, <1>14 DEF IInv

-----------------------------------------------------------------------------
(* Between drives. *)

\* A flush and nothing else.
LEMMA FlushStep ==
    ASSUME IInv, NEW base, FlushedFrom(rec, lastPeer, peerCount, base),
           peerCount' = peerCount, wakes' = wakes, lastPeer' = lastPeer, pending' = pending, head' = head,
           events' = events, phase' = phase, peerResets' = peerResets, app' = app, waiting' = waiting,
           Reserved(resets', used', barrier', mode', phase)
    PROVE  IInv' /\ Forward
<1>1. /\ Slab(rec, lastPeer) /\ Booked(rec, index, peerCount, resets) /\ Waked(rec, lastPeer, wakes, waiting)
      /\ Told(rec, lastPeer, events) /\ Owned(Mine(rec), events, app) /\ Silent(rec, lastPeer, events, app)
      /\ Headed(rec, head, app) /\ Typed(pending, peerResets) /\ Len(events) <= EventCap
  BY DEF IInv
<1>2. /\ Slab(rec', lastPeer) /\ Booked(rec', index', peerCount, resets')
      /\ Less(rec, rec', {}, {}) /\ Mine(rec') = Mine(rec)
  BY DEF FlushedFrom
<1>3. Told(rec', lastPeer, events) /\ Silent(rec', lastPeer, events, app)
  BY <1>1, <1>2, ToldLess, SilentLess
<1>4. Headed(rec', head, app)
  BY <1>1, <1>2, HeadedLess
<1>5. Waked(rec', lastPeer, wakes, waiting)
  BY <1>1, <1>2, WakedLess
<1>6. Owned(Mine(rec'), events, app)
  BY <1>1, <1>2
<1>7. Forward
  BY <1>2, HistoryFact DEF Forward, Less
<1> QED BY <1>1, <1>2, <1>3, <1>4, <1>5, <1>6, <1>7 DEF IInv

\* Ingress::prepare keeps the invariant.
LEMMA StepIngest ==
    ASSUME IInv, Ingest
    PROVE  IInv' /\ Forward
<1>1. /\ mode = "app" /\ Checked /\ peerCount' = peerCount /\ wakes' = wakes /\ lastPeer' = lastPeer
      /\ pending' = pending /\ head' = head /\ events' = events /\ phase' = phase
      /\ peerResets' = peerResets /\ app' = app /\ waiting' = waiting
  BY DEF Ingest
<1>2. /\ Slab(rec, lastPeer) /\ Booked(rec, index, peerCount, resets)
      /\ Reserved(resets, used, barrier, mode, phase) /\ used \in Nat
  BY DEF IInv, Reserved
<1>3. CASE resets # <<>>
  <2>1. Flush(rec, index, resets, used)
    BY <1>3 DEF Ingest
  <2>2. FlushedFrom(rec, lastPeer, peerCount, used)
    BY <1>2, <2>1, FlushFact
  <2>3. Reserved(resets', used', barrier', mode', phase)
    BY <1>1, <1>2, <2>2, BoundsFact DEF Reserved, FlushedFrom, Checked
  <2> QED BY <1>1, <2>2, <2>3, FlushStep
<1>4. CASE resets = <<>>
  <2>1. resets' = resets /\ used' = used /\ barrier' = barrier /\ rec' = rec /\ index' = index
    BY <1>4 DEF Ingest, outVars
  <2>2. Reserved(resets, used', barrier', mode', phase')
    BY <1>1, <1>2, <1>4, <2>1, BoundsFact DEF Reserved, Checked
  <2>3. lastPeer <= lastPeer' /\ lastPeer' \in 0 .. MaxId /\ Typed(pending', peerResets')
    BY <1>1, HistoryFact
  <2> QED BY <1>1, <2>1, <2>2, <2>3, Still
<1> QED BY <1>3, <1>4

\* State::commit_write keeps the invariant.
LEMMA StepDrain ==
    ASSUME IInv, NEW n \in 1 .. Limit + RstLen + 1, Drain(n)
    PROVE  IInv' /\ Forward
<1>1. /\ mode = "app" /\ n <= used /\ Flush(rec, index, resets, used - n)
      /\ peerCount' = peerCount /\ wakes' = wakes /\ lastPeer' = lastPeer
      /\ pending' = pending /\ head' = head /\ events' = events /\ mode' = mode /\ phase' = phase
      /\ peerResets' = peerResets /\ app' = app /\ waiting' = waiting
  BY DEF Drain, Idle
<1>2. /\ Slab(rec, lastPeer) /\ Booked(rec, index, peerCount, resets)
      /\ Reserved(resets, used, barrier, mode, phase) /\ used \in Nat
  BY DEF IInv, Reserved
<1>3. used - n \in Nat /\ n \in Nat
  BY <1>1, <1>2, BoundsFact
<1>4. FlushedFrom(rec, lastPeer, peerCount, used - n)
  BY <1>1, <1>2, <1>3, FlushFact
<1>5. Reserved(resets', used', barrier', mode', phase)
  BY <1>1, <1>2, <1>3, <1>4, BoundsFact DEF Reserved, FlushedFrom
<1> QED BY <1>1, <1>4, <1>5, FlushStep

\* The end of a drive keeps the invariant.
LEMMA StepEndDrive ==
    ASSUME IInv, EndDrive
    PROVE  IInv' /\ Forward
<1>1. /\ lastPeer' = lastPeer /\ mode' = "app"
      /\ rec' = rec /\ index' = index /\ peerCount' = peerCount /\ wakes' = wakes /\ resets' = resets
      /\ barrier' = barrier /\ used' = used /\ pending' = pending /\ head' = head /\ events' = events
      /\ phase' = phase /\ peerResets' = peerResets /\ app' = app /\ waiting' = waiting
  BY DEF EndDrive, storeVars, outVars
<1>2. lastPeer <= lastPeer' /\ lastPeer' \in 0 .. MaxId /\ Typed(pending', peerResets')
  BY <1>1, HistoryFact
<1>3. Reserved(resets, used', barrier', mode', phase')
  BY <1>1, HistoryFact DEF Reserved
<1> QED BY <1>1, <1>2, <1>3, Still

\* GOAWAY keeps the invariant: it has a unit of its own.
LEMMA StepGoaway ==
    ASSUME IInv, Goaway
    PROVE  IInv' /\ Forward
<1>1. /\ lastPeer' = lastPeer /\ mode' = mode /\ mode = "app" /\ phase = "Open" /\ phase' = "Draining"
      /\ used' = used + 1
      /\ rec' = rec /\ index' = index /\ peerCount' = peerCount /\ wakes' = wakes /\ resets' = resets
      /\ barrier' = barrier /\ pending' = pending /\ head' = head /\ events' = events
      /\ peerResets' = peerResets /\ app' = app /\ waiting' = waiting
  BY DEF Goaway, storeVars, Idle
<1>2. lastPeer <= lastPeer' /\ lastPeer' \in 0 .. MaxId /\ Typed(pending', peerResets')
  BY <1>1, HistoryFact
<1>3. Reserved(resets, used', barrier', mode', phase')
  BY <1>1, HistoryFact, BoundsFact DEF Reserved
<1> QED BY <1>1, <1>2, <1>3, Still

\* A step that concerns the wake queue only.
LEMMA WakeStep ==
    ASSUME IInv, Waked(rec, lastPeer, wakes', waiting'),
           rec' = rec, index' = index, peerCount' = peerCount, resets' = resets, used' = used,
           barrier' = barrier, lastPeer' = lastPeer, pending' = pending, head' = head, events' = events,
           mode' = mode, phase' = phase, peerResets' = peerResets, app' = app
    PROVE  IInv' /\ Forward
<1>1. Forward
  BY HistoryFact DEF Forward
<1> QED BY <1>1 DEF IInv

\* Registry::poll_wake keeps the invariant.
LEMMA StepPollWake ==
    ASSUME IInv, PollWake
    PROVE  IInv' /\ Forward
<1>1. /\ wakes # <<>> /\ wakes' = Tail(wakes) /\ waiting' = waiting \ {Head(wakes)}
      /\ rec' = rec /\ index' = index /\ peerCount' = peerCount /\ resets' = resets /\ used' = used
      /\ barrier' = barrier /\ lastPeer' = lastPeer /\ pending' = pending /\ head' = head /\ events' = events
      /\ mode' = mode /\ phase' = phase /\ peerResets' = peerResets /\ app' = app
  BY DEF PollWake, outVars
<1>2. Waked(rec, lastPeer, wakes, waiting) /\ wakes \in Seq(Keys)
  BY DEF IInv, Waked
<1>3. /\ wakes' \in Seq(Keys) /\ Elements(wakes) = Elements(wakes') \cup {Head(wakes)}
      /\ Distinct(wakes) => Distinct(wakes')
  BY <1>1, <1>2, TailElements
<1>4. Waked(rec, lastPeer, wakes', waiting')
  BY <1>1, <1>2, <1>3 DEF Waked
<1> QED BY <1>1, <1>4, WakeStep

\* A send refused for credit keeps the invariant.
LEMMA StepBlocked ==
    ASSUME IInv, NEW k \in Keys, Blocked(k)
    PROVE  IInv' /\ Forward
<1>1. /\ rec[k.slot].credit = "Stalled" /\ waiting' = waiting \cup {k} /\ IsActive(k)
      /\ rec' = rec /\ index' = index /\ peerCount' = peerCount /\ resets' = resets /\ used' = used
      /\ barrier' = barrier /\ lastPeer' = lastPeer /\ pending' = pending /\ head' = head /\ events' = events
      /\ mode' = mode /\ phase' = phase /\ peerResets' = peerResets /\ app' = app /\ wakes' = wakes
  BY DEF Blocked, outVars, storeVars
<1>2. Waked(rec, lastPeer, wakes, waiting) /\ Slab(rec, lastPeer)
  BY DEF IInv
<1>3. k.id <= lastPeer
  BY <1>1, <1>2 DEF Slab, Named, IsActive, IsKey
<1>4. Waked(rec, lastPeer, wakes', waiting')
  BY <1>1, <1>2, <1>3 DEF Waked
<1> QED BY <1>1, <1>4, WakeStep

\* The parts of the invariant once more, when the history stays.
LEMMA AppInv ==
    ASSUME IInv, Slab(rec', lastPeer), Booked(rec', index', peerCount', resets'),
           Told(rec', lastPeer, events'), Owned(Mine(rec'), events', app'),
           Silent(rec', lastPeer, events', app'), Headed(rec', head', app'),
           Waked(rec', lastPeer, wakes', waiting), Reserved(resets', used', barrier', mode', phase'),
           Len(events') <= EventCap, NEW gone, NEW touched, Less(rec, rec', gone, touched),
           lastPeer' = lastPeer, waiting' = waiting, pending' = pending, peerResets' = peerResets
    PROVE  IInv' /\ Forward
<1>1. Typed(pending', peerResets')
  BY HistoryFact
<1>2. Forward
  BY HistoryFact DEF Forward, Less
<1> QED BY <1>1, <1>2 DEF IInv

\* The stream of the head h is none of those that leave, and keeps its state; its
\* exchange still waits for it.
Awaited(R, R1, gone, touched, h, A1) ==
    h # NoHead => /\ h.key \notin gone
                  /\ h.key \in touched => R1[h.key.slot].state = R[h.key.slot].state
                  /\ A1[h.key.id] \in {"head", "duplexHead"}

\* A head that is awaited stays good.
LEMMA HeadedMove ==
    ASSUME NEW R, NEW R1, NEW gone, NEW touched, Less(R, R1, gone, touched),
           NEW h, NEW A, Headed(R, h, A), NEW A1, Awaited(R, R1, gone, touched, h, A1)
    PROVE  Headed(R1, h, A1)
<1> USE DEF Awaited
<1>1. CASE h = NoHead
  BY <1>1 DEF Headed
<1>2. CASE h # NoHead
  <2>1. h.key \in Of(R1, {"Active"})
    BY <1>2 DEF Headed, Less
  <2>2. R1[h.key.slot].state = R[h.key.slot].state
    BY <1>2, <2>1 DEF Less
  <2> QED BY <1>2, <2>1, <2>2 DEF Headed
<1> QED BY <1>1, <1>2

\* Nothing happens to the records.
LEMMA LessSame ==
    ASSUME NEW R
    PROVE  Less(R, R, {}, {})
  BY DEF Less

\* What an exchange the application has heard of says of its record.
LEMMA Heard ==
    ASSUME IInv, NEW k \in Keys, IsActive(k)
    PROVE  /\ k \in Of(rec, {"Active"}) /\ k \in Named(rec) /\ k.id \in Ids /\ k.slot \in Slots
           /\ Fit(rec[k.slot]) /\ rec[k.slot].kind = "Active" /\ rec[k.slot].id = k.id
           /\ rec \in [Slots -> Record] /\ rec[k.slot].live \in Live
           /\ OwnedKey(rec[k.slot].live, k, events, app[k.id])
           /\ app[k.id] \in Sessions <=> rec[k.slot].live \in Duplexes
           /\ app[k.id] # "unseen" => rec[k.slot].live # "Initial"
           /\ app \in [Ids -> Apps] /\ app[k.id] \in Apps
           /\ Mine(rec)[k] = rec[k.slot].live
<1>1. Slab(rec, lastPeer) /\ Owned(Mine(rec), events, app) /\ Silent(rec, lastPeer, events, app)
  BY DEF IInv
<1>2. rec[k.slot].kind = "Active" /\ rec[k.slot].id = k.id
  BY DEF IsActive, IsKey
<1>3. k \in Of(rec, {"Active"}) /\ k \in Named(rec) /\ k.id \in Ids /\ k.slot \in Slots
  BY <1>2, KeyFact DEF Of, Named
<1>4. Fit(rec[k.slot]) /\ rec[k.slot].live \in Live /\ rec \in [Slots -> Record]
  BY <1>1, <1>2, <1>3 DEF Slab, Fit
<1>5. app \in [Ids -> Apps] /\ app[k.id] \in Apps
  BY <1>1, <1>3 DEF Silent
<1>6. /\ OwnedKey(rec[k.slot].live, k, events, app[k.id]) /\ Mine(rec)[k] = rec[k.slot].live
      /\ app[k.id] \in Sessions => rec[k.slot].live \in Duplexes
  BY <1>1, <1>3, MineAt
<1> QED BY <1>2, <1>3, <1>4, <1>5, <1>6 DEF OwnedKey

\* A head is retained: only the exchange learns of it.
LEMMA StepPrepareHead ==
    ASSUME IInv, NEW k \in Keys, NEW boundary \in Boundaries, PrepareHead(k, boundary)
    PROVE  IInv' /\ Forward
<1>1. /\ app[k.id] = "known" /\ IsActive(k)
      /\ Send(rec[k.slot].state, "Headers", boundary) \in States
      /\ head' = [key |-> k, boundary |-> boundary] /\ app' = [app EXCEPT ![k.id] = "head"]
      /\ rec' = rec /\ index' = index /\ peerCount' = peerCount /\ wakes' = wakes /\ resets' = resets
      /\ used' = used /\ barrier' = barrier /\ lastPeer' = lastPeer /\ pending' = pending
      /\ events' = events /\ mode' = mode /\ phase' = phase /\ peerResets' = peerResets /\ waiting' = waiting
  BY DEF PrepareHead, storeVars, outVars
<1>2. /\ Slab(rec, lastPeer) /\ Booked(rec, index, peerCount, resets) /\ Waked(rec, lastPeer, wakes, waiting)
      /\ Told(rec, lastPeer, events) /\ Owned(Mine(rec), events, app) /\ Silent(rec, lastPeer, events, app)
      /\ Len(events) <= EventCap /\ Reserved(resets, used, barrier, mode, phase)
  BY DEF IInv
<1>3. /\ k \in Of(rec, {"Active"}) /\ k \in Named(rec) /\ k.id \in Ids
      /\ OwnedKey(rec[k.slot].live, k, events, "known") /\ rec[k.slot].live \notin Duplexes
      /\ rec[k.slot].live # "Initial" /\ app \in [Ids -> Apps]
      /\ Mine(rec)[k] = rec[k.slot].live
  BY <1>1, Heard DEF Sessions
<1>4. OwnedKey(rec[k.slot].live, k, events, "head")
  BY <1>3 DEF OwnedKey
<1>5. Mine(rec) = [Mine(rec) EXCEPT ![k] = rec[k.slot].live]
  BY <1>3 DEF Mine
<1>6. "head" \in Apps /\ "head" \notin Sessions /\ Beyond(k, events, events)
  BY SameBeyond DEF Apps, Sessions
<1>7. Owned(Mine(rec), events, app')
  BY <1>1, <1>2, <1>3, <1>4, <1>5, <1>6, TurnOwned
<1>8. Less(rec, rec, {}, {})
  BY LessSame
<1>9. Silent(rec, lastPeer, events, app')
  BY <1>1, <1>2, <1>3, <1>6, <1>8, TurnSilent
<1>10. Headed(rec, head', app')
  BY <1>1, <1>3 DEF Headed
<1> QED BY <1>1, <1>2, <1>7, <1>8, <1>9, <1>10, AppInv

\* No wake is lost when one record changes and gains no credit.
LEMMA WakedTouch ==
    ASSUME NEW R, NEW R1, NEW k, Less(R, R1, {}, {k}), NEW n, NEW W, NEW B, Waked(R, n, W, B),
           NEW c, R1[k.slot].credit = c, c = "Open" /\ k \in B => k \in Elements(W)
    PROVE  Waked(R1, n, W, B)
<1>1. \A j \in {k} : R1[j.slot].credit = "Open" /\ j \in B => j \in Elements(W)
  OBVIOUS
<1> QED BY <1>1, WakedLess

\* The record of k takes the value r, of the same kind, or is freed with nobody left.
Loosened(k, r) ==
    /\ Slab(rec', lastPeer) /\ Booked(rec', index, peerCount, resets)
    /\ Less(rec, rec', {}, {k}) /\ Mine(rec') = [Mine(rec) EXCEPT ![k] = r.live]
    /\ k \in Of(rec', {"Active"}) => rec'[k.slot].state = rec[k.slot].state
    /\ Waked(rec', lastPeer, wakes, waiting)

\* Somebody takes or drops a hold on the record (Store::release, State::hold_duplex).
LEMMA LooseFact ==
    ASSUME IInv, NEW k \in Named(rec), NEW r, Fit(r),
           \/ /\ r.id = k.id /\ r.kind = rec[k.slot].kind
              /\ r.state = rec[k.slot].state /\ r.credit = rec[k.slot].credit
           \/ r = Free /\ rec[k.slot].kind = "Closed",
           rec' = [rec EXCEPT ![k.slot] = r]
    PROVE  Loosened(k, r)
<1>1. /\ Slab(rec, lastPeer) /\ Booked(rec, index, peerCount, resets) /\ Waked(rec, lastPeer, wakes, waiting)
  BY DEF IInv
<1>2. /\ rec[k.slot].kind # "Free" /\ Fit(rec[k.slot]) /\ k \in Keys /\ k.slot \in Slots
      /\ \A K : k \in Of(rec, K) <=> rec[k.slot].kind \in K
  BY <1>1, OfFact
<1>3. rec[k.slot].kind \in {"Active", "Reset", "Closed"}
  BY <1>2 DEF Fit, Record
<1>4. CASE rec[k.slot].kind = "Active"
  <2>1. /\ k \in Of(rec, {"Active"}) /\ r.id = k.id /\ r.kind = "Active"
        /\ r.state = rec[k.slot].state /\ r.credit = rec[k.slot].credit
    BY <1>2, <1>4
  <2>2. Booked(rec', index, peerCount, resets) /\ Less(rec, rec', {}, {k}) /\ Moved(rec, rec', lastPeer, k, r)
    BY <1>1, <2>1, StepKeep, ZenonT(40)
  <2>3. rec'[k.slot] = r
    BY <2>2 DEF Moved
  <2>4. Waked(rec', lastPeer, wakes, waiting)
    <3>1. rec'[k.slot].credit = r.credit /\ (r.credit = "Open" /\ k \in waiting => k \in Elements(wakes))
      BY <1>1, <2>1, <2>3 DEF Waked
    <3> QED BY <1>1, <2>2, <3>1, WakedTouch
  <2> QED BY <2>1, <2>2, <2>3, <2>4 DEF Loosened, Moved
<1>5. CASE rec[k.slot].kind # "Active"
  <2>1. \/ r.id = k.id /\ r.kind = rec[k.slot].kind /\ r.kind \in {"Reset", "Closed"}
        \/ r = Free /\ rec[k.slot].kind = "Closed"
    BY <1>3, <1>5
  <2>2. Booked(rec', index, peerCount, resets) /\ Less(rec, rec', {}, {}) /\ Moved(rec, rec', lastPeer, k, r)
    BY <1>1, <2>1, StepOwner, ZenonT(40)
  <2>3. Waked(rec', lastPeer, wakes, waiting)
    BY <1>1, <2>2, WakedLess
  <2>4. k \notin Of(rec, {"Active"}) /\ Of(rec', {"Active"}) = Of(rec, {"Active"})
    BY <1>2, <1>5, <2>2 DEF Less
  <2>5. Less(rec, rec', {}, {k})
    BY <2>2 DEF Less
  <2> QED BY <2>2, <2>3, <2>4, <2>5 DEF Loosened, Moved
<1> QED BY <1>4, <1>5

\* A session takes its hold on the record of a live exchange (Driver::open).
LEMMA StepOpenDuplex ==
    ASSUME IInv, NEW k \in Keys, OpenDuplex(k)
    PROVE  IInv' /\ Forward
<1> DEFINE r == [rec[k.slot] EXCEPT !.live = HoldDuplex(rec[k.slot].live)]
<1>1. /\ app[k.id] = "known" /\ IsActive(k)
      /\ Send(rec[k.slot].state, "Headers", "More") \in States
      /\ head' = [key |-> k, boundary |-> "More"] /\ app' = [app EXCEPT ![k.id] = "duplexHead"]
      /\ index' = index /\ peerCount' = peerCount /\ wakes' = wakes /\ resets' = resets
      /\ used' = used /\ barrier' = barrier /\ lastPeer' = lastPeer /\ pending' = pending
      /\ events' = events /\ mode' = mode /\ phase' = phase /\ peerResets' = peerResets /\ waiting' = waiting
  BY DEF OpenDuplex, outVars
<1>2. /\ Slab(rec, lastPeer) /\ Told(rec, lastPeer, events) /\ Owned(Mine(rec), events, app)
      /\ Silent(rec, lastPeer, events, app)
      /\ Len(events) <= EventCap /\ Reserved(resets, used, barrier, mode, phase)
  BY DEF IInv
<1>3. /\ k \in Of(rec, {"Active"}) /\ k \in Named(rec) /\ k.id \in Ids /\ k.slot \in Slots
      /\ OwnedKey(rec[k.slot].live, k, events, "known") /\ rec[k.slot].live \notin Duplexes
      /\ rec[k.slot].live # "Initial" /\ app \in [Ids -> Apps] /\ rec \in [Slots -> Record]
      /\ Fit(rec[k.slot]) /\ rec[k.slot].kind = "Active" /\ rec[k.slot].id = k.id
      /\ rec[k.slot].live \in Live
  BY <1>1, Heard DEF Sessions
<1>4. rec' = [rec EXCEPT ![k.slot] = r]
  BY <1>3 DEF OpenDuplex
<1>5. /\ rec[k.slot].live \in {"Trailing", "End"}
      /\ r.live = IF rec[k.slot].live = "End" THEN "DuplexEnd" ELSE "Duplex"
  BY <1>3 DEF Live, Duplexes, HoldDuplex, Record
<1>6. /\ Fit(r) /\ r.id = k.id /\ r.kind = "Active" /\ r.state = rec[k.slot].state
      /\ r.credit = rec[k.slot].credit
  BY <1>3, <1>5 DEF Fit, Record, Live
<1> HIDE DEF r
<1>7. Loosened(k, r)
  BY <1>3, <1>4, <1>6, LooseFact
<1>8. OwnedKey(r.live, k, events, "duplexHead") /\ r.live \in Duplexes
  BY <1>3, <1>5 DEF OwnedKey, Ends, Resets, Duplexes, Sessions
<1>9. "duplexHead" \in Apps /\ Beyond(k, events, events) /\ Mine(rec') = [Mine(rec) EXCEPT ![k] = r.live]
      /\ Less(rec, rec', {}, {k})
  BY <1>7, SameBeyond DEF Apps, Loosened
<1>10. Owned(Mine(rec'), events, app')
  BY <1>1, <1>2, <1>3, <1>8, <1>9, TurnOwned
<1>11. Silent(rec', lastPeer, events, app') /\ Told(rec', lastPeer, events)
  BY <1>1, <1>2, <1>3, <1>9, TurnSilent, ToldLess
<1>12. Headed(rec', head', app')
  BY <1>1, <1>3, <1>7 DEF Headed, Loosened, Less, Boundaries
<1> QED BY <1>1, <1>2, <1>7, <1>9, <1>10, <1>11, <1>12, AppInv DEF Loosened

\* The record n is r after a frame is sent.
Sent(r, n, credit) ==
    /\ n.live = r.live /\ n.id = r.id /\ n.kind = "Active" /\ n.credit = credit
    /\ n.state # "Closed" => Fit(n)

\* What the application sends moves the state; the rest of the record stays.
LEMMA SentFits ==
    ASSUME NEW r, Fit(r), r.kind = "Active", r.live # "Initial", NEW frame \in Frames,
           NEW boundary \in Boundaries, Send(r.state, frame, boundary) \in States,
           NEW credit \in {"Open", "Stalled"}
    PROVE  Sent(r, [r EXCEPT !.state = Send(r.state, frame, boundary), !.credit = credit], credit)
<1> DEFINE next == Send(r.state, frame, boundary)
           n == [r EXCEPT !.state = next, !.credit = credit]
<1>1. /\ n.live = r.live /\ n.id = r.id /\ n.kind = "Active" /\ n.credit = credit /\ n.state = next
      /\ n \in Record /\ r \in Record
  BY DEF Fit, Record
<1>2. r.state = "HalfClosedRemote" => next \in {"HalfClosedRemote", "Closed"}
  BY DEF Send, Directional, States, Frames, Boundaries
<1> HIDE DEF n, next
<1>3. next # "Closed" => Fit(n)
  BY <1>1, <1>2 DEF Fit
<1> QED BY <1>1, <1>3 DEF n, next, Sent

\* A step of the application on its own active stream: it sends, within the limit.
LEMMA SentStep ==
    ASSUME IInv, NEW k \in Keys, IsActive(k), app[k.id] # "unseen", app[k.id] # "cancelled", Room(1),
           NEW frame \in Frames, NEW boundary \in Boundaries,
           Send(rec[k.slot].state, frame, boundary) \in States, NEW credit \in {"Open", "Stalled"},
           credit = "Open" => rec[k.slot].credit = "Open", used' = used + 1,
           Advance(k, [rec[k.slot] EXCEPT !.state = Send(rec[k.slot].state, frame, boundary),
                                          !.credit = credit]),
           NEW a \in Apps, a # "cancelled", a \in Sessions <=> app[k.id] \in Sessions,
           app' = [app EXCEPT ![k.id] = a],
           head' = NoHead \/ (head' = head /\ app[k.id] \notin {"head", "duplexHead"}),
           resets' = resets, barrier' = barrier, lastPeer' = lastPeer, pending' = pending,
           events' = events, mode' = mode, phase' = phase, peerResets' = peerResets, waiting' = waiting
    PROVE  IInv' /\ Forward
<1> DEFINE r == rec[k.slot]
           n == [r EXCEPT !.state = Send(r.state, frame, boundary), !.credit = credit]
<1>1. /\ Slab(rec, lastPeer) /\ Booked(rec, index, peerCount, resets) /\ Waked(rec, lastPeer, wakes, waiting)
      /\ Told(rec, lastPeer, events) /\ Owned(Mine(rec), events, app) /\ Silent(rec, lastPeer, events, app)
      /\ Headed(rec, head, app) /\ Len(events) <= EventCap /\ Reserved(resets, used, barrier, mode, phase)
  BY DEF IInv
<1>2. /\ k \in Of(rec, {"Active"}) /\ k \in Named(rec) /\ k.id \in Ids
      /\ Fit(r) /\ r.kind = "Active" /\ r.id = k.id /\ r.live \in Live
      /\ OwnedKey(r.live, k, events, app[k.id]) /\ (app[k.id] \in Sessions <=> r.live \in Duplexes)
      /\ r.live # "Initial" /\ app \in [Ids -> Apps]
  BY Heard
<1>3. /\ n.live = r.live /\ n.id = r.id /\ n.kind = "Active" /\ n.credit = credit
      /\ n.state # "Closed" => Fit(n)
  <2>1. Send(r.state, frame, boundary) \in States /\ r.live # "Initial" /\ Fit(r) /\ r.kind = "Active"
    BY <1>2
  <2>2. Sent(r, n, credit)
    <3> HIDE DEF r
    <3> QED BY <2>1, SentFits
  <2> QED BY <2>2 DEF Sent
<1>4. Advance(k, n)
  OBVIOUS
<1> HIDE DEF n
<1>5. /\ Booked(rec', index', peerCount', resets)
      /\ n.state = "Closed" => Left(k, Retire(r.live, FALSE))
      /\ n.state # "Closed" => Stayed(k, n)
  BY <1>1, <1>2, <1>3, <1>4, AdvanceFact
<1>6. Reserved(resets', used', barrier', mode', phase')
  <2>1. Reserved(resets, used', barrier, mode, phase)
    BY <1>1, ReservedRoom
  <2> QED BY <2>1
<1>7. ASSUME NEW gone, NEW touched, Less(rec, rec', gone, touched), gone \cup touched \subseteq {k}
      PROVE  Headed(rec', head', app')
  <2>1. CASE head' = NoHead
    BY <2>1 DEF Headed
  <2>2. CASE head' # NoHead
    <3>1. head' = head /\ head.key \in Of(rec, {"Active"}) /\ app[head.key.id] \in {"head", "duplexHead"}
      BY <1>1, <2>2 DEF Headed
    <3>2. head.key.id # k.id /\ head.key.id \in Ids
      BY <2>2, <3>1, KeyFact DEF Of
    <3>3. head.key # k /\ app'[head.key.id] = app[head.key.id]
      BY <1>2, <3>2
    <3>4. Awaited(rec, rec', gone, touched, head, app')
      BY <1>7, <3>1, <3>3 DEF Awaited
    <3>5. Headed(rec', head, app')
      BY <1>1, <1>7, <3>4, HeadedMove
    <3> QED BY <3>1, <3>5
  <2> QED BY <2>1, <2>2
<1>8. CASE n.state = "Closed"
  <2>1. Left(k, Retire(r.live, FALSE))
    BY <1>5, <1>8
  <2>2. Slab(rec', lastPeer) /\ Less(rec, rec', {k}, {}) /\ Waked(rec', lastPeer, wakes', waiting)
    BY <2>1 DEF Left
  <2>3. Told(rec', lastPeer, events') /\ Owned(Mine(rec'), events', app') /\ Silent(rec', lastPeer, events', app')
    BY <1>1, <1>2, <2>1, LeftQuiet
  <2>4. Headed(rec', head', app')
    BY <2>2, <1>7
  <2> QED BY <1>1, <1>5, <1>6, <2>2, <2>3, <2>4, AppInv
<1>9. CASE n.state # "Closed"
  <2>1. /\ Slab(rec', lastPeer) /\ Less(rec, rec', {}, {k}) /\ Waked(rec', lastPeer, wakes', waiting)
        /\ Mine(rec') = [Mine(rec) EXCEPT ![k] = r.live]
    BY <1>3, <1>5, <1>9 DEF Stayed
  <2>2. OwnedKey(r.live, k, events, a) /\ (a \in Sessions => r.live \in Duplexes)
    BY <1>2 DEF OwnedKey
  <2>3. Beyond(k, events, events)
    BY SameBeyond
  <2>4. Owned(Mine(rec'), events, app')
    BY <1>1, <1>2, <2>1, <2>2, <2>3, TurnOwned
  <2>5. Silent(rec', lastPeer, events, app') /\ Told(rec', lastPeer, events)
    BY <1>1, <1>2, <2>1, <2>3, TurnSilent, ToldLess
  <2>6. Headed(rec', head', app')
    BY <2>1, <1>7
  <2> QED BY <1>1, <1>5, <1>6, <2>1, <2>4, <2>5, <2>6, AppInv
<1> QED BY <1>8, <1>9

\* A retained head reaches the output (Headers::publish).
LEMMA StepCommitHead ==
    ASSUME IInv, CommitHead
    PROVE  IInv' /\ Forward
<1> DEFINE k == head.key
           r == rec[k.slot]
           b == head.boundary
           a == IF app[k.id] = "duplexHead" THEN "duplex" ELSE IF b = "End" THEN "done" ELSE "body"
<1>1. /\ head # NoHead /\ IsActive(k) /\ Room(1) /\ used' = used + 1 /\ head' = NoHead
      /\ Advance(k, [r EXCEPT !.state = Apply(b, r.state)])
      /\ resets' = resets /\ barrier' = barrier /\ lastPeer' = lastPeer /\ pending' = pending
      /\ events' = events /\ mode' = mode /\ phase' = phase /\ peerResets' = peerResets /\ waiting' = waiting
  BY DEF CommitHead
<1>2. /\ k \in Keys /\ b \in Boundaries /\ Send(r.state, "Headers", b) \in States
      /\ app[k.id] \in {"head", "duplexHead"}
  BY <1>1 DEF IInv, Headed, Of
<1>3. k.id \in Ids /\ app \in [Ids -> Apps] /\ Fit(r)
  BY <1>1, <1>2, Heard
<1>4. app' = [app EXCEPT ![k.id] = a]
  BY <1>3 DEF CommitHead
<1>5. /\ a \in Apps /\ a # "cancelled" /\ (a \in Sessions <=> app[k.id] \in Sessions)
      /\ app[k.id] # "unseen" /\ app[k.id] # "cancelled"
  BY <1>2 DEF Apps, Sessions
<1>6. "Headers" \in Frames /\ r \in Record /\ r.credit \in {"Open", "Stalled"} /\ r.state \in States
  BY <1>3 DEF Frames, Fit, Record
<1>7. Apply(b, r.state) = Send(r.state, "Headers", b)
  BY <1>2, <1>6, ApplyIsSend
<1>8. [r EXCEPT !.state = Apply(b, r.state)] =
          [r EXCEPT !.state = Send(r.state, "Headers", b), !.credit = r.credit]
  BY <1>6, <1>7 DEF Record
<1>9. Advance(k, [rec[k.slot] EXCEPT !.state = Send(rec[k.slot].state, "Headers", b), !.credit = r.credit])
  BY <1>1, <1>8
<1>10. r.credit = "Open" => rec[k.slot].credit = "Open"
  OBVIOUS
<1>11. Send(rec[k.slot].state, "Headers", b) \in States
  BY <1>2
<1> DEFINE credit == r.credit
<1>12. /\ credit \in {"Open", "Stalled"} /\ (credit = "Open" => rec[k.slot].credit = "Open")
       /\ Advance(k, [rec[k.slot] EXCEPT !.state = Send(rec[k.slot].state, "Headers", b), !.credit = credit])
  BY <1>6, <1>9, <1>10
<1> HIDE DEF k, b, a, credit
<1> QED BY <1>1, <1>2, <1>4, <1>5, <1>6, <1>11, <1>12, SentStep

\* DATA of an answer or a session keeps the invariant (Set::try_to).
LEMMA StepSendData ==
    ASSUME IInv, NEW k \in Keys, NEW boundary \in Boundaries, NEW credit \in {"Open", "Stalled"},
           SendData(k, boundary, credit)
    PROVE  IInv' /\ Forward
<1> DEFINE a == IF boundary = "End" /\ app[k.id] = "body" THEN "done" ELSE app[k.id]
<1>1. /\ app[k.id] \in {"body", "duplex"} /\ IsActive(k) /\ Room(1)
      /\ Send(rec[k.slot].state, "Data", boundary) \in States
      /\ rec[k.slot].credit = "Stalled" => credit = "Stalled"
      /\ used' = used + 1
      /\ Advance(k, [rec[k.slot] EXCEPT !.state = Send(@, "Data", boundary), !.credit = credit])
      /\ app' = IF boundary = "End" /\ app[k.id] = "body" THEN [app EXCEPT ![k.id] = "done"] ELSE app
      /\ resets' = resets /\ barrier' = barrier /\ lastPeer' = lastPeer /\ pending' = pending /\ head' = head
      /\ events' = events /\ mode' = mode /\ phase' = phase /\ peerResets' = peerResets /\ waiting' = waiting
  BY DEF SendData
<1>2. k.id \in Ids /\ app \in [Ids -> Apps] /\ Fit(rec[k.slot])
  BY <1>1, Heard
<1>3. app' = [app EXCEPT ![k.id] = a]
  BY <1>1, <1>2
<1>4. /\ a \in Apps /\ a # "cancelled" /\ (a \in Sessions <=> app[k.id] \in Sessions)
      /\ app[k.id] # "unseen" /\ app[k.id] # "cancelled" /\ app[k.id] \notin {"head", "duplexHead"}
  BY <1>1 DEF Apps, Sessions
<1>5. "Data" \in Frames /\ (credit = "Open" => rec[k.slot].credit = "Open")
  BY <1>1, <1>2 DEF Frames, Fit, Record
<1>6. Advance(k, [rec[k.slot] EXCEPT !.state = Send(rec[k.slot].state, "Data", boundary), !.credit = credit])
  BY <1>1
<1> HIDE DEF a
<1> QED BY <1>1, <1>3, <1>4, <1>5, <1>6, SentStep

\* A reset begun by the application may leave the chain waiting for output.
LEMMA ReservedApp ==
    ASSUME Reserved(resets, used, barrier, mode, phase), mode = "app", Flowed(used)
    PROVE  Reserved(resets', used', barrier', mode, phase)
  BY BoundsFact DEF Reserved, Flowed

\* Set::cancel keeps the invariant.
LEMMA StepCancel ==
    ASSUME IInv, NEW k \in Keys, Cancel(k)
    PROVE  IInv' /\ Forward
<1>1. /\ mode = "app" /\ app[k.id] \notin {"unseen", "cancelled"} /\ IsActive(k)
      /\ BeginReset(rec, k, FALSE) /\ DropHead(k.id)
      /\ lastPeer' = lastPeer /\ pending' = pending /\ events' = events /\ mode' = mode /\ phase' = phase
      /\ peerResets' = peerResets /\ app' = app /\ waiting' = waiting
  BY DEF Cancel, Idle
<1>2. /\ Slab(rec, lastPeer) /\ Booked(rec, index, peerCount, resets) /\ Waked(rec, lastPeer, wakes, waiting)
      /\ Told(rec, lastPeer, events) /\ Owned(Mine(rec), events, app) /\ Silent(rec, lastPeer, events, app)
      /\ Headed(rec, head, app) /\ Len(events) <= EventCap /\ Reserved(resets, used, barrier, mode, phase)
      /\ used \in Nat
  BY DEF IInv, Reserved
<1>3. /\ k \in Of(rec, {"Active"}) /\ k.id \in Ids /\ k.slot \in Slots /\ rec[k.slot].live \in Live
      /\ rec \in [Slots -> Record] /\ app \in [Ids -> Apps] /\ app[k.id] \in Apps
  BY <1>1, Heard
<1> DEFINE x == rec[k.slot]
<1>4. rec = [rec EXCEPT ![k.slot] = x] /\ x.live \in Live /\ FALSE \in BOOLEAN
  BY <1>3
<1> HIDE DEF x
<1>5. /\ Left(k, Retire(x.live, FALSE)) /\ Booked(rec', index', peerCount', resets')
      /\ Flowed(used)
  BY <1>1, <1>2, <1>3, <1>4, BeginResetFact
<1>6. Left(k, Retire(rec[k.slot].live, FALSE))
  BY <1>5 DEF x
<1>7. Reserved(resets', used', barrier', mode', phase')
  <2>1. Reserved(resets', used', barrier', mode, phase)
    BY <1>1, <1>2, <1>5, ReservedApp
  <2> QED BY <1>1, <2>1
<1> DEFINE a == app[k.id]
<1>8. app' = [app EXCEPT ![k.id] = a] /\ a \in Apps /\ a # "cancelled" /\ (a \in Sessions <=> app[k.id] \in Sessions)
  BY <1>1, <1>3
<1> HIDE DEF a
<1>9. Told(rec', lastPeer, events') /\ Owned(Mine(rec'), events', app') /\ Silent(rec', lastPeer, events', app')
  BY <1>1, <1>2, <1>3, <1>6, <1>8, LeftQuiet
<1>10. Slab(rec', lastPeer) /\ Less(rec, rec', {k}, {}) /\ Waked(rec', lastPeer, wakes', waiting)
  BY <1>6 DEF Left
<1>11. Headed(rec', head', app)
  BY <1>1, <1>2, <1>10, HeadedDrop
<1> QED BY <1>1, <1>2, <1>5, <1>7, <1>9, <1>10, <1>11, AppInv

-----------------------------------------------------------------------------
(* Owners let go. *)

\* w owns the slot after v, once the notice is given.
Eased(v, w, notice) ==
    /\ notice = "End" =>
          w \notin Ends \cup {"Initial"} /\ (w \in Resets <=> v \in Resets) /\ (w \in Duplexes <=> v \in Duplexes)
    /\ notice = "Reset" =>
          w \notin Ends \cup Resets \cup {"Initial"} /\ (w \in Duplexes <=> v \in Duplexes)
    /\ notice = "Duplex" =>
          w \notin Duplexes \cup {"Initial"} /\ (w \in Resets <=> v \in Resets) /\ (w \in Ends <=> v \in Ends)

\* r1 is what is left of the record r.
Remnant(r, r1) ==
    /\ Fit(r1)
    /\ \/ r1.id = r.id /\ r1.kind = r.kind /\ r1.state = r.state /\ r1.credit = r.credit
       \/ r1 = Free /\ r.kind = "Closed"

\* A record with another phase of its kind is one of its remnants.
LEMMA RemnantFact ==
    ASSUME NEW r, Fit(r), NEW w,
           \/ r.kind = "Active" /\ w \in Live /\ (w = "Initial" => r.live = "Initial")
              /\ (w \in Ends => r.live \in Ends)
           \/ r.kind = "Closed" /\ w \in Closed
           \/ r.kind = "Reset" /\ w \in Closed \cup {"None"}
    PROVE  Remnant(r, [r EXCEPT !.live = w]) /\ [r EXCEPT !.live = w].live = w
<1> DEFINE r1 == [r EXCEPT !.live = w]
<1>1. r \in Record /\ w # "Unreachable" /\ w \in Live \cup Closed \cup {"None"}
  BY DEF Fit, Live, Closed
<1>2. /\ r1 \in Record /\ r1.live = w /\ r1.id = r.id /\ r1.kind = r.kind /\ r1.state = r.state
      /\ r1.credit = r.credit
  BY <1>1 DEF Record
<1> HIDE DEF r1
<1>3. Fit(r1)
  BY <1>1, <1>2 DEF Fit, Ends
<1> QED BY <1>2, <1>3 DEF r1, Remnant

\* State::release gives up exactly what the notice was about.
LEMMA ReleasedFact ==
    ASSUME NEW r, Fit(r), r.kind # "Free", NEW notice \in {"End", "Reset", "Duplex"},
           notice = "End" => r.live \in Ends \cup Resets,
           notice = "Reset" => r.live \in Resets,
           notice = "Duplex" => r.live \in Duplexes
    PROVE  Remnant(r, Released(r, notice)) /\ Eased(r.live, Released(r, notice).live, notice)
<1>1. r.kind \in {"Active", "Closed", "Reset"} /\ r.live # "None"
  BY DEF Fit, Record, Ends, Resets, Duplexes
<1>2. CASE r.kind = "Active"
  <2> DEFINE w == ReleaseLive(r.live, notice)
  <2>1. Released(r, notice) = [r EXCEPT !.live = w]
    BY <1>2 DEF Released
  <2>2. r.live \in Live
    BY <1>2 DEF Fit
  <2>3. w \in Live /\ w # "Initial" /\ (w \in Ends => r.live \in Ends) /\ Eased(r.live, w, notice)
    BY <2>2 DEF ReleaseLive, Live, Ends, Resets, Duplexes, Eased
  <2> HIDE DEF w
  <2> QED BY <1>2, <2>1, <2>3, RemnantFact
<1>3. CASE r.kind # "Active"
  <2> DEFINE w == ReleaseOwner(r.live, notice)
  <2>1. r.live \in Closed
    BY <1>1, <1>3 DEF Fit
  <2>2. w \in Closed \cup {"None"} /\ Eased(r.live, w, notice)
    BY <2>1 DEF ReleaseOwner, Closed, Ends, Resets, Duplexes, Eased
  <2>3. CASE r.kind = "Closed" /\ w = "None"
    <3>1. Released(r, notice) = Free
      BY <1>3, <2>3 DEF Released
    <3> QED BY <2>2, <2>3, <3>1, FreeFits DEF Remnant
  <2>4. CASE ~(r.kind = "Closed" /\ w = "None")
    <3>1. Released(r, notice) = [r EXCEPT !.live = w]
      BY <1>1, <1>3, <2>4 DEF Released
    <3>2. (r.kind = "Closed" /\ w \in Closed) \/ (r.kind = "Reset" /\ w \in Closed \cup {"None"})
      BY <1>1, <1>3, <2>2, <2>4
    <3> HIDE DEF w
    <3> QED BY <2>2, <3>1, <3>2, RemnantFact
  <2> QED BY <2>3, <2>4
<1> QED BY <1>2, <1>3

\* Store::release of a record that is there.
LEMMA ReleaseFact ==
    ASSUME IInv, NEW k \in Named(rec), NEW notice, Remnant(rec[k.slot], Released(rec[k.slot], notice)),
           rec' = Release(k, notice)
    PROVE  Loosened(k, Released(rec[k.slot], notice))
<1>1. Slab(rec, lastPeer)
  BY DEF IInv
<1>2. rec[k.slot].kind # "Free" /\ rec[k.slot].id = k.id
  BY <1>1, OfFact
<1> DEFINE r == Released(rec[k.slot], notice)
<1>3. rec' = [rec EXCEPT ![k.slot] = r]
  BY <1>2 DEF Release
<1> HIDE DEF r
<1>4. Fit(r) /\ \/ r.id = k.id /\ r.kind = rec[k.slot].kind /\ r.state = rec[k.slot].state
                   /\ r.credit = rec[k.slot].credit
                \/ r = Free /\ rec[k.slot].kind = "Closed"
  BY <1>2 DEF r, Remnant
<1>5. Loosened(k, r)
  BY <1>3, <1>4, LooseFact
<1> QED BY <1>5 DEF r

\* A session ends and gives up its hold (response::discard).
LEMMA StepReleaseDuplex ==
    ASSUME IInv, NEW k \in Keys, ReleaseDuplex(k)
    PROVE  IInv' /\ Forward
<1>1. /\ app[k.id] \in Sessions /\ rec[k.slot].id = k.id /\ DropHead(k.id) /\ rec' = Release(k, "Duplex")
      /\ app' = [app EXCEPT ![k.id] = "done"]
      /\ index' = index /\ peerCount' = peerCount /\ wakes' = wakes /\ resets' = resets
      /\ used' = used /\ barrier' = barrier /\ lastPeer' = lastPeer /\ pending' = pending
      /\ events' = events /\ mode' = mode /\ phase' = phase /\ peerResets' = peerResets /\ waiting' = waiting
  BY DEF ReleaseDuplex, outVars, Sessions
<1>2. /\ Slab(rec, lastPeer) /\ Told(rec, lastPeer, events) /\ Owned(Mine(rec), events, app)
      /\ Silent(rec, lastPeer, events, app) /\ Headed(rec, head, app)
      /\ Len(events) <= EventCap /\ Reserved(resets, used, barrier, mode, phase)
  BY DEF IInv
<1>3. k \in Named(rec)
  BY <1>1 DEF Named
<1> DEFINE v == rec[k.slot].live
           r == Released(rec[k.slot], "Duplex")
<1>4. /\ OwnedKey(v, k, events, app[k.id]) /\ v \in Duplexes /\ k.id \in Ids
      /\ Fit(rec[k.slot]) /\ rec[k.slot].kind # "Free"
  BY <1>1, <1>2, <1>3, MineAt, OfFact
<1>5. Remnant(rec[k.slot], r) /\ Eased(v, r.live, "Duplex")
  BY <1>4, ReleasedFact
<1>6. Loosened(k, r)
  BY <1>1, <1>3, <1>5, ReleaseFact
<1> HIDE DEF r, v
<1>7. OwnedKey(r.live, k, events, "done")
  BY <1>4, <1>5 DEF OwnedKey, Eased
<1>8. /\ Mine(rec') = [Mine(rec) EXCEPT ![k] = r.live] /\ Less(rec, rec', {}, {k})
      /\ app \in [Ids -> Apps] /\ "done" \in Apps /\ "done" \notin Sessions /\ Beyond(k, events, events)
  BY <1>2, <1>6, SameBeyond DEF Loosened, Silent, Apps, Sessions
<1>9. Owned(Mine(rec'), events, app')
  BY <1>1, <1>2, <1>3, <1>7, <1>8, TurnOwned
<1>10. Silent(rec', lastPeer, events, app') /\ Told(rec', lastPeer, events)
  BY <1>1, <1>2, <1>3, <1>8, TurnSilent, ToldLess
<1>11. Headed(rec', head', app')
  <2>1. CASE head' = NoHead
    BY <2>1 DEF Headed
  <2>2. CASE head' # NoHead
    <3>1. head' = head /\ head.key.id # k.id
      BY <1>1, <2>2 DEF DropHead
    <3>2. head.key \in Of(rec, {"Active"}) /\ app[head.key.id] \in {"head", "duplexHead"}
      BY <1>2, <2>2, <3>1 DEF Headed
    <3>3. head.key # k /\ app'[head.key.id] = app[head.key.id]
      BY <1>1, <1>8, <3>1, <3>2, KeyFact DEF Of
    <3>4. Awaited(rec, rec', {}, {k}, head, app')
      BY <3>2, <3>3 DEF Awaited
    <3>5. Headed(rec', head, app')
      BY <1>2, <1>8, <3>4, HeadedMove
    <3> QED BY <3>1, <3>5
  <2> QED BY <2>1, <2>2
<1> QED BY <1>1, <1>2, <1>6, <1>8, <1>9, <1>10, <1>11, AppInv DEF Loosened

\* E1 has the terminal events of E and no others.
SameEnds(E, E1) ==
    /\ Elements(E1) \subseteq Elements(E)
    /\ \A j \in Keys, w \in {"End", "Reset"} : IsQueued(E1, j, w) <=> IsQueued(E, j, w)

\* The exchange of an event that is not the last of its stream is heard of.
LEMMA HeardOwned ==
    ASSUME NEW R, NEW n, Slab(R, n), NEW E, Told(R, n, E), NEW A, Owned(Mine(R), E, A), Silent(R, n, E, A),
           NEW e \in Elements(E), e.key \in Keys, NEW E1, SameEnds(E, E1),
           NEW A1, A1 = A \/ (A[e.key.id] = "unseen" /\ A1 = [A EXCEPT ![e.key.id] = "known"])
    PROVE  Owned(Mine(R), E1, A1) /\ Silent(R, n, E1, A1)
<1>1. e.key.id \in Ids /\ A \in [Ids -> Apps] /\ e.key.id <= n /\ n \in Nat /\ e.key.id \in Nat
  BY KeyFact DEF Silent, Told, Slab
<1>2. /\ A1 \in [Ids -> Apps]
      /\ \A id \in Ids : A1[id] = A[id] \/ (id = e.key.id /\ A[id] = "unseen" /\ A1[id] = "known")
  BY <1>1 DEF Apps
<1>3. ASSUME NEW j \in Keys PROVE OwnedKey(Mine(R)[j], j, E1, A1[j.id])
  <2>1. OwnedKey(Mine(R)[j], j, E, A[j.id]) /\ j.id \in Ids
    BY KeyFact DEF Owned
  <2>2. Mine(R)[j] = "Initial" => A1[j.id] = "unseen"
    <3> SUFFICES ASSUME Mine(R)[j] = "Initial", A1[j.id] # "unseen" PROVE FALSE
      OBVIOUS
    <3>1. j.id = e.key.id /\ \A x \in Elements(E) : x.key # j
      BY <1>2, <2>1 DEF OwnedKey
    <3>2. j \in Named(R)
      BY OfFact
    <3> QED BY <3>1, <3>2 DEF Told
  <2>3. Mine(R)[j] \in Duplexes => A1[j.id] \in Sessions
    BY <1>2, <2>1 DEF OwnedKey, Sessions
  <2>4. IsQueued(E1, j, "End") <=> IsQueued(E, j, "End")
    BY DEF SameEnds
  <2>5. IsQueued(E1, j, "Reset") <=> IsQueued(E, j, "Reset")
    BY DEF SameEnds
  <2> QED BY <2>1, <2>2, <2>3, <2>4, <2>5 DEF OwnedKey, SameEnds
<1>4. ASSUME NEW id \in Ids, A1[id] \in Sessions PROVE \E k \in Keys : k.id = id /\ Mine(R)[k] \in Duplexes
  <2>1. A[id] \in Sessions
    BY <1>2, <1>4 DEF Sessions
  <2> QED BY <2>1 DEF Owned
<1>5. Owned(Mine(R), E1, A1)
  BY <1>3, <1>4 DEF Owned
<1>6. \A id \in Ids : A1[id] = "cancelled" => A[id] = "cancelled"
  BY <1>2
<1>7. \A id \in Ids : id > n => A1[id] = "unseen"
  BY <1>1, <1>2, KeyFact DEF Silent
<1>8. \A k \in Of(R, {"Active"}) : A1[k.id] # "cancelled"
  <2>1. \A k \in Of(R, {"Active"}) : k.id \in Ids
    BY KeyFact DEF Of
  <2> QED BY <1>6, <2>1 DEF Silent
<1>9. \A x \in Elements(E1) : x.key # None => A1[x.key.id] # "cancelled"
  <2> SUFFICES ASSUME NEW x \in Elements(E1), x.key # None PROVE A1[x.key.id] # "cancelled"
    OBVIOUS
  <2>1. x \in Elements(E) /\ E \in Seq(Event)
    BY DEF Told, SameEnds
  <2>2. x \in Event
    BY <2>1 DEF Elements
  <2>3. x.key.id \in Ids
    BY <2>2, KeyFact DEF Event
  <2> QED BY <1>6, <2>1, <2>3 DEF Silent
<1> QED BY <1>2, <1>5, <1>7, <1>8, <1>9 DEF Silent

\* The application may have heard of id for the first time.
Learned(A, A1, id) == A1 = A \/ (A[id] = "unseen" /\ A1 = [A EXCEPT ![id] = "known"])

\* The head's exchange is not one that hears of its stream for the first time.
LEMMA HeadedHeard ==
    ASSUME NEW R, NEW R1, NEW k, Less(R, R1, {}, {k}), NEW h, NEW A \in [Ids -> Apps], Headed(R, h, A),
           k \in Of(R1, {"Active"}) => R1[k.slot].state = R[k.slot].state,
           NEW id \in Ids, NEW A1, Learned(A, A1, id)
    PROVE  Headed(R1, h, A1)
<1>1. CASE h = NoHead
  BY <1>1 DEF Headed
<1>2. CASE h # NoHead
  <2>1. h.key \in Of(R, {"Active"}) /\ A[h.key.id] \in {"head", "duplexHead"} /\ h.key \in Of(R1, {"Active"})
    BY <1>2 DEF Headed, Less
  <2>2. A1[h.key.id] = A[h.key.id]
    BY <2>1, KeyFact DEF Of, Learned
  <2>3. Awaited(R, R1, {}, {k}, h, A1)
    BY <2>1, <2>2 DEF Awaited
  <2> QED BY <2>3, HeadedMove
<1> QED BY <1>1, <1>2

\* The next event is taken and no record is released.
LEMMA TakeMore ==
    ASSUME IInv, events # <<>>, events' = Tail(events), Head(events).what \notin {"End", "Reset"}, rec' = rec,
           app' = (IF Head(events).what \in {"More", "End"} /\ app[Head(events).key.id] = "unseen"
                   THEN [app EXCEPT ![Head(events).key.id] = "known"] ELSE app)
    PROVE  /\ Told(rec', lastPeer, events') /\ Owned(Mine(rec'), events', app')
           /\ Silent(rec', lastPeer, events', app') /\ Headed(rec', head, app') /\ Less(rec, rec', {}, {})
<1> DEFINE e == Head(events)
<1>1. /\ Slab(rec, lastPeer) /\ Told(rec, lastPeer, events) /\ Owned(Mine(rec), events, app)
      /\ Silent(rec, lastPeer, events, app) /\ Headed(rec, head, app) /\ app \in [Ids -> Apps]
  BY DEF IInv, Silent
<1>2. /\ Told(rec, lastPeer, events') /\ e \in Event /\ e \in Elements(events)
      /\ Elements(events) = Elements(events') \cup {e}
  BY <1>1, ToldTail
<1>3. e.what \notin {"End", "Reset"} /\ (e.key = None <=> e.what = "Settings")
      /\ app' = IF e.what \in {"More", "End"} /\ app[e.key.id] = "unseen" THEN [app EXCEPT ![e.key.id] = "known"] ELSE app
  BY <1>1, <1>2 DEF Told
<1> HIDE DEF e
<1>4. \A j \in Keys, w \in {"End", "Reset"} : IsQueued(events', j, w) <=> IsQueued(events, j, w)
  BY <1>2, <1>3 DEF IsQueued
<1>5. Elements(events') \subseteq Elements(events)
  BY <1>2
<1>6. Less(rec, rec, {}, {})
  BY LessSame
<1>7. CASE e.what = "Settings"
  <2>1. app' = app
    BY <1>3, <1>7
  <2>2. Owned(Mine(rec), events', app)
    BY <1>1, <1>4, <1>5 DEF Owned, OwnedKey
  <2>3. Silent(rec, lastPeer, events', app)
    BY <1>1, <1>5 DEF Silent
  <2> QED BY <1>1, <1>2, <1>6, <2>1, <2>2, <2>3
<1>8. CASE e.what # "Settings"
  <2>1. e.key \in Keys /\ e.key.id \in Ids
    BY <1>2, <1>3, <1>8, KeyFact DEF Event
  <2>2. app' = app \/ (app[e.key.id] = "unseen" /\ app' = [app EXCEPT ![e.key.id] = "known"])
    BY <1>3
  <2>3. SameEnds(events, events')
    BY <1>4, <1>5 DEF SameEnds
  <2>5. Owned(Mine(rec), events', app') /\ Silent(rec, lastPeer, events', app')
    BY <1>1, <1>2, <2>1, <2>2, <2>3, HeardOwned, ZenonT(40)
  <2>4. Headed(rec, head, app')
    <3> DEFINE A1 == app'
               R1 == rec'
               k == e.key
    <3>1. Less(rec, R1, {}, {k}) /\ Learned(app, A1, k.id) /\ k.id \in Ids
      BY <2>1, <2>2 DEF Less, Learned
    <3>2. k \in Of(R1, {"Active"}) => R1[k.slot].state = rec[k.slot].state
      OBVIOUS
    <3> HIDE DEF A1, R1, k
    <3>3. Headed(R1, head, A1)
      BY <1>1, <3>1, <3>2, HeadedHeard
    <3> QED BY <3>3 DEF A1, R1
  <2> QED BY <1>2, <1>6, <2>5, <2>4
<1> QED BY <1>7, <1>8

\* The last event of a stream is taken, and the record it kept is released.
LEMMA TakeLast ==
    ASSUME IInv, events # <<>>, events' = Tail(events), Head(events).what \in {"End", "Reset"},
           rec' = Release(Head(events).key, Head(events).what),
           app' = (IF Head(events).what \in {"More", "End"} /\ app[Head(events).key.id] = "unseen"
                   THEN [app EXCEPT ![Head(events).key.id] = "known"] ELSE app)
    PROVE  /\ Slab(rec', lastPeer) /\ Booked(rec', index, peerCount, resets)
           /\ Waked(rec', lastPeer, wakes, waiting)
           /\ Told(rec', lastPeer, events') /\ Owned(Mine(rec'), events', app')
           /\ Silent(rec', lastPeer, events', app') /\ Headed(rec', head, app')
           /\ Less(rec, rec', {}, {Head(events).key})
<1> DEFINE e == Head(events)
           k == e.key
           v == rec[k.slot].live
           r == Released(rec[k.slot], e.what)
           a == IF e.what = "End" /\ app[k.id] = "unseen" THEN "known" ELSE app[k.id]
<1>1. /\ Slab(rec, lastPeer) /\ Told(rec, lastPeer, events) /\ Owned(Mine(rec), events, app)
      /\ Silent(rec, lastPeer, events, app) /\ Headed(rec, head, app) /\ app \in [Ids -> Apps]
  BY DEF IInv, Silent
<1>2. /\ Told(rec, lastPeer, events') /\ e \in Event /\ e \in Elements(events)
      /\ Elements(events) = Elements(events') \cup {e} /\ e \notin Elements(events')
      /\ \A x \in Elements(events') : Follows(e, x)
  BY <1>1, ToldTail
<1>3. k \in Keys /\ k.id \in Ids /\ k # None /\ e = [key |-> k, what |-> e.what]
  BY <1>1, <1>2, KeyFact DEF Told, Event
<1>4. e.what \in {"End", "Reset"} /\ rec' = Release(k, e.what)
      /\ app' = [app EXCEPT ![k.id] = a]
  BY <1>1, <1>3
<1>5. OwnedKey(Mine(rec)[k], k, events, app[k.id]) /\ IsQueued(events, k, e.what)
  BY <1>1, <1>2, <1>3 DEF Owned, IsQueued
<1>6. Mine(rec)[k] # "None"
  BY <1>4, <1>5 DEF OwnedKey, Ends, Resets
<1>7. k \in Named(rec) /\ Mine(rec)[k] = v /\ rec[k.slot].kind # "Free" /\ Fit(rec[k.slot])
  BY <1>1, <1>3, <1>6, OfFact
<1>8. /\ OwnedKey(v, k, events, app[k.id]) /\ (app[k.id] \in Sessions => v \in Duplexes)
      /\ e.what = "End" => v \in Ends \cup Resets
      /\ e.what = "Reset" => v \in Resets
  BY <1>1, <1>4, <1>5, <1>7, MineAt DEF OwnedKey
<1>9. Remnant(rec[k.slot], r) /\ Eased(v, r.live, e.what)
  BY <1>4, <1>7, <1>8, ReleasedFact
<1>10. Loosened(k, r)
  BY <1>4, <1>7, <1>9, ReleaseFact
<1> HIDE DEF r, v, k, e
<1>11. /\ ~IsQueued(events', k, e.what)
       /\ e.what = "End" => (IsQueued(events', k, "Reset") <=> IsQueued(events, k, "Reset"))
       /\ e.what = "Reset" => ~IsQueued(events', k, "End")
  <2>1. ~IsQueued(events', k, e.what)
    BY <1>2, <1>3 DEF IsQueued
  <2>2. ASSUME e.what = "End" PROVE IsQueued(events', k, "Reset") <=> IsQueued(events, k, "Reset")
    <3>1. [key |-> k, what |-> "Reset"] # e
      BY <2>2
    <3> QED BY <1>2, <3>1 DEF IsQueued
  <2>3. ASSUME e.what = "Reset", IsQueued(events', k, "End") PROVE FALSE
    <3> DEFINE x == [key |-> k, what |-> "End"]
    <3>1. Follows(e, x) /\ x.key = k
      BY <1>2, <2>3 DEF IsQueued
    <3> QED BY <1>3, <2>3, <3>1 DEF Follows, k
  <2> QED BY <2>1, <2>2, <2>3
<1>12. Beyond(k, events, events')
  <2>1. ASSUME NEW j \in Keys \ {k}, NEW w \in {"End", "Reset"}
        PROVE  IsQueued(events', j, w) <=> IsQueued(events, j, w)
    <3>1. [key |-> j, what |-> w] # e
      BY DEF k
    <3> QED BY <1>2, <3>1 DEF IsQueued
  <2> QED BY <1>2, <2>1 DEF Beyond
<1>13. a \in Apps /\ a # "cancelled" /\ (a \in Sessions <=> app[k.id] \in Sessions)
  <2>1. app[k.id] # "cancelled" /\ app[k.id] \in Apps
    BY <1>1, <1>2, <1>3 DEF Silent, k
  <2> QED BY <2>1 DEF Apps, Sessions
<1>14. OwnedKey(r.live, k, events', a) /\ (a \in Sessions => r.live \in Duplexes)
  <2>1. CASE e.what = "End"
    <3>1. /\ r.live \notin Ends /\ r.live # "Initial" /\ (r.live \in Resets <=> v \in Resets)
          /\ (r.live \in Duplexes <=> v \in Duplexes)
      BY <1>9, <2>1 DEF Eased
    <3>2. ~IsQueued(events', k, "End") /\ (IsQueued(events', k, "Reset") <=> IsQueued(events, k, "Reset"))
      BY <1>11, <2>1
    <3> HIDE DEF a
    <3> QED BY <1>8, <1>13, <3>1, <3>2 DEF OwnedKey
  <2>2. CASE e.what = "Reset"
    <3>1. /\ r.live \notin Ends /\ r.live # "Initial" /\ r.live \notin Resets
          /\ (r.live \in Duplexes <=> v \in Duplexes)
      BY <1>9, <2>2 DEF Eased
    <3>2. ~IsQueued(events', k, "End") /\ ~IsQueued(events', k, "Reset")
      BY <1>11, <2>2
    <3> HIDE DEF a
    <3> QED BY <1>8, <1>13, <3>1, <3>2 DEF OwnedKey
  <2> QED BY <1>4, <2>1, <2>2
<1>15. app' = app \/ (app[k.id] = "unseen" /\ app' = [app EXCEPT ![k.id] = "known"])
  BY <1>1, <1>3, <1>4
<1> HIDE DEF a
<1>16. /\ Mine(rec') = [Mine(rec) EXCEPT ![k] = r.live] /\ Less(rec, rec', {}, {k}) /\ Slab(rec', lastPeer)
       /\ Booked(rec', index, peerCount, resets) /\ Waked(rec', lastPeer, wakes, waiting)
       /\ k \in Of(rec', {"Active"}) => rec'[k.slot].state = rec[k.slot].state
  BY <1>10 DEF Loosened
<1> DEFINE R1 == rec'
           E1 == events'
           A1 == app'
<1>17. /\ Mine(R1) = [Mine(rec) EXCEPT ![k] = r.live] /\ Less(rec, R1, {}, {k})
       /\ A1 = [app EXCEPT ![k.id] = a] /\ OwnedKey(r.live, k, E1, a) /\ Beyond(k, events, E1)
       /\ Told(rec, lastPeer, E1)
       /\ Learned(app, A1, k.id)
  BY <1>2, <1>4, <1>12, <1>14, <1>15, <1>16 DEF Learned
<1>18. k \in Of(R1, {"Active"}) => R1[k.slot].state = rec[k.slot].state
  BY <1>16
<1> HIDE DEF R1, E1, A1
<1>19. Owned(Mine(R1), E1, A1)
  BY <1>1, <1>7, <1>13, <1>14, <1>17, TurnOwned
<1>20. Silent(R1, lastPeer, E1, A1) /\ Told(R1, lastPeer, E1)
  BY <1>1, <1>7, <1>13, <1>17, TurnSilent, ToldLess
<1>21. Headed(R1, head, A1)
  BY <1>1, <1>3, <1>17, <1>18, HeadedHeard
<1> QED BY <1>16, <1>19, <1>20, <1>21 DEF k, e, R1, E1, A1

\* Taking an event keeps the invariant (ready::take).
LEMMA StepTakeEvent ==
    ASSUME IInv, TakeEvent
    PROVE  IInv' /\ Forward
<1> DEFINE e == Head(events)
<1>1. /\ events # <<>> /\ events' = Tail(events)
      /\ rec' = IF e.what \in {"End", "Reset"} THEN Release(e.key, e.what) ELSE rec
      /\ app' = IF e.what \in {"More", "End"} /\ app[e.key.id] = "unseen"
                THEN [app EXCEPT ![e.key.id] = "known"] ELSE app
      /\ index' = index /\ peerCount' = peerCount /\ wakes' = wakes /\ resets' = resets
      /\ used' = used /\ barrier' = barrier /\ lastPeer' = lastPeer /\ pending' = pending
      /\ head' = head /\ mode' = mode /\ phase' = phase /\ peerResets' = peerResets /\ waiting' = waiting
  BY DEF TakeEvent, outVars
<1>2. /\ Slab(rec, lastPeer) /\ Booked(rec, index, peerCount, resets) /\ Waked(rec, lastPeer, wakes, waiting)
      /\ Told(rec, lastPeer, events) /\ Len(events) <= EventCap /\ Reserved(resets, used, barrier, mode, phase)
  BY DEF IInv
<1>3. Len(events') <= EventCap
  <2>1. events \in Seq(Event)
    BY <1>2 DEF Told
  <2>2. Len(events') = Len(events) - 1 /\ Len(events) \in Nat
    BY <1>1, <2>1
  <2> QED BY <1>2, <2>2, BoundsFact
<1>4. CASE e.what \in {"End", "Reset"}
  <2>1. rec' = Release(e.key, e.what)
    BY <1>1, <1>4
  <2>2. /\ Slab(rec', lastPeer) /\ Booked(rec', index, peerCount, resets)
        /\ Waked(rec', lastPeer, wakes, waiting)
        /\ Told(rec', lastPeer, events') /\ Owned(Mine(rec'), events', app')
        /\ Silent(rec', lastPeer, events', app') /\ Headed(rec', head, app')
        /\ Less(rec, rec', {}, {e.key})
    BY <1>1, <1>4, <2>1, TakeLast
  <2> HIDE DEF e
  <2> QED BY <1>1, <1>2, <1>3, <2>2, AppInv
<1>5. CASE e.what \notin {"End", "Reset"}
  <2>1. rec' = rec
    BY <1>1, <1>5
  <2>2. /\ Told(rec', lastPeer, events') /\ Owned(Mine(rec'), events', app')
        /\ Silent(rec', lastPeer, events', app') /\ Headed(rec', head, app') /\ Less(rec, rec', {}, {})
    BY <1>1, <1>5, <2>1, TakeMore
  <2>3. Slab(rec', lastPeer) /\ Booked(rec', index, peerCount, resets) /\ Waked(rec', lastPeer, wakes, waiting)
    BY <1>2, <2>1
  <2> HIDE DEF e
  <2> QED BY <1>1, <1>2, <1>3, <2>2, <2>3, AppInv
<1> QED BY <1>4, <1>5

\* E1 is without the events of k.
Without(E, E1, k) == Elements(E1) = {e \in Elements(E) : e.key # k}

\* The application and the queue agree on the slab R.
Agreed(R, n, E, A) == Told(R, n, E) /\ Owned(Mine(R), E, A) /\ Silent(R, n, E, A)

\* The events of k are gone, its slot is nobody's and it is no longer active: the
\* application may be cut off from it.
LEMMA CutOff ==
    ASSUME NEW R, NEW n, Slab(R, n), NEW E, NEW A, Agreed(R, n, E, A),
           NEW k \in Named(R), NEW R1, NEW gone, Less(R, R1, gone, {}), k \notin Of(R1, {"Active"}),
           Mine(R1) = [Mine(R) EXCEPT ![k] = "None"],
           NEW E1, Told(R, n, E1), Without(E, E1, k),
           NEW A1, A1 = [A EXCEPT ![k.id] = "cancelled"]
    PROVE  Agreed(R1, n, E1, A1)
<1> USE DEF Agreed
<1>1. A \in [Ids -> Apps] /\ k \in Keys /\ k.id \in Ids /\ k.id <= n /\ n \in Nat /\ k.id \in Nat
  BY KeyFact DEF Silent, Named, Slab
<1>2. Beyond(k, E, E1)
  BY DEF Beyond, IsQueued, Without
<1>3. \A w : ~IsQueued(E1, k, w)
  BY DEF IsQueued, Without
<1>4. OwnedKey("None", k, E1, "cancelled")
  BY <1>3 DEF OwnedKey, Ends, Resets, Duplexes
<1>5. "cancelled" \in Apps /\ "cancelled" \notin Sessions
  BY DEF Apps, Sessions
<1>6. Owned(Mine(R1), E1, A1)
  BY <1>1, <1>2, <1>4, <1>5, TurnOwned
<1>7. Told(R1, n, E1)
  BY ToldLess
<1>8. A1 \in [Ids -> Apps] /\ \A id \in Ids : A1[id] = IF id = k.id THEN "cancelled" ELSE A[id]
  BY <1>1, <1>5
<1>9. \A id \in Ids : id > n => A1[id] = "unseen"
  BY <1>1, <1>8, KeyFact DEF Silent
<1>10. ASSUME NEW j \in Of(R1, {"Active"}) PROVE A1[j.id] # "cancelled"
  <2>1. j \in Of(R, {"Active"}) /\ j \in Named(R) /\ j.id \in Ids
    BY KeyFact DEF Less, Of, Named
  <2>2. j.id # k.id
    BY <2>1 DEF Slab
  <2> QED BY <1>8, <2>1, <2>2 DEF Silent
<1>11. ASSUME NEW e \in Elements(E1), e.key # None PROVE A1[e.key.id] # "cancelled"
  <2>1. e \in Elements(E) /\ e.key # k
    BY DEF Without
  <2>4. e \in Event
    BY DEF Told, Elements
  <2>2. e.key.id \in Ids
    BY <1>11, <2>4, KeyFact DEF Event
  <2>3. e.key.id # k.id
    BY <2>1 DEF Told
  <2> QED BY <1>8, <1>11, <2>1, <2>2, <2>3 DEF Silent
<1> QED BY <1>6, <1>7, <1>8, <1>9, <1>10, <1>11 DEF Silent

\* Of a stream the application has not answered, nobody is left once its events are
\* withdrawn.
LEMMA CancelledFact ==
    ASSUME NEW r, Fit(r), r.kind # "Free", r.live \notin Duplexes
    PROVE  /\ r.kind # "Active" => Remnant(r, Released(r, "Cancel")) /\ Released(r, "Cancel").live = "None"
           /\ r.kind = "Active" => /\ Released(r, "Cancel").live \in Live
                                   /\ Retire(Released(r, "Cancel").live, FALSE) = "None"
<1>1. r \in Record /\ r.kind \in {"Active", "Closed", "Reset"}
  BY DEF Fit, Record
<1>2. CASE r.kind = "Active"
  <2> DEFINE w == ReleaseLive(r.live, "Cancel")
  <2>1. Released(r, "Cancel") = [r EXCEPT !.live = w]
    BY <1>2 DEF Released
  <2>2. r.live \in {"Initial", "Trailing", "End"}
    BY <1>2 DEF Fit, Live, Duplexes
  <2>3. w \in {"Initial", "Trailing"}
    BY <2>2 DEF ReleaseLive
  <2> HIDE DEF w
  <2>4. Released(r, "Cancel").live = w
    BY <1>1, <2>1 DEF Record
  <2> QED BY <1>2, <2>3, <2>4 DEF Retire, Live
<1>3. CASE r.kind = "Closed"
  <2>1. r.live \in {"End", "Reset"}
    BY <1>3 DEF Fit, Closed, Duplexes
  <2>2. ReleaseOwner(r.live, "Cancel") = "None"
    BY <2>1 DEF ReleaseOwner
  <2>3. Released(r, "Cancel") = Free
    BY <1>3, <2>2 DEF Released
  <2> QED BY <1>3, <2>3, FreeFits DEF Remnant
<1>4. CASE r.kind = "Reset"
  <2>1. r.live \in {"End", "Reset", "None"}
    BY <1>4 DEF Fit, Closed, Duplexes
  <2>2. CASE r.live = "None"
    <3>1. Released(r, "Cancel") = r
      BY <1>4, <2>2 DEF Released
    <3> QED BY <1>4, <2>2, <3>1 DEF Remnant
  <2>3. CASE r.live # "None"
    <3>1. ReleaseOwner(r.live, "Cancel") = "None"
      BY <2>1, <2>3 DEF ReleaseOwner
    <3>2. Released(r, "Cancel") = [r EXCEPT !.live = "None"]
      BY <1>4, <2>3, <3>1 DEF Released
    <3> DEFINE w == "None"
    <3>3. r.kind = "Reset" /\ w \in Closed \cup {"None"} /\ Released(r, "Cancel") = [r EXCEPT !.live = w]
      BY <1>4, <3>2
    <3>4. Remnant(r, [r EXCEPT !.live = w]) /\ [r EXCEPT !.live = w].live = w
      <4> HIDE DEF w
      <4> QED BY <3>3, RemnantFact
    <3> QED BY <1>4, <3>3, <3>4
  <2> QED BY <2>2, <2>3
<1> QED BY <1>1, <1>2, <1>3, <1>4

\* What cancel_ingress does to the record of k.
Cut(k) ==
    /\ Slab(rec', lastPeer) /\ Booked(rec', index', peerCount', resets')
    /\ Mine(rec') = [Mine(rec) EXCEPT ![k] = "None"] /\ k \notin Of(rec', {"Active"})
    /\ Waked(rec', lastPeer, wakes', waiting)
    /\ Reserved(resets', used', barrier', mode, phase)
    /\ \E gone \in SUBSET {k} : Less(rec, rec', gone, {})
    /\ head' = NoHead \/ (head' = head /\ head.key # k)

\* The record of k is cut off whatever it is.
LEMMA CutKeeps ==
    ASSUME IInv, mode = "app", NEW k \in Named(rec), rec[k.slot].live \notin Duplexes,
           IF rec[k.slot].kind = "Active"
           THEN BeginReset(Release(k, "Cancel"), k, FALSE) /\ DropHead(k.id)
           ELSE /\ rec' = Release(k, "Cancel")
                /\ index' = index /\ peerCount' = peerCount /\ wakes' = wakes /\ resets' = resets
                /\ used' = used /\ barrier' = barrier /\ head' = head
    PROVE  Cut(k)
<1>1. /\ Slab(rec, lastPeer) /\ Booked(rec, index, peerCount, resets) /\ Waked(rec, lastPeer, wakes, waiting)
      /\ Headed(rec, head, app) /\ Reserved(resets, used, barrier, mode, phase) /\ used \in Nat
  BY DEF IInv, Reserved
<1>2. /\ rec[k.slot].kind # "Free" /\ Fit(rec[k.slot]) /\ rec[k.slot].id = k.id
      /\ k \in Of(rec, {"Active"}) <=> rec[k.slot].kind = "Active"
  BY <1>1, OfFact
<1> DEFINE x == Released(rec[k.slot], "Cancel")
<1>3. /\ rec[k.slot].kind # "Active" => Remnant(rec[k.slot], x) /\ x.live = "None"
      /\ rec[k.slot].kind = "Active" => x.live \in Live /\ Retire(x.live, FALSE) = "None"
  BY <1>2, CancelledFact
<1>4. Release(k, "Cancel") = [rec EXCEPT ![k.slot] = x]
  BY <1>2 DEF Release
<1>5. CASE rec[k.slot].kind = "Active"
  <2> DEFINE recs == Release(k, "Cancel")
  <2>1. /\ k \in Of(rec, {"Active"}) /\ x.live \in Live /\ Retire(x.live, FALSE) = "None"
        /\ BeginReset(recs, k, FALSE) /\ DropHead(k.id) /\ FALSE \in BOOLEAN
        /\ recs = [rec EXCEPT ![k.slot] = x]
    BY <1>2, <1>3, <1>4, <1>5
  <2> HIDE DEF x, recs
  <2>2. /\ Left(k, Retire(x.live, FALSE)) /\ Booked(rec', index', peerCount', resets') /\ Flowed(used)
    BY <1>1, <2>1, BeginResetFact
  <2>3. Left(k, "None")
    BY <2>1, <2>2
  <2>4. Reserved(resets', used', barrier', mode, phase)
    BY <1>1, <2>2, ReservedApp
  <2>5. /\ Slab(rec', lastPeer) /\ Less(rec, rec', {k}, {}) /\ Waked(rec', lastPeer, wakes', waiting)
        /\ Mine(rec') = [Mine(rec) EXCEPT ![k] = "None"] /\ k \notin Of(rec', {"Active"})
    BY <2>3 DEF Left, Less
  <2>6. head' = NoHead \/ (head' = head /\ head.key # k)
    BY <2>1 DEF DropHead
  <2> QED BY <2>2, <2>4, <2>5, <2>6 DEF Cut
<1>6. CASE rec[k.slot].kind # "Active"
  <2>1. /\ rec' = Release(k, "Cancel")
        /\ index' = index /\ peerCount' = peerCount /\ wakes' = wakes /\ resets' = resets
        /\ used' = used /\ barrier' = barrier /\ head' = head
    BY <1>6
  <2>2. Remnant(rec[k.slot], x) /\ x.live = "None" /\ k \notin Of(rec, {"Active"})
    BY <1>2, <1>3, <1>6
  <2>3. Loosened(k, x)
    BY <2>1, <2>2, ReleaseFact
  <2> HIDE DEF x
  <2>4. /\ Slab(rec', lastPeer) /\ Booked(rec', index', peerCount', resets')
        /\ Mine(rec') = [Mine(rec) EXCEPT ![k] = "None"] /\ Waked(rec', lastPeer, wakes', waiting)
        /\ Less(rec, rec', {}, {k})
    BY <2>1, <2>2, <2>3 DEF Loosened
  <2>5. k \notin Of(rec', {"Active"}) /\ Less(rec, rec', {}, {})
    BY <2>2, <2>4 DEF Less
  <2>6. Reserved(resets', used', barrier', mode, phase)
    BY <1>1, <2>1
  <2>7. head' = NoHead \/ (head' = head /\ head.key # k)
    BY <1>1, <2>1, <2>2 DEF Headed
  <2> QED BY <2>4, <2>5, <2>6, <2>7 DEF Cut
<1> QED BY <1>5, <1>6

\* Connection::cancel_ingress keeps the invariant.
LEMMA StepCancelIngress ==
    ASSUME IInv, NEW k \in Keys, CancelIngress(k)
    PROVE  IInv' /\ Forward
<1>1. /\ mode = "app" /\ app[k.id] \in {"unseen", "known"}
      /\ IsActive(k) \/ IsKey(k, "Closed") \/ IsKey(k, "Reset")
      /\ events' = Withdrawn(k)
      /\ IF IsActive(k)
         THEN BeginReset(Release(k, "Cancel"), k, FALSE) /\ DropHead(k.id)
         ELSE /\ rec' = Release(k, "Cancel")
              /\ index' = index /\ peerCount' = peerCount /\ wakes' = wakes /\ resets' = resets
              /\ used' = used /\ barrier' = barrier /\ head' = head
      /\ app' = [app EXCEPT ![k.id] = "cancelled"]
      /\ lastPeer' = lastPeer /\ pending' = pending /\ mode' = mode /\ phase' = phase
      /\ peerResets' = peerResets /\ waiting' = waiting
  BY DEF CancelIngress, Idle, outVars
<1>2. /\ Slab(rec, lastPeer) /\ Told(rec, lastPeer, events) /\ Owned(Mine(rec), events, app)
      /\ Silent(rec, lastPeer, events, app) /\ Headed(rec, head, app) /\ Len(events) <= EventCap
      /\ app \in [Ids -> Apps] /\ events \in Seq(Event)
  BY DEF IInv, Silent, Told
<1>3. k \in Named(rec) /\ rec[k.slot].id = k.id /\ (IsActive(k) <=> rec[k.slot].kind = "Active")
  BY <1>1 DEF Named, IsActive, IsKey
<1>4. rec[k.slot].live \notin Duplexes
  BY <1>1, <1>2, <1>3, MineAt DEF OwnedKey, Sessions
<1>5. Cut(k)
  BY <1>1, <1>3, <1>4, CutKeeps
<1> DEFINE D == {e \in Elements(events) : e.key = k}
           E1 == events'
<1>6. E1 = Drop(events, D)
  BY <1>1, <1>2, SiftedDrop DEF Withdrawn, EventsOf
<1> HIDE DEF D, E1
<1>7. Told(rec, lastPeer, E1) /\ Elements(E1) = Elements(events) \ D /\ Len(E1) <= Len(events)
  BY <1>2, <1>6, ToldDrop
<1>8. Without(events, E1, k)
  BY <1>7 DEF D, Without
<1>9. Len(E1) <= EventCap
  <2>1. E1 \in Seq(Event)
    BY <1>7 DEF Told
  <2>2. Len(E1) \in Nat /\ Len(events) \in Nat
    BY <1>2, <2>1
  <2> QED BY <1>2, <1>7, <2>2, BoundsFact
<1>10. PICK gone \in SUBSET {k} : Less(rec, rec', gone, {})
  BY <1>5 DEF Cut
<1> DEFINE R1 == rec'
           A1 == app'
<1>11. /\ Less(rec, R1, gone, {}) /\ k \notin Of(R1, {"Active"}) /\ Mine(R1) = [Mine(rec) EXCEPT ![k] = "None"]
       /\ A1 = [app EXCEPT ![k.id] = "cancelled"]
  BY <1>1, <1>5, <1>10 DEF Cut
<1> HIDE DEF R1, A1
<1>12. Agreed(R1, lastPeer, E1, A1)
  <2>1. Agreed(rec, lastPeer, events, app)
    BY <1>2 DEF Agreed
  <2> QED BY <1>2, <1>3, <1>7, <1>8, <1>11, <2>1, CutOff
<1>13. Headed(R1, head', A1)
  <2>1. CASE head' = NoHead
    BY <2>1 DEF Headed
  <2>2. CASE head' # NoHead
    <3>1. head' = head /\ head.key # k
      BY <1>5, <2>2 DEF Cut
    <3>2. head.key \in Of(rec, {"Active"}) /\ app[head.key.id] \in {"head", "duplexHead"} /\ head.key.id \in Ids
      BY <1>2, <2>2, <3>1, KeyFact DEF Headed, Of
    <3>3. A1[head.key.id] = app[head.key.id]
      BY <1>1, <1>2, <1>11, <3>2
    <3>4. Awaited(rec, R1, gone, {}, head, A1)
      BY <3>1, <3>2, <3>3 DEF Awaited
    <3>5. Headed(R1, head, A1)
      BY <1>2, <1>11, <3>4, HeadedMove
    <3> QED BY <3>1, <3>5
  <2> QED BY <2>1, <2>2
<1>14. /\ Told(rec', lastPeer, events') /\ Owned(Mine(rec'), events', app') /\ Silent(rec', lastPeer, events', app')
       /\ Headed(rec', head', app') /\ Len(events') <= EventCap
  BY <1>9, <1>12, <1>13 DEF R1, A1, E1, Agreed
<1>15. /\ Slab(rec', lastPeer) /\ Booked(rec', index', peerCount', resets') /\ Waked(rec', lastPeer, wakes', waiting)
       /\ Reserved(resets', used', barrier', mode', phase')
  BY <1>1, <1>5 DEF Cut
<1> QED BY <1>1, <1>10, <1>14, <1>15, AppInv

-----------------------------------------------------------------------------
(* The invariant holds of every behaviour. *)

\* An empty registry satisfies the invariant.
LEMMA InitInv ==
    ASSUME Init
    PROVE  IInv
<1>1. /\ rec = [s \in Slots |-> Free] /\ index = {} /\ peerCount = 0 /\ lastPeer = 0
      /\ resets = <<>> /\ wakes = <<>> /\ pending = NoBlock /\ head = NoHead /\ events = <<>>
      /\ used = 0 /\ barrier = "Open" /\ mode = "app" /\ phase = "Open" /\ peerResets = 0
      /\ app = [i \in Ids |-> "unseen"] /\ waiting = {}
  BY DEF Init
<1>2. MaxId \in Nat /\ MaxActive \in Nat /\ EventCap \in Nat /\ Limit \in Nat /\ RstLen \in Nat /\ MaxResets \in Nat
  BY BoundsFact
<1>3. Free \in Record /\ Fit(Free)
  BY FreeFits DEF Fit
<1>4. \A k \in Keys : rec[k.slot] = Free /\ k.id # 0
  BY <1>1, KeyFact
<1>5. Named(rec) = {}
  BY <1>4, FreeFits DEF Named
<1>6. \A K : Of(rec, K) = {}
  BY <1>4, FreeFits DEF Of
<1>7. \A k \in Keys : Mine(rec)[k] = "None"
  BY <1>4, FreeFits DEF Mine
<1>8. Slab(rec, lastPeer)
  BY <1>1, <1>2, <1>3, <1>5 DEF Slab
<1>9. \A S : <<>> \in Seq(S) /\ Distinct(<<>>) /\ Elements(<<>>) = {} /\ DOMAIN (<<>>) = {}
  BY DEF Distinct, Elements
<1>10. Booked(rec, index, peerCount, resets)
  <2>1. IsFiniteSet({}) /\ Cardinality({}) = 0
    BY FS_EmptySet
  <2>2. Of(rec, {"Active"}) = {} /\ Of(rec, {"Reset"}) = {} /\ Of(rec, {"Active", "Reset"}) = {}
    BY <1>6
  <2>3. 0 <= MaxActive
    BY <1>2
  <2> QED BY <1>1, <1>9, <2>1, <2>2, <2>3 DEF Booked
<1>11. Told(rec, lastPeer, events)
  <2>1. InOrder(<<>>)
    BY <1>9 DEF InOrder
  <2> QED BY <1>1, <1>9, <2>1 DEF Told
<1>12. Owned(Mine(rec), events, app)
  <2>1. \A k, w : ~IsQueued(events, k, w)
    BY <1>1, <1>9 DEF IsQueued
  <2>2. \A id \in Ids : app[id] \notin Sessions
    BY <1>1 DEF Sessions
  <2>3. "None" \notin Ends \cup Resets \cup Duplexes \cup {"Initial"}
    BY DEF Ends, Resets, Duplexes
  <2> QED BY <1>7, <2>1, <2>2, <2>3 DEF Owned, OwnedKey
<1>13. Silent(rec, lastPeer, events, app)
  BY <1>1, <1>6, <1>9 DEF Silent, Apps
<1>14. Headed(rec, head, app) /\ Waked(rec, lastPeer, wakes, waiting)
  BY <1>1, <1>6, <1>9 DEF Headed, Waked
<1>15. Reserved(resets, used, barrier, mode, phase) /\ Typed(pending, peerResets) /\ Len(events) <= EventCap
  BY <1>1, <1>2 DEF Reserved, Typed
<1> QED BY <1>8, <1>10, <1>11, <1>12, <1>13, <1>14, <1>15 DEF IInv

\* Every handler of a frame keeps the invariant.
LEMMA FrameStep ==
    ASSUME IInv, NextFrame
    PROVE  IInv' /\ Forward
<1>1. CASE \E k \in Keys, b \in Boundaries : HeadersBegin(k, b) \/ HeadersOpen(k, b)
  BY <1>1, StepHeadersBegin, StepHeadersOpen
<1>2. CASE \E id \in Ids, c \in {"refused", "invalid"} : HeadersRefuse(id, c)
  BY <1>2, StepHeadersRefuse
<1>3. CASE \E id \in Ids : HeadersPast(id) \/ HeadersBeginReset(id) \/ PeerReset(id) \/ WindowUpdate(id)
  BY <1>3, StepHeadersPast, StepHeadersBeginReset, StepPeerReset, StepWindowUpdate
<1>4. CASE \E id \in Ids : ConnectionError(id)
  BY <1>4, StepConnectionError
<1>5. CASE \E id \in Ids, b \in Boundaries : TrailersBegin(id, b)
  BY <1>5, StepTrailersBegin
<1>6. CASE \E id \in Ids, b \in Boundaries, v \in BOOLEAN : Trailers(id, b, v)
  BY <1>6, StepTrailers
<1>7. CASE \E v \in BOOLEAN : Continue(v)
  BY <1>7, StepContinue
<1>8. CASE \E id \in Ids, b \in Boundaries, v \in BOOLEAN, u \in 0 .. 1 : Data(id, b, v, u)
  BY <1>8, StepData
<1>9. CASE \E id \in Ids, u \in 0 .. 1 : DataPast(id, u)
  BY <1>9, StepDataPast
<1>10. CASE \E c \in {"Open", "Stalled"}, moved \in SUBSET Slots : Settings(c, moved)
  BY <1>10, StepSettings
<1> QED BY <1>1, <1>2, <1>3, <1>4, <1>5, <1>6, <1>7, <1>8, <1>9, <1>10 DEF NextFrame

\* So does every step of the application and of the transport.
LEMMA AppStep ==
    ASSUME IInv, NextApp
    PROVE  IInv' /\ Forward
<1>1. CASE Ingest \/ EndDrive \/ TakeEvent \/ CommitHead \/ PollWake \/ Goaway
  BY <1>1, StepIngest, StepEndDrive, StepTakeEvent, StepCommitHead, StepPollWake, StepGoaway
<1>2. CASE \E k \in Keys, b \in Boundaries : PrepareHead(k, b)
  BY <1>2, StepPrepareHead
<1>3. CASE \E k \in Keys, b \in Boundaries, c \in {"Open", "Stalled"} : SendData(k, b, c)
  BY <1>3, StepSendData
<1>4. CASE \E k \in Keys : OpenDuplex(k) \/ Blocked(k) \/ Cancel(k) \/ CancelIngress(k) \/ ReleaseDuplex(k)
  BY <1>4, StepOpenDuplex, StepBlocked, StepCancel, StepCancelIngress, StepReleaseDuplex
<1>5. CASE \E n \in 1 .. (Limit + RstLen + 1) : Drain(n)
  BY <1>5, StepDrain
<1> QED BY <1>1, <1>2, <1>3, <1>4, <1>5 DEF NextApp

\* A step that changes nothing keeps the invariant.
LEMMA StutterInv ==
    ASSUME IInv, UNCHANGED vars
    PROVE  IInv'
  BY DEF IInv, vars, storeVars, outVars

\* The books of the registry, its queues and what the application knows agree in
\* every state, whatever the number of slots and ids and the sizes of the queues.
THEOREM RegistryInvariant == Spec => []IInv
<1>1. Init => IInv
  BY InitInv
<1>2. IInv /\ [Next]_vars => IInv'
  BY FrameStep, AppStep, StutterInv DEF Next
<1> QED BY <1>1, <1>2, PTL DEF Spec

\* The keys of the records of some kinds, two ways.
LEMMA KeysOfFact ==
    ASSUME IInv, NEW K, "Free" \notin K
    PROVE  KeysOf(K) = Of(rec, K)
<1>1. \A s \in Slots : Fit(rec[s])
  BY DEF IInv, Slab
<1>2. \A s \in Slots : rec[s].kind \in K => rec[s].id \in Ids
  BY <1>1 DEF Fit
<1>3. \A k \in Keys : k = [id |-> k.id, slot |-> k.slot] /\ k.slot \in Slots
  BY DEF Keys
<1>4. KeysOf(K) \subseteq Of(rec, K)
  BY <1>2, KeyFact DEF KeysOf, Of
<1>5. Of(rec, K) \subseteq KeysOf(K)
  BY <1>3 DEF KeysOf, Of
<1> QED BY <1>4, <1>5

\* The invariant gives every variable its type.
LEMMA InvType ==
    ASSUME IInv
    PROVE  TypeOK
<1>1. /\ Slab(rec, lastPeer) /\ Booked(rec, index, peerCount, resets) /\ Waked(rec, lastPeer, wakes, waiting)
      /\ Silent(rec, lastPeer, events, app) /\ Headed(rec, head, app) /\ Len(events) <= EventCap
      /\ Reserved(resets, used, barrier, mode, phase) /\ Typed(pending, peerResets)
  BY DEF IInv
<1>2. rec \in [Slots -> {r \in Record : r.live # "Unreachable"}]
  BY <1>1 DEF Slab, Fit
<1>3. index \subseteq Keys /\ Elements(resets) \subseteq Keys /\ Elements(wakes) \subseteq Keys /\ waiting \subseteq Keys
  BY <1>1 DEF Booked, Waked, Of
<1>4. peerCount \in 0 .. MaxActive /\ lastPeer \in 0 .. MaxId
  <2>1. peerCount \in Nat
    BY <1>1, FS_CardinalityType DEF Booked
  <2> QED BY <1>1, <2>1, BoundsFact DEF Booked, Slab
<1>5. used \in 0 .. (Limit + RstLen + 1) /\ barrier \in {"Open", "Blocked"}
  BY <1>1, BoundsFact DEF Reserved
<1>6. /\ mode \in {"app", "decode", "failed"} /\ phase \in {"Open", "Draining"}
      /\ app \in [Ids -> Apps] /\ head \in {NoHead} \cup [key : Keys, boundary : Boundaries]
  BY <1>1 DEF Reserved, Silent, Headed
<1> QED BY <1>1, <1>2, <1>3, <1>4, <1>5, <1>6 DEF TypeOK, Typed

\* The index, the counters, the reset chain and the slab describe the same streams
\* (store.rs), and no record reaches an arm marked unreachable.
THEOREM StoreIsConsistent == Spec => []StoreConsistent
<1>1. ASSUME IInv PROVE StoreConsistent
  <2>1. Slab(rec, lastPeer) /\ Booked(rec, index, peerCount, resets)
    BY <1>1 DEF IInv
  <2>2. /\ KeysOf({"Active", "Reset"}) = Of(rec, {"Active", "Reset"})
        /\ KeysOf({"Active"}) = Of(rec, {"Active"}) /\ KeysOf({"Reset"}) = Of(rec, {"Reset"})
    BY <1>1, KeysOfFact
  <2>3. index \subseteq Named(rec)
    BY <2>1 DEF Booked, Of, Named
  <2>4. \A j, k \in index : j.id = k.id => j = k
    BY <2>1, <2>3 DEF Slab
  <2> QED BY <1>1, <2>1, <2>2, <2>4, InvType DEF StoreConsistent, Booked
<1> QED BY <1>1, RegistryInvariant, PTL

\* The events queued under a key, two ways.
LEMMA QueuedFact ==
    ASSUME NEW k, NEW w
    PROVE  Queued(k, w) <=> IsQueued(events, k, w)
  BY DEF Queued, IsQueued, Elements

\* A slot is kept for as long as a queued event or a session names it, and no longer.
THEOREM OwnersAreExact == Spec => []OwnersExact
<1>1. ASSUME IInv PROVE OwnersExact
  <2>1. Slab(rec, lastPeer) /\ Owned(Mine(rec), events, app)
    BY <1>1 DEF IInv
  <2>2. ASSUME NEW k \in Keys
        PROVE  LET mine == IF rec[k.slot].id = k.id /\ rec[k.slot].kind # "Free" THEN rec[k.slot].live ELSE "None"
               IN  /\ mine \in {"Reset", "DuplexReset"} <=> Queued(k, "Reset")
                   /\ Queued(k, "End") => mine \in {"End", "DuplexEnd", "Reset", "DuplexReset"}
                   /\ mine \in {"End", "DuplexEnd"} => Queued(k, "End")
                   /\ mine \in {"Duplex", "DuplexEnd", "DuplexReset"} => app[k.id] \in {"duplexHead", "duplex"}
                   /\ rec[k.slot].kind = "Closed" /\ rec[k.slot].id = k.id => mine # "None"
    <3> DEFINE mine == IF rec[k.slot].id = k.id /\ rec[k.slot].kind # "Free" THEN rec[k.slot].live ELSE "None"
    <3>1. OwnedKey(Mine(rec)[k], k, events, app[k.id])
      BY <2>1 DEF Owned
    <3>2. mine = Mine(rec)[k]
      <4>1. k \in Named(rec) => rec[k.slot].kind # "Free"
        BY <2>1, OfFact
      <4> QED BY <4>1 DEF Mine, Named
    <3>3. rec[k.slot].kind = "Closed" /\ rec[k.slot].id = k.id => mine # "None"
      <4>1. Fit(rec[k.slot])
        BY <2>1, KeyFact DEF Slab
      <4> QED BY <4>1 DEF Fit, Closed
    <3>4. /\ Queued(k, "Reset") <=> IsQueued(events, k, "Reset")
          /\ Queued(k, "End") <=> IsQueued(events, k, "End")
      BY QueuedFact
    <3> HIDE DEF mine
    <3>5. /\ mine \in {"Reset", "DuplexReset"} <=> Queued(k, "Reset")
          /\ Queued(k, "End") => mine \in {"End", "DuplexEnd", "Reset", "DuplexReset"}
          /\ mine \in {"End", "DuplexEnd"} => Queued(k, "End")
          /\ mine \in {"Duplex", "DuplexEnd", "DuplexReset"} => app[k.id] \in {"duplexHead", "duplex"}
      BY <3>1, <3>2, <3>4 DEF OwnedKey, Ends, Resets, Duplexes, Sessions
    <3> QED BY <3>3, <3>5 DEF mine
  <2>3. OwnersMatch
    BY <2>2 DEF OwnersMatch
  <2>4. SessionsHold
    <3> SUFFICES ASSUME NEW id \in Ids, app[id] \in {"duplexHead", "duplex"}
                 PROVE  \E s \in Slots : rec[s].id = id /\ rec[s].live \in {"Duplex", "DuplexEnd", "DuplexReset"}
      BY DEF SessionsHold
    <3>1. PICK k \in Keys : k.id = id /\ Mine(rec)[k] \in Duplexes
      BY <2>1 DEF Owned, Sessions
    <3>2. rec[k.slot].id = k.id /\ rec[k.slot].live \in Duplexes /\ k.slot \in Slots
      BY <3>1, KeyFact DEF Mine, Duplexes
    <3> QED BY <3>1, <3>2 DEF Duplexes
  <2> QED BY <2>3, <2>4 DEF OwnersExact
<1> QED BY <1>1, RegistryInvariant, PTL

\* A retained head belongs to a live stream and takes the effect its state then
\* prescribes (Sending::apply).
THEOREM HeadEffectIsExact == Spec => []HeadEffectExact
<1>1. ASSUME IInv PROVE HeadEffectExact
  <2> SUFFICES ASSUME head # NoHead
               PROVE  /\ IsActive(head.key)
                      /\ Apply(head.boundary, rec[head.key.slot].state)
                            = Send(rec[head.key.slot].state, "Headers", head.boundary)
    BY DEF HeadEffectExact
  <2>1. /\ head.key \in Of(rec, {"Active"}) /\ head.boundary \in Boundaries
        /\ Send(rec[head.key.slot].state, "Headers", head.boundary) \in States
    BY <1>1 DEF IInv, Headed
  <2>2. rec[head.key.slot].state \in States
    BY <1>1, <2>1, KeyFact DEF IInv, Slab, Of, Record
  <2>3. IsActive(head.key)
    BY <2>1 DEF Of, IsActive, IsKey
  <2> QED BY <2>1, <2>2, <2>3, ApplyIsSend
<1> QED BY <1>1, RegistryInvariant, PTL

\* The RST_STREAM a handler writes unconditionally always fits (Outbound::reset).
THEOREM ReserveIsKept == Spec => []ReserveKept
<1>1. IInv => ReserveKept
  BY DEF IInv, Reserved, ReserveKept
<1> QED BY <1>1, RegistryInvariant, PTL

\* A stream refused for credit that has credit again is queued to be woken, once
\* (Wake::update, Wake::clear).
THEOREM NoWakeIsLost == Spec => []NoLostWake
<1>1. ASSUME IInv PROVE NoLostWake
  <2>1. Waked(rec, lastPeer, wakes, waiting)
    BY <1>1 DEF IInv
  <2>2. KeysOf({"Active"}) = Of(rec, {"Active"})
    BY <1>1, KeysOfFact
  <2>3. \A k \in waiting : IsActive(k) /\ rec[k.slot].credit = "Open" => k \in Elements(wakes)
    BY <2>1 DEF Waked, IsActive, IsKey, Of
  <2> QED BY <2>1, <2>2, <2>3 DEF NoLostWake, Waked
<1> QED BY <1>1, RegistryInvariant, PTL

\* The queued events tell each stream's story in order, or not at all (data::apply,
\* headers::complete, Events::cancel).
THEOREM EventsAreExact == Spec => []EventsExact
<1>1. ASSUME IInv PROVE EventsExact
  <2>1. Told(rec, lastPeer, events) /\ Silent(rec, lastPeer, events, app)
    BY <1>1 DEF IInv
  <2>2. EventOrder
    BY <2>1 DEF Told, InOrder, Follows, EventOrder
  <2>3. CancelledSilent
    BY <2>1 DEF Silent, Elements, CancelledSilent
  <2> QED BY <2>2, <2>3 DEF EventsExact
<1> QED BY <1>1, RegistryInvariant, PTL

\* A stream id that is spent is never active or idle again (history.rs).
THEOREM SpentStaysSpent == Spec => NeverReopened
<1>1. ASSUME IInv, IInv', Next, NEW id \in Ids, Lookup(id) = "Closed" PROVE Lookup(id)' = "Closed"
  <2>1. Forward
    BY <1>1, FrameStep, AppStep DEF Next
  <2> QED BY <1>1, <2>1, ForwardFact
<1>2. IInv /\ IInv' /\ [Next]_vars => [\A id \in Ids : Lookup(id) = "Closed" => Lookup(id)' = "Closed"]_vars
  BY <1>1
<1> QED BY <1>2, RegistryInvariant, PTL DEF Spec, NeverReopened
=============================================================================
