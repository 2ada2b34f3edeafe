-------------------------- MODULE FiberClientProof --------------------------
(***************************************************************************)
(* The connection pool and its calls, for any number of calls and          *)
(* connections, any lane and queue sizes, lease and retry policy.          *)
(*                                                                         *)
(* Four arguments share one inductive invariant.  Each connection's record *)
(* is consistent by itself (ConnOK: what its admission may be for what it  *)
(* carries and was told); so is each call's (CallOK: what it knows of its  *)
(* commitment).  Between them, a place in a lane and the call that reads   *)
(* it name each other, a dialled connection and its call do, and the ready *)
(* queue holds exactly what can be claimed.                                *)
(***************************************************************************)
EXTENDS FiberClient, QueuesProof

-----------------------------------------------------------------------------
(* Types. *)

Kinds == {"idle", "reserved", "fresh", "active", "sealed"}
Adms == [kind : Kinds, left : Nat]
Controls == [reusable : BOOLEAN, timeout : Timeouts \cup {NoHint}]
Causes == Classes \cup {"none"}
Events == Classes \cup {"head", "end"}
Places == Calls \cup {Gone}
Open2 == {"ready", "receiving"}

Conn ==
    [state : {"vacant", "admitted", "ready", "receiving", "closing", "drained"},
     adm : Adms, failed : BOOLEAN, closing : Causes, lane : Seq(Places), headed : BOOLEAN,
     budget : Nat, dialer : Calls \cup {NoCall}, said : Controls, used : BOOLEAN, quiet : Nat]

Net == [conn : [Conns -> Conn], ready : Seq(Conns), waiters : Seq(Calls),
        woken : SUBSET Calls, work : SUBSET Conns]

Outgoing == {"dispatch", "wait", "dial", "backoff"}
Reading == {"reply", "body"}

Retries == [idempotent : BOOLEAN, committed : BOOLEAN, attempt : Nat]

CallRec ==
    [phase : Outgoing \cup Reading \cup {"done"}, retry : Retries,
     mail : Classes \cup {"none", "pending", "connected"}, on : Conns \cup {NoConn}, live : BOOLEAN,
     inbox : Seq(Events), hops : Nat, result : {"none", "ok", "BeforeSubmit", "PossiblyCommitted"},
     sent : Nat, ever : BOOLEAN]

\* Who is to be polled again, or will be.
Queued(n) == Elements(n.waiters) \cup n.woken

-----------------------------------------------------------------------------
(* The operations of the transport. *)

\* A cause has a class.
LEMMA ClassFact == ASSUME NEW cause PROVE ClassOf(cause) \in Classes
  BY DEF ClassOf, Classes

\* Waking moves a waiter, and loses none.
LEMMA WakeFact ==
    ASSUME NEW n \in Net
    PROVE  /\ WakeOne(n) \in Net /\ WakeOne(n).conn = n.conn /\ WakeOne(n).ready = n.ready
           /\ WakeOne(n).work = n.work /\ Queued(WakeOne(n)) = Queued(n)
<1> DEFINE q == n.waiters
           m == [n EXCEPT !.waiters = Tail(q), !.woken = n.woken \cup {Head(q)}]
<1>1. q \in Seq(Calls) /\ n.woken \in SUBSET Calls
  BY DEF Net
<1>2. CASE q = <<>>
  BY <1>2 DEF WakeOne
<1>3. CASE q # <<>>
  <2>1. Tail(q) \in Seq(Calls) /\ Head(q) \in Calls
    BY <1>1, <1>3
  <2>2. Elements(q) = Elements(Tail(q)) \cup {Head(q)}
    BY <1>1, <1>3, TailElements
  <2>3. /\ m \in Net /\ m.conn = n.conn /\ m.ready = n.ready /\ m.work = n.work
        /\ m.waiters = Tail(q) /\ m.woken = n.woken \cup {Head(q)}
    BY <1>1, <2>1 DEF Net
  <2>4. WakeOne(n) = m
    BY <1>3 DEF WakeOne
  <2> QED BY <2>2, <2>3, <2>4 DEF Queued
<1> QED BY <1>2, <1>3

\* m is n but for connection c, which is y, and for the queues.
Touch(n, m, c, y) == m \in Net /\ m.conn = [n.conn EXCEPT ![c] = y]

\* Nobody waits more or less, and no released reply is forgotten.
Calm(n, m) == m.work = n.work /\ Queued(m) = Queued(n)

\* c leaves the ready queue.
Thinned(n, m, c) ==
    /\ Elements(m.ready) = Elements(n.ready) \ {c}
    /\ Distinct(n.ready) => Distinct(m.ready)

Offerable(y) == y.state = "ready" /\ CanQueue(y.adm)

\* c, whose record is y, is offered unless its lane is full.
Offered(n, m, c, y, full) ==
    /\ Elements(n.ready) \subseteq Elements(m.ready)
    /\ Elements(m.ready) \subseteq Elements(n.ready) \cup {c}
    /\ c \in Elements(m.ready) => c \in Elements(n.ready) \/ Offerable(y)
    /\ Offerable(y) /\ ~full => c \in Elements(m.ready)
    /\ Distinct(n.ready) => Distinct(m.ready)

\* A changed record in its place.
LEMMA SetFact ==
    ASSUME NEW n \in Net, NEW c \in Conns, NEW y \in Conn
    PROVE  LET m == [n EXCEPT !.conn = [n.conn EXCEPT ![c] = y]]
           IN  /\ Touch(n, m, c, y) /\ Calm(n, m) /\ m.ready = n.ready
               /\ m.waiters = n.waiters /\ m.woken = n.woken
               /\ m.conn[c] = y
               /\ \A d \in Conns : d # c => m.conn[d] = n.conn[d]
<1> DEFINE m == [n EXCEPT !.conn = [n.conn EXCEPT ![c] = y]]
<1>1. /\ m \in Net /\ m.conn = [n.conn EXCEPT ![c] = y] /\ m.ready = n.ready /\ m.work = n.work
      /\ m.waiters = n.waiters /\ m.woken = n.woken /\ n.conn \in [Conns -> Conn]
  BY DEF Net
<1> HIDE DEF m
<1> QED BY <1>1 DEF Touch, Calm, Queued, m

\* ReadyQueue::remove.
LEMMA UnreadyFact ==
    ASSUME NEW n \in Net, NEW c \in Conns
    PROVE  LET m == Unready(n, c)
           IN  /\ m \in Net /\ m.conn = n.conn /\ Calm(n, m) /\ Thinned(n, m, c)
<1> DEFINE m == Unready(n, c)
           r == Drop(n.ready, {c})
<1>1. n.ready \in Seq(Conns)
  BY DEF Net
<1>2. r \in Seq(Conns) /\ Elements(r) = Elements(n.ready) \ {c} /\ (Distinct(n.ready) => Distinct(r))
  BY <1>1, DropElements, DropDistinct
<1>3. /\ m \in Net /\ m.conn = n.conn /\ m.ready = r /\ m.work = n.work
      /\ m.waiters = n.waiters /\ m.woken = n.woken
  BY <1>2 DEF Net, Unready
<1> HIDE DEF m, r
<1> QED BY <1>2, <1>3 DEF Thinned, Calm, Queued, m

\* Directory::schedule: the queue gets c if it can be claimed and is not there yet.
LEMMA EnqueueFact ==
    ASSUME NEW n \in Net, NEW c \in Conns
    PROVE  LET m == Enqueue(n, c)
           IN  /\ m \in Net /\ m.conn = n.conn /\ Calm(n, m)
               /\ Offered(n, m, c, n.conn[c], FALSE)
<1> DEFINE q == n.ready
           r == IF c \in Elements(q) THEN q ELSE Append(q, c)
           w == [n EXCEPT !.ready = r]
           m == Enqueue(n, c)
<1>1. q \in Seq(Conns)
  BY DEF Net
<1>2. /\ Append(q, c) \in Seq(Conns) /\ Elements(Append(q, c)) = Elements(q) \cup {c}
      /\ Distinct(q) /\ c \notin Elements(q) => Distinct(Append(q, c))
  BY <1>1, AppendFact
<1>3. r \in Seq(Conns) /\ Elements(r) = Elements(q) \cup {c} /\ (Distinct(q) => Distinct(r))
  BY <1>1, <1>2
<1>4. CASE ~Offerable(n.conn[c])
  <2>1. m = n
    BY <1>4 DEF Enqueue, Offerable
  <2> QED BY <1>4, <2>1 DEF Calm, Offered
<1>5. CASE Offerable(n.conn[c])
  <2>1. /\ w \in Net /\ w.conn = n.conn /\ w.ready = r /\ w.work = n.work
        /\ w.waiters = n.waiters /\ w.woken = n.woken
    BY <1>3 DEF Net
  <2>2. m = WakeOne(w)
    BY <1>5 DEF Enqueue, Offerable
  <2> HIDE DEF w, m, r, q
  <2>3. m \in Net /\ m.conn = w.conn /\ m.ready = w.ready /\ m.work = w.work /\ Queued(m) = Queued(w)
    BY <2>1, <2>2, WakeFact
  <2> QED BY <1>3, <1>5, <2>1, <2>3 DEF Calm, Queued, Offered, q, m
<1> QED BY <1>4, <1>5

\* Pool::schedule.
LEMMA ScheduleFact ==
    ASSUME NEW n \in Net, NEW c \in Conns, NEW cl
    PROVE  LET m == Schedule(n, cl, c)
           IN  /\ m \in Net /\ m.conn = n.conn /\ Calm(n, m)
               /\ Offered(n, m, c, n.conn[c], Full(n, cl, c))
<1>1. CASE Full(n, cl, c)
  BY <1>1 DEF Schedule, Calm, Offered
<1>2. CASE ~Full(n, cl, c)
  BY <1>2, EnqueueFact DEF Schedule, Offered
<1> QED BY <1>1, <1>2

\* Port::close: the record of a connection that is asked to close.
Asked(x, cause) ==
    IF x.state = "vacant" \/ x.closing # "none" THEN x ELSE [x EXCEPT !.closing = ClassOf(cause)]

\* Only the connection's own record changes.
LEMMA RequestFact ==
    ASSUME NEW n \in Net, NEW c \in Conns, NEW cause
    PROVE  LET m == Request(n, c, cause)
           IN  /\ Touch(n, m, c, Asked(n.conn[c], cause)) /\ Calm(n, m) /\ m.ready = n.ready
               /\ Asked(n.conn[c], cause) \in Conn
<1> DEFINE x == n.conn[c]
           y == [x EXCEPT !.closing = ClassOf(cause)]
<1>1. x \in Conn /\ n.conn \in [Conns -> Conn]
  BY DEF Net
<1>2. CASE x.state = "vacant" \/ x.closing # "none"
  <2>1. n.conn = [n.conn EXCEPT ![c] = x]
    BY <1>1
  <2> QED BY <1>1, <1>2, <2>1 DEF Request, Asked, Touch, Calm
<1>3. CASE ~(x.state = "vacant" \/ x.closing # "none")
  <2>1. y \in Conn
    BY <1>1, ClassFact DEF Conn, Causes
  <2>2. Request(n, c, cause) = [n EXCEPT !.conn = [n.conn EXCEPT ![c] = y]]
    <3>1. Request(n, c, cause) = [n EXCEPT !.conn[c].closing = ClassOf(cause)]
      BY <1>3 DEF Request
    <3> QED BY <1>1, <3>1 DEF Net, Conn
  <2>3. Asked(x, cause) = y
    BY <1>3 DEF Asked
  <2> HIDE DEF y
  <2> QED BY <2>1, <2>2, <2>3, SetFact
<1> QED BY <1>2, <1>3

\* Pool::seal.
SealedConn(x) == [x EXCEPT !.adm = Sealed]

\* A sealed connection leaves the ready queue.
LEMMA SealFact ==
    ASSUME NEW n \in Net, NEW c \in Conns
    PROVE  LET m == Seal(n, c)
           IN  /\ Touch(n, m, c, SealedConn(n.conn[c])) /\ Calm(n, m) /\ Thinned(n, m, c)
               /\ SealedConn(n.conn[c]) \in Conn
<1> DEFINE x == n.conn[c]
           y == SealedConn(x)
           w == [n EXCEPT !.conn[c].adm = Sealed]
<1>1. x \in Conn /\ n.conn \in [Conns -> Conn] /\ Sealed \in Adms
  BY DEF Net, Sealed, Adms, Kinds
<1>2. y \in Conn
  BY <1>1 DEF Conn, SealedConn
<1>3. w = [n EXCEPT !.conn = [n.conn EXCEPT ![c] = y]]
  BY <1>1 DEF Net, Conn, SealedConn
<1>4. Seal(n, c) = Unready(w, c)
  BY DEF Seal
<1> HIDE DEF y, w
<1>5. Touch(n, w, c, y) /\ Calm(n, w) /\ w.ready = n.ready
  BY <1>2, <1>3, SetFact
<1>6. LET m == Seal(n, c) IN m \in Net /\ m.conn = w.conn /\ Calm(w, m) /\ Thinned(w, m, c)
  BY <1>4, <1>5, UnreadyFact DEF Touch
<1> QED BY <1>2, <1>5, <1>6 DEF Touch, Calm, Thinned, y

\* Pool::close_claim.
Shut(x) ==
    IF x.state \notin Open2 THEN x ELSE [x EXCEPT !.state = "closing", !.adm = Sealed]

\* A connection that closes leaves the ready queue.
LEMMA CloseFact ==
    ASSUME NEW n \in Net, NEW c \in Conns
    PROVE  LET m == CloseClaim(n, c)
           IN  /\ Touch(n, m, c, Shut(n.conn[c])) /\ Calm(n, m)
               /\ IF n.conn[c].state \in Open2 THEN Thinned(n, m, c) ELSE m.ready = n.ready
               /\ Shut(n.conn[c]) \in Conn
<1> DEFINE x == n.conn[c]
           y == [x EXCEPT !.state = "closing", !.adm = Sealed]
           w == [n EXCEPT !.conn[c].state = "closing", !.conn[c].adm = Sealed]
<1>1. x \in Conn /\ n.conn \in [Conns -> Conn] /\ Sealed \in Adms
  BY DEF Net, Sealed, Adms, Kinds
<1>2. CASE x.state \notin Open2
  <2>1. n.conn = [n.conn EXCEPT ![c] = x]
    BY <1>1
  <2> QED BY <1>1, <1>2, <2>1 DEF CloseClaim, Shut, Open2, Touch, Calm
<1>3. CASE x.state \in Open2
  <2>1. y \in Conn
    BY <1>1 DEF Conn
  <2>2. w = [n EXCEPT !.conn = [n.conn EXCEPT ![c] = y]]
    BY <1>1 DEF Net, Conn
  <2>3. CloseClaim(n, c) = Unready(w, c) /\ Shut(x) = y
    BY <1>3 DEF CloseClaim, Open2, Shut
  <2> HIDE DEF y, w
  <2>4. Touch(n, w, c, y) /\ Calm(n, w) /\ w.ready = n.ready
    BY <2>1, <2>2, SetFact
  <2>5. LET m == CloseClaim(n, c) IN m \in Net /\ m.conn = w.conn /\ Calm(w, m) /\ Thinned(w, m, c)
    BY <2>3, <2>4, UnreadyFact DEF Touch
  <2> QED BY <1>3, <2>1, <2>3, <2>4, <2>5 DEF Touch, Calm, Thinned
<1> QED BY <1>2, <1>3

\* Pool::acquire of a connection whose lease ended.
Expired(x) == Asked(Shut(x), "Lifetime")

\* Nothing but closing and admission changes.
LEMMA ExpireFact ==
    ASSUME NEW n \in Net, NEW c \in Conns
    PROVE  /\ Expire(n, c).conn[c] = Expired(n.conn[c]) /\ Expired(n.conn[c]) \in Conn
           /\ Expired(n.conn[c]).lane = n.conn[c].lane
           /\ n.conn[c].state = "ready" => ~Offerable(Expired(n.conn[c]))
<1> DEFINE x == n.conn[c]
           w == CloseClaim(n, c)
           m == Request(w, c, "Lifetime")
<1>1. n.conn \in [Conns -> Conn] /\ x \in Conn
  BY DEF Net
<1>2. w \in Net /\ w.conn = [n.conn EXCEPT ![c] = Shut(x)] /\ Shut(x) \in Conn
  BY CloseFact DEF Touch
<1>3. w.conn[c] = Shut(x)
  BY <1>1, <1>2
<1> HIDE DEF w
<1>4. m \in Net /\ m.conn = [w.conn EXCEPT ![c] = Asked(w.conn[c], "Lifetime")] /\ Asked(w.conn[c], "Lifetime") \in Conn
  BY <1>2, RequestFact DEF Touch
<1>5. m.conn[c] = Expired(x) /\ Expired(x) \in Conn
  <2>1. w.conn \in [Conns -> Conn]
    BY <1>2 DEF Net
  <2> QED BY <1>3, <1>4, <2>1 DEF Expired
<1>6. Expire(n, c) = m
  BY DEF Expire, w
<1>7. Expired(x).lane = x.lane /\ (x.state = "ready" => Expired(x).state = "closing")
  <2>1. Shut(x).lane = x.lane /\ (x.state = "ready" => Shut(x).state = "closing")
    BY <1>1 DEF Shut, Open2, Conn
  <2>2. Asked(Shut(x), "Lifetime").lane = Shut(x).lane /\ Asked(Shut(x), "Lifetime").state = Shut(x).state
    BY <1>2 DEF Asked, Conn
  <2> QED BY <2>1, <2>2 DEF Expired
<1> QED BY <1>5, <1>6, <1>7 DEF Offerable

\* The first place at which acquire stops, if there is one.
LEMMA ClaimFact ==
    ASSUME NEW n \in Net, NEW cl
    PROVE  /\ Popped(n, cl) \in 0 .. Len(n.ready)
           /\ Claims(n, cl) = {} <=> Claimed(n, cl) = NoConn
           /\ Claimed(n, cl) # NoConn =>
                 /\ Claimed(n, cl) \in Conns
                 /\ Popped(n, cl) \in DOMAIN n.ready
                 /\ Claimed(n, cl) = n.ready[Popped(n, cl)]
                 /\ IsLive(n.conn[Claimed(n, cl)].adm) /\ ~Full(n, cl, Claimed(n, cl))
           /\ \A i \in 1 .. Popped(n, cl) :
                 i \in DOMAIN n.ready /\ (n.ready[i] = Claimed(n, cl) \/ i \notin Claims(n, cl))
<1> DEFINE S == Claims(n, cl)
           q == n.ready
<1>1. q \in Seq(Conns) /\ DOMAIN q = 1 .. Len(q) /\ Len(q) \in Nat
  BY DEF Net
<1>2. S \subseteq 1 .. Len(q) /\ \A i \in S : IsLive(n.conn[q[i]].adm) /\ ~Full(n, cl, q[i])
  BY <1>1 DEF Claims
<1>3. CASE S = {}
  <2>1. Popped(n, cl) = Len(q) /\ Claimed(n, cl) = NoConn
    BY <1>3 DEF Popped, Claimed
  <2> QED BY <1>1, <1>3, <2>1
<1>4. CASE S # {}
  <2>1. \E x \in S : \A y \in S : x <= y
    <3>1. S \in SUBSET Nat
      BY <1>1, <1>2
    <3> HIDE DEF S
    <3> QED BY <1>4, <3>1, LeastFact
  <2>2. Min(S) \in S /\ \A y \in S : Min(S) <= y
    BY <2>1 DEF Min
  <2>3. Popped(n, cl) = Min(S) /\ Claimed(n, cl) = q[Min(S)]
    BY <1>4 DEF Popped, Claimed
  <2>4. q[Min(S)] \in Conns /\ q[Min(S)] # NoConn
    BY <1>1, <1>2, <2>2, ClientAssumption
  <2> DEFINE p == Min(S)
  <2>5. p \in 1 .. Len(q) /\ IsLive(n.conn[q[p]].adm) /\ ~Full(n, cl, q[p])
    BY <1>2, <2>2
  <2> HIDE DEF p, S, q
  <2>6. \A i \in 1 .. p : i \in 1 .. Len(q) /\ (i = p \/ i \notin S)
    BY <1>1, <1>2, <2>2, <2>5 DEF p
  <2> QED BY <1>1, <1>4, <2>3, <2>4, <2>5, <2>6 DEF p, S, q
<1> QED BY <1>3, <1>4

\* Pool::acquire: a connection leaves the queue because it was claimed, because its lease
\* had ended, and then it is closed, or because its lane is full.
LEMMA AcquireFact ==
    ASSUME NEW n \in Net, NEW cl, Distinct(n.ready),
           \A d \in Elements(n.ready) : Offerable(n.conn[d])
    PROVE  LET m == Acquired(n, cl)
               c == Claimed(n, cl)
           IN  /\ m \in Net /\ m.work = n.work /\ m.waiters = n.waiters /\ m.woken = n.woken
               /\ Elements(m.ready) \subseteq Elements(n.ready) /\ Distinct(m.ready)
               /\ \A d \in Conns : \/ m.conn[d] = n.conn[d]
                                   \/ /\ m.conn[d] = Expired(n.conn[d]) /\ n.conn[d].state = "ready"
                                      /\ m.conn[d].lane = n.conn[d].lane
                                      /\ d \notin Elements(m.ready) /\ ~Offerable(m.conn[d])
               /\ \A d \in Elements(n.ready) \ Elements(m.ready) :
                     d = c \/ ~Offerable(m.conn[d]) \/ Full(n, cl, d)
               /\ c # NoConn =>
                     /\ c \in Conns /\ c \notin Elements(m.ready) /\ m.conn[c] = n.conn[c]
                     /\ n.conn[c].state = "ready" /\ IsLive(n.conn[c].adm) /\ ~Full(n, cl, c)
<1> DEFINE q == n.ready
           m == Acquired(n, cl)
           c == Claimed(n, cl)
           p == Popped(n, cl)
           over == {q[i] : i \in 1 .. p}
           r == SubSeq(q, p + 1, Len(q))
           rest == [n EXCEPT !.ready = r]
           f == [d \in Conns |-> IF d \in over /\ IsExpired(n.conn[d].adm) THEN Expired(n.conn[d]) ELSE n.conn[d]]
<1>1. q \in Seq(Conns) /\ n.conn \in [Conns -> Conn]
  BY DEF Net
<1>2. /\ p \in 0 .. Len(q)
      /\ Claims(n, cl) = {} <=> c = NoConn
      /\ c # NoConn => /\ c \in Conns /\ p \in DOMAIN q /\ c = q[p]
                       /\ IsLive(n.conn[c].adm) /\ ~Full(n, cl, c)
      /\ \A i \in 1 .. p : i \in DOMAIN q /\ (q[i] = c \/ i \notin Claims(n, cl))
  BY ClaimFact
<1>3. r \in Seq(Conns) /\ Elements(q) = Elements(r) \cup over /\ Distinct(r) /\ Elements(r) \cap over = {}
  <2> HIDE DEF q, p
  <2> QED BY <1>1, <1>2, CutFact DEF q
<1>4. rest \in Net /\ rest.conn = n.conn
  BY <1>3 DEF Net
<1>5. f = [d \in Conns |-> IF d \in over /\ IsExpired(n.conn[d].adm) THEN Expire(rest, d).conn[d] ELSE n.conn[d]]
  <2>1. \A d \in Conns : Expire(rest, d).conn[d] = Expired(n.conn[d])
    <3> HIDE DEF rest
    <3> QED BY <1>4, ExpireFact
  <2> QED BY <2>1
<1>6. m = [rest EXCEPT !.conn = f]
  BY <1>5 DEF Acquired
<1>7. \A d \in Conns : /\ Expired(n.conn[d]) \in Conn /\ Expired(n.conn[d]).lane = n.conn[d].lane
                       /\ n.conn[d].state = "ready" => ~Offerable(Expired(n.conn[d]))
  BY ExpireFact
<1>8. f \in [Conns -> Conn]
  BY <1>1, <1>7
<1>9. /\ m \in Net /\ m.conn = f /\ m.ready = r /\ m.work = n.work /\ m.waiters = n.waiters /\ m.woken = n.woken
  <2> HIDE DEF f, r
  <2> QED BY <1>3, <1>4, <1>6, <1>8 DEF Net
<1>10. over \subseteq Elements(q)
  BY <1>3
<1>11. \A d \in Conns : IF d \in over /\ IsExpired(n.conn[d].adm) THEN f[d] = Expired(n.conn[d]) ELSE f[d] = n.conn[d]
  OBVIOUS
<1>12. ASSUME NEW d \in over PROVE d \in Conns /\ (d = c \/ IsExpired(n.conn[d].adm) \/ Full(n, cl, d))
  <2>1. PICK i \in 1 .. p : d = q[i]
    OBVIOUS
  <2>2. CanQueue(n.conn[d].adm)
    BY <1>10 DEF Offerable
  <2>3. d \in Conns
    BY <1>1, <1>2, <2>1
  <2>4. CASE i \notin Claims(n, cl)
    <3>1. ~IsLive(n.conn[d].adm) \/ Full(n, cl, d)
      BY <1>2, <2>1, <2>4 DEF Claims
    <3>2. n.conn[d].adm \in Adms
      BY <1>1, <2>3 DEF Conn
    <3> QED BY <2>2, <2>3, <3>1, <3>2 DEF IsLive, IsExpired, CanQueue, Adms
  <2> QED BY <1>2, <2>1, <2>3, <2>4
<1>13. c # NoConn => c \in over /\ ~IsExpired(n.conn[c].adm)
  <2>1. ASSUME c # NoConn PROVE c \in over
    BY <1>1, <1>2, <2>1
  <2> QED BY <1>2, <2>1 DEF IsLive, IsExpired
<1>14. \A d \in over : n.conn[d].state = "ready"
  BY <1>10 DEF Offerable
<1> HIDE DEF f, r, over, c, p, m, q
<1>15. \A d \in Conns : \/ f[d] = n.conn[d]
                        \/ /\ f[d] = Expired(n.conn[d]) /\ n.conn[d].state = "ready"
                           /\ f[d].lane = n.conn[d].lane /\ d \notin Elements(r) /\ ~Offerable(f[d])
  BY <1>3, <1>7, <1>11, <1>14
<1>16. \A d \in Elements(q) \ Elements(r) : d = c \/ ~Offerable(f[d]) \/ Full(n, cl, d)
  BY <1>3, <1>7, <1>11, <1>12, <1>14
<1>17. c # NoConn => c \notin Elements(r) /\ f[c] = n.conn[c] /\ n.conn[c].state = "ready"
  BY <1>2, <1>3, <1>11, <1>13, <1>14
<1> QED BY <1>2, <1>3, <1>9, <1>15, <1>16, <1>17 DEF m, c, q

\* A place of a lane ends.
Advanced(x) == [x EXCEPT !.lane = Tail(x.lane)]

\* The record advances, and the work list may get the connection.
LEMMA PopFact ==
    ASSUME NEW n \in Net, NEW c \in Conns, n.conn[c].lane # <<>>
    PROVE  LET m == PopLane(n, c)
           IN  /\ Touch(n, m, c, Advanced(n.conn[c])) /\ m.ready = n.ready /\ Queued(m) = Queued(n)
               /\ n.work \subseteq m.work /\ m.work \subseteq n.work \cup {c}
               /\ Advanced(n.conn[c]) \in Conn
<1> DEFINE x == n.conn[c]
           y == Advanced(x)
           w == IF Head(x.lane) = Gone THEN n.work \cup {c} ELSE n.work
           f == [n.conn EXCEPT ![c] = y]
           m == [n EXCEPT !.conn = f, !.work = w]
<1>1. x \in Conn /\ n.conn \in [Conns -> Conn] /\ n.work \in SUBSET Conns /\ x.lane \in Seq(Places)
  BY DEF Net, Conn
<1>2. Tail(x.lane) \in Seq(Places)
  BY <1>1
<1>3. y \in Conn
  BY <1>1, <1>2 DEF Conn, Advanced
<1>4. PopLane(n, c) = m
  BY <1>1 DEF PopLane, Net, Conn, Advanced
<1>5. f \in [Conns -> Conn] /\ w \in SUBSET Conns /\ n.work \subseteq w /\ w \subseteq n.work \cup {c}
  BY <1>1, <1>3
<1> HIDE DEF f, w, y
<1>6. m \in Net /\ m.conn = f /\ m.ready = n.ready /\ m.waiters = n.waiters /\ m.woken = n.woken /\ m.work = w
  BY <1>5 DEF Net
<1> HIDE DEF m
<1> QED BY <1>3, <1>4, <1>5, <1>6 DEF Touch, Queued, f, y

\* The lane without its reader k.
Blank(lane, k) == [i \in DOMAIN lane |-> IF lane[i] = k THEN Gone ELSE lane[i]]

\* As many places, the same readers but for k.
LEMMA BlankFact ==
    ASSUME NEW lane \in Seq(Places), NEW k \in Calls
    PROVE  /\ Blank(lane, k) \in Seq(Places) /\ Len(Blank(lane, k)) = Len(lane)
           /\ Blank(lane, k) = <<>> <=> lane = <<>>
           /\ Elements(Blank(lane, k)) \cap Calls = (Elements(lane) \cap Calls) \ {k}
           /\ \A i \in DOMAIN lane : Blank(lane, k)[i] = lane[i] \/ Blank(lane, k)[i] = Gone
           /\ DOMAIN Blank(lane, k) = DOMAIN lane
           /\ k \notin Elements(lane) => Blank(lane, k) = lane
<1> DEFINE b == Blank(lane, k)
<1>1. DOMAIN lane = 1 .. Len(lane) /\ Len(lane) \in Nat /\ \A i \in 1 .. Len(lane) : lane[i] \in Places
  OBVIOUS
<1>2. b \in Seq(Places) /\ Len(b) = Len(lane) /\ DOMAIN b = DOMAIN lane
  BY <1>1 DEF Blank, Places
<1>3. \A i \in DOMAIN lane : b[i] = IF lane[i] = k THEN Gone ELSE lane[i]
  BY DEF Blank
<1>4. Gone \notin Calls
  BY ClientAssumption
<1> HIDE DEF b
<1>5. Elements(b) \cap Calls = (Elements(lane) \cap Calls) \ {k}
  <2>1. ASSUME NEW j \in Elements(b) \cap Calls PROVE j \in (Elements(lane) \cap Calls) \ {k}
    <3>1. PICK i \in DOMAIN lane : j = b[i]
      BY <1>2 DEF Elements
    <3> QED BY <1>3, <1>4, <3>1 DEF Elements
  <2>2. ASSUME NEW j \in (Elements(lane) \cap Calls) \ {k} PROVE j \in Elements(b) \cap Calls
    <3>1. PICK i \in DOMAIN lane : j = lane[i]
      BY DEF Elements
    <3> QED BY <1>2, <1>3, <3>1 DEF Elements
  <2> QED BY <2>1, <2>2
<1>6. b = <<>> <=> lane = <<>>
  BY <1>1, <1>2
<1>7. k \notin Elements(lane) => b = lane
  <2>1. ASSUME k \notin Elements(lane) PROVE b = lane
    <3>1. \A i \in 1 .. Len(lane) : b[i] = lane[i]
      BY <1>1, <1>3, <2>1 DEF Elements
    <3> QED BY <1>1, <1>2, <3>1
  <2> QED BY <2>1
<1> QED BY <1>2, <1>3, <1>5, <1>6, <1>7 DEF b

\* Stream's drop.
Left(x, k, live) ==
    LET z == [x EXCEPT !.lane = Blank(x.lane, k)] IN IF live THEN Asked(z, "OperationCancelled") ELSE z

\* A reader leaves its lane, and the work list knows if its reply was complete.
LEMMA DropReplyFact ==
    ASSUME NEW n \in Net, NEW cl, NEW k \in Calls, NEW c \in Conns, c = cl[k].on
    PROVE  LET m == DropReply(n, cl, k)
               y == Left(n.conn[c], k, cl[k].live)
           IN  /\ Touch(n, m, c, y) /\ m.ready = n.ready /\ Queued(m) = Queued(n)
               /\ n.work \subseteq m.work /\ m.work \subseteq n.work \cup {c}
               /\ k \in Held(n, cl, c) => c \in m.work
               /\ y \in Conn /\ y.lane = Blank(n.conn[c].lane, k)
<1> DEFINE x == n.conn[c]
           z == [x EXCEPT !.lane = Blank(x.lane, k)]
           y == Left(x, k, cl[k].live)
           w == IF k \in Held(n, cl, c) THEN n.work \cup {c} ELSE n.work
           f == [n.conn EXCEPT ![c] = z]
           freed == [n EXCEPT !.conn = f, !.work = w]
           m == DropReply(n, cl, k)
<1>1. x \in Conn /\ n.conn \in [Conns -> Conn] /\ n.work \in SUBSET Conns /\ x.lane \in Seq(Places)
  BY DEF Net, Conn
<1>2. Blank(x.lane, k) \in Seq(Places)
  BY <1>1, BlankFact
<1>3. z \in Conn /\ z.lane = Blank(x.lane, k)
  BY <1>1, <1>2 DEF Conn
<1>4. freed = [n EXCEPT !.work = w, !.conn[c].lane = [i \in DOMAIN @ |-> IF @[i] = k THEN Gone ELSE @[i]]]
  <2> HIDE DEF w
  <2> QED BY <1>1 DEF Net, Conn, Blank
<1>5. m = IF cl[k].live THEN Request(freed, c, "OperationCancelled") ELSE freed
  <2>1. freed = [n EXCEPT !.work = IF k \in Held(n, cl, c) THEN @ \cup {c} ELSE @,
                          !.conn[c].lane = [i \in DOMAIN @ |-> IF @[i] = k THEN Gone ELSE @[i]]]
    BY <1>4
  <2> HIDE DEF freed
  <2> QED BY <2>1 DEF DropReply
<1>6. f \in [Conns -> Conn] /\ w \in SUBSET Conns /\ n.work \subseteq w /\ w \subseteq n.work \cup {c}
      /\ (k \in Held(n, cl, c) => c \in w)
  BY <1>1, <1>3
<1> HIDE DEF f, w, z
<1>7. freed \in Net /\ freed.conn = f /\ freed.ready = n.ready /\ freed.waiters = n.waiters
      /\ freed.woken = n.woken /\ freed.work = w
  BY <1>6 DEF Net
<1>8. f[c] = z
  BY <1>1 DEF f
<1> HIDE DEF freed, m
<1>9. CASE cl[k].live
  <2>1. m = Request(freed, c, "OperationCancelled") /\ y = Asked(z, "OperationCancelled")
    BY <1>5, <1>9 DEF Left, z
  <2>2. /\ m \in Net /\ m.conn = [f EXCEPT ![c] = Asked(z, "OperationCancelled")] /\ Calm(freed, m)
        /\ m.ready = freed.ready /\ Asked(z, "OperationCancelled") \in Conn
    BY <1>7, <1>8, <2>1, RequestFact DEF Touch
  <2>3. m.conn = [n.conn EXCEPT ![c] = y]
    BY <1>1, <2>1, <2>2 DEF f
  <2>4. y.lane = z.lane
    BY <1>3, <2>1 DEF Asked, Conn
  <2> QED BY <1>3, <1>6, <1>7, <2>1, <2>2, <2>3, <2>4 DEF Touch, Calm, Queued, m
<1>10. CASE ~cl[k].live
  <2>1. m = freed /\ y = z
    BY <1>5, <1>10 DEF Left, z
  <2> QED BY <1>3, <1>6, <1>7, <2>1 DEF Touch, Queued, m, f
<1> QED BY <1>9, <1>10

\* Dial's drop.
Undialled(x, k) ==
    IF x.dialer # k THEN x
    ELSE [x EXCEPT !.dialer = NoCall,
                   !.closing = IF x.state = "admitted" \/ x.closing # "none" THEN x.closing ELSE ClassOf("Superseded")]

\* Only closing and dialer change.
LEMMA DropDialFact ==
    ASSUME NEW n \in Net, NEW k
    PROVE  LET m == DropDial(n, k)
           IN  /\ m \in Net /\ m.ready = n.ready /\ m.work = n.work /\ m.waiters = n.waiters /\ m.woken = n.woken
               /\ \A c \in Conns : m.conn[c] = Undialled(n.conn[c], k) /\ m.conn[c] \in Conn
<1> DEFINE f == [c \in Conns |-> Undialled(n.conn[c], k)]
<1>1. n.conn \in [Conns -> Conn]
  BY DEF Net
<1>2. DropDial(n, k) = [n EXCEPT !.conn = f]
  BY DEF DropDial, Undialled
<1>3. \A c \in Conns : Undialled(n.conn[c], k) \in Conn
  <2> SUFFICES ASSUME NEW c \in Conns PROVE Undialled(n.conn[c], k) \in Conn
    OBVIOUS
  <2> DEFINE x == n.conn[c]
  <2>1. x \in Conn
    BY <1>1
  <2> HIDE DEF x
  <2>2. Undialled(x, k) \in Conn
    BY <2>1, ClassFact DEF Conn, Undialled, Causes
  <2> QED BY <2>2 DEF x
<1>4. f \in [Conns -> Conn] /\ \A c \in Conns : f[c] = Undialled(n.conn[c], k)
  BY <1>3
<1> HIDE DEF f
<1> QED BY <1>2, <1>3, <1>4 DEF Net

\* Dispatch's drop: nobody else is forgotten.
LEMMA DropDispatchFact ==
    ASSUME NEW n \in Net, NEW cl, NEW k \in Calls
    PROVE  LET m == DropDispatch(n, cl, k)
           IN  /\ m \in Net /\ m.ready = n.ready /\ m.work = n.work
               /\ Queued(n) \ {k} \subseteq Queued(m)
               /\ \A c \in Conns : /\ m.conn[c] \in Conn
                                   /\ m.conn[c] = IF cl[k].phase = "dial" THEN Undialled(n.conn[c], k) ELSE n.conn[c]
<1> DEFINE w == Drop(n.waiters, {k})
           q == [n EXCEPT !.waiters = w, !.woken = n.woken \ {k}]
           m == DropDispatch(n, cl, k)
<1>1. n.waiters \in Seq(Calls) /\ n.woken \in SUBSET Calls /\ n.conn \in [Conns -> Conn]
  BY DEF Net
<1>2. w \in Seq(Calls) /\ Elements(w) = Elements(n.waiters) \ {k}
  BY <1>1, DropElements
<1>3. q \in Net /\ q.conn = n.conn /\ q.ready = n.ready /\ q.work = n.work /\ q.waiters = w /\ q.woken = n.woken \ {k}
  <2> HIDE DEF w
  <2> QED BY <1>1, <1>2 DEF Net
<1>4. m = IF cl[k].phase = "dial" THEN DropDial(q, k) ELSE q
  BY DEF DropDispatch
<1> HIDE DEF q, w, m
<1>5. /\ m \in Net /\ m.ready = q.ready /\ m.work = q.work /\ m.waiters = q.waiters /\ m.woken = q.woken
      /\ \A c \in Conns : /\ m.conn[c] \in Conn
                          /\ m.conn[c] = IF cl[k].phase = "dial" THEN Undialled(q.conn[c], k) ELSE q.conn[c]
  <2>1. CASE cl[k].phase = "dial"
    BY <1>3, <1>4, <2>1, DropDialFact
  <2>2. CASE cl[k].phase # "dial"
    BY <1>1, <1>3, <1>4, <2>2
  <2> QED BY <2>1, <2>2
<1> QED BY <1>2, <1>3, <1>5 DEF Queued, m

\* A lane is as full as its places and its held replies make it.
LEMMA FullSame ==
    ASSUME NEW n, NEW m, NEW cl, NEW c, n.conn[c].lane = m.conn[c].lane
    PROVE  Full(n, cl, c) <=> Full(m, cl, c)
<1>1. Held(n, cl, c) = Held(m, cl, c)
  BY DEF Held
<1> QED BY <1>1 DEF Full

\* Claim::commit.
Sent(x, k) ==
    [x EXCEPT !.lane = Append(x.lane, k), !.quiet = 0, !.used = (idle = 0), !.dialer = NoCall,
              !.adm = Submitted(x.adm, idle)]

\* The record changes, and the connection is offered again.
LEMMA CommitFact ==
    ASSUME NEW n \in Net, NEW cl, NEW k \in Calls, NEW c \in Conns
    PROVE  LET m == Commit(n, cl, k, c)
               y == Sent(n.conn[c], k)
           IN  /\ Touch(n, m, c, y) /\ Calm(n, m) /\ Offered(n, m, c, y, Full(m, cl, c))
               /\ y \in Conn
<1> DEFINE x == n.conn[c]
           y == Sent(x, k)
           sent == [n EXCEPT !.conn[c].lane = Append(@, k), !.conn[c].quiet = 0,
                             !.conn[c].used = (idle = 0), !.conn[c].dialer = NoCall,
                             !.conn[c].adm = Submitted(@, idle)]
           m == Commit(n, cl, k, c)
<1>1. x \in Conn /\ n.conn \in [Conns -> Conn] /\ x.lane \in Seq(Places) /\ k \in Places
  BY DEF Net, Conn, Places
<1>2. Append(x.lane, k) \in Seq(Places)
  BY <1>1
<1>3. Submitted(x.adm, idle) \in Adms
  BY DEF Submitted, Sealed, Active, Adms, Kinds
<1>4. y \in Conn
  BY <1>1, <1>2, <1>3 DEF Conn, Sent
<1>5. sent = [n EXCEPT !.conn = [n.conn EXCEPT ![c] = y]]
  <2> DEFINE a == Submitted(x.adm, idle)
             l == Append(x.lane, k)
             u == (idle = 0)
  <2> HIDE DEF a, l, u
  <2>1. y = [x EXCEPT !.lane = l, !.quiet = 0, !.used = u, !.dialer = NoCall, !.adm = a]
    BY DEF Sent, a, l, u
  <2>2. sent = [n EXCEPT !.conn[c].lane = l, !.conn[c].quiet = 0, !.conn[c].used = u, !.conn[c].dialer = NoCall,
                         !.conn[c].adm = a]
    BY <1>1 DEF a, l, u, Net, Conn
  <2> HIDE DEF y, sent
  <2>3. sent = [n EXCEPT !.conn = [n.conn EXCEPT ![c] = [x EXCEPT !.lane = l, !.quiet = 0, !.used = u, !.dialer = NoCall,
                                                                !.adm = a]]]
    <3> DEFINE z == [x EXCEPT !.lane = l, !.quiet = 0, !.used = u]
               r == [n EXCEPT !.conn[c].lane = l, !.conn[c].quiet = 0, !.conn[c].used = u]
               f == [n.conn EXCEPT ![c] = z]
    <3>1. r = [n EXCEPT !.conn = f]
      BY <1>1 DEF Net, Conn
    <3>2. sent = [r EXCEPT !.conn[c].dialer = NoCall, !.conn[c].adm = a]
      BY <2>2
    <3>3. f[c] = z
      BY <1>1
    <3> HIDE DEF z, r, f
    <3>4. r.conn = f
      BY <3>1 DEF Net
    <3>5. sent = [r EXCEPT !.conn = [f EXCEPT ![c] = [z EXCEPT !.dialer = NoCall, !.adm = a]]]
      BY <3>2, <3>3, <3>4
    <3> QED BY <1>1, <3>1, <3>5 DEF z, f
  <2> QED BY <2>1, <2>3
<1>6. m = Schedule(sent, cl, c)
  BY DEF Commit
<1> HIDE DEF y, sent, m
<1>7. Touch(n, sent, c, y) /\ Calm(n, sent) /\ sent.ready = n.ready /\ sent.conn[c] = y
  BY <1>4, <1>5, SetFact
<1>8. m \in Net /\ m.conn = sent.conn /\ Calm(sent, m) /\ Offered(sent, m, c, y, Full(sent, cl, c))
  BY <1>6, <1>7, ScheduleFact DEF Touch
<1>9. Full(sent, cl, c) <=> Full(m, cl, c)
  BY <1>8, FullSame
<1> QED BY <1>4, <1>7, <1>8, <1>9 DEF Touch, Calm, Offered, m, y

\* The end of Output::publish and Pool::complete.
Ended(x) ==
    [x EXCEPT !.adm = Completed(x.adm, x.budget, Len(x.lane)), !.budget = 0, !.headed = FALSE, !.quiet = 0]
Finished(x) == IF x.budget = 0 THEN Asked(Ended(x), "ScheduledRotation") ELSE Ended(x)

\* The record changes, and the connection is offered unless it failed.
LEMMA CompletionFact ==
    ASSUME NEW n \in Net, NEW cl, NEW c \in Conns
    PROVE  LET m == Completion(n, cl, c)
               x == n.conn[c]
               y == Finished(x)
           IN  /\ Touch(n, m, c, y) /\ Calm(n, m)
               /\ Offered(n, m, c, y, Full(n, cl, c) \/ (x.failed /\ x.lane = <<>>))
               /\ y \in Conn /\ y.lane = x.lane /\ y.failed = x.failed
<1> DEFINE x == n.conn[c]
           z == Ended(x)
           y == Finished(x)
           done == [n EXCEPT !.conn[c].adm = Completed(x.adm, x.budget, Len(x.lane)), !.conn[c].budget = 0,
                             !.conn[c].headed = FALSE, !.conn[c].quiet = 0]
           offered == IF x.failed /\ x.lane = <<>> THEN done ELSE Schedule(done, cl, c)
           full == Full(n, cl, c) \/ (x.failed /\ x.lane = <<>>)
           m == Completion(n, cl, c)
<1>1. x \in Conn /\ n.conn \in [Conns -> Conn] /\ x.budget \in Nat
  BY DEF Net, Conn
<1>2. Completed(x.adm, x.budget, Len(x.lane)) \in Adms
  BY <1>1 DEF Completed, Sealed, Active, Idle, Adms, Kinds
<1>3. z \in Conn /\ z.lane = x.lane /\ z.failed = x.failed
  BY <1>1, <1>2 DEF Conn, Ended
<1>4. done = [n EXCEPT !.conn = [n.conn EXCEPT ![c] = z]]
  <2> DEFINE a == Completed(x.adm, x.budget, Len(x.lane))
  <2> HIDE DEF a
  <2>1. z = [x EXCEPT !.adm = a, !.budget = 0, !.headed = FALSE, !.quiet = 0]
    BY DEF Ended, a
  <2>2. done = [n EXCEPT !.conn[c].adm = a, !.conn[c].budget = 0, !.conn[c].headed = FALSE, !.conn[c].quiet = 0]
    BY DEF a
  <2> HIDE DEF z, done
  <2> DEFINE o == [x EXCEPT !.adm = a, !.budget = 0]
             r == [n EXCEPT !.conn[c].adm = a, !.conn[c].budget = 0]
             f == [n.conn EXCEPT ![c] = o]
  <2>3. r = [n EXCEPT !.conn = f]
    BY <1>1 DEF Net, Conn
  <2>4. done = [r EXCEPT !.conn[c].headed = FALSE, !.conn[c].quiet = 0]
    BY <2>2
  <2>5. f[c] = o
    BY <1>1
  <2>6. z = [o EXCEPT !.headed = FALSE, !.quiet = 0]
    BY <2>1
  <2> HIDE DEF o, r, f
  <2>7. r.conn = f
    BY <2>3 DEF Net
  <2>8. done = [r EXCEPT !.conn = [f EXCEPT ![c] = [o EXCEPT !.headed = FALSE, !.quiet = 0]]]
    BY <2>4, <2>5, <2>7
  <2> QED BY <1>1, <2>3, <2>6, <2>8 DEF f
<1>5. m = IF x.budget = 0 THEN Request(offered, c, "ScheduledRotation") ELSE offered
  BY DEF Completion
<1> HIDE DEF done, z, m, offered
<1>6. Touch(n, done, c, z) /\ Calm(n, done) /\ done.ready = n.ready /\ done.conn[c] = z
  BY <1>3, <1>4, SetFact
<1>7. Full(done, cl, c) <=> Full(n, cl, c)
  BY <1>3, <1>6, FullSame
<1>8. offered \in Net /\ offered.conn = done.conn /\ Calm(done, offered) /\ Offered(done, offered, c, z, full)
  <2>1. CASE x.failed /\ x.lane = <<>>
    BY <1>6, <2>1 DEF offered, Touch, Calm, Offered
  <2>2. CASE ~(x.failed /\ x.lane = <<>>)
    <3>1. offered = Schedule(done, cl, c)
      BY <2>2 DEF offered
    <3> QED BY <1>6, <1>7, <2>2, <3>1, ScheduleFact DEF Touch, Offered
  <2> QED BY <2>1, <2>2
<1>9. Touch(n, offered, c, z) /\ Calm(n, offered) /\ Offered(n, offered, c, z, full) /\ offered.conn[c] = z
  BY <1>6, <1>8 DEF Touch, Calm, Offered
<1> HIDE DEF full
<1>10. CASE x.budget = 0
  <2>1. m = Request(offered, c, "ScheduledRotation") /\ y = Asked(z, "ScheduledRotation")
    BY <1>5, <1>10 DEF Finished, z
  <2>2. /\ m \in Net /\ m.conn = [offered.conn EXCEPT ![c] = y] /\ Calm(offered, m)
        /\ m.ready = offered.ready /\ y \in Conn
    BY <1>9, <2>1, RequestFact DEF Touch
  <2>3. m.conn = [n.conn EXCEPT ![c] = y]
    BY <1>1, <1>9, <2>2 DEF Touch
  <2>4. y.lane = z.lane /\ y.failed = z.failed /\ (Offerable(y) <=> Offerable(z))
    BY <1>3, <2>1 DEF Asked, Conn, Offerable
  <2> HIDE DEF y
  <2>5. Offered(n, m, c, y, full)
    BY <1>9, <2>2, <2>4 DEF Offered
  <2> QED BY <1>3, <1>9, <2>2, <2>3, <2>4, <2>5 DEF Touch, Calm, y, m, full
<1>11. CASE x.budget # 0
  <2>1. m = offered /\ y = z
    BY <1>5, <1>11 DEF Finished, z
  <2> QED BY <1>3, <1>9, <2>1 DEF m, full
<1> QED BY <1>10, <1>11

-----------------------------------------------------------------------------
(* A connection by itself.  i and dyn are the client's idle and dynamic. *)

\* What the state of its slot says.
SlotOK(x, dyn) ==
    /\ x.state \notin Open2 => x.adm = Sealed
    /\ x.state \in {"vacant", "admitted"} =>
          x.lane = <<>> /\ ~x.headed /\ x.said = Unsaid /\ ~x.used /\ x.quiet = 0
    /\ x.state = "vacant" => x.dialer = NoCall /\ x.closing = "none"
    /\ x.state = "drained" => x.lane = <<>>
    /\ x.dialer # NoCall => dyn /\ x.lane = <<>> /\ ~CanQueue(x.adm) /\ x.said = Unsaid /\ ~x.used
    /\ x.adm.kind = "reserved" /\ x.closing = "none" => x.dialer # NoCall

\* What its admission says: a lease that lasts is within the client's maximum and the
\* peer's timeout by what the connection has been quiet for.
LeaseOK(x, i) ==
    /\ x.quiet <= i
    /\ x.headed /\ x.state \in Open2 => x.lane # <<>> /\ x.budget = Admit(i, x.said)
    /\ x.headed /\ x.budget = 0 => x.adm = Sealed
    /\ ~x.said.reusable => x.adm = Sealed
    /\ i = 0 => x.adm.kind \in {"fresh", "reserved", "sealed"}
    /\ x.adm.kind = "fresh" => i = 0
    /\ i = 0 /\ x.used => x.adm = Sealed
    /\ x.used => i = 0
    /\ x.adm.kind = "active" => x.lane # <<>>
    /\ x.lane # <<>> => x.adm.kind \in {"active", "sealed"}
    /\ x.adm.kind = "idle" /\ x.adm.left > 0 =>
          /\ x.adm.left + x.quiet <= i
          /\ x.said.timeout # NoHint => x.adm.left + x.quiet + Margin <= x.said.timeout

ConnOK(x, i, dyn) == x \in Conn /\ SlotOK(x, dyn) /\ LeaseOK(x, i)

\* The types of what the parts mention.
LEMMA ConnTypes ==
    ASSUME NEW x \in Conn
    PROVE  /\ x.adm \in Adms /\ x.adm.kind \in Kinds /\ x.adm.left \in Nat
           /\ x.lane \in Seq(Places) /\ x.budget \in Nat /\ x.quiet \in Nat
           /\ x.said \in Controls /\ x.said.reusable \in BOOLEAN
           /\ x.said.timeout # NoHint => x.said.timeout \in Nat
  BY ClientAssumption DEF Conn, Adms, Controls

\* Asking to close keeps a connection consistent.
LEMMA AskedOK ==
    ASSUME NEW x, NEW i \in Nat, NEW dyn \in BOOLEAN, ConnOK(x, i, dyn), NEW cause
    PROVE  ConnOK(Asked(x, cause), i, dyn)
<1> DEFINE y == Asked(x, cause)
<1>1. x \in Conn
  BY DEF ConnOK
<1>2. y \in Conn
  BY <1>1, ClassFact DEF Asked, Conn, Causes
<1>3. /\ y.state = x.state /\ y.adm = x.adm /\ y.lane = x.lane /\ y.headed = x.headed /\ y.said = x.said
      /\ y.used = x.used /\ y.quiet = x.quiet /\ y.dialer = x.dialer /\ y.budget = x.budget
      /\ y.closing = x.closing \/ (x.state # "vacant" /\ y.closing \in Classes)
  BY <1>1, ClassFact DEF Asked, Conn
<1>4. "none" \notin Classes
  BY DEF Classes
<1> HIDE DEF y
<1>5. SlotOK(y, dyn)
  BY <1>3, <1>4 DEF ConnOK, SlotOK
<1>6. LeaseOK(y, i)
  BY <1>3 DEF ConnOK, LeaseOK
<1> QED BY <1>2, <1>5, <1>6 DEF ConnOK, y

\* So does closing.
LEMMA ShutOK ==
    ASSUME NEW x, NEW i \in Nat, NEW dyn \in BOOLEAN, ConnOK(x, i, dyn)
    PROVE  ConnOK(Shut(x), i, dyn)
<1> DEFINE y == Shut(x)
<1>1. x \in Conn
  BY DEF ConnOK
<1>2. CASE x.state \notin Open2
  BY <1>2 DEF Shut
<1>3. CASE x.state \in Open2
  <2>1. y = [x EXCEPT !.state = "closing", !.adm = Sealed] /\ Sealed \in Adms
    BY <1>3 DEF Shut, Sealed, Adms, Kinds
  <2>2. /\ y \in Conn /\ y.state = "closing" /\ y.adm = Sealed /\ y.lane = x.lane /\ y.headed = x.headed
        /\ y.said = x.said /\ y.used = x.used /\ y.quiet = x.quiet /\ y.dialer = x.dialer /\ y.budget = x.budget
        /\ y.closing = x.closing
    BY <1>1, <2>1 DEF Conn
  <2> HIDE DEF y
  <2>3. Sealed.kind = "sealed"
    BY DEF Sealed
  <2>4. SlotOK(y, dyn)
    BY <1>3, <2>2, <2>3 DEF ConnOK, SlotOK, CanQueue, Open2
  <2>5. LeaseOK(y, i)
    BY <1>3, <2>2, <2>3 DEF ConnOK, LeaseOK, Open2
  <2> QED BY <2>2, <2>4, <2>5 DEF ConnOK, y
<1> QED BY <1>2, <1>3

\* A request is written to a connection that is ready.
LEMMA SentOK ==
    ASSUME NEW x, NEW k \in Calls, idle \in Nat, NEW dyn \in BOOLEAN, ConnOK(x, idle, dyn), x.state = "ready"
    PROVE  ConnOK(Sent(x, k), idle, dyn)
<1> DEFINE y == Sent(x, k)
           i == idle
<1>1. x \in Conn /\ x.lane \in Seq(Places) /\ k \in Places
  BY DEF ConnOK, Conn, Places
<1>2. Append(x.lane, k) \in Seq(Places) /\ Append(x.lane, k) # <<>>
  BY <1>1
<1>3. Submitted(x.adm, idle) \in Adms /\ (Submitted(x.adm, idle) = Sealed \/ Submitted(x.adm, idle) = Active)
  BY DEF Submitted, Sealed, Active, Adms, Kinds
<1>4. /\ y \in Conn /\ y.state = x.state /\ y.adm = Submitted(x.adm, idle) /\ y.lane = Append(x.lane, k)
      /\ y.headed = x.headed /\ y.said = x.said /\ (y.used <=> idle = 0) /\ y.quiet = 0 /\ y.dialer = NoCall
      /\ y.budget = x.budget /\ y.closing = x.closing
  BY <1>1, <1>2, <1>3 DEF Conn, Sent
<1>5. Sealed.kind = "sealed" /\ Active.kind = "active"
  BY DEF Sealed, Active
<1>6. SlotOK(y, dyn)
  <2> HIDE DEF y
  <2> QED BY <1>2, <1>3, <1>4, <1>5 DEF ConnOK, SlotOK, Open2
<1>7. LeaseOK(y, i)
  <2>1. /\ x.adm = Sealed => y.adm = Sealed
        /\ idle = 0 => y.adm = Sealed
    <3>1. x.adm.kind \in Kinds
      BY <1>1, ConnTypes
    <3>2. i = 0 => x.adm.kind \in {"fresh", "reserved", "sealed"}
      BY DEF ConnOK, LeaseOK
    <3> HIDE DEF y
    <3> QED BY <1>4, <1>5, <3>1, <3>2 DEF Submitted
  <2>2. x.headed => y.lane # <<>> /\ (x.state \in Open2 => y.budget = Admit(i, y.said))
    <3> HIDE DEF y
    <3> QED BY <1>2, <1>4 DEF ConnOK, LeaseOK
  <2>3. (x.headed /\ x.budget = 0 => x.adm = Sealed) /\ (~x.said.reusable => x.adm = Sealed)
    BY DEF ConnOK, LeaseOK
  <2> HIDE DEF y
  <2> QED BY <1>2, <1>3, <1>4, <1>5, <2>1, <2>2, <2>3 DEF LeaseOK
<1> QED BY <1>4, <1>6, <1>7 DEF ConnOK

\* A reader leaves.
LEMMA LeftOK ==
    ASSUME NEW x, NEW k \in Calls, NEW i \in Nat, NEW dyn \in BOOLEAN, ConnOK(x, i, dyn), NEW live
    PROVE  ConnOK(Left(x, k, live), i, dyn)
<1> DEFINE z == [x EXCEPT !.lane = Blank(x.lane, k)]
<1>1. x \in Conn /\ x.lane \in Seq(Places)
  BY DEF ConnOK, Conn
<1>2. Blank(x.lane, k) \in Seq(Places) /\ (Blank(x.lane, k) = <<>> <=> x.lane = <<>>)
  BY <1>1, BlankFact
<1>3. /\ z \in Conn /\ z.state = x.state /\ z.adm = x.adm /\ z.lane = Blank(x.lane, k) /\ z.headed = x.headed
      /\ z.said = x.said /\ z.used = x.used /\ z.quiet = x.quiet /\ z.dialer = x.dialer /\ z.budget = x.budget
      /\ z.closing = x.closing
  BY <1>1, <1>2 DEF Conn
<1> HIDE DEF z
<1>4. SlotOK(z, dyn)
  BY <1>2, <1>3 DEF ConnOK, SlotOK
<1>5. LeaseOK(z, i)
  BY <1>2, <1>3 DEF ConnOK, LeaseOK
<1>6. ConnOK(z, i, dyn)
  BY <1>3, <1>4, <1>5 DEF ConnOK
<1>7. ConnOK(Asked(z, "OperationCancelled"), i, dyn)
  <2> DEFINE cause == "OperationCancelled"
  <2> HIDE DEF cause
  <2>1. ConnOK(Asked(z, cause), i, dyn)
    BY <1>6, AskedOK
  <2> QED BY <2>1 DEF cause
<1> QED BY <1>6, <1>7 DEF Left, z

\* The call that dialled it leaves.
LEMMA UndialledOK ==
    ASSUME NEW x, NEW k \in Calls, NEW i \in Nat, NEW dyn \in BOOLEAN, ConnOK(x, i, dyn)
    PROVE  ConnOK(Undialled(x, k), i, dyn)
<1> DEFINE y == Undialled(x, k)
<1>1. x \in Conn /\ NoCall \notin Calls
  BY ClientAssumption DEF ConnOK
<1>2. CASE x.dialer # k
  BY <1>2 DEF Undialled
<1>3. CASE x.dialer = k
  <2>1. /\ y \in Conn /\ y.state = x.state /\ y.adm = x.adm /\ y.lane = x.lane /\ y.headed = x.headed
        /\ y.said = x.said /\ y.used = x.used /\ y.quiet = x.quiet /\ y.dialer = NoCall /\ y.budget = x.budget
        /\ (x.state = "admitted" \/ y.closing # "none")
    BY <1>1, <1>3, ClassFact DEF Conn, Undialled, Causes, Classes
  <2> HIDE DEF y
  <2>2. x.state # "vacant"
    BY <1>1, <1>3 DEF ConnOK, SlotOK
  <2>3. SlotOK(y, dyn)
    BY <2>1, <2>2 DEF ConnOK, SlotOK, Open2, Sealed
  <2>4. LeaseOK(y, i)
    BY <2>1 DEF ConnOK, LeaseOK
  <2> QED BY <2>1, <2>3, <2>4 DEF ConnOK, y
<1> QED BY <1>2, <1>3

\* A budget is within the maximum and the peer's timeout less the margin.
LEMMA AdmitFact ==
    ASSUME NEW i \in Nat, NEW s \in Controls
    PROVE  /\ Admit(i, s) \in Nat /\ Admit(i, s) <= i
           /\ ~s.reusable => Admit(i, s) = 0
           /\ Admit(i, s) > 0 /\ s.timeout # NoHint => Admit(i, s) + Margin <= s.timeout
<1>1. s.timeout # NoHint => s.timeout \in Nat
  BY ClientAssumption DEF Controls
<1> QED BY <1>1, ReuseAssumption DEF Admit, Controls

\* A response ends on a connection that is sealed, or that was told its budget.
LEMMA FinishedOK ==
    ASSUME NEW w \in Conn, NEW i \in Nat, NEW dyn \in BOOLEAN, SlotOK(w, dyn), w.state \in Open2,
           w.adm = Sealed \/ (w.dialer = NoCall /\ w.budget = Admit(i, w.said)),
           ~w.said.reusable => w.adm = Sealed, w.used => i = 0 /\ w.adm = Sealed
    PROVE  ConnOK(Finished(w), i, dyn)
<1> DEFINE y == Ended(w)
           b == w.budget
           a == Completed(w.adm, b, Len(w.lane))
<1>1. /\ w.adm \in Adms /\ w.lane \in Seq(Places) /\ b \in Nat /\ w.said \in Controls /\ Len(w.lane) \in Nat
      /\ Len(w.lane) = 0 <=> w.lane = <<>>
  BY ConnTypes
<1>2. a \in Adms
  BY <1>1 DEF Completed, Sealed, Active, Idle, Adms, Kinds
<1>3. /\ y \in Conn /\ y.state = w.state /\ y.adm = a /\ y.lane = w.lane /\ ~y.headed
      /\ y.said = w.said /\ y.used = w.used /\ y.quiet = 0 /\ y.dialer = w.dialer /\ y.budget = 0
      /\ y.closing = w.closing
  BY <1>2 DEF Conn, Ended
<1>4. Sealed.kind = "sealed" /\ Sealed.left = 0 /\ Active.kind = "active" /\ Idle(b).kind = "idle" /\ Idle(b).left = b
  BY DEF Sealed, Active, Idle
<1>5. \/ a = Sealed
      \/ /\ w.dialer = NoCall /\ b = Admit(i, w.said) /\ b # 0 /\ w.adm # Sealed
         /\ (w.lane # <<>> /\ a = Active) \/ (w.lane = <<>> /\ a = Idle(b))
  BY <1>1, <1>4 DEF Completed
<1>6. /\ Admit(i, w.said) \in Nat /\ Admit(i, w.said) <= i
      /\ Admit(i, w.said) > 0 /\ w.said.timeout # NoHint => Admit(i, w.said) + Margin <= w.said.timeout
  BY <1>1, AdmitFact
<1> HIDE DEF y, a, b
<1>7. SlotOK(y, dyn)
  BY <1>3, <1>4, <1>5 DEF SlotOK, Open2, CanQueue
<1>8. LeaseOK(y, i)
  <2>1. CASE a = Sealed
    BY <1>3, <1>4, <2>1 DEF LeaseOK
  <2>2. CASE a # Sealed
    <3>1. w.said.reusable /\ ~w.used /\ b > 0 /\ b <= i /\ (w.said.timeout # NoHint => b + Margin <= w.said.timeout)
      BY <1>1, <1>5, <1>6, <2>2
    <3>2. i # 0 /\ b + 0 = b
      BY <1>1, <3>1
    <3>3. w.said.timeout # NoHint => w.said.timeout \in Nat
      BY ConnTypes
    <3>4. CASE w.lane # <<>> /\ a = Active
      BY <1>3, <1>4, <3>1, <3>2, <3>4 DEF LeaseOK
    <3>5. CASE w.lane = <<>> /\ a = Idle(b)
      BY <1>3, <1>4, <3>1, <3>2, <3>3, <3>5 DEF LeaseOK
    <3> QED BY <1>5, <2>2, <3>4, <3>5
  <2> QED BY <2>1, <2>2
<1>9. ConnOK(y, i, dyn)
  BY <1>3, <1>7, <1>8 DEF ConnOK
<1>10. ConnOK(Asked(y, "ScheduledRotation"), i, dyn)
  <2> DEFINE cause == "ScheduledRotation"
  <2> HIDE DEF cause
  <2>1. ConnOK(Asked(y, cause), i, dyn)
    BY <1>9, AskedOK
  <2> QED BY <2>1 DEF cause
<1> QED BY <1>9, <1>10 DEF Finished, y

\* A lane that advances, in a connection that is open or closing.
LEMMA AdvancedFact ==
    ASSUME NEW x \in Conn, x.lane # <<>>
    PROVE  LET y == Advanced(x)
           IN  /\ y \in Conn /\ y.lane = Tail(x.lane)
               /\ y.state = x.state /\ y.adm = x.adm /\ y.headed = x.headed /\ y.failed = x.failed
               /\ y.said = x.said /\ y.used = x.used /\ y.quiet = x.quiet /\ y.dialer = x.dialer
               /\ y.budget = x.budget /\ y.closing = x.closing
<1>1. x.lane \in Seq(Places)
  BY ConnTypes
<1>2. Tail(x.lane) \in Seq(Places)
  BY <1>1
<1> QED BY <1>2 DEF Conn, Advanced

\* The end of a response.
LEMMA PublishedOK ==
    ASSUME NEW x, NEW i \in Nat, NEW dyn \in BOOLEAN, ConnOK(x, i, dyn), x.state \in Open2, x.headed
    PROVE  x.lane # <<>> /\ ConnOK(Finished(Advanced(x)), i, dyn)
<1> DEFINE w == Advanced(x)
<1>1. x \in Conn /\ x.lane # <<>> /\ x.budget = Admit(i, x.said)
  BY DEF ConnOK, LeaseOK
<1>2. /\ w \in Conn /\ w.lane = Tail(x.lane)
      /\ w.state = x.state /\ w.adm = x.adm /\ w.headed = x.headed
      /\ w.said = x.said /\ w.used = x.used /\ w.quiet = x.quiet /\ w.dialer = x.dialer
      /\ w.budget = x.budget /\ w.closing = x.closing
  BY <1>1, AdvancedFact
<1> HIDE DEF w
<1>3. SlotOK(w, dyn) /\ w.dialer = NoCall
  BY <1>1, <1>2 DEF ConnOK, SlotOK, Open2
<1>4. (~w.said.reusable => w.adm = Sealed) /\ (w.used => i = 0 /\ w.adm = Sealed)
  BY <1>2 DEF ConnOK, LeaseOK
<1>5. ConnOK(Finished(w), i, dyn)
  BY <1>1, <1>2, <1>3, <1>4, FinishedOK
<1> QED BY <1>1, <1>5 DEF w

\* A response that fails: the connection is sealed and its budget void.
Voided(x) == SealedConn([x EXCEPT !.budget = 0])

\* The reply at the front ends.
LEMMA VoidedOK ==
    ASSUME NEW x, NEW i \in Nat, NEW dyn \in BOOLEAN, ConnOK(x, i, dyn), x.state \in Open2
    PROVE  /\ Voided(x) \in Conn /\ Voided(x).lane = x.lane
           /\ ConnOK(Finished(IF x.lane = <<>> THEN Voided(x) ELSE Advanced(Voided(x))), i, dyn)
<1> DEFINE z == Voided(x)
           w == IF x.lane = <<>> THEN z ELSE Advanced(z)
<1>1. x \in Conn /\ Sealed \in Adms
  BY DEF ConnOK, Sealed, Adms, Kinds
<1>2. /\ z \in Conn /\ z.lane = x.lane /\ z.state = x.state /\ z.adm = Sealed /\ z.headed = x.headed
      /\ z.said = x.said /\ z.used = x.used /\ z.quiet = x.quiet /\ z.dialer = x.dialer
      /\ z.budget = 0 /\ z.closing = x.closing
  BY <1>1 DEF Conn, Voided, SealedConn
<1> HIDE DEF z
<1>3. /\ w \in Conn /\ w.state = x.state /\ w.adm = Sealed /\ w.said = x.said /\ w.used = x.used
      /\ w.dialer = x.dialer /\ w.closing = x.closing /\ (x.lane = <<>> => w.lane = <<>>)
  <2>1. CASE x.lane = <<>>
    BY <1>2, <2>1
  <2>2. CASE x.lane # <<>>
    <3>1. w = Advanced(z)
      BY <2>2
    <3> HIDE DEF w
    <3> QED BY <1>2, <2>2, <3>1, AdvancedFact
  <2> QED BY <2>1, <2>2
<1> HIDE DEF w
<1>4. SlotOK(w, dyn)
  BY <1>3 DEF ConnOK, SlotOK, Open2, CanQueue, Sealed
<1>5. w.used => i = 0
  BY <1>3 DEF ConnOK, LeaseOK
<1>6. ConnOK(Finished(w), i, dyn)
  BY <1>3, <1>4, <1>5, FinishedOK
<1> QED BY <1>2, <1>6 DEF z, w

\* Output::publish of a final head.
Seen(x, control) == [x EXCEPT !.headed = TRUE, !.said = control, !.budget = Admit(idle, control)]

\* A head starts a budget, or seals.
LEMMA SeenOK ==
    ASSUME NEW x, idle \in Nat, NEW dyn \in BOOLEAN, ConnOK(x, idle, dyn), x.state \in Open2, x.lane # <<>>,
           NEW control \in Controls
    PROVE  /\ Seen(x, control) \in Conn /\ SealedConn(Seen(x, control)) \in Conn
           /\ Seen(x, control).lane = x.lane /\ SealedConn(Seen(x, control)).lane = x.lane
           /\ Admit(idle, control) # 0 => ConnOK(Seen(x, control), idle, dyn)
           /\ Admit(idle, control) = 0 => ConnOK(SealedConn(Seen(x, control)), idle, dyn)
<1> DEFINE z == Seen(x, control)
           y == SealedConn(z)
           i == idle
           b == Admit(idle, control)
<1>1. x \in Conn /\ Sealed \in Adms /\ i \in Nat /\ b \in Nat /\ (~control.reusable => b = 0)
  BY AdmitFact DEF ConnOK, Sealed, Adms, Kinds
<1>2. /\ z \in Conn /\ z.lane = x.lane /\ z.state = x.state /\ z.adm = x.adm /\ z.headed
      /\ z.said = control /\ z.used = x.used /\ z.quiet = x.quiet /\ z.dialer = x.dialer
      /\ z.budget = b /\ z.closing = x.closing
  <2> HIDE DEF b
  <2>1. z = [x EXCEPT !.headed = TRUE, !.said = control, !.budget = b]
    BY DEF Seen, b
  <2> HIDE DEF z
  <2> QED BY <1>1, <2>1 DEF Conn
<1> HIDE DEF z
<1>3. /\ y \in Conn /\ y.lane = x.lane /\ y.state = x.state /\ y.adm = Sealed /\ y.headed
      /\ y.said = control /\ y.used = x.used /\ y.quiet = x.quiet /\ y.dialer = x.dialer
      /\ y.budget = b /\ y.closing = x.closing
  BY <1>1, <1>2 DEF Conn, SealedConn
<1> HIDE DEF y
<1>4. x.dialer = NoCall /\ x.adm.kind \in {"active", "sealed"} /\ Sealed.kind = "sealed"
  BY DEF ConnOK, SlotOK, LeaseOK, Sealed
<1>5. b = Admit(i, control) /\ i = idle
  OBVIOUS
<1> HIDE DEF b, i
<1>6. SlotOK(z, dyn)
  BY <1>2, <1>4 DEF ConnOK, SlotOK, Open2
<1>7. SlotOK(y, dyn)
  BY <1>3, <1>4 DEF ConnOK, SlotOK, Open2
<1>8. LeaseOK(x, i)
  BY <1>5 DEF ConnOK
<1>9. b # 0 => LeaseOK(z, i)
  BY <1>1, <1>2, <1>4, <1>5, <1>8 DEF LeaseOK
<1>10. LeaseOK(y, i)
  BY <1>1, <1>3, <1>4, <1>5, <1>8 DEF LeaseOK
<1> QED BY <1>2, <1>3, <1>5, <1>6, <1>7, <1>9, <1>10 DEF ConnOK, z, y

\* A slot that is free.
LEMMA NewConnOK ==
    ASSUME NEW i \in Nat, NEW dyn \in BOOLEAN
    PROVE  ConnOK(NewConn, i, dyn)
<1> DEFINE y == NewConn
<1>1. Unsaid \in Controls /\ Unsaid.reusable /\ Sealed \in Adms /\ Sealed.kind = "sealed" /\ <<>> \in Seq(Places)
  BY DEF Unsaid, Control, Controls, Sealed, Adms, Kinds
<1>2. /\ y.state = "vacant" /\ y.adm = Sealed /\ y.closing = "none" /\ y.lane = <<>> /\ ~y.headed
      /\ y.budget = 0 /\ y.dialer = NoCall /\ y.said = Unsaid /\ ~y.used /\ y.quiet = 0
  BY DEF NewConn
<1>3. y \in Conn
  BY <1>1 DEF NewConn, Conn, Causes
<1> HIDE DEF y
<1>4. SlotOK(y, dyn)
  BY <1>1, <1>2 DEF SlotOK
<1>5. LeaseOK(y, i)
  BY <1>1, <1>2 DEF LeaseOK
<1> QED BY <1>3, <1>4, <1>5 DEF ConnOK, y

\* A slot is taken, for a call or for a fixed connector.
LEMMA AdmittedOK ==
    ASSUME NEW x, NEW i \in Nat, NEW dyn \in BOOLEAN, ConnOK(x, i, dyn), x.state = "vacant",
           NEW k \in Calls \cup {NoCall}, k # NoCall => dyn
    PROVE  ConnOK([x EXCEPT !.state = "admitted", !.dialer = k], i, dyn)
<1> DEFINE y == [x EXCEPT !.state = "admitted", !.dialer = k]
<1>1. x \in Conn
  BY DEF ConnOK
<1>2. /\ y \in Conn /\ y.lane = x.lane /\ y.state = "admitted" /\ y.adm = x.adm /\ y.headed = x.headed
      /\ y.said = x.said /\ y.used = x.used /\ y.quiet = x.quiet /\ y.dialer = k
      /\ y.budget = x.budget /\ y.closing = x.closing
  BY <1>1 DEF Conn
<1> HIDE DEF y
<1>3. Sealed.kind = "sealed"
  BY DEF Sealed
<1>4. SlotOK(y, dyn)
  BY <1>2, <1>3 DEF ConnOK, SlotOK, Open2, CanQueue
<1>5. LeaseOK(y, i)
  BY <1>2 DEF ConnOK, LeaseOK, Open2
<1> QED BY <1>2, <1>4, <1>5 DEF ConnOK, y

\* A connection is made.
LEMMA ConnectedOK ==
    ASSUME NEW x, NEW i \in Nat, NEW dyn \in BOOLEAN, ConnOK(x, i, dyn), x.state = "admitted",
           NEW a \in Adms, (~dyn /\ a = Available(i)) \/ (x.dialer # NoCall /\ a = Reserved)
    PROVE  ConnOK([x EXCEPT !.state = "ready", !.adm = a], i, dyn)
<1> DEFINE y == [x EXCEPT !.state = "ready", !.adm = a]
<1>1. x \in Conn
  BY DEF ConnOK
<1>2. /\ y \in Conn /\ y.lane = x.lane /\ y.state = "ready" /\ y.adm = a /\ y.headed = x.headed
      /\ y.said = x.said /\ y.used = x.used /\ y.quiet = x.quiet /\ y.dialer = x.dialer
      /\ y.budget = x.budget /\ y.closing = x.closing
  BY <1>1 DEF Conn
<1> HIDE DEF y
<1>3. Reserved.kind = "reserved"
  BY DEF Reserved
<1>4. Available(i) = IF i = 0 THEN Fresh ELSE Idle(i)
  BY DEF Available
<1>5. Fresh.kind = "fresh" /\ Idle(i).kind = "idle" /\ Idle(i).left = i
  BY DEF Fresh, Idle
<1>6. x.lane = <<>> /\ ~x.headed /\ x.said = Unsaid /\ ~x.used /\ x.quiet = 0 /\ (x.dialer # NoCall => dyn)
  BY DEF ConnOK, SlotOK
<1>7. Unsaid.reusable /\ Unsaid.timeout = NoHint
  BY DEF Unsaid, Control
<1>8. SlotOK(y, dyn)
  BY <1>2, <1>3, <1>4, <1>5, <1>6 DEF SlotOK, Open2, CanQueue
<1>9. LeaseOK(y, i)
  <2>1. CASE a = Reserved
    BY <1>2, <1>3, <1>6, <1>7, <2>1 DEF LeaseOK
  <2>2. CASE a = Available(i)
    <3>1. CASE i = 0
      BY <1>2, <1>4, <1>5, <1>6, <1>7, <2>2, <3>1 DEF LeaseOK
    <3>2. CASE i # 0
      BY <1>2, <1>4, <1>5, <1>6, <1>7, <2>2, <3>2 DEF LeaseOK
    <3> QED BY <3>1, <3>2
  <2> QED BY <2>1, <2>2
<1> QED BY <1>2, <1>8, <1>9 DEF ConnOK, y

\* Input is taken in, or has been.
LEMMA InputOK ==
    ASSUME NEW x, NEW i \in Nat, NEW dyn \in BOOLEAN, ConnOK(x, i, dyn), x.state \in Open2, NEW s \in Open2
    PROVE  ConnOK([x EXCEPT !.state = s], i, dyn)
<1> DEFINE y == [x EXCEPT !.state = s]
<1>1. x \in Conn
  BY DEF ConnOK
<1>2. /\ y \in Conn /\ y.lane = x.lane /\ y.state = s /\ y.adm = x.adm /\ y.headed = x.headed
      /\ y.said = x.said /\ y.used = x.used /\ y.quiet = x.quiet /\ y.dialer = x.dialer
      /\ y.budget = x.budget /\ y.closing = x.closing
  BY <1>1 DEF Conn, Open2
<1> HIDE DEF y
<1>3. SlotOK(y, dyn)
  BY <1>2 DEF ConnOK, SlotOK, Open2
<1>4. LeaseOK(y, i)
  BY <1>2 DEF ConnOK, LeaseOK
<1> QED BY <1>2, <1>3, <1>4 DEF ConnOK, y

\* A failure is reported.
LEMMA FailedOK ==
    ASSUME NEW x, NEW i \in Nat, NEW dyn \in BOOLEAN, ConnOK(x, i, dyn)
    PROVE  ConnOK([x EXCEPT !.failed = TRUE], i, dyn)
<1> DEFINE y == [x EXCEPT !.failed = TRUE]
<1>1. x \in Conn
  BY DEF ConnOK
<1>2. /\ y \in Conn /\ y.lane = x.lane /\ y.state = x.state /\ y.adm = x.adm /\ y.headed = x.headed
      /\ y.said = x.said /\ y.used = x.used /\ y.quiet = x.quiet /\ y.dialer = x.dialer
      /\ y.budget = x.budget /\ y.closing = x.closing
  BY <1>1 DEF Conn
<1> HIDE DEF y
<1>3. SlotOK(y, dyn)
  BY <1>2 DEF ConnOK, SlotOK
<1>4. LeaseOK(y, i)
  BY <1>2 DEF ConnOK, LeaseOK
<1> QED BY <1>2, <1>3, <1>4 DEF ConnOK, y

\* Pool::retire: the lane of a closing connection empties, and it is drained.
LEMMA RetiredOK ==
    ASSUME NEW x, NEW i \in Nat, NEW dyn \in BOOLEAN, ConnOK(x, i, dyn), x.state = "closing"
    PROVE  /\ x.lane = <<>> => ConnOK([x EXCEPT !.state = "drained"], i, dyn)
           /\ x.lane # <<>> => ConnOK(Advanced(x), i, dyn)
<1> DEFINE y == [x EXCEPT !.state = "drained"]
           z == Advanced(x)
<1>1. x \in Conn
  BY DEF ConnOK
<1>2. /\ y \in Conn /\ y.lane = x.lane /\ y.state = "drained" /\ y.adm = x.adm /\ y.headed = x.headed
      /\ y.said = x.said /\ y.used = x.used /\ y.quiet = x.quiet /\ y.dialer = x.dialer
      /\ y.budget = x.budget /\ y.closing = x.closing
  BY <1>1 DEF Conn
<1>3. x.lane # <<>> =>
          /\ z \in Conn /\ z.state = x.state /\ z.adm = x.adm /\ z.headed = x.headed
          /\ z.said = x.said /\ z.used = x.used /\ z.quiet = x.quiet /\ z.dialer = x.dialer
          /\ z.budget = x.budget /\ z.closing = x.closing
  BY <1>1, AdvancedFact
<1> HIDE DEF y, z
<1>4. x.adm = Sealed /\ Sealed.kind = "sealed"
  BY DEF ConnOK, SlotOK, Open2, Sealed
<1>5. x.lane = <<>> => SlotOK(y, dyn)
  BY <1>2 DEF ConnOK, SlotOK, Open2
<1>6. LeaseOK(y, i)
  BY <1>2 DEF ConnOK, LeaseOK, Open2
<1>7. x.lane # <<>> => SlotOK(z, dyn)
  BY <1>3 DEF ConnOK, SlotOK, Open2
<1>8. x.lane # <<>> => LeaseOK(z, i)
  BY <1>3, <1>4 DEF ConnOK, LeaseOK, Open2
<1> QED BY <1>2, <1>3, <1>5, <1>6, <1>7, <1>8 DEF ConnOK, y, z

\* A tick of a connection that is open.
Older(x) == [x EXCEPT !.adm = Aged(x.adm), !.quiet = IF x.lane = <<>> /\ x.quiet < idle THEN x.quiet + 1 ELSE x.quiet]

\* A lease shortens as fast as the connection grows quiet.
LEMMA OlderOK ==
    ASSUME NEW x, idle \in Nat, NEW dyn \in BOOLEAN, ConnOK(x, idle, dyn), x.state \in Open2
    PROVE  ConnOK(Older(x), idle, dyn) /\ Older(x).lane = x.lane /\ Older(x).state = x.state
           /\ Older(x).failed = x.failed /\ (CanQueue(Older(x).adm) <=> CanQueue(x.adm))
           /\ Older(x).dialer = x.dialer
<1> DEFINE y == Older(x)
           i == idle
           a == Aged(x.adm)
           q == IF x.lane = <<>> /\ x.quiet < i THEN x.quiet + 1 ELSE x.quiet
<1>1. x \in Conn /\ x.adm \in Adms /\ x.adm.kind \in Kinds /\ x.adm.left \in Nat /\ x.quiet \in Nat /\ Margin \in Nat
      /\ (x.said.timeout # NoHint => x.said.timeout \in Nat)
  BY ConnTypes, ReuseAssumption DEF ConnOK
<1>2. /\ a \in Adms /\ a.kind = x.adm.kind
      /\ a.left = IF x.adm.kind = "idle" /\ x.adm.left > 0 THEN x.adm.left - 1 ELSE x.adm.left
      /\ x.adm.kind # "idle" => a = x.adm
  BY <1>1 DEF Aged, Idle, Adms, Kinds
<1>3. q \in Nat
  BY <1>1
<1>4. y = [x EXCEPT !.adm = a, !.quiet = q]
  BY DEF Older
<1> HIDE DEF y, a, q
<1>5. /\ y \in Conn /\ y.lane = x.lane /\ y.state = x.state /\ y.adm = a /\ y.headed = x.headed
      /\ y.said = x.said /\ y.used = x.used /\ y.quiet = q /\ y.dialer = x.dialer
      /\ y.budget = x.budget /\ y.closing = x.closing /\ y.failed = x.failed
  BY <1>1, <1>2, <1>3, <1>4 DEF Conn
<1>6. x.adm = Sealed => a = Sealed
  BY <1>2 DEF Sealed
<1>7. SlotOK(y, dyn)
  BY <1>2, <1>5, <1>6 DEF ConnOK, SlotOK, Open2, CanQueue
<1>8. LeaseOK(x, i) /\ i \in Nat
  BY DEF ConnOK
<1> HIDE DEF i
<1>9. LeaseOK(y, i)
  <2>1. q <= i
    BY <1>1, <1>8 DEF q, LeaseOK
  <2>2. a.kind = "idle" /\ a.left > 0 =>
          /\ x.adm.kind = "idle" /\ x.adm.left > 0
          /\ a.left + q <= x.adm.left + x.quiet
          /\ a.left + q + Margin <= x.adm.left + x.quiet + Margin
    BY <1>1, <1>2, SMTT(30) DEF q
  <2>3. a.kind = "idle" /\ a.left > 0 =>
          /\ a.left + q <= i
          /\ x.said.timeout # NoHint => a.left + q + Margin <= x.said.timeout
    <3>1. x.adm.kind = "idle" /\ x.adm.left > 0 =>
            /\ x.adm.left + x.quiet <= i
            /\ x.said.timeout # NoHint => x.adm.left + x.quiet + Margin <= x.said.timeout
      BY <1>8 DEF LeaseOK
    <3>2. a.left \in Nat
      BY <1>2 DEF Adms
    <3> QED BY <1>1, <1>3, <1>8, <2>2, <3>1, <3>2
  <2> QED BY <1>2, <1>5, <1>6, <1>8, <2>1, <2>3 DEF LeaseOK
<1> QED BY <1>2, <1>5, <1>7, <1>9 DEF ConnOK, CanQueue, y, i

-----------------------------------------------------------------------------
(* A call by itself. *)

\* What a call knows of its commitment: while it has no request outstanding its retry
\* state knows exactly whether one entered egress, and one that is not idempotent and may
\* still be sent was not.
CallOK(r) ==
    /\ r \in CallRec
    /\ r.phase \in Outgoing =>
          /\ r.ever <=> r.retry.committed
          /\ ~r.retry.idempotent => r.sent = 0
          /\ r.result = "none" /\ r.inbox = <<>>
    /\ r.phase \in Reading => r.ever /\ r.result = "none" /\ r.on \in Conns
    /\ ~r.retry.idempotent => r.sent <= 1
    /\ r.result = "BeforeSubmit" => ~r.ever
    /\ r.result = "PossiblyCommitted" => r.ever
    /\ r.mail # "none" => r.phase = "dial"

\* The record of a call that is made.
LEMMA NewCallOK ==
    ASSUME NEW k
    PROVE  /\ CallOK(NewCall(k)) /\ NewCall(k).phase = "dispatch" /\ NewCall(k).mail = "none"
           /\ NewCall(k).sent = 0 /\ NewCall(k).result = "none" /\ NewCall(k).inbox = <<>>
<1> DEFINE t == NewRetry(k \in Idempotent, FALSE)
           b == k \in Idempotent
<1>1. t \in Retries /\ ~t.committed
  <2>1. b \in BOOLEAN
    OBVIOUS
  <2> HIDE DEF b
  <2>2. NewRetry(b, FALSE) \in Retries /\ ~NewRetry(b, FALSE).committed
    BY <2>1 DEF NewRetry, Retries
  <2> QED BY <2>2 DEF b
<1> HIDE DEF t
<1>2. NewCall(k) = [phase |-> "dispatch", retry |-> t, mail |-> "none",
                    on |-> NoConn, live |-> FALSE, inbox |-> <<>>, hops |-> 0, result |-> "none",
                    sent |-> 0, ever |-> FALSE]
  BY DEF NewCall, t
<1> DEFINE r == NewCall(k)
<1> HIDE DEF r
<1>3. <<>> \in Seq(Events)
  OBVIOUS
<1>4. r \in CallRec
  BY <1>1, <1>2, <1>3 DEF r, CallRec, Outgoing
<1>5. /\ r.phase = "dispatch" /\ r.retry = t /\ r.mail = "none" /\ r.inbox = <<>> /\ r.result = "none"
      /\ r.sent = 0 /\ ~r.ever
  BY <1>2 DEF r
<1>6. CallOK(r)
  BY <1>1, <1>4, <1>5 DEF CallOK, Reading, Outgoing
<1> QED BY <1>5, <1>6 DEF r

Returned(r, k, result) == [NewCall(k) EXCEPT !.phase = "done", !.result = result, !.ever = r.ever]

\* A call that is over says no more than it knows.
LEMMA ReturnedOK ==
    ASSUME NEW r \in CallRec, NEW k, NEW result \in {"none", "ok", "BeforeSubmit", "PossiblyCommitted"},
           result = "BeforeSubmit" => ~r.ever, result = "PossiblyCommitted" => r.ever
    PROVE  CallOK(Returned(r, k, result)) /\ Returned(r, k, result).phase = "done"
<1> DEFINE y == Returned(r, k, result)
           z == NewCall(k)
<1>1. CallOK(z)
  BY NewCallOK
<1>2. z \in CallRec /\ z.mail = "none" /\ z.sent = 0
  <2>1. z.mail = "none" /\ z.sent = 0
    BY NewCallOK
  <2> QED BY <1>1, <2>1 DEF CallOK
<1>3. r.ever \in BOOLEAN
  BY DEF CallRec
<1>4. y = [z EXCEPT !.phase = "done", !.result = result, !.ever = r.ever]
  BY DEF Returned
<1> HIDE DEF y, z
<1>5. y \in CallRec /\ y.phase = "done" /\ y.mail = "none" /\ y.result = result /\ y.sent = 0 /\ y.ever = r.ever
  BY <1>2, <1>3, <1>4 DEF CallRec
<1> QED BY <1>5 DEF CallOK, Reading, Outgoing, y

FailedRec(r, k, class, committed) ==
    LET t == Observe(r.retry, committed)
    IN  IF MayRetry(t, class)
        THEN [r EXCEPT !.phase = "backoff", !.retry = t, !.mail = "none", !.on = NoConn, !.live = FALSE, !.inbox = <<>>]
        ELSE Returned(r, k, Finish(r.retry, committed))

\* A failure is observed with what the attempt may have done: before its request entered
\* egress, or after.
LEMMA FailedRecOK ==
    ASSUME NEW r, CallOK(r), NEW k, NEW class, NEW committed \in BOOLEAN,
           \/ r.phase \in Outgoing /\ ~committed
           \/ r.phase \in Reading /\ committed
    PROVE  CallOK(FailedRec(r, k, class, committed)) /\ FailedRec(r, k, class, committed).phase \in {"backoff", "done"}
<1> DEFINE t == Observe(r.retry, committed)
           y == [r EXCEPT !.phase = "backoff", !.retry = t, !.mail = "none", !.on = NoConn, !.live = FALSE, !.inbox = <<>>]
           f == Finish(r.retry, committed)
<1>1. r \in CallRec /\ r.retry \in Retries /\ r.ever \in BOOLEAN /\ r.sent \in Nat
  BY DEF CallOK, CallRec
<1>2. /\ t \in Retries /\ t.idempotent = r.retry.idempotent
      /\ (t.committed <=> r.retry.committed \/ committed)
  BY <1>1 DEF Observe, Retries
<1>3. f = IF t.committed THEN "PossiblyCommitted" ELSE "BeforeSubmit"
  BY DEF Finish
<1>4. r.ever <=> t.committed
  BY <1>1, <1>2 DEF CallOK, Outgoing, Reading
<1>5. MayRetry(t, class) /\ ~t.idempotent => ~t.committed
  BY DEF MayRetry
<1> HIDE DEF t
<1>6. CASE MayRetry(t, class)
  <2>1. /\ y \in CallRec /\ y.phase = "backoff" /\ y.retry = t /\ y.mail = "none" /\ y.inbox = <<>>
        /\ y.result = r.result /\ y.sent = r.sent /\ y.ever = r.ever
    <3>1. <<>> \in Seq(Events)
      OBVIOUS
    <3> QED BY <1>1, <1>2, <3>1 DEF CallRec, Outgoing
  <2> HIDE DEF y
  <2>2. r.result = "none"
    BY DEF CallOK
  <2>3. ~t.idempotent => r.sent = 0
    BY <1>2, <1>4, <1>5, <1>6 DEF CallOK
  <2>4. CallOK(y)
    BY <1>1, <1>4, <2>1, <2>2, <2>3 DEF CallOK, Reading, Outgoing
  <2>5. FailedRec(r, k, class, committed) = y
    BY <1>6 DEF FailedRec, y, t
  <2> QED BY <2>1, <2>4, <2>5
<1>7. CASE ~MayRetry(t, class)
  <2>1. FailedRec(r, k, class, committed) = Returned(r, k, f)
    BY <1>7 DEF FailedRec, t
  <2>2. f \in {"none", "ok", "BeforeSubmit", "PossiblyCommitted"} /\ (f = "BeforeSubmit" => ~r.ever) /\ (f = "PossiblyCommitted" => r.ever)
    BY <1>3, <1>4
  <2> HIDE DEF f
  <2> QED BY <1>1, <2>1, <2>2, ReturnedOK
<1> QED BY <1>6, <1>7

\* A failure of any call.
LEMMA FailedFact ==
    ASSUME NEW cl \in [Calls -> CallRec], NEW k \in Calls, NEW class, NEW committed
    PROVE  Failed(cl, k, class, committed) = [cl EXCEPT ![k] = FailedRec(cl[k], k, class, committed)]
<1> DEFINE r == cl[k]
           t == Observe(r.retry, committed)
           y == [r EXCEPT !.phase = "backoff", !.retry = t, !.mail = "none", !.on = NoConn, !.live = FALSE, !.inbox = <<>>]
<1>1. r \in CallRec
  OBVIOUS
<1>2. CASE MayRetry(t, class)
  <2>1. Failed(cl, k, class, committed) =
            [cl EXCEPT ![k].phase = "backoff", ![k].retry = t, ![k].mail = "none",
                       ![k].on = NoConn, ![k].live = FALSE, ![k].inbox = <<>>]
    BY <1>2 DEF Failed
  <2>2. FailedRec(r, k, class, committed) = y
    BY <1>2 DEF FailedRec
  <2> HIDE DEF t
  <2>3. Failed(cl, k, class, committed) = [cl EXCEPT ![k] = y]
    BY <1>1, <2>1 DEF CallRec
  <2> QED BY <2>2, <2>3
<1>3. CASE ~MayRetry(t, class)
  BY <1>3 DEF Failed, FailedRec, Return, Returned
<1> QED BY <1>2, <1>3

RegisteredRec(r, c) ==
    [r EXCEPT !.phase = "reply", !.mail = "none", !.on = c, !.live = TRUE,
              !.sent = IF r.sent < 2 THEN r.sent + 1 ELSE r.sent, !.ever = TRUE]

\* The request of a call enters egress.
LEMMA RegisteredOK ==
    ASSUME NEW cl \in [Calls -> CallRec], NEW k \in Calls, CallOK(cl[k]), cl[k].phase \in Outgoing, NEW c \in Conns
    PROVE  /\ Registered(cl, k, c) = [cl EXCEPT ![k] = RegisteredRec(cl[k], c)]
           /\ CallOK(RegisteredRec(cl[k], c))
           /\ RegisteredRec(cl[k], c).phase = "reply" /\ RegisteredRec(cl[k], c).on = c
           /\ RegisteredRec(cl[k], c).live /\ RegisteredRec(cl[k], c).inbox = <<>>
           /\ RegisteredRec(cl[k], c).mail = "none"
<1> DEFINE r == cl[k]
           s == IF r.sent < 2 THEN r.sent + 1 ELSE r.sent
           y == RegisteredRec(r, c)
<1>1. r \in CallRec /\ r.sent \in Nat /\ r.retry \in Retries
  BY DEF CallRec
<1>2. s \in Nat /\ (r.sent = 0 => s = 1)
  BY <1>1
<1>3. Registered(cl, k, c) = [cl EXCEPT ![k].phase = "reply", ![k].mail = "none", ![k].on = c, ![k].live = TRUE,
                                         ![k].sent = s, ![k].ever = TRUE]
  BY <1>1 DEF Registered, CallRec
<1>4. y = [r EXCEPT !.phase = "reply", !.mail = "none", !.on = c, !.live = TRUE, !.sent = s, !.ever = TRUE]
  BY DEF RegisteredRec
<1> HIDE DEF s, y
<1>5. Registered(cl, k, c) = [cl EXCEPT ![k] = y]
  BY <1>1, <1>3, <1>4 DEF CallRec
<1>6. /\ y \in CallRec /\ y.phase = "reply" /\ y.mail = "none" /\ y.on = c /\ y.live /\ y.sent = s /\ y.ever
      /\ y.inbox = r.inbox /\ y.result = r.result /\ y.retry = r.retry
  BY <1>1, <1>2, <1>4 DEF CallRec, Reading
<1>7. r.result = "none" /\ r.inbox = <<>> /\ (~r.retry.idempotent => r.sent = 0)
  BY DEF CallOK
<1>8. CallOK(y)
  BY <1>2, <1>6, <1>7 DEF CallOK, Outgoing, Reading
<1> QED BY <1>5, <1>6, <1>7, <1>8 DEF y

-----------------------------------------------------------------------------
(* Calls and connections together. *)

\* A call that awaits its reply on c, and one that has been told of the end of it.
Awaits(r, c) == r.phase \in Reading /\ r.on = c /\ r.live /\ Elements(r.inbox) \subseteq {"head"}
Answered(r) == r.inbox # <<>> /\ r.inbox[Len(r.inbox)] # "head"

\* A call has one place in a lane.
Solo(lane) == \A i, j \in DOMAIN lane : lane[i] = lane[j] /\ lane[i] # Gone => i = j

\* A place in a lane and the call that reads it name each other.
LanesOK(n, cl) ==
    /\ \A c \in Conns : Solo(n.conn[c].lane)
    /\ \A c \in Conns : \A k \in Calls : k \in Elements(n.conn[c].lane) => Awaits(cl[k], c)
    /\ \A k \in Calls : cl[k].phase \in Reading =>
          Answered(cl[k]) \/ (cl[k].live /\ k \in Elements(n.conn[cl[k].on].lane))

\* So do a connection that was dialled and the call that waits for it.
DialsOK(n, cl) ==
    /\ \A c, d \in Conns : n.conn[c].dialer = n.conn[d].dialer /\ n.conn[c].dialer # NoCall => c = d
    /\ \A c \in Conns : \A k \in Calls : n.conn[c].dialer = k =>
          cl[k].phase = "dial" /\ cl[k].mail \in {"pending", "connected"}

WaitsOK(n, cl) == \A k \in Calls : cl[k].phase = "wait" => k \in Queued(n)

\* The ready queue holds what can be claimed, for a lane that is full or not.
ReadyAt(n, full, c) ==
    /\ Offerable(n.conn[c]) /\ ~n.conn[c].failed /\ ~full /\ c \notin n.work => c \in Elements(n.ready)
    /\ c \in Elements(n.ready) => Offerable(n.conn[c])

ReadyOK(n, cl) == Distinct(n.ready) /\ \A c \in Conns : ReadyAt(n, Full(n, cl, c), c)

ConnsOK(n) == \A c \in Conns : ConnOK(n.conn[c], idle, dynamic)
CallsOK(cl) == cl \in [Calls -> CallRec] /\ \A k \in Calls : CallOK(cl[k])

Good(n, cl) ==
    n \in Net /\ ConnsOK(n) /\ CallsOK(cl) /\ LanesOK(n, cl) /\ DialsOK(n, cl) /\ WaitsOK(n, cl) /\ ReadyOK(n, cl)

\* The inductive invariant.
IInv == dynamic \in BOOLEAN /\ idle \in Nat /\ Good(net, call)

\* One call changes.
LEMMA CallsKept ==
    ASSUME NEW cl, CallsOK(cl), NEW k \in Calls, NEW y, CallOK(y)
    PROVE  /\ CallsOK([cl EXCEPT ![k] = y])
           /\ [cl EXCEPT ![k] = y][k] = y
           /\ \A j \in Calls : j # k => [cl EXCEPT ![k] = y][j] = cl[j]
<1>1. y \in CallRec
  BY DEF CallOK
<1> QED BY <1>1 DEF CallsOK

\* One connection changes.
LEMMA TouchFact ==
    ASSUME NEW n \in Net, NEW m, NEW c \in Conns, NEW y, Touch(n, m, c, y)
    PROVE  m \in Net /\ m.conn[c] = y /\ \A d \in Conns : d # c => m.conn[d] = n.conn[d]
<1>1. n.conn \in [Conns -> Conn]
  BY DEF Net
<1> QED BY <1>1 DEF Touch

\* One connection changes and stays consistent.
LEMMA ConnsKept ==
    ASSUME NEW n \in Net, ConnsOK(n), NEW m, NEW c \in Conns, NEW y, Touch(n, m, c, y), ConnOK(y, idle, dynamic)
    PROVE  ConnsOK(m)
<1>1. m.conn[c] = y /\ \A d \in Conns : d # c => m.conn[d] = n.conn[d]
  BY TouchFact
<1> QED BY <1>1 DEF ConnsOK

\* The lanes stay as they are, and the calls.
LEMMA SameLanes ==
    ASSUME NEW n, NEW m, NEW cl, \A c \in Conns : m.conn[c].lane = n.conn[c].lane, LanesOK(n, cl), CallsOK(cl)
    PROVE  LanesOK(m, cl) /\ \A c \in Conns : Full(m, cl, c) <=> Full(n, cl, c)
<1>1. LanesOK(m, cl)
  <2>1. \A k \in Calls : cl[k].phase \in Reading => cl[k].on \in Conns
    BY DEF CallsOK, CallOK
  <2> QED BY <2>1 DEF LanesOK
<1>2. \A c \in Conns : Full(m, cl, c) <=> Full(n, cl, c)
  BY FullSame
<1> QED BY <1>1, <1>2

\* A call that reads nothing any more has left its lane; only its own held reply is gone.
LEMMA OutLanes ==
    ASSUME NEW n \in Net, NEW m, NEW cl, CallsOK(cl), LanesOK(n, cl), NEW k \in Calls, NEW y, CallOK(y), y.phase \notin Reading,
           \A c \in Conns : \/ m.conn[c].lane = n.conn[c].lane /\ k \notin Elements(n.conn[c].lane)
                            \/ m.conn[c].lane = Blank(n.conn[c].lane, k)
    PROVE  LET cl2 == [cl EXCEPT ![k] = y]
           IN  /\ LanesOK(m, cl2) /\ CallsOK(cl2)
               /\ \A c \in Conns : Full(n, cl, c) => Full(m, cl2, c) \/ k \in Held(n, cl, c)
<1> DEFINE cl2 == [cl EXCEPT ![k] = y]
           ln(c) == n.conn[c].lane
           lm(c) == m.conn[c].lane
<1>1. CallsOK(cl2) /\ cl2[k] = y /\ \A j \in Calls : j # k => cl2[j] = cl[j]
  BY CallsKept
<1>2. ASSUME NEW c \in Conns
      PROVE  /\ Elements(lm(c)) \cap Calls = (Elements(ln(c)) \cap Calls) \ {k}
             /\ Len(lm(c)) = Len(ln(c)) /\ (Solo(ln(c)) => Solo(lm(c)))
  <2>1. ln(c) \in Seq(Places)
    BY DEF Net, Conn
  <2>2. CASE lm(c) = ln(c) /\ k \notin Elements(ln(c))
    BY <2>2
  <2>3. CASE lm(c) = Blank(ln(c), k)
    <3>1. /\ Len(Blank(ln(c), k)) = Len(ln(c)) /\ Elements(Blank(ln(c), k)) \cap Calls = (Elements(ln(c)) \cap Calls) \ {k}
          /\ DOMAIN Blank(ln(c), k) = DOMAIN ln(c)
          /\ \A i \in DOMAIN ln(c) : Blank(ln(c), k)[i] = ln(c)[i] \/ Blank(ln(c), k)[i] = Gone
      BY <2>1, BlankFact
    <3> QED BY <2>3, <3>1 DEF Solo
  <2> QED BY <2>2, <2>3
<1> HIDE DEF cl2, ln, lm
<1>3. \A c \in Conns : Solo(lm(c))
  BY <1>2 DEF LanesOK, ln
<1>4. ASSUME NEW c \in Conns, NEW j \in Calls, j \in Elements(lm(c)) PROVE Awaits(cl2[j], c)
  <2>1. j # k /\ j \in Elements(ln(c))
    BY <1>2, <1>4
  <2> QED BY <1>1, <2>1 DEF LanesOK, ln
<1>5. ASSUME NEW j \in Calls, cl2[j].phase \in Reading
      PROVE  Answered(cl2[j]) \/ (cl2[j].live /\ j \in Elements(lm(cl2[j].on)))
  <2>1. j # k /\ cl2[j] = cl[j]
    BY <1>1, <1>5
  <2>2. cl[j].on \in Conns
    BY <1>5, <2>1 DEF CallsOK, CallOK
  <2> QED BY <1>2, <1>5, <2>1, <2>2 DEF LanesOK, ln
<1>6. LanesOK(m, cl2)
  BY <1>3, <1>4, <1>5 DEF LanesOK, lm
<1>7. ASSUME NEW c \in Conns, Full(n, cl, c), k \notin Held(n, cl, c) PROVE Full(m, cl2, c)
  <2>1. Held(m, cl2, c) = Held(n, cl, c)
    <3>1. ASSUME NEW j \in Calls PROVE j \in Held(m, cl2, c) <=> j \in Held(n, cl, c)
      <4>1. CASE j = k
        BY <1>1, <1>7, <4>1 DEF Held, Reading
      <4>2. CASE j # k
        BY <1>1, <1>2, <4>2 DEF Held, ln, lm
      <4> QED BY <4>1, <4>2
    <3>2. Held(m, cl2, c) \subseteq Calls /\ Held(n, cl, c) \subseteq Calls
      BY DEF Held
    <3> QED BY <3>1, <3>2
  <2> QED BY <1>2, <1>7, <2>1 DEF Full, ln, lm
<1> QED BY <1>1, <1>6, <1>7 DEF cl2

\* Nobody else is forgotten.
LEMMA WaitsKept ==
    ASSUME NEW n, NEW m, NEW cl, CallsOK(cl), WaitsOK(n, cl), NEW k \in Calls, NEW y, CallOK(y),
           Queued(n) \ {k} \subseteq Queued(m), y.phase = "wait" => k \in Queued(m)
    PROVE  WaitsOK(m, [cl EXCEPT ![k] = y])
<1> DEFINE cl2 == [cl EXCEPT ![k] = y]
<1>1. CallsOK(cl2) /\ cl2[k] = y /\ \A j \in Calls : j # k => cl2[j] = cl[j]
  BY CallsKept
<1> HIDE DEF cl2
<1>2. WaitsOK(m, cl2)
  BY <1>1 DEF WaitsOK
<1> QED BY <1>2 DEF cl2

\* Connections are dialled for no other call, and k dials on, or for none.
LEMMA DialsKept ==
    ASSUME NEW n, NEW m, NEW cl, CallsOK(cl), DialsOK(n, cl), NEW k \in Calls, NEW y, CallOK(y),
           \A c \in Conns : m.conn[c].dialer = n.conn[c].dialer \/ m.conn[c].dialer = NoCall,
           \/ y.phase = "dial" /\ y.mail \in {"pending", "connected"}
           \/ \A c \in Conns : m.conn[c].dialer # k
    PROVE  DialsOK(m, [cl EXCEPT ![k] = y])
<1> DEFINE cl2 == [cl EXCEPT ![k] = y]
<1>1. CallsOK(cl2) /\ cl2[k] = y /\ \A j \in Calls : j # k => cl2[j] = cl[j]
  BY CallsKept
<1>2. NoCall \notin Calls
  BY ClientAssumption
<1> HIDE DEF cl2
<1>3. DialsOK(m, cl2)
  <2>1. ASSUME NEW c \in Conns, NEW d \in Conns, m.conn[c].dialer = m.conn[d].dialer, m.conn[c].dialer # NoCall PROVE c = d
    BY <2>1 DEF DialsOK
  <2>2. ASSUME NEW c \in Conns, NEW j \in Calls, m.conn[c].dialer = j
        PROVE  cl2[j].phase = "dial" /\ cl2[j].mail \in {"pending", "connected"}
    <3>1. n.conn[c].dialer = j
      BY <1>2, <2>2
    <3> QED BY <1>1, <2>2, <3>1 DEF DialsOK
  <2> QED BY <2>1, <2>2 DEF DialsOK
<1> QED BY <1>3 DEF cl2

\* A step after which k reads no reply.
LEMMA OutStep ==
    ASSUME NEW n, NEW m \in Net, NEW cl, Good(n, cl), ConnsOK(m), NEW k \in Calls, NEW y, CallOK(y), y.phase \notin Reading,
           \A c \in Conns : \/ m.conn[c].lane = n.conn[c].lane /\ k \notin Elements(n.conn[c].lane)
                            \/ m.conn[c].lane = Blank(n.conn[c].lane, k),
           Queued(n) \ {k} \subseteq Queued(m), y.phase = "wait" => k \in Queued(m),
           \A c \in Conns : m.conn[c].dialer = n.conn[c].dialer \/ m.conn[c].dialer = NoCall,
           \/ y.phase = "dial" /\ y.mail \in {"pending", "connected"}
           \/ \A c \in Conns : m.conn[c].dialer # k,
           Distinct(m.ready),
           \A c \in Conns : ReadyAt(m, Full(n, cl, c), c) /\ (k \in Held(n, cl, c) => c \in m.work)
    PROVE  Good(m, [cl EXCEPT ![k] = y])
<1> DEFINE cl2 == [cl EXCEPT ![k] = y]
<1>1. n \in Net /\ CallsOK(cl) /\ LanesOK(n, cl) /\ WaitsOK(n, cl) /\ DialsOK(n, cl)
  BY DEF Good
<1>2. /\ LanesOK(m, cl2) /\ CallsOK(cl2)
      /\ \A c \in Conns : Full(n, cl, c) => Full(m, cl2, c) \/ k \in Held(n, cl, c)
  BY <1>1, OutLanes
<1>3. WaitsOK(m, cl2)
  BY <1>1, WaitsKept
<1>4. DialsOK(m, cl2)
  BY <1>1, DialsKept
<1> HIDE DEF cl2
<1>5. ReadyOK(m, cl2)
  BY <1>2 DEF ReadyOK, ReadyAt
<1>6. Good(m, cl2)
  BY <1>2, <1>3, <1>4, <1>5 DEF Good
<1> QED BY <1>6 DEF cl2

\* A call that reads no reply is in no lane and holds none.
LEMMA NotReading ==
    ASSUME NEW n, NEW cl, Good(n, cl), NEW k \in Calls, cl[k].phase \notin Reading
    PROVE  \A c \in Conns : k \notin Elements(n.conn[c].lane) /\ k \notin Held(n, cl, c)
  BY DEF Good, LanesOK, Awaits, Held, Reading

\* One that does not dial has no connection dialled for it.
LEMMA NotDialling ==
    ASSUME NEW n, NEW cl, Good(n, cl), NEW k \in Calls, cl[k].phase # "dial" \/ cl[k].mail \notin {"pending", "connected"}
    PROVE  \A c \in Conns : n.conn[c].dialer # k
  BY DEF Good, DialsOK

\* What a poll finds: everything is in order but for the connection it claimed.
LEMMA PollFact ==
    ASSUME IInv, NEW k \in Calls, Polled(k)
    PROVE  LET m == Found(k)
               c == Claimed(net, call)
           IN  /\ m \in Net /\ m.work = net.work /\ m.waiters = net.waiters /\ ConnsOK(m)
               /\ Queued(net) \ {k} \subseteq Queued(m)
               /\ Distinct(m.ready)
               /\ \A d \in Conns : /\ m.conn[d].lane = net.conn[d].lane /\ m.conn[d].dialer = net.conn[d].dialer
                                   /\ d # c => ReadyAt(m, Full(net, call, d), d)
                                   /\ m.conn[d].dialer # k
                                   /\ k \notin Elements(net.conn[d].lane) /\ k \notin Held(net, call, d)
               /\ c # NoConn =>
                     /\ c \in Conns /\ c \notin Elements(m.ready) /\ m.conn[c] = net.conn[c]
                     /\ net.conn[c].state = "ready" /\ IsLive(net.conn[c].adm) /\ ~Full(net, call, c)
               /\ CallOK(call[k]) /\ call[k].phase \in {"dispatch", "wait"} /\ call[k].mail = "none"
<1> DEFINE n == [net EXCEPT !.woken = net.woken \ {k}]
           m == Found(k)
           c == Claimed(net, call)
<1>1. /\ Good(net, call) /\ net \in Net /\ ConnsOK(net) /\ CallsOK(call) /\ ReadyOK(net, call)
      /\ net.conn \in [Conns -> Conn] /\ net.woken \in SUBSET Calls /\ idle \in Nat /\ dynamic \in BOOLEAN
  BY DEF IInv, Good, Net
<1>2. /\ n \in Net /\ n.conn = net.conn /\ n.ready = net.ready /\ n.work = net.work /\ n.waiters = net.waiters
      /\ n.woken = net.woken \ {k}
  BY <1>1 DEF Net
<1>3. call[k].phase \in {"dispatch", "wait"} /\ CallOK(call[k]) /\ call[k].phase \notin Reading
  BY <1>1 DEF Polled, CallsOK, Reading
<1>4. call[k].mail = "none"
  BY <1>3 DEF CallOK
<1>5. \A d \in Conns : k \notin Elements(net.conn[d].lane) /\ k \notin Held(net, call, d)
  BY <1>1, <1>3, NotReading
<1>6. \A d \in Conns : net.conn[d].dialer # k
  BY <1>1, <1>3, NotDialling
<1>7. m = Acquired(n, call)
  BY DEF Found
<1> HIDE DEF n, m
<1>8. \A d \in Conns : Full(n, call, d) <=> Full(net, call, d)
  BY <1>2, FullSame
<1>9. Claimed(n, call) = c
  <2>1. Claims(n, call) = Claims(net, call)
    <3>1. net.ready \in Seq(Conns)
      BY <1>1 DEF Net
    <3>2. \A i \in DOMAIN net.ready : net.ready[i] \in Conns
      BY <3>1
    <3> QED BY <1>2, <1>8, <3>2 DEF Claims
  <2> QED BY <1>2, <2>1 DEF Claimed
<1>10. Distinct(n.ready) /\ \A d \in Elements(n.ready) : Offerable(n.conn[d])
  <2>1. Elements(net.ready) \subseteq Conns
    BY <1>1 DEF Net, Elements
  <2> QED BY <1>1, <1>2, <2>1 DEF ReadyOK, ReadyAt
<1> HIDE DEF c
<1>11. /\ m \in Net /\ m.work = n.work /\ m.waiters = n.waiters /\ m.woken = n.woken
       /\ Elements(m.ready) \subseteq Elements(n.ready) /\ Distinct(m.ready)
       /\ \A d \in Conns : \/ m.conn[d] = n.conn[d]
                           \/ /\ m.conn[d] = Expired(n.conn[d]) /\ n.conn[d].state = "ready"
                              /\ m.conn[d].lane = n.conn[d].lane
                              /\ d \notin Elements(m.ready) /\ ~Offerable(m.conn[d])
       /\ \A d \in Elements(n.ready) \ Elements(m.ready) :
             d = c \/ ~Offerable(m.conn[d]) \/ Full(n, call, d)
       /\ c # NoConn =>
             /\ c \in Conns /\ c \notin Elements(m.ready) /\ m.conn[c] = n.conn[c]
             /\ n.conn[c].state = "ready" /\ IsLive(n.conn[c].adm) /\ ~Full(n, call, c)
  BY <1>2, <1>7, <1>9, <1>10, AcquireFact
<1>12. \A d \in Conns : ConnOK(Expired(net.conn[d]), idle, dynamic) /\ Expired(net.conn[d]).dialer = net.conn[d].dialer
  <2> SUFFICES ASSUME NEW d \in Conns
               PROVE  ConnOK(Expired(net.conn[d]), idle, dynamic) /\ Expired(net.conn[d]).dialer = net.conn[d].dialer
    OBVIOUS
  <2> DEFINE x == net.conn[d]
             cause == "Lifetime"
  <2>1. ConnOK(x, idle, dynamic) /\ x \in Conn
    BY <1>1 DEF ConnsOK
  <2> HIDE DEF x, cause
  <2>2. ConnOK(Shut(x), idle, dynamic)
    BY <1>1, <2>1, ShutOK
  <2>3. ConnOK(Asked(Shut(x), cause), idle, dynamic)
    BY <1>1, <2>2, AskedOK
  <2>4. Shut(x).dialer = x.dialer
    BY <2>1 DEF Shut, Conn
  <2>5. Asked(Shut(x), cause).dialer = Shut(x).dialer
    BY <2>2 DEF Asked, Conn, ConnOK
  <2> QED BY <2>3, <2>4, <2>5 DEF Expired, cause, x
<1>13. ConnsOK(m) /\ \A d \in Conns : m.conn[d].lane = net.conn[d].lane /\ m.conn[d].dialer = net.conn[d].dialer
  BY <1>1, <1>2, <1>11, <1>12 DEF ConnsOK
<1>14. Queued(net) \ {k} \subseteq Queued(m)
  BY <1>2, <1>11 DEF Queued
<1>15. \A d \in Conns : d # c => ReadyAt(m, Full(net, call, d), d)
  <2> SUFFICES ASSUME NEW d \in Conns, d # c PROVE ReadyAt(m, Full(net, call, d), d)
    OBVIOUS
  <2>1. ReadyAt(net, Full(net, call, d), d)
    BY <1>1 DEF ReadyOK
  <2> QED BY <1>2, <1>8, <1>10, <1>11, <2>1 DEF ReadyAt
<1>16. \A d \in Conns : m.conn[d].dialer # k
  BY <1>6, <1>13
<1> QED BY <1>2, <1>3, <1>4, <1>5, <1>8, <1>11, <1>13, <1>14, <1>15, <1>16 DEF m, c

-----------------------------------------------------------------------------
(* The steps of a call. *)

\* An attempt fails before its request entered egress.
LEMMA FailOut ==
    ASSUME CallsOK(call), NEW k \in Calls, call[k].phase \in Outgoing, NEW class
    PROVE  \E y : /\ Failed(call, k, class, FALSE) = [call EXCEPT ![k] = y]
                  /\ CallOK(y) /\ y.phase \in {"backoff", "done"} /\ y.phase \notin Reading
<1> DEFINE y == FailedRec(call[k], k, class, FALSE)
<1>1. CallOK(call[k]) /\ call \in [Calls -> CallRec]
  BY DEF CallsOK
<1>2. CallOK(y) /\ y.phase \in {"backoff", "done"}
  BY <1>1, FailedRecOK
<1>3. Failed(call, k, class, FALSE) = [call EXCEPT ![k] = y]
  <2> DEFINE b == FALSE
  <2> HIDE DEF b
  <2>1. Failed(call, k, class, b) = [call EXCEPT ![k] = FailedRec(call[k], k, class, b)]
    BY <1>1, FailedFact
  <2> QED BY <2>1 DEF b
<1> HIDE DEF y
<1> QED BY <1>2, <1>3 DEF Reading

\* The connection claimed cannot be used.
LEMMA PollFailsStep ==
    ASSUME IInv, NEW k \in Calls, PollFails(k)
    PROVE  Good(net', call')
<1> DEFINE m == Found(k)
           c == Claimed(net, call)
<1>1. Polled(k) /\ c # NoConn
  BY DEF PollFails
<1>2. /\ m \in Net /\ m.work = net.work /\ ConnsOK(m) /\ Queued(net) \ {k} \subseteq Queued(m) /\ Distinct(m.ready)
      /\ \A d \in Conns : /\ m.conn[d].lane = net.conn[d].lane /\ m.conn[d].dialer = net.conn[d].dialer
                          /\ d # c => ReadyAt(m, Full(net, call, d), d)
                          /\ m.conn[d].dialer # k
                          /\ k \notin Elements(net.conn[d].lane) /\ k \notin Held(net, call, d)
      /\ c \in Conns /\ c \notin Elements(m.ready) /\ m.conn[c] = net.conn[c] /\ net.conn[c].state = "ready"
      /\ call[k].phase \in {"dispatch", "wait"}
  BY <1>1, PollFact
<1>3. Good(net, call) /\ CallsOK(call) /\ call[k].phase \in Outgoing /\ idle \in Nat /\ dynamic \in BOOLEAN
  BY <1>2 DEF IInv, Good, Outgoing
<1> HIDE DEF m, c
<1>4. CASE net.conn[c].failed /\ net' = m /\ call' = Failed(call, k, ClassOf("Receive"), FALSE)
  <2>1. PICK y : call' = [call EXCEPT ![k] = y] /\ CallOK(y) /\ y.phase \in {"backoff", "done"} /\ y.phase \notin Reading
    BY <1>3, <1>4, FailOut
  <2>2. ReadyAt(m, Full(net, call, c), c)
    BY <1>2, <1>4 DEF ReadyAt
  <2>3. Good(m, [call EXCEPT ![k] = y])
    BY <1>2, <1>3, <2>1, <2>2, OutStep
  <2> QED BY <1>4, <2>1, <2>3
<1>5. CASE net' = CloseClaim(m, c) /\ call' = Failed(call, k, ClassOf("NotConnected"), FALSE)
  <2> DEFINE w == CloseClaim(m, c)
             x == m.conn[c]
  <2>1. PICK y : call' = [call EXCEPT ![k] = y] /\ CallOK(y) /\ y.phase \in {"backoff", "done"} /\ y.phase \notin Reading
    BY <1>3, <1>5, FailOut
  <2>2. Touch(m, w, c, Shut(x)) /\ Calm(m, w) /\ Thinned(m, w, c)
    <3>1. x.state \in Open2
      BY <1>2 DEF Open2
    <3> QED BY <1>2, <3>1, CloseFact
  <2>3. ConnOK(x, idle, dynamic) /\ x \in Conn
    BY <1>2 DEF ConnsOK, ConnOK
  <2> HIDE DEF w, x
  <2>4. Shut(x).lane = x.lane /\ Shut(x).dialer = x.dialer /\ ~Offerable(Shut(x))
    BY <1>2, <2>3 DEF Shut, Open2, Conn, Offerable, x
  <2>5. ConnOK(Shut(x), idle, dynamic)
    BY <1>3, <2>3, ShutOK
  <2>6. ConnsOK(w)
    BY <1>2, <2>2, <2>5, ConnsKept
  <2>7. w \in Net /\ w.conn[c] = Shut(x) /\ \A d \in Conns : d # c => w.conn[d] = m.conn[d]
    BY <1>2, <2>2, TouchFact
  <2>8. \A d \in Conns : /\ w.conn[d].lane = net.conn[d].lane /\ k \notin Elements(net.conn[d].lane)
                          /\ w.conn[d].dialer = net.conn[d].dialer /\ w.conn[d].dialer # k
                          /\ k \notin Held(net, call, d)
    BY <1>2, <2>4, <2>7 DEF x
  <2>9. \A d \in Conns : ReadyAt(w, Full(net, call, d), d)
    BY <1>2, <2>2, <2>4, <2>7 DEF ReadyAt, Thinned, Calm
  <2>10. Distinct(w.ready) /\ Queued(net) \ {k} \subseteq Queued(w) /\ w.work = net.work
    BY <1>2, <2>2 DEF Thinned, Calm
  <2>11. Good(w, [call EXCEPT ![k] = y])
    BY <1>3, <2>1, <2>6, <2>7, <2>8, <2>9, <2>10, OutStep
  <2> QED BY <1>5, <2>1, <2>11 DEF w
<1> QED BY <1>4, <1>5 DEF PollFails, m, c

\* The connection claimed is released.
LEMMA PollRefusedStep ==
    ASSUME IInv, NEW k \in Calls, PollRefused(k)
    PROVE  Good(net', call')
<1> DEFINE m == Found(k)
           c == Claimed(net, call)
           w == Schedule(m, call, c)
<1>1. Polled(k) /\ c # NoConn /\ net' = w
  BY DEF PollRefused
<1>2. /\ m \in Net /\ m.work = net.work /\ ConnsOK(m) /\ Queued(net) \ {k} \subseteq Queued(m) /\ Distinct(m.ready)
      /\ \A d \in Conns : /\ m.conn[d].lane = net.conn[d].lane /\ m.conn[d].dialer = net.conn[d].dialer
                          /\ d # c => ReadyAt(m, Full(net, call, d), d)
                          /\ m.conn[d].dialer # k
                          /\ k \notin Elements(net.conn[d].lane) /\ k \notin Held(net, call, d)
      /\ c \in Conns /\ c \notin Elements(m.ready)
      /\ call[k].phase \in {"dispatch", "wait"}
  BY <1>1, PollFact
<1>3. Good(net, call) /\ CallsOK(call) /\ call[k].phase \in Outgoing
  BY <1>2 DEF IInv, Good, Outgoing
<1>4. PICK y : call' = [call EXCEPT ![k] = y] /\ CallOK(y) /\ y.phase \in {"backoff", "done"} /\ y.phase \notin Reading
  <2>1. PICK class : call' = Failed(call, k, class, FALSE)
    BY DEF PollRefused
  <2> QED BY <1>3, <2>1, FailOut
<1>5. w \in Net /\ w.conn = m.conn /\ Calm(m, w) /\ Offered(m, w, c, m.conn[c], Full(m, call, c))
  BY <1>2, ScheduleFact
<1>6. Full(m, call, c) <=> Full(net, call, c)
  BY <1>2, FullSame
<1> HIDE DEF m, c, w
<1>7. \A d \in Conns : ReadyAt(w, Full(net, call, d), d)
  BY <1>2, <1>5, <1>6 DEF ReadyAt, Offered, Calm
<1>8. Distinct(w.ready) /\ Queued(net) \ {k} \subseteq Queued(w) /\ w.work = net.work /\ ConnsOK(w)
  BY <1>2, <1>5 DEF Offered, Calm, ConnsOK
<1>9. Good(w, [call EXCEPT ![k] = y])
  BY <1>2, <1>3, <1>4, <1>5, <1>7, <1>8, OutStep, ZenonT(40)
<1> QED BY <1>1, <1>4, <1>9

\* Nothing is claimed, and the call dials.
LEMMA PollDialsStep ==
    ASSUME IInv, NEW k \in Calls, PollDials(k)
    PROVE  Good(net', call')
<1> DEFINE m == Found(k)
           r == call[k]
           y == [r EXCEPT !.phase = "dial", !.mail = "pending"]
<1>1. Polled(k) /\ Claimed(net, call) = NoConn /\ net' = m
  BY DEF PollDials
<1>2. /\ m \in Net /\ m.work = net.work /\ ConnsOK(m) /\ Queued(net) \ {k} \subseteq Queued(m) /\ Distinct(m.ready)
      /\ \A d \in Conns : /\ m.conn[d].lane = net.conn[d].lane /\ m.conn[d].dialer = net.conn[d].dialer
                          /\ d # Claimed(net, call) => ReadyAt(m, Full(net, call, d), d)
                          /\ m.conn[d].dialer # k
                          /\ k \notin Elements(net.conn[d].lane) /\ k \notin Held(net, call, d)
      /\ CallOK(r) /\ r.phase \in {"dispatch", "wait"}
  BY <1>1, PollFact
<1>3. Good(net, call) /\ call \in [Calls -> CallRec] /\ r \in CallRec
  BY DEF IInv, Good, CallsOK
<1>4. call' = [call EXCEPT ![k] = y]
  BY <1>3 DEF PollDials, CallRec
<1>5. /\ y \in CallRec /\ y.phase = "dial" /\ y.mail = "pending" /\ y.retry = r.retry /\ y.sent = r.sent /\ y.ever = r.ever
      /\ y.result = r.result /\ y.inbox = r.inbox
  BY <1>3 DEF CallRec, Outgoing
<1> HIDE DEF m, y, r
<1>6. CallOK(y)
  BY <1>2, <1>5 DEF CallOK, Outgoing, Reading
<1>7. y.phase \notin Reading
  BY <1>5 DEF Reading
<1>8. \A d \in Conns : ReadyAt(m, Full(net, call, d), d)
  BY <1>1, <1>2, ClientAssumption
<1>9. Good(m, [call EXCEPT ![k] = y])
  BY <1>2, <1>3, <1>5, <1>6, <1>7, <1>8, OutStep
<1> QED BY <1>1, <1>4, <1>9

\* Nothing is claimed, and the call waits, or fails.
LEMMA PollWaitsStep ==
    ASSUME IInv, NEW k \in Calls, PollWaits(k)
    PROVE  Good(net', call')
<1> DEFINE m == Found(k)
           r == call[k]
           y == [r EXCEPT !.phase = "wait"]
           w == [m EXCEPT !.waiters = Append(m.waiters, k)]
<1>1. Polled(k) /\ Claimed(net, call) = NoConn
  BY DEF PollWaits
<1>2. /\ m \in Net /\ m.work = net.work /\ ConnsOK(m) /\ Queued(net) \ {k} \subseteq Queued(m) /\ Distinct(m.ready)
      /\ \A d \in Conns : /\ m.conn[d].lane = net.conn[d].lane /\ m.conn[d].dialer = net.conn[d].dialer
                          /\ d # Claimed(net, call) => ReadyAt(m, Full(net, call, d), d)
                          /\ m.conn[d].dialer # k
                          /\ k \notin Elements(net.conn[d].lane) /\ k \notin Held(net, call, d)
      /\ CallOK(r) /\ r.phase \in {"dispatch", "wait"}
  BY <1>1, PollFact
<1>3. Good(net, call) /\ CallsOK(call) /\ call \in [Calls -> CallRec] /\ r \in CallRec /\ r.phase \in Outgoing
  BY <1>2 DEF IInv, Good, CallsOK, Outgoing
<1>4. \A d \in Conns : ReadyAt(m, Full(net, call, d), d)
  BY <1>1, <1>2, ClientAssumption
<1>5. CASE net' = w /\ call' = [call EXCEPT ![k].phase = "wait"]
  <2>1. call' = [call EXCEPT ![k] = y]
    BY <1>3, <1>5 DEF CallRec
  <2>2. /\ y \in CallRec /\ y.phase = "wait" /\ y.mail = r.mail /\ y.retry = r.retry /\ y.sent = r.sent /\ y.ever = r.ever
        /\ y.result = r.result /\ y.inbox = r.inbox
    BY <1>3 DEF CallRec, Outgoing
  <2>3. m.waiters \in Seq(Calls)
    BY <1>2 DEF Net
  <2>4. Append(m.waiters, k) \in Seq(Calls) /\ Elements(Append(m.waiters, k)) = Elements(m.waiters) \cup {k}
    BY <2>3, AppendFact
  <2>5. w \in Net /\ w.conn = m.conn /\ w.ready = m.ready /\ w.work = m.work /\ w.waiters = Append(m.waiters, k) /\ w.woken = m.woken
    BY <1>2, <2>4 DEF Net
  <2> HIDE DEF m, y, r, w
  <2>6. CallOK(y) /\ y.phase \notin Reading
    BY <1>2, <2>2 DEF CallOK, Outgoing, Reading
  <2>7. Queued(net) \ {k} \subseteq Queued(w) /\ k \in Queued(w)
    BY <1>2, <2>4, <2>5 DEF Queued
  <2>8. ConnsOK(w) /\ \A d \in Conns : ReadyAt(w, Full(net, call, d), d)
    BY <1>2, <1>4, <2>5 DEF ConnsOK, ReadyAt
  <2>9. Good(w, [call EXCEPT ![k] = y])
    BY <1>2, <1>3, <2>5, <2>6, <2>7, <2>8, OutStep, ZenonT(40)
  <2> QED BY <1>5, <2>1, <2>9 DEF w
<1>6. CASE net' = m /\ call' = Failed(call, k, ClassOf("Capacity"), FALSE)
  <2> HIDE DEF m, r, w, y
  <2>1. PICK z : call' = [call EXCEPT ![k] = z] /\ CallOK(z) /\ z.phase \in {"backoff", "done"} /\ z.phase \notin Reading
    BY <1>3, <1>6, FailOut DEF r
  <2>2. Good(m, [call EXCEPT ![k] = z])
    BY <1>2, <1>3, <1>4, <2>1, OutStep
  <2> QED BY <1>6, <2>1, <2>2
<1>7. \/ net' = w /\ call' = [call EXCEPT ![k].phase = "wait"]
      \/ net' = m /\ call' = Failed(call, k, ClassOf("Capacity"), FALSE)
  BY DEF PollWaits
<1> QED BY <1>5, <1>6, <1>7

\* What the drop of a dial leaves alone.
LEMMA UndialledFields ==
    ASSUME NEW x \in Conn, NEW k \in Calls
    PROVE  LET y == Undialled(x, k)
           IN  /\ y.state = x.state /\ y.adm = x.adm /\ y.failed = x.failed /\ y.lane = x.lane
               /\ y.dialer = x.dialer \/ y.dialer = NoCall
               /\ y.dialer # k
<1>1. NoCall \notin Calls
  BY ClientAssumption
<1> QED BY <1>1 DEF Undialled, Conn

\* What a request to close leaves alone.
LEMMA AskedFields ==
    ASSUME NEW x \in Conn, NEW cause
    PROVE  LET y == Asked(x, cause)
           IN  /\ y \in Conn /\ y.state = x.state /\ y.adm = x.adm /\ y.failed = x.failed /\ y.lane = x.lane
               /\ y.dialer = x.dialer
  BY ClassFact DEF Asked, Conn, Causes

\* What closing leaves alone.
LEMMA ShutFields ==
    ASSUME NEW x \in Conn
    PROVE  LET y == Shut(x)
           IN  /\ y \in Conn /\ y.failed = x.failed /\ y.lane = x.lane /\ y.dialer = x.dialer
               /\ x.state \in Open2 => ~Offerable(y)
               /\ Offerable(y) => Offerable(x)
<1>1. Sealed \in Adms
  BY DEF Sealed, Adms, Kinds
<1> QED BY <1>1 DEF Shut, Conn, Offerable, Open2

\* The connection a call dialled is given up.
LEMMA GiveUpFact ==
    ASSUME IInv, NEW k \in Calls, NEW c \in Conns, net.conn[c].dialer = k
    PROVE  LET m == GiveUp(k, c)
           IN  /\ m \in Net /\ m.work = net.work /\ Queued(net) = Queued(m) /\ ConnsOK(m) /\ Distinct(m.ready)
               /\ \A d \in Conns : /\ m.conn[d].lane = net.conn[d].lane
                                   /\ m.conn[d].dialer = net.conn[d].dialer \/ m.conn[d].dialer = NoCall
                                   /\ m.conn[d].dialer # k
                                   /\ ReadyAt(m, Full(net, call, d), d)
<1> DEFINE x == net.conn[c]
           cause == "ResourceFailure"
           u == IF x.state = "ready" /\ ~x.failed THEN CloseClaim(net, c) ELSE net
           z == IF x.state = "ready" /\ ~x.failed THEN Shut(x) ELSE x
           v == Request(u, c, cause)
           m == GiveUp(k, c)
<1>1. /\ net \in Net /\ ConnsOK(net) /\ idle \in Nat /\ dynamic \in BOOLEAN /\ net.conn \in [Conns -> Conn]
      /\ ReadyOK(net, call) /\ NoCall \notin Calls
  BY ClientAssumption DEF IInv, Good, Net
<1>2. ConnOK(x, idle, dynamic) /\ x \in Conn /\ ~Offerable(x)
  BY <1>1 DEF ConnsOK, ConnOK, SlotOK, Offerable
<1>3. c \notin Elements(net.ready)
  BY <1>1, <1>2 DEF ReadyOK, ReadyAt
<1>4. /\ Touch(net, u, c, z) /\ Calm(net, u)
      /\ (Distinct(net.ready) => Distinct(u.ready)) /\ Elements(u.ready) = Elements(net.ready)
  <2>1. CASE x.state = "ready" /\ ~x.failed
    <3>1. x.state \in Open2 /\ u = CloseClaim(net, c) /\ z = Shut(x)
      BY <2>1 DEF Open2
    <3>2. Touch(net, u, c, Shut(x)) /\ Calm(net, u) /\ Thinned(net, u, c)
      BY <1>1, <3>1, CloseFact
    <3> HIDE DEF u, z, x
    <3> QED BY <1>3, <3>1, <3>2 DEF Thinned
  <2>2. CASE ~(x.state = "ready" /\ ~x.failed)
    <3>1. u = net /\ z = x /\ net.conn = [net.conn EXCEPT ![c] = x]
      BY <1>1, <2>2
    <3> HIDE DEF u, z, x
    <3> QED BY <1>1, <3>1 DEF Touch, Calm
  <2> QED BY <2>1, <2>2
<1>5. ConnOK(z, idle, dynamic) /\ z \in Conn /\ ~Offerable(z) /\ z.lane = x.lane /\ z.dialer = x.dialer
  <2>1. ConnOK(Shut(x), idle, dynamic)
    BY <1>1, <1>2, ShutOK
  <2>2. Shut(x) \in Conn /\ ~Offerable(Shut(x)) /\ Shut(x).lane = x.lane /\ Shut(x).dialer = x.dialer
    BY <1>2, ShutFields
  <2> QED BY <1>2, <2>1, <2>2
<1>6. m = DropDial(v, k)
  BY DEF GiveUp
<1> HIDE DEF x, u, z, v, m, cause
<1>7. u \in Net /\ u.conn[c] = z /\ \A d \in Conns : d # c => u.conn[d] = net.conn[d]
  BY <1>1, <1>4, TouchFact
<1>8. Touch(u, v, c, Asked(z, cause)) /\ Calm(u, v) /\ v.ready = u.ready
  BY <1>7, RequestFact DEF v
<1>9. /\ v \in Net /\ v.conn[c] = Asked(z, cause) /\ \A d \in Conns : d # c => v.conn[d] = net.conn[d]
  BY <1>7, <1>8, TouchFact
<1>10. /\ Asked(z, cause) \in Conn /\ Asked(z, cause).lane = x.lane /\ Asked(z, cause).dialer = x.dialer
       /\ ~Offerable(Asked(z, cause)) /\ ConnOK(Asked(z, cause), idle, dynamic)
  <2>1. ConnOK(Asked(z, cause), idle, dynamic)
    BY <1>1, <1>5, AskedOK
  <2>2. /\ Asked(z, cause) \in Conn /\ Asked(z, cause).state = z.state /\ Asked(z, cause).adm = z.adm
        /\ Asked(z, cause).lane = z.lane /\ Asked(z, cause).dialer = z.dialer
    BY <1>5, AskedFields
  <2> QED BY <1>5, <2>1, <2>2 DEF Offerable
<1>11. /\ m \in Net /\ m.ready = v.ready /\ m.work = v.work /\ m.waiters = v.waiters /\ m.woken = v.woken
       /\ \A d \in Conns : m.conn[d] = Undialled(v.conn[d], k)
  BY <1>6, <1>9, DropDialFact
<1>12. \A d \in Conns : v.conn[d] \in Conn /\ ConnOK(v.conn[d], idle, dynamic) /\ v.conn[d].lane = net.conn[d].lane
                        /\ v.conn[d].dialer = net.conn[d].dialer /\ (d # c => v.conn[d] = net.conn[d])
  BY <1>1, <1>9, <1>10 DEF x, ConnsOK
<1>13. ConnsOK(m)
  <2>1. \A d \in Conns : ConnOK(Undialled(v.conn[d], k), idle, dynamic)
    BY <1>1, <1>12, UndialledOK
  <2> QED BY <1>11, <2>1 DEF ConnsOK
<1>14. \A d \in Conns : /\ m.conn[d].state = v.conn[d].state /\ m.conn[d].adm = v.conn[d].adm
                        /\ m.conn[d].failed = v.conn[d].failed /\ m.conn[d].lane = v.conn[d].lane
                        /\ m.conn[d].dialer = v.conn[d].dialer \/ m.conn[d].dialer = NoCall
                        /\ m.conn[d].dialer # k
  BY <1>11, <1>12, UndialledFields
<1>15. m.work = net.work /\ Queued(m) = Queued(net) /\ Elements(m.ready) = Elements(net.ready) /\ Distinct(m.ready)
  BY <1>1, <1>4, <1>8, <1>11 DEF Calm, Queued, ReadyOK
<1>16. ASSUME NEW d \in Conns PROVE ReadyAt(m, Full(net, call, d), d)
  <2>1. ReadyAt(net, Full(net, call, d), d)
    BY <1>1 DEF ReadyOK
  <2>2. CASE d = c
    <3>1. ~Offerable(m.conn[c])
      BY <1>9, <1>10, <1>14 DEF Offerable
    <3> QED BY <1>3, <1>15, <2>2, <3>1 DEF ReadyAt
  <2>3. CASE d # c
    <3>1. Offerable(m.conn[d]) <=> Offerable(net.conn[d])
      BY <1>12, <1>14, <2>3 DEF Offerable
    <3> QED BY <1>12, <1>14, <1>15, <2>1, <2>3, <3>1 DEF ReadyAt
  <2> QED BY <2>2, <2>3
<1> QED BY <1>11, <1>12, <1>13, <1>14, <1>15, <1>16 DEF m

\* The dial failed, or what it settled cannot be used.
LEMMA DialFailsStep ==
    ASSUME IInv, NEW k \in Calls, DialFails(k)
    PROVE  Good(net', call')
<1>1. /\ Good(net, call) /\ net \in Net /\ ConnsOK(net) /\ CallsOK(call) /\ ReadyOK(net, call)
      /\ call[k].phase = "dial" /\ call[k].phase \in Outgoing /\ call[k].phase \notin Reading
  BY DEF IInv, Good, DialFails, Outgoing, Reading
<1>2. \A d \in Conns : k \notin Elements(net.conn[d].lane) /\ k \notin Held(net, call, d)
  BY <1>1, NotReading
<1>3. PICK class : call' = Failed(call, k, class, FALSE)
  BY DEF DialFails
<1>4. PICK y : call' = [call EXCEPT ![k] = y] /\ CallOK(y) /\ y.phase \in {"backoff", "done"} /\ y.phase \notin Reading
  BY <1>1, <1>3, FailOut
<1>5. CASE net' = net /\ \A d \in Conns : net.conn[d].dialer # k
  <2>1. Good(net, [call EXCEPT ![k] = y])
    BY <1>1, <1>2, <1>4, <1>5, OutStep DEF ReadyOK
  <2> QED BY <1>4, <1>5, <2>1
<1>6. ASSUME NEW c \in Dialled(k), net' = GiveUp(k, c) PROVE Good(net', call')
  <2> DEFINE m == GiveUp(k, c)
  <2>1. c \in Conns /\ net.conn[c].dialer = k
    BY DEF Dialled
  <2>2. /\ m \in Net /\ m.work = net.work /\ Queued(net) = Queued(m) /\ ConnsOK(m) /\ Distinct(m.ready)
        /\ \A d \in Conns : /\ m.conn[d].lane = net.conn[d].lane
                            /\ m.conn[d].dialer = net.conn[d].dialer \/ m.conn[d].dialer = NoCall
                            /\ m.conn[d].dialer # k
                            /\ ReadyAt(m, Full(net, call, d), d)
    BY <2>1, GiveUpFact
  <2> HIDE DEF m
  <2>3. Good(m, [call EXCEPT ![k] = y])
    BY <1>1, <1>2, <1>4, <2>2, OutStep
  <2> QED BY <1>4, <1>6, <2>3 DEF m
<1>7. \/ net' = net /\ (call[k].mail \in Classes \/ (call[k].mail = "connected" /\ Dialled(k) = {}))
      \/ \E c \in Dialled(k) : net' = GiveUp(k, c)
  BY DEF DialFails
<1>8. call[k].mail \in Classes => \A d \in Conns : net.conn[d].dialer # k
  BY <1>1, NotDialling DEF Classes
<1>9. call[k].mail = "connected" /\ Dialled(k) = {} => \A d \in Conns : net.conn[d].dialer # k
  BY DEF Dialled
<1> QED BY <1>5, <1>6, <1>7, <1>8, <1>9

\* What the dial settled is refused.
LEMMA DialRefusedStep ==
    ASSUME IInv, NEW k \in Calls, DialRefused(k)
    PROVE  Good(net', call')
<1>0. PICK c \in Dialled(k) : net' = GiveUp(k, c) /\ \E class : call' = Failed(call, k, class, FALSE)
  BY DEF DialRefused
<1>1. PICK class : net' = GiveUp(k, c) /\ call' = Failed(call, k, class, FALSE)
  BY <1>0
<1>2. c \in Conns /\ net.conn[c].dialer = k
  BY DEF Dialled
<1>3. Good(net, call) /\ CallsOK(call) /\ call[k].phase = "dial" /\ call[k].phase \in Outgoing /\ call[k].phase \notin Reading
  BY <1>2 DEF IInv, Good, DialsOK, Outgoing, Reading
<1>4. \A d \in Conns : k \notin Elements(net.conn[d].lane) /\ k \notin Held(net, call, d)
  BY <1>3, NotReading
<1>5. PICK y : call' = [call EXCEPT ![k] = y] /\ CallOK(y) /\ y.phase \in {"backoff", "done"} /\ y.phase \notin Reading
  BY <1>1, <1>3, FailOut
<1> DEFINE m == GiveUp(k, c)
<1>6. /\ m \in Net /\ m.work = net.work /\ Queued(net) = Queued(m) /\ ConnsOK(m) /\ Distinct(m.ready)
      /\ \A d \in Conns : /\ m.conn[d].lane = net.conn[d].lane
                          /\ m.conn[d].dialer = net.conn[d].dialer \/ m.conn[d].dialer = NoCall
                          /\ m.conn[d].dialer # k
                          /\ ReadyAt(m, Full(net, call, d), d)
  BY <1>2, GiveUpFact
<1> HIDE DEF m
<1>7. Good(m, [call EXCEPT ![k] = y])
  BY <1>3, <1>4, <1>5, <1>6, OutStep
<1> QED BY <1>1, <1>5, <1>7 DEF m

\* A call is over: its record is Returned.
LEMMA ReturnFact ==
    ASSUME CallsOK(call), NEW k \in Calls, NEW result \in {"none", "ok", "BeforeSubmit", "PossiblyCommitted"},
           result = "BeforeSubmit" => ~call[k].ever, result = "PossiblyCommitted" => call[k].ever
    PROVE  \E y : /\ Return(call, k, result) = [call EXCEPT ![k] = y]
                  /\ CallOK(y) /\ y.phase = "done" /\ y.phase \notin Reading
<1> DEFINE y == Returned(call[k], k, result)
<1>1. call[k] \in CallRec
  BY DEF CallsOK
<1>2. CallOK(y) /\ y.phase = "done"
  BY <1>1, ReturnedOK
<1>3. Return(call, k, result) = [call EXCEPT ![k] = y]
  BY DEF Return, Returned
<1> HIDE DEF y
<1> QED BY <1>2, <1>3 DEF Reading

\* What a call without a request outstanding reports.
LEMMA FinishFact ==
    ASSUME CallsOK(call), NEW k \in Calls, NEW committed \in BOOLEAN,
           (call[k].phase \in Outgoing /\ ~committed) \/ (call[k].phase \in Reading /\ committed)
    PROVE  LET f == Finish(call[k].retry, committed)
           IN  /\ f \in {"none", "ok", "BeforeSubmit", "PossiblyCommitted"}
               /\ f = "BeforeSubmit" => ~call[k].ever
               /\ f = "PossiblyCommitted" => call[k].ever
<1> DEFINE r == call[k]
           t == Observe(r.retry, committed)
<1>1. CallOK(r) /\ r \in CallRec /\ r.retry \in Retries /\ r.ever \in BOOLEAN
  BY DEF CallsOK, CallRec
<1>2. t.committed <=> r.retry.committed \/ committed
  BY <1>1 DEF Observe, Retries
<1>3. r.ever <=> t.committed
  BY <1>1, <1>2 DEF CallOK, Outgoing, Reading
<1>4. Finish(r.retry, committed) = IF t.committed THEN "PossiblyCommitted" ELSE "BeforeSubmit"
  BY DEF Finish
<1> HIDE DEF r, t
<1> QED BY <1>3, <1>4 DEF r

\* A dispatch is dropped.
LEMMA LeaveDispatch ==
    ASSUME IInv, NEW k \in Calls, call[k].phase \in Outgoing, NEW y, CallOK(y), y.phase = "done"
    PROVE  Good(DropDispatch(net, call, k), [call EXCEPT ![k] = y])
<1> DEFINE m == DropDispatch(net, call, k)
<1>1. /\ Good(net, call) /\ net \in Net /\ ConnsOK(net) /\ ReadyOK(net, call) /\ idle \in Nat /\ dynamic \in BOOLEAN
      /\ net.conn \in [Conns -> Conn] /\ call[k].phase \notin Reading /\ y.phase \notin Reading /\ y.phase # "wait"
  BY DEF IInv, Good, Net, Outgoing, Reading
<1>2. \A d \in Conns : k \notin Elements(net.conn[d].lane) /\ k \notin Held(net, call, d)
  BY <1>1, NotReading
<1>3. /\ m \in Net /\ m.ready = net.ready /\ m.work = net.work
      /\ Queued(net) \ {k} \subseteq Queued(m)
      /\ \A c \in Conns : /\ m.conn[c] \in Conn
                          /\ m.conn[c] = IF call[k].phase = "dial" THEN Undialled(net.conn[c], k) ELSE net.conn[c]
  BY <1>1, DropDispatchFact
<1> HIDE DEF m
<1>4. ASSUME NEW d \in Conns
      PROVE  /\ m.conn[d].state = net.conn[d].state /\ m.conn[d].adm = net.conn[d].adm
             /\ m.conn[d].failed = net.conn[d].failed /\ m.conn[d].lane = net.conn[d].lane
             /\ m.conn[d].dialer = net.conn[d].dialer \/ m.conn[d].dialer = NoCall
             /\ m.conn[d].dialer # k
             /\ ConnOK(m.conn[d], idle, dynamic)
  <2>1. net.conn[d] \in Conn /\ ConnOK(net.conn[d], idle, dynamic)
    BY <1>1 DEF ConnsOK
  <2>2. CASE call[k].phase = "dial"
    <3>1. m.conn[d] = Undialled(net.conn[d], k)
      BY <1>3, <2>2
    <3>2. ConnOK(m.conn[d], idle, dynamic)
      BY <1>1, <2>1, <3>1, UndialledOK
    <3> QED BY <2>1, <3>1, <3>2, UndialledFields
  <2>3. CASE call[k].phase # "dial"
    <3>1. net.conn[d].dialer # k
      BY <1>1, <2>3, NotDialling
    <3> QED BY <1>3, <2>1, <2>3, <3>1
  <2> QED BY <2>2, <2>3
<1>5. ConnsOK(m)
  BY <1>4 DEF ConnsOK
<1>6. ASSUME NEW d \in Conns PROVE ReadyAt(m, Full(net, call, d), d)
  <2>1. ReadyAt(net, Full(net, call, d), d)
    BY <1>1 DEF ReadyOK
  <2>2. (Offerable(m.conn[d]) <=> Offerable(net.conn[d])) /\ m.conn[d].failed = net.conn[d].failed
    BY <1>4 DEF Offerable
  <2> QED BY <1>3, <2>1, <2>2 DEF ReadyAt
<1>7. Distinct(m.ready)
  BY <1>1, <1>3 DEF ReadyOK
<1>8. Good(m, [call EXCEPT ![k] = y])
  BY <1>1, <1>2, <1>3, <1>4, <1>5, <1>6, <1>7, OutStep
<1> QED BY <1>8 DEF m

\* A reply is dropped.
LEMMA LeaveReply ==
    ASSUME IInv, NEW k \in Calls, call[k].phase \in Reading, NEW y, CallOK(y), y.phase \in {"backoff", "done"}
    PROVE  Good(DropReply(net, call, k), [call EXCEPT ![k] = y])
<1> DEFINE m == DropReply(net, call, k)
           c == call[k].on
           z == Left(net.conn[c], k, call[k].live)
<1>1. /\ Good(net, call) /\ net \in Net /\ ConnsOK(net) /\ ReadyOK(net, call) /\ idle \in Nat /\ dynamic \in BOOLEAN
      /\ net.conn \in [Conns -> Conn] /\ y.phase \notin Reading /\ y.phase # "wait" /\ LanesOK(net, call)
  BY DEF IInv, Good, Net, Reading
<1>2. c \in Conns
  BY DEF IInv, Good, CallsOK, CallOK
<1>3. /\ Touch(net, m, c, z) /\ m.ready = net.ready /\ Queued(m) = Queued(net)
      /\ net.work \subseteq m.work /\ m.work \subseteq net.work \cup {c}
      /\ k \in Held(net, call, c) => c \in m.work
      /\ z \in Conn /\ z.lane = Blank(net.conn[c].lane, k)
  BY <1>1, <1>2, DropReplyFact
<1>4. ConnOK(z, idle, dynamic)
  BY <1>1, <1>2, LeftOK DEF ConnsOK
<1>5. z.dialer = net.conn[c].dialer /\ z.failed = net.conn[c].failed /\ (Offerable(z) <=> Offerable(net.conn[c]))
  <2> DEFINE x == net.conn[c]
             b == [x EXCEPT !.lane = Blank(x.lane, k)]
             cause == "OperationCancelled"
  <2>1. x \in Conn /\ x.lane \in Seq(Places)
    BY <1>1, <1>2 DEF Conn
  <2>2. Blank(x.lane, k) \in Seq(Places)
    BY <2>1, BlankFact
  <2>3. b \in Conn /\ b.dialer = x.dialer /\ b.failed = x.failed /\ b.state = x.state /\ b.adm = x.adm
    BY <2>1, <2>2 DEF Conn
  <2>4. z = IF call[k].live THEN Asked(b, cause) ELSE b
    BY DEF Left
  <2> HIDE DEF b, cause, x, z
  <2>5. /\ Asked(b, cause).dialer = b.dialer /\ Asked(b, cause).failed = b.failed
        /\ Asked(b, cause).state = b.state /\ Asked(b, cause).adm = b.adm
    BY <2>3, AskedFields
  <2>6. z.dialer = x.dialer /\ z.failed = x.failed /\ z.state = x.state /\ z.adm = x.adm
    BY <2>3, <2>4, <2>5
  <2> QED BY <2>6 DEF Offerable, x
<1> HIDE DEF m, z, c
<1>6. m \in Net /\ m.conn[c] = z /\ \A d \in Conns : d # c => m.conn[d] = net.conn[d]
  BY <1>1, <1>2, <1>3, TouchFact
<1>7. ConnsOK(m)
  BY <1>1, <1>2, <1>3, <1>4, ConnsKept
<1>8. \A d \in Conns : d # c => k \notin Elements(net.conn[d].lane) /\ k \notin Held(net, call, d)
  BY <1>1 DEF LanesOK, Awaits, Held, c
<1>9. \A d \in Conns : \/ m.conn[d].lane = net.conn[d].lane /\ k \notin Elements(net.conn[d].lane)
                       \/ m.conn[d].lane = Blank(net.conn[d].lane, k)
  BY <1>3, <1>6, <1>8
<1>10. \A d \in Conns : net.conn[d].dialer # k
  <2>1. call[k].phase # "dial"
    BY DEF Reading
  <2> QED BY <1>1, <2>1, NotDialling
<1>11. \A d \in Conns : m.conn[d].dialer = net.conn[d].dialer /\ m.conn[d].dialer # k
  BY <1>2, <1>5, <1>6, <1>10
<1>12. \A d \in Conns : ReadyAt(m, Full(net, call, d), d) /\ (k \in Held(net, call, d) => d \in m.work)
  BY <1>1, <1>2, <1>3, <1>5, <1>6, <1>8 DEF ReadyOK, ReadyAt
<1>13. Distinct(m.ready)
  BY <1>1, <1>3 DEF ReadyOK
<1>14. Good(m, [call EXCEPT ![k] = y])
  BY <1>1, <1>3, <1>6, <1>7, <1>9, <1>11, <1>12, <1>13, OutStep
<1> QED BY <1>14 DEF m

\* A response has been read to its end.
LEMMA LeaveEnded ==
    ASSUME IInv, NEW k \in Calls, call[k].phase \in Reading, call[k].inbox # <<>>, "end" \in Elements(call[k].inbox),
           NEW y, CallOK(y), y.phase \in {"dispatch", "done"}
    PROVE  Good([net EXCEPT !.work = net.work \cup {call[k].on}], [call EXCEPT ![k] = y])
<1> DEFINE c == call[k].on
           m == [net EXCEPT !.work = net.work \cup {c}]
<1>1. /\ Good(net, call) /\ net \in Net /\ ConnsOK(net) /\ ReadyOK(net, call)
      /\ y.phase \notin Reading /\ y.phase # "wait" /\ LanesOK(net, call) /\ net.work \in SUBSET Conns
  BY DEF IInv, Good, Net, Reading
<1>2. c \in Conns
  BY DEF IInv, Good, CallsOK, CallOK
<1>3. m \in Net /\ m.conn = net.conn /\ m.ready = net.ready /\ m.work = net.work \cup {c} /\ Queued(m) = Queued(net)
  BY <1>1, <1>2 DEF Net, Queued
<1> HIDE DEF m, c
<1>4. \A d \in Conns : k \notin Elements(net.conn[d].lane)
  BY <1>1 DEF LanesOK, Awaits
<1>5. \A d \in Conns : k \in Held(net, call, d) => d = c
  BY DEF Held, c
<1>6. \A d \in Conns : net.conn[d].dialer # k
  <2>1. call[k].phase # "dial"
    BY DEF Reading
  <2> QED BY <1>1, <2>1, NotDialling
<1>7. \A d \in Conns : ReadyAt(m, Full(net, call, d), d) /\ (k \in Held(net, call, d) => d \in m.work)
  BY <1>1, <1>3, <1>5 DEF ReadyOK, ReadyAt
<1>8. ConnsOK(m) /\ Distinct(m.ready)
  BY <1>1, <1>3 DEF ConnsOK, ReadyOK
<1>9. Good(m, [call EXCEPT ![k] = y])
  BY <1>1, <1>3, <1>4, <1>6, <1>7, <1>8, OutStep
<1> QED BY <1>9 DEF m, c

\* A call reads on.
LEMMA StayLanes ==
    ASSUME NEW n, NEW m, NEW cl, CallsOK(cl), LanesOK(n, cl), NEW k \in Calls, NEW y, CallOK(y),
           \A c \in Conns : m.conn[c].lane = n.conn[c].lane,
           cl[k].phase \in Reading, y.phase \in Reading, y.on = cl[k].on, y.live = cl[k].live,
           \A c \in Conns : k \in Elements(n.conn[c].lane) => Elements(y.inbox) \subseteq {"head"},
           Answered(cl[k]) => Answered(y)
    PROVE  LET cl2 == [cl EXCEPT ![k] = y]
           IN  LanesOK(m, cl2) /\ CallsOK(cl2) /\ \A c \in Conns : Full(m, cl2, c) <=> Full(n, cl, c)
<1> DEFINE cl2 == [cl EXCEPT ![k] = y]
<1>1. CallsOK(cl2) /\ cl2[k] = y /\ \A j \in Calls : j # k => cl2[j] = cl[j]
  BY CallsKept
<1> HIDE DEF cl2
<1>2. \A c \in Conns : \A j \in Calls : j \in Elements(m.conn[c].lane) => Awaits(cl2[j], c)
  BY <1>1 DEF LanesOK, Awaits
<1>3. ASSUME NEW j \in Calls, cl2[j].phase \in Reading
      PROVE  Answered(cl2[j]) \/ (cl2[j].live /\ j \in Elements(m.conn[cl2[j].on].lane))
  <2>1. cl[j].phase \in Reading /\ cl2[j].on = cl[j].on /\ cl2[j].live = cl[j].live /\ cl[j].on \in Conns
        /\ (Answered(cl[j]) => Answered(cl2[j]))
    BY <1>1, <1>3 DEF CallsOK, CallOK
  <2> QED BY <2>1 DEF LanesOK
<1>4. LanesOK(m, cl2)
  BY <1>2, <1>3 DEF LanesOK
<1>5. ASSUME NEW c \in Conns PROVE Full(m, cl2, c) <=> Full(n, cl, c)
  <2>1. ASSUME NEW j \in Calls PROVE j \in Held(m, cl2, c) <=> j \in Held(n, cl, c)
    <3>1. (cl2[j].phase \in Reading <=> cl[j].phase \in Reading) /\ (cl2[j].phase \in Reading => cl2[j].on = cl[j].on)
      BY <1>1
    <3> QED BY <3>1 DEF Held, Reading
  <2>2. Held(m, cl2, c) \subseteq Calls /\ Held(n, cl, c) \subseteq Calls
    BY DEF Held
  <2>3. Held(m, cl2, c) = Held(n, cl, c)
    BY <2>1, <2>2
  <2> QED BY <2>3 DEF Full
<1> QED BY <1>1, <1>4, <1>5 DEF cl2

\* The head of a response is read.
LEMMA ReadHead ==
    ASSUME IInv, NEW k \in Calls, call[k].phase \in Reading, call[k].inbox # <<>>, Head(call[k].inbox) = "head",
           net' = net, call' = [[call EXCEPT ![k].inbox = Tail(@)] EXCEPT ![k].phase = "body"]
    PROVE  Good(net', call')
<1> DEFINE r == call[k]
           q == r.inbox
           y == [r EXCEPT !.inbox = Tail(q), !.phase = "body"]
           cl2 == [call EXCEPT ![k] = y]
<1>1. /\ Good(net, call) /\ net \in Net /\ ConnsOK(net) /\ CallsOK(call) /\ LanesOK(net, call) /\ DialsOK(net, call)
      /\ WaitsOK(net, call) /\ ReadyOK(net, call) /\ CallOK(r) /\ r \in CallRec /\ q \in Seq(Events)
      /\ call \in [Calls -> CallRec]
  BY DEF IInv, Good, CallsOK, CallRec
<1>2. Tail(q) \in Seq(Events) /\ Elements(Tail(q)) \subseteq Elements(q)
  BY <1>1, TailElements
<1>3. call' = cl2
  BY <1>1 DEF CallRec
<1>4. /\ y \in CallRec /\ y.phase = "body" /\ y.inbox = Tail(q) /\ y.on = r.on /\ y.live = r.live /\ y.retry = r.retry
      /\ y.mail = r.mail /\ y.result = r.result /\ y.sent = r.sent /\ y.ever = r.ever
  BY <1>1, <1>2 DEF CallRec, Reading
<1>5. Answered(r) => Answered(y)
  <2>1. ASSUME q[Len(q)] # "head" PROVE Tail(q) # <<>> /\ Tail(q)[Len(Tail(q))] = q[Len(q)]
    <3>1. q # <<>> /\ q[1] = "head"
      BY <1>1
    <3> HIDE DEF q
    <3> QED BY <1>1, <2>1, <3>1, LastTail
  <2> HIDE DEF y
  <2> QED BY <1>4, <2>1 DEF Answered
<1> HIDE DEF y, q
<1>6. CallOK(y) /\ y.phase \in Reading
  BY <1>1, <1>4 DEF CallOK, Outgoing, Reading
<1>7. \A c \in Conns : k \in Elements(net.conn[c].lane) => Elements(y.inbox) \subseteq {"head"}
  BY <1>1, <1>2, <1>4 DEF LanesOK, Awaits, q
<1>8. LanesOK(net, cl2) /\ CallsOK(cl2) /\ \A c \in Conns : Full(net, cl2, c) <=> Full(net, call, c)
  <2> HIDE DEF r, cl2
  <2> QED BY <1>1, <1>4, <1>5, <1>6, <1>7, StayLanes DEF r, cl2
<1>9. WaitsOK(net, cl2)
  <2>1. y.phase # "wait"
    BY <1>4
  <2> QED BY <1>1, <1>6, <2>1, WaitsKept
<1>10. DialsOK(net, cl2)
  <2>1. r.phase # "dial"
    BY DEF Reading
  <2>2. \A c \in Conns : net.conn[c].dialer # k
    BY <1>1, <2>1, NotDialling
  <2> QED BY <1>1, <1>6, <2>2, DialsKept
<1> HIDE DEF cl2
<1>11. ReadyOK(net, cl2)
  BY <1>1, <1>8 DEF ReadyOK, ReadyAt
<1> QED BY <1>1, <1>3, <1>8, <1>9, <1>10, <1>11 DEF Good

\* An attempt fails after its request entered egress.
LEMMA FailReply ==
    ASSUME CallsOK(call), NEW k \in Calls, call[k].phase \in Reading, NEW class
    PROVE  \E y : /\ Failed(call, k, class, TRUE) = [call EXCEPT ![k] = y]
                  /\ CallOK(y) /\ y.phase \in {"backoff", "done"}
<1> DEFINE b == TRUE
           y == FailedRec(call[k], k, class, b)
<1>1. CallOK(call[k]) /\ call \in [Calls -> CallRec]
  BY DEF CallsOK
<1>2. b \in BOOLEAN /\ b
  OBVIOUS
<1> HIDE DEF b
<1>3. CallOK(y) /\ y.phase \in {"backoff", "done"}
  BY <1>1, <1>2, FailedRecOK
<1>4. Failed(call, k, class, b) = [call EXCEPT ![k] = y]
  BY <1>1, FailedFact
<1> HIDE DEF y
<1> QED BY <1>3, <1>4 DEF b

\* The next event is read.
LEMMA ReadEventStep ==
    ASSUME IInv, NEW k \in Calls, ReadEvent(k)
    PROVE  Good(net', call')
<1> DEFINE q == call[k].inbox
           event == Head(q)
           m == [net EXCEPT !.work = net.work \cup {call[k].on}]
<1>1. call[k].phase \in Reading /\ q # <<>> /\ CallsOK(call) /\ CallOK(call[k])
  BY DEF ReadEvent, Reading, IInv, Good, CallsOK
<1>2. \/ event = "head" /\ net' = net /\ call' = [[call EXCEPT ![k].inbox = Tail(@)] EXCEPT ![k].phase = "body"]
      \/ /\ event = "end" /\ net' = m
         /\ call' = Return(call, k, "ok") \/ call' = Return(call, k, "PossiblyCommitted")
      \/ event \in Classes /\ net' = DropReply(net, call, k) /\ call' = Failed(call, k, event, TRUE)
  BY DEF ReadEvent
<1>3. CASE event = "head" /\ net' = net /\ call' = [[call EXCEPT ![k].inbox = Tail(@)] EXCEPT ![k].phase = "body"]
  BY <1>1, <1>3, ReadHead
<1>4. CASE event = "end" /\ net' = m /\ (call' = Return(call, k, "ok") \/ call' = Return(call, k, "PossiblyCommitted"))
  <2>1. PICK result \in {"ok", "PossiblyCommitted"} : call' = Return(call, k, result)
    BY <1>4
  <2>2. call[k].ever
    BY <1>1 DEF CallOK
  <2>3. PICK y : call' = [call EXCEPT ![k] = y] /\ CallOK(y) /\ y.phase = "done"
    BY <1>1, <2>1, <2>2, ReturnFact
  <2>4. "end" \in Elements(q)
    <3>1. q \in Seq(Events)
      BY <1>1 DEF CallOK, CallRec
    <3>2. Elements(q) = Elements(Tail(q)) \cup {Head(q)}
      BY <1>1, <3>1, TailElements
    <3> QED BY <1>4, <3>2
  <2>5. Good(m, [call EXCEPT ![k] = y])
    BY <1>1, <2>3, <2>4, LeaveEnded
  <2> QED BY <1>4, <2>3, <2>5
<1>5. CASE event \in Classes /\ net' = DropReply(net, call, k) /\ call' = Failed(call, k, event, TRUE)
  <2>1. PICK y : call' = [call EXCEPT ![k] = y] /\ CallOK(y) /\ y.phase \in {"backoff", "done"}
    BY <1>1, <1>5, FailReply
  <2>2. Good(DropReply(net, call, k), [call EXCEPT ![k] = y])
    BY <1>1, <2>1, LeaveReply
  <2> QED BY <1>5, <2>1, <2>2
<1> QED BY <1>2, <1>3, <1>4, <1>5

\* A complete response redirects.
LEMMA RedirectStep ==
    ASSUME IInv, NEW k \in Calls, Redirect(k)
    PROVE  Good(net', call')
<1> DEFINE r == call[k]
           z == NewCall(k)
           m == [net EXCEPT !.work = net.work \cup {call[k].on}]
<1>1. /\ r.phase \in Reading /\ r.inbox = <<"end">> /\ net' = m /\ CallsOK(call) /\ CallOK(r) /\ r \in CallRec
      /\ r.hops \in Nat /\ r.ever /\ r.ever \in BOOLEAN /\ r.retry \in Retries
  BY DEF Redirect, Reading, IInv, Good, CallsOK, CallOK, CallRec
<1>2. PICK b \in BOOLEAN : call' = [call EXCEPT ![k] = [NewCall(k) EXCEPT !.hops = r.hops + 1, !.ever = r.ever,
                                                                         !.retry = NewRetry(b, TRUE)]]
  <2>1. r.retry.idempotent \in BOOLEAN
    BY <1>1 DEF Retries
  <2> QED BY <2>1 DEF Redirect
<1> DEFINE t == NewRetry(b, TRUE)
           y == [z EXCEPT !.hops = r.hops + 1, !.ever = r.ever, !.retry = t]
<1>3. t \in Retries /\ t.committed
  BY DEF NewRetry, Retries
<1>4. CallOK(z) /\ z.phase = "dispatch" /\ z.mail = "none" /\ z.sent = 0 /\ z.result = "none" /\ z.inbox = <<>>
  BY NewCallOK
<1> HIDE DEF z, t
<1>5. /\ y \in CallRec /\ y.phase = "dispatch" /\ y.mail = "none" /\ y.sent = 0 /\ y.ever = r.ever /\ y.retry = t
      /\ y.result = "none" /\ y.inbox = <<>>
  <2>1. z \in CallRec
    BY <1>4 DEF CallOK
  <2>2. r.hops + 1 \in Nat
    BY <1>1
  <2> QED BY <1>1, <1>3, <1>4, <2>1, <2>2 DEF CallRec
<1>6. call' = [call EXCEPT ![k] = y]
  BY <1>2 DEF z, t
<1> HIDE DEF y
<1>7. CallOK(y)
  BY <1>1, <1>3, <1>5 DEF CallOK, Outgoing, Reading
<1>8. "end" \in Elements(r.inbox) /\ r.inbox # <<>>
  BY <1>1 DEF Elements
<1>9. Good(m, [call EXCEPT ![k] = y])
  BY <1>1, <1>5, <1>7, <1>8, LeaveEnded
<1> QED BY <1>1, <1>6, <1>9

\* The dispatch timeout.
LEMMA DispatchTimeoutStep ==
    ASSUME IInv, NEW k \in Calls, DispatchTimeout(k)
    PROVE  Good(net', call')
<1> DEFINE f == Finish(call[k].retry, FALSE)
<1>1. /\ CallsOK(call) /\ call[k].phase \in Outgoing /\ net' = DropDispatch(net, call, k)
      /\ call' = Return(call, k, f)
  BY DEF DispatchTimeout, Outgoing, IInv, Good
<1>2. /\ f \in {"none", "ok", "BeforeSubmit", "PossiblyCommitted"}
      /\ (f = "BeforeSubmit" => ~call[k].ever) /\ (f = "PossiblyCommitted" => call[k].ever)
  BY <1>1, FinishFact
<1> HIDE DEF f
<1>3. PICK y : call' = [call EXCEPT ![k] = y] /\ CallOK(y) /\ y.phase = "done"
  BY <1>1, <1>2, ReturnFact
<1>4. Good(DropDispatch(net, call, k), [call EXCEPT ![k] = y])
  BY <1>1, <1>3, LeaveDispatch
<1> QED BY <1>1, <1>3, <1>4

\* The head timeout, or the body's.
LEMMA ReplyTimeoutStep ==
    ASSUME IInv, NEW k \in Calls, ReplyTimeout(k)
    PROVE  Good(net', call')
<1> DEFINE b == TRUE
           f == Finish(call[k].retry, b)
<1>1. /\ CallsOK(call) /\ call[k].phase \in Reading /\ net' = DropReply(net, call, k) /\ b \in BOOLEAN /\ b
      /\ (\E class : call' = Failed(call, k, class, TRUE)) \/ call' = Return(call, k, f)
  BY DEF ReplyTimeout, Reading, IInv, Good
<1> HIDE DEF b
<1>2. /\ f \in {"none", "ok", "BeforeSubmit", "PossiblyCommitted"}
      /\ (f = "BeforeSubmit" => ~call[k].ever) /\ (f = "PossiblyCommitted" => call[k].ever)
  BY <1>1, FinishFact
<1> HIDE DEF f
<1>3. PICK y : call' = [call EXCEPT ![k] = y] /\ CallOK(y) /\ y.phase \in {"backoff", "done"}
  <2>1. CASE \E class : call' = Failed(call, k, class, TRUE)
    BY <1>1, <2>1, FailReply
  <2>2. CASE call' = Return(call, k, f)
    BY <1>1, <1>2, <2>2, ReturnFact
  <2> QED BY <1>1, <2>1, <2>2
<1>4. Good(DropReply(net, call, k), [call EXCEPT ![k] = y])
  BY <1>1, <1>3, LeaveReply
<1> QED BY <1>1, <1>3, <1>4

\* The application drops the call.
LEMMA CancelStep ==
    ASSUME IInv, NEW k \in Calls, Cancel(k)
    PROVE  Good(net', call')
<1> DEFINE f == "none"
<1>1. /\ CallsOK(call) /\ call' = Return(call, k, f)
      /\ \/ call[k].phase \in Reading /\ net' = DropReply(net, call, k)
         \/ call[k].phase \in Outgoing /\ net' = DropDispatch(net, call, k)
  BY DEF Cancel, Reading, Outgoing, IInv, Good
<1>2. f \in {"none", "ok", "BeforeSubmit", "PossiblyCommitted"} /\ f # "BeforeSubmit" /\ f # "PossiblyCommitted"
  OBVIOUS
<1> HIDE DEF f
<1>3. PICK y : call' = [call EXCEPT ![k] = y] /\ CallOK(y) /\ y.phase = "done"
  BY <1>1, <1>2, ReturnFact
<1>4. CASE call[k].phase \in Reading /\ net' = DropReply(net, call, k)
  BY <1>3, <1>4, LeaveReply
<1>5. CASE call[k].phase \in Outgoing /\ net' = DropDispatch(net, call, k)
  BY <1>3, <1>5, LeaveDispatch
<1> QED BY <1>1, <1>4, <1>5

\* The backoff ends.
LEMMA BackoffEndsStep ==
    ASSUME IInv, NEW k \in Calls, BackoffEnds(k)
    PROVE  Good(net', call')
<1> DEFINE r == call[k]
           f == Finish(r.retry, FALSE)
           t == Restart(r.retry)
           z == [r EXCEPT !.phase = "dispatch", !.retry = t]
<1>1. /\ Good(net, call) /\ net \in Net /\ ConnsOK(net) /\ CallsOK(call) /\ ReadyOK(net, call) /\ net' = net
      /\ r.phase = "backoff" /\ r.phase \in Outgoing /\ r.phase \notin Reading /\ r \in CallRec /\ CallOK(r)
      /\ r.retry \in Retries /\ call \in [Calls -> CallRec]
      /\ call' = [call EXCEPT ![k].phase = "dispatch", ![k].retry = Restart(@)] \/ call' = Return(call, k, f)
  BY DEF BackoffEnds, Outgoing, Reading, IInv, Good, CallsOK, CallRec
<1>2. PICK y : call' = [call EXCEPT ![k] = y] /\ CallOK(y) /\ y.phase \in {"dispatch", "done"}
  <2>1. CASE call' = [call EXCEPT ![k].phase = "dispatch", ![k].retry = Restart(@)]
    <3>1. t \in Retries /\ t.committed = r.retry.committed /\ t.idempotent = r.retry.idempotent
      BY <1>1 DEF Restart, Retries
    <3>2. call' = [call EXCEPT ![k] = z]
      BY <1>1, <2>1 DEF CallRec
    <3> HIDE DEF t
    <3>3. /\ z \in CallRec /\ z.phase = "dispatch" /\ z.retry = t /\ z.mail = r.mail /\ z.sent = r.sent /\ z.ever = r.ever
          /\ z.result = r.result /\ z.inbox = r.inbox
      BY <1>1, <3>1 DEF CallRec, Outgoing
    <3> HIDE DEF z, r
    <3>4. CallOK(z)
      BY <1>1, <3>1, <3>3 DEF CallOK, Outgoing, Reading
    <3> QED BY <3>2, <3>3, <3>4
  <2>2. CASE call' = Return(call, k, f)
    <3>1. /\ f \in {"none", "ok", "BeforeSubmit", "PossiblyCommitted"}
          /\ (f = "BeforeSubmit" => ~call[k].ever) /\ (f = "PossiblyCommitted" => call[k].ever)
      BY <1>1, FinishFact
    <3> HIDE DEF f
    <3> QED BY <1>1, <2>2, <3>1, ReturnFact
  <2> QED BY <1>1, <2>1, <2>2
<1>3. \A d \in Conns : k \notin Elements(net.conn[d].lane) /\ k \notin Held(net, call, d)
  BY <1>1, NotReading
<1>4. \A d \in Conns : net.conn[d].dialer # k
  BY <1>1, NotDialling
<1>5. y.phase \notin Reading /\ y.phase # "wait"
  BY <1>2 DEF Reading
<1>6. Good(net, [call EXCEPT ![k] = y])
  BY <1>1, <1>2, <1>3, <1>4, <1>5, OutStep DEF ReadyOK
<1> QED BY <1>1, <1>2, <1>6

\* A request enters egress on c, which is out of the ready queue, and c is offered again.
LEMMA RegisterStep ==
    ASSUME IInv, NEW k \in Calls, NEW c \in Conns, NEW n \in Net, ConnsOK(n),
           call[k].phase \in Outgoing, n.conn[c].state = "ready", c \notin Elements(n.ready), Distinct(n.ready),
           n.work = net.work, Queued(net) \ {k} \subseteq Queued(n),
           \A d \in Conns : n.conn[d].lane = net.conn[d].lane /\ n.conn[d].dialer = net.conn[d].dialer,
           \A d \in Conns : d # c => ReadyAt(n, Full(net, call, d), d) /\ n.conn[d].dialer # k
    PROVE  Good(Commit(n, call, k, c), Registered(call, k, c))
<1> DEFINE m == Commit(n, call, k, c)
           x == n.conn[c]
           z == Sent(x, k)
           r == call[k]
           y == RegisteredRec(r, c)
           cl2 == [call EXCEPT ![k] = y]
<1>1. /\ Good(net, call) /\ CallsOK(call) /\ LanesOK(net, call) /\ DialsOK(net, call) /\ WaitsOK(net, call)
      /\ idle \in Nat /\ dynamic \in BOOLEAN /\ CallOK(r) /\ call \in [Calls -> CallRec] /\ r.phase \notin Reading
  BY DEF IInv, Good, CallsOK, Outgoing, Reading
<1>2. \A d \in Conns : k \notin Elements(net.conn[d].lane) /\ k \notin Held(net, call, d)
  BY <1>1, NotReading
<1>3. /\ Registered(call, k, c) = cl2 /\ CallOK(y) /\ y.phase = "reply" /\ y.on = c /\ y.live /\ y.inbox = <<>>
  BY <1>1, RegisteredOK
<1>4. Touch(n, m, c, z) /\ Calm(n, m) /\ Offered(n, m, c, z, Full(m, call, c)) /\ z \in Conn
  BY CommitFact
<1>5. ConnOK(z, idle, dynamic)
  BY <1>1, SentOK DEF ConnsOK
<1>6. z.lane = Append(x.lane, k) /\ z.dialer = NoCall
  <2>1. x \in Conn
    BY DEF ConnsOK, ConnOK
  <2> QED BY <2>1 DEF Sent, Conn
<1>7. x.lane = net.conn[c].lane /\ x.lane \in Seq(Places) /\ k \in Places /\ k # Gone
  BY ClientAssumption DEF Net, Conn, Places
<1> HIDE DEF m, z, y
<1>8. m \in Net /\ m.conn[c] = z /\ \A d \in Conns : d # c => m.conn[d] = n.conn[d]
  BY <1>4, TouchFact
<1>9. ConnsOK(m)
  BY <1>4, <1>5, ConnsKept
<1>10. CallsOK(cl2) /\ cl2[k] = y /\ \A j \in Calls : j # k => cl2[j] = call[j]
  BY <1>1, <1>3, CallsKept
<1>11. WaitsOK(m, cl2)
  <2>1. Queued(net) \ {k} \subseteq Queued(m) /\ y.phase # "wait"
    BY <1>3, <1>4 DEF Calm
  <2> QED BY <1>1, <1>3, <2>1, WaitsKept
<1>12. DialsOK(m, cl2)
  <2>1. NoCall # k
    BY ClientAssumption
  <2>2. \A d \in Conns : m.conn[d].dialer = net.conn[d].dialer \/ m.conn[d].dialer = NoCall
    BY <1>6, <1>8
  <2>3. \A d \in Conns : m.conn[d].dialer # k
    BY <1>6, <1>8, <2>1
  <2>4. CallsOK(call) /\ DialsOK(net, call) /\ CallOK(y)
    BY <1>1, <1>3
  <2> QED BY <2>2, <2>3, <2>4, DialsKept
<1> HIDE DEF cl2
<1>13. /\ Elements(z.lane) = Elements(net.conn[c].lane) \cup {k} /\ Solo(z.lane)
  <2> DEFINE l == x.lane
  <2>1. Elements(Append(l, k)) = Elements(l) \cup {k}
    BY <1>7, AppendFact
  <2>2. Solo(l) /\ k \notin Elements(l)
    BY <1>1, <1>2, <1>7 DEF LanesOK
  <2> HIDE DEF l
  <2>3. l \in Seq(Places)
    BY <1>7 DEF l
  <2>4. /\ Len(l) \in Nat /\ DOMAIN l = 1 .. Len(l) /\ DOMAIN Append(l, k) = 1 .. Len(l) + 1
        /\ \A i \in 1 .. Len(l) + 1 : Append(l, k)[i] = IF i \in 1 .. Len(l) THEN l[i] ELSE k
        /\ \A i \in 1 .. Len(l) + 1 : i \in 1 .. Len(l) \/ i = Len(l) + 1
    BY <2>3
  <2>5. Solo(Append(l, k))
    BY <2>2, <2>4 DEF Solo, Elements
  <2> QED BY <1>6, <1>7, <2>1, <2>5 DEF l
<1>14. LanesOK(m, cl2)
  <2>1. \A d \in Conns : Solo(m.conn[d].lane)
    BY <1>1, <1>8, <1>13 DEF LanesOK
  <2>2. ASSUME NEW d \in Conns, NEW j \in Calls, j \in Elements(m.conn[d].lane) PROVE Awaits(cl2[j], d)
    <3>1. CASE j = k
      <4>1. d = c
        BY <1>2, <1>8, <2>2, <3>1
      <4>2. Elements(y.inbox) = {}
        BY <1>3 DEF Elements
      <4> QED BY <1>3, <1>10, <3>1, <4>1, <4>2 DEF Awaits, Reading
    <3>2. CASE j # k
      <4>1. j \in Elements(net.conn[d].lane)
        BY <1>8, <1>13, <2>2, <3>2
      <4> QED BY <1>1, <1>10, <3>2, <4>1 DEF LanesOK
    <3> QED BY <3>1, <3>2
  <2>3. ASSUME NEW j \in Calls, cl2[j].phase \in Reading
        PROVE  Answered(cl2[j]) \/ (cl2[j].live /\ j \in Elements(m.conn[cl2[j].on].lane))
    <3>1. CASE j = k
      BY <1>3, <1>8, <1>10, <1>13, <3>1
    <3>2. CASE j # k
      <4>1. cl2[j] = call[j] /\ call[j].on \in Conns
        BY <1>1, <1>10, <2>3, <3>2 DEF CallsOK, CallOK
      <4>2. Answered(call[j]) \/ (call[j].live /\ j \in Elements(net.conn[call[j].on].lane))
        BY <1>1, <2>3, <4>1 DEF LanesOK
      <4> QED BY <1>8, <1>13, <4>1, <4>2
    <3> QED BY <3>1, <3>2
  <2> QED BY <2>1, <2>2, <2>3 DEF LanesOK
<1>15. ASSUME NEW d \in Conns PROVE Held(m, cl2, d) = Held(m, call, d)
  <2>1. ASSUME NEW j \in Calls PROVE j \in Held(m, cl2, d) <=> j \in Held(m, call, d)
    <3>1. CASE j = k
      <4>1. k \notin Held(m, call, d)
        BY <1>1 DEF Held, Reading
      <4>2. k \notin Held(m, cl2, d)
        BY <1>3, <1>8, <1>10, <1>13 DEF Held
      <4> QED BY <3>1, <4>1, <4>2
    <3>2. CASE j # k
      BY <1>10, <3>2 DEF Held
    <3> QED BY <3>1, <3>2
  <2>2. Held(m, cl2, d) \subseteq Calls /\ Held(m, call, d) \subseteq Calls
    BY DEF Held
  <2> QED BY <2>1, <2>2
<1>16. \A d \in Conns : Full(m, cl2, d) <=> Full(m, call, d)
  BY <1>15 DEF Full
<1>17. \A d \in Conns : d # c => (Full(m, call, d) <=> Full(net, call, d))
  BY <1>8, FullSame
<1>18. ReadyOK(m, cl2)
  <2>1. Distinct(m.ready)
    BY <1>4 DEF Offered
  <2>2. ASSUME NEW d \in Conns PROVE ReadyAt(m, Full(m, cl2, d), d)
    <3>1. CASE d = c
      BY <1>4, <1>8, <1>16, <3>1 DEF Offered, ReadyAt
    <3>2. CASE d # c
      <4>1. ReadyAt(n, Full(m, cl2, d), d)
        BY <1>16, <1>17, <3>2 DEF ReadyAt
      <4> QED BY <1>4, <1>8, <3>2, <4>1 DEF Offered, Calm, ReadyAt
    <3> QED BY <3>1, <3>2
  <2> QED BY <2>1, <2>2 DEF ReadyOK
<1>19. Good(m, cl2)
  BY <1>8, <1>9, <1>10, <1>11, <1>12, <1>14, <1>18 DEF Good
<1> QED BY <1>3, <1>19 DEF m, cl2

\* A poll submits on the connection it claimed.
LEMMA PollSubmitsStep ==
    ASSUME IInv, NEW k \in Calls, PollSubmits(k)
    PROVE  Good(net', call')
<1> DEFINE m == Found(k)
           c == Claimed(net, call)
<1>1. Polled(k) /\ c # NoConn /\ net' = Commit(m, call, k, c) /\ call' = Registered(call, k, c)
  BY DEF PollSubmits
<1>2. /\ m \in Net /\ m.work = net.work /\ ConnsOK(m) /\ Queued(net) \ {k} \subseteq Queued(m) /\ Distinct(m.ready)
      /\ \A d \in Conns : /\ m.conn[d].lane = net.conn[d].lane /\ m.conn[d].dialer = net.conn[d].dialer
                          /\ d # c => ReadyAt(m, Full(net, call, d), d)
                          /\ m.conn[d].dialer # k
      /\ c \in Conns /\ c \notin Elements(m.ready) /\ m.conn[c] = net.conn[c] /\ net.conn[c].state = "ready"
      /\ call[k].phase \in {"dispatch", "wait"}
  BY <1>1, PollFact
<1>3. call[k].phase \in Outgoing
  BY <1>2 DEF Outgoing
<1> HIDE DEF m, c
<1>4. Good(Commit(m, call, k, c), Registered(call, k, c))
  BY <1>2, <1>3, RegisterStep
<1> QED BY <1>1, <1>4

\* A call submits on the connection it dialled.
LEMMA DialSubmitsStep ==
    ASSUME IInv, NEW k \in Calls, DialSubmits(k)
    PROVE  Good(net', call')
<1>1. PICK c \in Dialled(k) : net.conn[c].state = "ready" /\ net' = Commit(net, call, k, c) /\ call' = Registered(call, k, c)
  BY DEF DialSubmits
<1>2. c \in Conns /\ net.conn[c].dialer = k /\ NoCall \notin Calls
  BY ClientAssumption DEF Dialled
<1>3. /\ net \in Net /\ ConnsOK(net) /\ ReadyOK(net, call) /\ DialsOK(net, call)
      /\ call[k].phase = "dial" /\ call[k].phase \in Outgoing
  BY <1>2 DEF IInv, Good, DialsOK, Outgoing
<1>4. ~Offerable(net.conn[c])
  BY <1>2, <1>3 DEF ConnsOK, ConnOK, SlotOK, Offerable
<1>5. c \notin Elements(net.ready) /\ Distinct(net.ready)
  BY <1>2, <1>3, <1>4 DEF ReadyOK, ReadyAt
<1>6. \A d \in Conns : d # c => ReadyAt(net, Full(net, call, d), d) /\ net.conn[d].dialer # k
  BY <1>2, <1>3 DEF ReadyOK, DialsOK
<1>7. Good(Commit(net, call, k, c), Registered(call, k, c))
  BY <1>1, <1>2, <1>3, <1>5, <1>6, RegisterStep
<1> QED BY <1>1, <1>7

-----------------------------------------------------------------------------
(* The steps of a connection. *)

\* A step that changes no lane and no call.
LEMMA QuietStep ==
    ASSUME NEW n, NEW m \in Net, NEW cl, Good(n, cl), ConnsOK(m),
           \A d \in Conns : m.conn[d].lane = n.conn[d].lane,
           Queued(n) \subseteq Queued(m), DialsOK(m, cl), Distinct(m.ready),
           \A d \in Conns : ReadyAt(m, Full(n, cl, d), d)
    PROVE  Good(m, cl)
<1>1. CallsOK(cl) /\ LanesOK(n, cl) /\ WaitsOK(n, cl)
  BY DEF Good
<1>2. LanesOK(m, cl) /\ \A d \in Conns : Full(m, cl, d) <=> Full(n, cl, d)
  BY <1>1, SameLanes
<1>3. WaitsOK(m, cl)
  BY <1>1 DEF WaitsOK
<1>4. ReadyOK(m, cl)
  BY <1>2 DEF ReadyOK, ReadyAt
<1> QED BY <1>1, <1>2, <1>3, <1>4 DEF Good

\* The rest of the ready queue is in order when it is as it was.
LEMMA OthersReady ==
    ASSUME NEW n \in Net, NEW m, NEW cl, ReadyOK(n, cl), NEW c \in Conns, NEW y, Touch(n, m, c, y),
           n.work \ {c} \subseteq m.work,
           \A d \in Conns : d # c => (d \in Elements(m.ready) <=> d \in Elements(n.ready))
    PROVE  \A d \in Conns : d # c => ReadyAt(m, Full(n, cl, d), d)
<1>1. \A d \in Conns : d # c => m.conn[d] = n.conn[d]
  BY TouchFact
<1>2. \A d \in Conns : ReadyAt(n, Full(n, cl, d), d)
  BY DEF ReadyOK
<1> QED BY <1>1, <1>2 DEF ReadyAt

\* A step of one connection that keeps its lane.
LEMMA TouchStep ==
    ASSUME NEW n, NEW m, NEW cl, Good(n, cl), NEW c \in Conns, NEW y, Touch(n, m, c, y),
           ConnOK(y, idle, dynamic), y.lane = n.conn[c].lane,
           y.dialer = n.conn[c].dialer \/ y.dialer = NoCall,
           Queued(n) \subseteq Queued(m), n.work \ {c} \subseteq m.work, Distinct(m.ready),
           \A d \in Conns : d # c => (d \in Elements(m.ready) <=> d \in Elements(n.ready)),
           ReadyAt(m, Full(n, cl, c), c)
    PROVE  Good(m, cl)
<1>1. n \in Net /\ ConnsOK(n) /\ DialsOK(n, cl) /\ ReadyOK(n, cl)
  BY DEF Good
<1>2. m \in Net /\ m.conn[c] = y /\ \A d \in Conns : d # c => m.conn[d] = n.conn[d]
  BY <1>1, TouchFact
<1>3. ConnsOK(m)
  BY <1>1, ConnsKept
<1>4. \A d \in Conns : d # c => ReadyAt(m, Full(n, cl, d), d)
  BY <1>1, OthersReady
<1>5. \A d \in Conns : ReadyAt(m, Full(n, cl, d), d)
  BY <1>4
<1>6. \A d \in Conns : m.conn[d].lane = n.conn[d].lane
  BY <1>2
<1>7. NoCall \notin Calls
  BY ClientAssumption
<1>8. \A d \in Conns : m.conn[d].dialer = n.conn[d].dialer \/ m.conn[d].dialer = NoCall
  BY <1>2
<1>9. DialsOK(m, cl)
  <2>1. ASSUME NEW d \in Conns, NEW e \in Conns, m.conn[d].dialer = m.conn[e].dialer, m.conn[d].dialer # NoCall PROVE d = e
    BY <1>1, <1>8, <2>1 DEF DialsOK
  <2>2. ASSUME NEW d \in Conns, NEW j \in Calls, m.conn[d].dialer = j
        PROVE  cl[j].phase = "dial" /\ cl[j].mail \in {"pending", "connected"}
    <3>1. n.conn[d].dialer = j
      BY <1>7, <1>8, <2>2
    <3> QED BY <1>1, <3>1 DEF DialsOK
  <2> QED BY <2>1, <2>2 DEF DialsOK
<1> QED BY <1>2, <1>3, <1>5, <1>6, <1>9, QuietStep

\* What a step of connection c finds.
LEMMA ConnFact ==
    ASSUME IInv, NEW c \in Conns
    PROVE  /\ net \in Net /\ net.conn[c] \in Conn /\ ConnOK(net.conn[c], idle, dynamic)
           /\ idle \in Nat /\ dynamic \in BOOLEAN /\ Good(net, call) /\ Distinct(net.ready)
           /\ ReadyAt(net, Full(net, call, c), c) /\ ReadyOK(net, call)
  BY DEF IInv, Good, Net, ConnsOK, ReadyOK

\* IoFails: a connection that failed may stay in the ready queue until it is claimed.
LEMMA IoFailsStep ==
    ASSUME IInv, NEW c \in Conns, IoFails(c)
    PROVE  Good(net', call')
<1> DEFINE x == net.conn[c]
           z == [x EXCEPT !.failed = TRUE]
           w == [net EXCEPT !.conn[c].failed = TRUE]
           cause == "Receive"
           m == Request(w, c, cause)
           y == Asked(z, cause)
<1>1. /\ net \in Net /\ x \in Conn /\ ConnOK(x, idle, dynamic) /\ idle \in Nat /\ dynamic \in BOOLEAN
      /\ Good(net, call) /\ Distinct(net.ready) /\ ReadyAt(net, Full(net, call, c), c)
  BY ConnFact
<1>2. net' = m /\ call' = call
  BY DEF IoFails
<1>3. z \in Conn /\ z.lane = x.lane /\ z.dialer = x.dialer /\ z.state = x.state /\ z.adm = x.adm /\ z.failed
  BY <1>1 DEF Conn
<1>4. w = [net EXCEPT !.conn = [net.conn EXCEPT ![c] = z]]
  BY <1>1 DEF Net, Conn
<1>5. ConnOK(z, idle, dynamic)
  BY <1>1, FailedOK
<1> HIDE DEF z, w, cause, x
<1>6. Touch(net, w, c, z) /\ Calm(net, w) /\ w.ready = net.ready /\ w.conn[c] = z /\ w \in Net
  BY <1>1, <1>3, <1>4, SetFact DEF Touch
<1>7. ConnOK(y, idle, dynamic) /\ y.lane = z.lane /\ y.dialer = z.dialer /\ y.failed = z.failed /\ y.state = z.state /\ y.adm = z.adm
  BY <1>1, <1>3, <1>5, AskedOK, AskedFields
<1> HIDE DEF m, y
<1>8. Touch(w, m, c, y) /\ Calm(w, m) /\ m.ready = w.ready
  BY <1>6, RequestFact DEF m, y
<1>9. net.conn \in [Conns -> Conn]
  BY <1>1 DEF Net
<1>10. Touch(net, m, c, y) /\ m.conn[c] = y
  BY <1>6, <1>8, <1>9 DEF Touch
<1>11. ReadyAt(m, Full(net, call, c), c)
  BY <1>1, <1>3, <1>6, <1>7, <1>8, <1>10 DEF ReadyAt, Offerable, x
<1>12. Queued(net) \subseteq Queued(m) /\ net.work \ {c} \subseteq m.work /\ Distinct(m.ready)
  BY <1>1, <1>6, <1>8 DEF Calm
<1>13. \A d \in Conns : d # c => (d \in Elements(m.ready) <=> d \in Elements(net.ready))
  BY <1>6, <1>8
<1>14. y.lane = net.conn[c].lane /\ y.dialer = net.conn[c].dialer
  BY <1>3, <1>7 DEF x
<1>15. Good(m, call)
  BY <1>1, <1>7, <1>10, <1>11, <1>12, <1>13, <1>14, TouchStep
<1> QED BY <1>2, <1>15

\* Two changes of one connection.
LEMMA TouchTwice ==
    ASSUME NEW n \in Net, NEW w, NEW m, NEW c \in Conns, NEW z, NEW y, Touch(n, w, c, z), Touch(w, m, c, y)
    PROVE  Touch(n, m, c, y)
<1>1. n.conn \in [Conns -> Conn]
  BY DEF Net
<1> QED BY <1>1 DEF Touch

\* Close: what is asked to close, and leaves the ready queue.
LEMMA CloseStep ==
    ASSUME IInv, NEW c \in Conns, Close(c)
    PROVE  Good(net', call')
<1> DEFINE x == net.conn[c]
           cause == "RemoteEof"
           w == Request(net, c, cause)
           z == Asked(x, cause)
           m == CloseClaim(w, c)
           y == Shut(z)
<1>1. /\ net \in Net /\ x \in Conn /\ ConnOK(x, idle, dynamic) /\ idle \in Nat /\ dynamic \in BOOLEAN
      /\ Good(net, call) /\ Distinct(net.ready)
  BY ConnFact
<1>2. net' = m /\ call' = call /\ x.state \in Open2
  BY DEF Close, Open, Open2
<1> HIDE DEF cause, x
<1>3. ConnOK(z, idle, dynamic) /\ z \in Conn /\ z.lane = x.lane /\ z.dialer = x.dialer /\ z.state = x.state
  BY <1>1, AskedOK, AskedFields
<1>4. Touch(net, w, c, z) /\ Calm(net, w) /\ w.ready = net.ready
  BY <1>1, RequestFact DEF x
<1>5. w \in Net /\ w.conn[c] = z
  BY <1>1, <1>4, TouchFact
<1> HIDE DEF w, z
<1>6. ConnOK(y, idle, dynamic) /\ y.lane = z.lane /\ y.dialer = z.dialer /\ ~Offerable(y)
  BY <1>1, <1>2, <1>3, ShutOK, ShutFields
<1>7. Touch(w, m, c, y) /\ Calm(w, m) /\ Thinned(w, m, c)
  BY <1>2, <1>3, <1>5, CloseFact
<1> HIDE DEF m, y
<1>8. Touch(net, m, c, y)
  BY <1>1, <1>4, <1>7, TouchTwice
<1>9. m.conn[c] = y
  BY <1>1, <1>8, TouchFact
<1>10. ReadyAt(m, Full(net, call, c), c)
  BY <1>6, <1>7, <1>9 DEF ReadyAt, Thinned
<1>11. Queued(net) \subseteq Queued(m) /\ net.work \ {c} \subseteq m.work /\ Distinct(m.ready)
  BY <1>1, <1>4, <1>7 DEF Calm, Thinned
<1>12. \A d \in Conns : d # c => (d \in Elements(m.ready) <=> d \in Elements(net.ready))
  BY <1>4, <1>7 DEF Thinned
<1>13. y.lane = net.conn[c].lane /\ y.dialer = net.conn[c].dialer
  BY <1>3, <1>6 DEF x
<1>14. Good(m, call)
  BY <1>1, <1>6, <1>8, <1>10, <1>11, <1>12, <1>13, TouchStep
<1> QED BY <1>2, <1>14

\* Input: a connection that takes in input is out of the queue, and is offered afterwards.
LEMMA InputStep ==
    ASSUME IInv, NEW c \in Conns, Input(c)
    PROVE  Good(net', call')
<1> DEFINE x == net.conn[c]
<1>1. /\ net \in Net /\ x \in Conn /\ ConnOK(x, idle, dynamic) /\ idle \in Nat /\ dynamic \in BOOLEAN
      /\ Good(net, call) /\ Distinct(net.ready) /\ ReadyAt(net, Full(net, call, c), c)
  BY ConnFact
<1>2. ASSUME NEW s \in Open2, x.state \in Open2
      PROVE  LET y == [x EXCEPT !.state = s]
                 w == [net EXCEPT !.conn[c].state = s]
             IN  /\ ConnOK(y, idle, dynamic) /\ y.lane = x.lane /\ y.dialer = x.dialer /\ y.state = s /\ y.adm = x.adm
                 /\ w \in Net /\ Touch(net, w, c, y) /\ Calm(net, w) /\ w.ready = net.ready /\ w.conn[c] = y
  <2> DEFINE y == [x EXCEPT !.state = s]
             w == [net EXCEPT !.conn[c].state = s]
  <2>1. y \in Conn /\ y.lane = x.lane /\ y.dialer = x.dialer /\ y.state = s /\ y.adm = x.adm
    BY <1>1, <1>2 DEF Conn, Open2
  <2>2. w = [net EXCEPT !.conn = [net.conn EXCEPT ![c] = y]]
    BY <1>1 DEF Net, Conn
  <2>3. ConnOK(y, idle, dynamic)
    BY <1>1, <1>2, InputOK
  <2> HIDE DEF y, w
  <2>4. Touch(net, w, c, y) /\ Calm(net, w) /\ w.ready = net.ready /\ w.conn[c] = y
    BY <1>1, <2>1, <2>2, SetFact
  <2> QED BY <2>1, <2>3, <2>4 DEF Touch, y, w
<1>3. CASE x.state = "ready" /\ net' = Unready([net EXCEPT !.conn[c].state = "receiving"], c)
  <2> DEFINE s == "receiving"
             y == [x EXCEPT !.state = s]
             w == [net EXCEPT !.conn[c].state = s]
             m == Unready(w, c)
  <2>1. s \in Open2 /\ x.state \in Open2 /\ net' = m /\ call' = call /\ s # "ready"
    BY <1>3 DEF Open2, Input
  <2> HIDE DEF s, x
  <2>2. /\ ConnOK(y, idle, dynamic) /\ y.lane = x.lane /\ y.dialer = x.dialer /\ y.state = s /\ y.adm = x.adm
        /\ w \in Net /\ Touch(net, w, c, y) /\ Calm(net, w) /\ w.ready = net.ready /\ w.conn[c] = y
    BY <1>2, <2>1
  <2> HIDE DEF y, w
  <2>3. m \in Net /\ m.conn = w.conn /\ Calm(w, m) /\ Thinned(w, m, c)
    BY <2>2, UnreadyFact
  <2> HIDE DEF m
  <2>4. Touch(net, m, c, y) /\ m.conn[c] = y
    BY <2>2, <2>3 DEF Touch
  <2>5. ReadyAt(m, Full(net, call, c), c)
    BY <2>1, <2>2, <2>3, <2>4 DEF ReadyAt, Thinned, Offerable
  <2>6. Queued(net) \subseteq Queued(m) /\ net.work \ {c} \subseteq m.work /\ Distinct(m.ready)
    BY <1>1, <2>2, <2>3 DEF Calm, Thinned
  <2>7. \A d \in Conns : d # c => (d \in Elements(m.ready) <=> d \in Elements(net.ready))
    BY <2>2, <2>3 DEF Thinned
  <2>8. y.lane = net.conn[c].lane /\ y.dialer = net.conn[c].dialer
    BY <2>2 DEF x
  <2>9. Good(m, call)
    BY <1>1, <2>2, <2>4, <2>5, <2>6, <2>7, <2>8, TouchStep
  <2> QED BY <2>1, <2>9
<1>4. CASE x.state = "receiving" /\ net' = Schedule([net EXCEPT !.conn[c].state = "ready"], call, c)
  <2> DEFINE s == "ready"
             y == [x EXCEPT !.state = s]
             w == [net EXCEPT !.conn[c].state = s]
             m == Schedule(w, call, c)
  <2>1. s \in Open2 /\ x.state \in Open2 /\ net' = m /\ call' = call /\ s = "ready"
    BY <1>4 DEF Open2, Input
  <2>a. c \notin Elements(net.ready)
    BY <1>1, <1>4 DEF ReadyAt, Offerable
  <2> HIDE DEF s, x
  <2>2. /\ ConnOK(y, idle, dynamic) /\ y.lane = x.lane /\ y.dialer = x.dialer /\ y.state = s /\ y.adm = x.adm
        /\ w \in Net /\ Touch(net, w, c, y) /\ Calm(net, w) /\ w.ready = net.ready /\ w.conn[c] = y
    BY <1>2, <2>1
  <2> HIDE DEF y, w
  <2>3. m \in Net /\ m.conn = w.conn /\ Calm(w, m) /\ Offered(w, m, c, y, Full(w, call, c))
    BY <2>2, ScheduleFact
  <2>b. Full(w, call, c) <=> Full(net, call, c)
    BY <2>2, FullSame DEF x
  <2> HIDE DEF m
  <2>4. Touch(net, m, c, y) /\ m.conn[c] = y
    BY <2>2, <2>3 DEF Touch
  <2>5. ReadyAt(m, Full(net, call, c), c)
    BY <2>2, <2>3, <2>4, <2>a, <2>b DEF ReadyAt, Offered
  <2>6. Queued(net) \subseteq Queued(m) /\ net.work \ {c} \subseteq m.work /\ Distinct(m.ready)
    BY <1>1, <2>2, <2>3 DEF Calm, Offered
  <2>7. \A d \in Conns : d # c => (d \in Elements(m.ready) <=> d \in Elements(net.ready))
    BY <2>2, <2>3 DEF Offered
  <2>8. y.lane = net.conn[c].lane /\ y.dialer = net.conn[c].dialer
    BY <2>2 DEF x
  <2>9. Good(m, call)
    BY <1>1, <2>2, <2>4, <2>5, <2>6, <2>7, <2>8, TouchStep
  <2> QED BY <2>1, <2>9
<1> QED BY <1>3, <1>4 DEF Input

\* A slot is given back.
LEMMA ClearStep ==
    ASSUME IInv, NEW c \in Conns, net.conn[c].lane = <<>>, net.conn[c].state # "ready"
    PROVE  LET m == [net EXCEPT !.conn[c] = NewConn]
           IN  Good(m, call) /\ Touch(net, m, c, NewConn) /\ Calm(net, m) /\ m.ready = net.ready
<1> DEFINE x == net.conn[c]
           y == NewConn
           m == [net EXCEPT !.conn[c] = y]
<1>1. /\ net \in Net /\ x \in Conn /\ ConnOK(x, idle, dynamic) /\ idle \in Nat /\ dynamic \in BOOLEAN
      /\ Good(net, call) /\ Distinct(net.ready) /\ ReadyAt(net, Full(net, call, c), c)
  BY ConnFact
<1>2. ConnOK(y, idle, dynamic) /\ y \in Conn
  BY <1>1, NewConnOK DEF ConnOK
<1>3. y.lane = <<>> /\ y.dialer = NoCall /\ y.state = "vacant"
  BY DEF NewConn
<1> HIDE DEF y
<1>4. m = [net EXCEPT !.conn = [net.conn EXCEPT ![c] = y]]
  BY <1>1 DEF Net
<1> HIDE DEF m
<1>5. Touch(net, m, c, y) /\ Calm(net, m) /\ m.ready = net.ready /\ m.conn[c] = y
  BY <1>1, <1>2, <1>4, SetFact
<1>6. ReadyAt(m, Full(net, call, c), c)
  BY <1>1, <1>3, <1>5 DEF ReadyAt, Offerable
<1>7. Queued(net) \subseteq Queued(m) /\ net.work \ {c} \subseteq m.work /\ Distinct(m.ready)
  BY <1>1, <1>5 DEF Calm
<1>8. Good(m, call)
  BY <1>1, <1>2, <1>3, <1>5, <1>6, <1>7, TouchStep
<1> QED BY <1>5, <1>8 DEF m, y

\* Waking a waiter disturbs nothing.
LEMMA WakeStep ==
    ASSUME NEW n, NEW cl, Good(n, cl)
    PROVE  Good(WakeOne(n), cl) /\ WakeOne(n).conn = n.conn
<1> DEFINE m == WakeOne(n)
<1>1. n \in Net /\ ConnsOK(n) /\ DialsOK(n, cl) /\ ReadyOK(n, cl)
  BY DEF Good
<1>2. m \in Net /\ m.conn = n.conn /\ m.ready = n.ready /\ m.work = n.work /\ Queued(m) = Queued(n)
  BY <1>1, WakeFact
<1> HIDE DEF m
<1>3. ConnsOK(m) /\ DialsOK(m, cl)
  BY <1>1, <1>2 DEF ConnsOK, DialsOK
<1>4. Distinct(m.ready) /\ \A d \in Conns : ReadyAt(m, Full(n, cl, d), d)
  BY <1>1, <1>2 DEF ReadyOK, ReadyAt
<1>5. Good(m, cl)
  BY <1>2, <1>3, <1>4, QuietStep
<1> QED BY <1>2, <1>5 DEF m

\* The mailbox of a call that dials is settled.
LEMMA MailStep ==
    ASSUME NEW n, NEW cl, Good(n, cl), NEW k \in Calls, cl[k].phase = "dial",
           NEW v \in Classes \cup {"connected"},
           v = "connected" \/ \A d \in Conns : n.conn[d].dialer # k
    PROVE  Good(n, [cl EXCEPT ![k].mail = v])
<1> DEFINE r == cl[k]
           y == [r EXCEPT !.mail = v]
<1>1. n \in Net /\ ConnsOK(n) /\ CallsOK(cl) /\ ReadyOK(n, cl)
  BY DEF Good
<1>2. cl \in [Calls -> CallRec] /\ r \in CallRec /\ CallOK(r)
  BY <1>1 DEF CallsOK
<1>3. [cl EXCEPT ![k].mail = v] = [cl EXCEPT ![k] = y]
  BY <1>2
<1>4. /\ y \in CallRec /\ y.phase = "dial" /\ y.mail = v /\ y.retry = r.retry /\ y.ever = r.ever /\ y.sent = r.sent
      /\ y.result = r.result /\ y.inbox = r.inbox /\ y.on = r.on
  BY <1>2 DEF CallRec
<1> HIDE DEF y
<1>5. CallOK(y) /\ y.phase \notin Reading /\ y.phase # "wait"
  BY <1>2, <1>4 DEF CallOK, Outgoing, Reading
<1>6. r.phase \notin Reading
  BY DEF Reading
<1>7. \A d \in Conns : k \notin Elements(n.conn[d].lane) /\ k \notin Held(n, cl, d)
  BY <1>6, NotReading
<1>8. Distinct(n.ready) /\ \A d \in Conns : ReadyAt(n, Full(n, cl, d), d)
  BY <1>1 DEF ReadyOK
<1>9. Good(n, [cl EXCEPT ![k] = y])
  BY <1>1, <1>4, <1>5, <1>7, <1>8, OutStep
<1> QED BY <1>3, <1>9

\* Activate: a slot is taken, for a call that no connection was dialled for yet.
LEMMA ActivateStep ==
    ASSUME IInv, NEW c \in Conns, Activate(c)
    PROVE  Good(net', call')
<1> DEFINE x == net.conn[c]
<1>1. /\ net \in Net /\ x \in Conn /\ ConnOK(x, idle, dynamic) /\ idle \in Nat /\ dynamic \in BOOLEAN
      /\ Good(net, call) /\ Distinct(net.ready) /\ ReadyAt(net, Full(net, call, c), c) /\ ReadyOK(net, call)
      /\ ConnsOK(net) /\ DialsOK(net, call) /\ CallsOK(call)
  BY ConnFact DEF Good
<1>2. x.state = "vacant" /\ x.dialer = NoCall /\ call' = call
  BY <1>1 DEF Activate, ConnOK, SlotOK
<1>3. PICK k \in Calls \cup {NoCall} :
        /\ net' = [net EXCEPT !.conn[c].state = "admitted", !.conn[c].dialer = k]
        /\ k # NoCall => dynamic /\ call[k].mail = "pending" /\ \A d \in Conns : net.conn[d].dialer # k
  <2>1. CASE ~dynamic
    <3>1. net' = [net EXCEPT !.conn[c].state = "admitted"]
      BY <2>1 DEF Activate
    <3>2. net' = [net EXCEPT !.conn[c].state = "admitted", !.conn[c].dialer = NoCall]
      BY <1>1, <1>2, <3>1 DEF Net, Conn
    <3> QED BY <3>2
  <2>2. CASE dynamic
    BY <2>2 DEF Activate
  <2> QED BY <1>1, <2>1, <2>2
<1> DEFINE y == [x EXCEPT !.state = "admitted", !.dialer = k]
           m == [net EXCEPT !.conn[c].state = "admitted", !.conn[c].dialer = k]
<1>4. y \in Conn /\ y.lane = x.lane /\ y.dialer = k /\ y.state = "admitted"
  BY <1>1 DEF Conn
<1>5. m = [net EXCEPT !.conn = [net.conn EXCEPT ![c] = y]]
  BY <1>1 DEF Net, Conn
<1>6. ConnOK(y, idle, dynamic)
  BY <1>1, <1>2, <1>3, AdmittedOK
<1> HIDE DEF m, y
<1>7. Touch(net, m, c, y) /\ Calm(net, m) /\ m.ready = net.ready /\ m.conn[c] = y
      /\ \A d \in Conns : d # c => m.conn[d] = net.conn[d]
  BY <1>1, <1>4, <1>5, SetFact
<1>8. m \in Net /\ ConnsOK(m)
  BY <1>1, <1>6, <1>7, ConnsKept DEF Touch
<1>9. \A d \in Conns : m.conn[d].lane = net.conn[d].lane
  BY <1>4, <1>7
<1>10. Queued(net) \subseteq Queued(m) /\ net.work \ {c} \subseteq m.work /\ Distinct(m.ready)
  BY <1>1, <1>7 DEF Calm
<1>11. \A d \in Conns : ReadyAt(m, Full(net, call, d), d)
  <2>1. \A d \in Conns : d # c => ReadyAt(m, Full(net, call, d), d)
    BY <1>1, <1>7, <1>10, OthersReady
  <2>2. ReadyAt(m, Full(net, call, c), c)
    BY <1>1, <1>2, <1>4, <1>7 DEF ReadyAt, Offerable
  <2> QED BY <2>1, <2>2
<1>12. DialsOK(m, call)
  <2>1. NoCall \notin Calls
    BY ClientAssumption
  <2>2. k # NoCall => call[k].phase = "dial"
    BY <1>1, <1>3 DEF CallsOK, CallOK
  <2>3. ASSUME NEW d \in Conns, NEW e \in Conns, m.conn[d].dialer = m.conn[e].dialer, m.conn[d].dialer # NoCall PROVE d = e
    BY <1>1, <1>3, <1>4, <1>7, <2>3 DEF DialsOK
  <2>4. ASSUME NEW d \in Conns, NEW j \in Calls, m.conn[d].dialer = j
        PROVE  call[j].phase = "dial" /\ call[j].mail \in {"pending", "connected"}
    <3>1. CASE d = c
      BY <1>3, <1>4, <1>7, <2>1, <2>2, <2>4, <3>1
    <3>2. CASE d # c
      BY <1>1, <1>7, <2>4, <3>2 DEF DialsOK
    <3> QED BY <3>1, <3>2
  <2> QED BY <2>3, <2>4 DEF DialsOK
<1>13. Good(m, call)
  BY <1>1, <1>8, <1>9, <1>10, <1>11, <1>12, QuietStep
<1> QED BY <1>2, <1>3, <1>13 DEF m

\* Connect: the fixed connector offers the connection, the dynamic one reserves it.
LEMMA ConnectStep ==
    ASSUME IInv, NEW c \in Conns, Connect(c)
    PROVE  Good(net', call')
<1> DEFINE x == net.conn[c]
           k == x.dialer
<1>1. /\ net \in Net /\ x \in Conn /\ ConnOK(x, idle, dynamic) /\ idle \in Nat /\ dynamic \in BOOLEAN
      /\ Good(net, call) /\ Distinct(net.ready) /\ ReadyAt(net, Full(net, call, c), c)
      /\ DialsOK(net, call) /\ NoCall \notin Calls
  BY ConnFact, ClientAssumption DEF Good
<1>2. x.state = "admitted" /\ c \notin Elements(net.ready) /\ k \in Calls \cup {NoCall}
  BY <1>1 DEF Connect, ReadyAt, Offerable, Conn
<1>3. ASSUME NEW a \in Adms, (~dynamic /\ a = Available(idle)) \/ (k # NoCall /\ a = Reserved)
      PROVE  LET y == [x EXCEPT !.state = "ready", !.adm = a]
             IN  /\ y \in Conn /\ ConnOK(y, idle, dynamic) /\ y.lane = x.lane /\ y.dialer = k /\ y.state = "ready" /\ y.adm = a
                 /\ [net.conn EXCEPT ![c].state = "ready", ![c].adm = a] = [net.conn EXCEPT ![c] = y]
  <2> DEFINE y == [x EXCEPT !.state = "ready", !.adm = a]
  <2>1. y \in Conn /\ y.lane = x.lane /\ y.dialer = x.dialer /\ y.state = "ready" /\ y.adm = a
    BY <1>1 DEF Conn
  <2>2. ConnOK(y, idle, dynamic)
    BY <1>1, <1>2, <1>3, ConnectedOK
  <2>3. [net.conn EXCEPT ![c].state = "ready", ![c].adm = a] = [net.conn EXCEPT ![c] = y]
    BY <1>1 DEF Net, Conn
  <2> QED BY <2>1, <2>2, <2>3
<1>4. CASE /\ ~dynamic
           /\ net' = WakeOne([net EXCEPT !.conn[c].state = "ready", !.conn[c].adm = Available(idle), !.ready = Append(@, c)])
           /\ call' = call
  <2> DEFINE a == Available(idle)
             y == [x EXCEPT !.state = "ready", !.adm = a]
             q == Append(net.ready, c)
             w == [net EXCEPT !.conn = [net.conn EXCEPT ![c] = y], !.ready = q]
  <2>1. a \in Adms /\ CanQueue(a)
    BY <1>1 DEF Available, Fresh, Idle, Adms, Kinds, CanQueue
  <2>2. net.ready \in Seq(Conns) /\ net.conn \in [Conns -> Conn]
    BY <1>1 DEF Net
  <2>3. q \in Seq(Conns) /\ Elements(q) = Elements(net.ready) \cup {c} /\ Distinct(q)
    BY <1>1, <1>2, <2>2, AppendFact
  <2>4. a = Available(idle)
    OBVIOUS
  <2> HIDE DEF a
  <2>5. /\ y \in Conn /\ ConnOK(y, idle, dynamic) /\ y.lane = x.lane /\ y.dialer = k /\ y.state = "ready" /\ y.adm = a
        /\ [net.conn EXCEPT ![c].state = "ready", ![c].adm = a] = [net.conn EXCEPT ![c] = y]
    BY <1>3, <1>4, <2>1, <2>4
  <2>6. [net EXCEPT !.conn[c].state = "ready", !.conn[c].adm = a, !.ready = Append(@, c)] = w
    BY <1>1, <2>5 DEF Net
  <2> HIDE DEF y, q
  <2>7. /\ w \in Net /\ w.conn = [net.conn EXCEPT ![c] = y] /\ w.ready = q /\ w.work = net.work
        /\ w.waiters = net.waiters /\ w.woken = net.woken
    BY <1>1, <2>2, <2>3, <2>5 DEF Net
  <2> HIDE DEF w
  <2>8. Touch(net, w, c, y) /\ w.conn[c] = y
    BY <2>2, <2>7 DEF Touch
  <2>9. ReadyAt(w, Full(net, call, c), c)
    BY <2>1, <2>3, <2>5, <2>7, <2>8 DEF ReadyAt, Offerable
  <2>10. Queued(net) \subseteq Queued(w) /\ net.work \ {c} \subseteq w.work /\ Distinct(w.ready)
    BY <2>3, <2>7 DEF Queued
  <2>11. \A d \in Conns : d # c => (d \in Elements(w.ready) <=> d \in Elements(net.ready))
    BY <2>3, <2>7
  <2>12. Good(w, call)
    BY <1>1, <2>5, <2>8, <2>9, <2>10, <2>11, TouchStep
  <2>13. Good(WakeOne(w), call)
    BY <2>12, WakeStep
  <2> QED BY <1>4, <2>4, <2>6, <2>13
<1>5. CASE /\ k # NoCall
           /\ net' = WakeOne([net EXCEPT !.conn[c].state = "ready", !.conn[c].adm = Reserved])
           /\ call' = [call EXCEPT ![k].mail = "connected"]
  <2> DEFINE a == Reserved
             y == [x EXCEPT !.state = "ready", !.adm = a]
             w == [net EXCEPT !.conn = [net.conn EXCEPT ![c] = y]]
  <2>1. a \in Adms /\ ~CanQueue(a) /\ a = Reserved
    BY <1>1 DEF Reserved, Adms, Kinds, CanQueue
  <2> HIDE DEF a
  <2>2. /\ y \in Conn /\ ConnOK(y, idle, dynamic) /\ y.lane = x.lane /\ y.dialer = k /\ y.state = "ready" /\ y.adm = a
        /\ [net.conn EXCEPT ![c].state = "ready", ![c].adm = a] = [net.conn EXCEPT ![c] = y]
    BY <1>3, <1>5, <2>1
  <2>3. [net EXCEPT !.conn[c].state = "ready", !.conn[c].adm = a] = w
    BY <1>1, <2>2 DEF Net
  <2> HIDE DEF y
  <2>4. Touch(net, w, c, y) /\ Calm(net, w) /\ w.ready = net.ready /\ w.conn[c] = y
    BY <1>1, <2>2, SetFact
  <2> HIDE DEF w
  <2>5. ReadyAt(w, Full(net, call, c), c)
    BY <1>2, <2>1, <2>2, <2>4 DEF ReadyAt, Offerable
  <2>6. Queued(net) \subseteq Queued(w) /\ net.work \ {c} \subseteq w.work /\ Distinct(w.ready)
    BY <1>1, <2>4 DEF Calm
  <2>7. \A d \in Conns : d # c => (d \in Elements(w.ready) <=> d \in Elements(net.ready))
    BY <2>4
  <2>8. Good(w, call)
    BY <1>1, <2>2, <2>4, <2>5, <2>6, <2>7, TouchStep
  <2>9. Good(WakeOne(w), call)
    BY <2>8, WakeStep
  <2>10. k \in Calls /\ call[k].phase = "dial"
    BY <1>1, <1>2, <1>5 DEF DialsOK
  <2> DEFINE v == "connected"
  <2>11. v \in Classes \cup {"connected"} /\ v = "connected"
    OBVIOUS
  <2> HIDE DEF v, k
  <2>12. Good(WakeOne(w), [call EXCEPT ![k].mail = v])
    BY <2>9, <2>10, <2>11, MailStep
  <2> QED BY <1>5, <2>1, <2>3, <2>11, <2>12
<1>6. CASE net' = Request(net, c, "Superseded") /\ call' = call
  <2> DEFINE cause == "Superseded"
             m == Request(net, c, cause)
             y == Asked(x, cause)
  <2> HIDE DEF cause, x
  <2>1. ConnOK(y, idle, dynamic) /\ y.lane = x.lane /\ y.dialer = x.dialer /\ y.state = x.state
    BY <1>1, AskedOK, AskedFields
  <2>2. Touch(net, m, c, y) /\ Calm(net, m) /\ m.ready = net.ready
    BY <1>1, RequestFact DEF x
  <2> HIDE DEF m, y
  <2>3. m.conn[c] = y
    BY <1>1, <2>2, TouchFact
  <2>4. ReadyAt(m, Full(net, call, c), c)
    BY <1>2, <2>1, <2>2, <2>3 DEF ReadyAt, Offerable
  <2>5. Queued(net) \subseteq Queued(m) /\ net.work \ {c} \subseteq m.work /\ Distinct(m.ready)
    BY <1>1, <2>2 DEF Calm
  <2>6. \A d \in Conns : d # c => (d \in Elements(m.ready) <=> d \in Elements(net.ready))
    BY <2>2
  <2>7. y.lane = net.conn[c].lane /\ y.dialer = net.conn[c].dialer
    BY <2>1 DEF x
  <2>8. Good(m, call)
    BY <1>1, <2>1, <2>2, <2>4, <2>5, <2>6, <2>7, TouchStep
  <2> QED BY <1>6, <2>8 DEF m, cause
<1> QED BY <1>4, <1>5, <1>6 DEF Connect

\* ConnectFails: the slot is free, and the call that dialled it is told.
LEMMA ConnectFailsStep ==
    ASSUME IInv, NEW c \in Conns, ConnectFails(c)
    PROVE  Good(net', call')
<1> DEFINE x == net.conn[c]
           k == x.dialer
           w == [net EXCEPT !.conn[c] = NewConn]
<1>1. /\ net \in Net /\ x \in Conn /\ ConnOK(x, idle, dynamic) /\ Good(net, call)
      /\ DialsOK(net, call) /\ NoCall \notin Calls
  BY ConnFact, ClientAssumption DEF Good
<1>2. x.state = "admitted" /\ x.lane = <<>> /\ k \in Calls \cup {NoCall}
  BY <1>1 DEF ConnectFails, ConnOK, SlotOK, Conn
<1>3. Good(w, call) /\ Touch(net, w, c, NewConn)
  BY <1>2, ClearStep
<1>4. \A d \in Conns : w.conn[d].dialer = IF d = c THEN NoCall ELSE net.conn[d].dialer
  <2> HIDE DEF w
  <2>1. w.conn[c] = NewConn /\ \A d \in Conns : d # c => w.conn[d] = net.conn[d]
    BY <1>1, <1>3, TouchFact
  <2> QED BY <2>1 DEF NewConn
<1>5. CASE k = NoCall
  BY <1>3, <1>5 DEF ConnectFails
<1>6. CASE k # NoCall
  <2>1. PICK cause \in {"Connect", "ConnectFatal"} : call' = [call EXCEPT ![k].mail = ClassOf(cause)]
    BY <1>6 DEF ConnectFails
  <2>2. net' = WakeOne(w)
    BY <1>6 DEF ConnectFails
  <2> DEFINE v == ClassOf(cause)
  <2>3. v \in Classes \cup {"connected"}
    BY ClassFact
  <2>4. k \in Calls /\ call[k].phase = "dial" /\ \A d \in Conns : d # c => net.conn[d].dialer # k
    BY <1>1, <1>2, <1>6 DEF DialsOK
  <2> HIDE DEF w, v
  <2>5. Good(WakeOne(w), call) /\ WakeOne(w).conn = w.conn
    BY <1>3, WakeStep
  <2>6. \A d \in Conns : WakeOne(w).conn[d].dialer # k
    BY <1>4, <1>6, <2>4, <2>5
  <2> HIDE DEF k
  <2>7. Good(WakeOne(w), [call EXCEPT ![k].mail = v])
    BY <2>3, <2>4, <2>5, <2>6, MailStep
  <2> QED BY <2>1, <2>2, <2>7 DEF v
<1> QED BY <1>5, <1>6

\* Disconnect: nobody reads from a slot that is free.
LEMMA DisconnectStep ==
    ASSUME IInv, NEW c \in Conns, Disconnect(c)
    PROVE  Good(net', call')
<1> DEFINE x == net.conn[c]
           m == [net EXCEPT !.conn[c] = NewConn]
           cl == [k \in Calls |-> IF call[k].on = c THEN [call[k] EXCEPT !.live = FALSE] ELSE call[k]]
<1>1. net \in Net /\ x \in Conn /\ ConnOK(x, idle, dynamic) /\ Good(net, call) /\ LanesOK(net, call)
  BY ConnFact DEF Good
<1>2. x.state # "ready" /\ x.lane = <<>> /\ net' = m /\ call' = cl
  BY <1>1 DEF Disconnect, ConnOK, SlotOK
<1>3. Good(m, call) /\ Touch(net, m, c, NewConn)
  BY <1>2, ClearStep
<1> HIDE DEF m
<1>4. m.conn[c].lane = <<>>
  <2>1. m.conn[c] = NewConn
    BY <1>1, <1>3, TouchFact
  <2> QED BY <2>1 DEF NewConn
<1>5. m \in Net /\ ConnsOK(m) /\ CallsOK(call) /\ LanesOK(m, call) /\ DialsOK(m, call) /\ WaitsOK(m, call) /\ ReadyOK(m, call)
  BY <1>3 DEF Good
<1>6. ASSUME NEW k \in Calls
      PROVE  /\ cl[k] \in CallRec /\ CallOK(cl[k]) /\ cl[k].phase = call[k].phase /\ cl[k].on = call[k].on
             /\ cl[k].inbox = call[k].inbox /\ cl[k].mail = call[k].mail
             /\ call[k].on # c => cl[k].live = call[k].live
  <2> DEFINE r == call[k]
             y == [r EXCEPT !.live = FALSE]
  <2>1. r \in CallRec /\ CallOK(r)
    BY <1>5 DEF CallsOK
  <2>2. /\ y \in CallRec /\ y.phase = r.phase /\ y.retry = r.retry /\ y.mail = r.mail /\ y.on = r.on /\ y.inbox = r.inbox
        /\ y.result = r.result /\ y.sent = r.sent /\ y.ever = r.ever
    BY <2>1 DEF CallRec
  <2> HIDE DEF y
  <2>3. CallOK(y)
    BY <2>1, <2>2 DEF CallOK
  <2> QED BY <2>1, <2>2, <2>3 DEF y
<1>7. CallsOK(cl)
  <2>1. cl \in [Calls -> CallRec]
    BY <1>6
  <2> QED BY <1>6, <2>1 DEF CallsOK
<1> HIDE DEF cl
<1>8. \A k \in Calls : call[k].phase \in Reading => call[k].on \in Conns
  BY <1>5 DEF CallsOK, CallOK
<1>9. LanesOK(m, cl)
  <2>1. \A d \in Conns : Solo(m.conn[d].lane)
    BY <1>5 DEF LanesOK
  <2>2. ASSUME NEW d \in Conns, NEW k \in Calls, k \in Elements(m.conn[d].lane) PROVE Awaits(cl[k], d)
    <3>1. Awaits(call[k], d)
      BY <1>5, <2>2 DEF LanesOK
    <3>2. d # c
      BY <1>4, <2>2 DEF Elements
    <3> QED BY <1>6, <3>1, <3>2 DEF Awaits
  <2>3. ASSUME NEW k \in Calls, cl[k].phase \in Reading
        PROVE  Answered(cl[k]) \/ (cl[k].live /\ k \in Elements(m.conn[cl[k].on].lane))
    <3>1. Answered(call[k]) \/ (call[k].live /\ k \in Elements(m.conn[call[k].on].lane))
      BY <1>5, <1>6, <2>3 DEF LanesOK
    <3>2. Answered(call[k]) => Answered(cl[k])
      BY <1>6 DEF Answered
    <3>3. k \in Elements(m.conn[call[k].on].lane) => call[k].on # c
      BY <1>4 DEF Elements
    <3> QED BY <1>6, <3>1, <3>2, <3>3
  <2> QED BY <2>1, <2>2, <2>3 DEF LanesOK
<1>10. DialsOK(m, cl) /\ WaitsOK(m, cl)
  BY <1>5, <1>6 DEF DialsOK, WaitsOK
<1>11. ReadyOK(m, cl)
  <2>1. ASSUME NEW d \in Conns PROVE Full(m, cl, d) <=> Full(m, call, d)
    <3>1. Held(m, cl, d) = Held(m, call, d)
      BY <1>6 DEF Held
    <3> QED BY <3>1 DEF Full
  <2> QED BY <1>5, <2>1 DEF ReadyOK, ReadyAt
<1>12. Good(m, cl)
  BY <1>5, <1>7, <1>9, <1>10, <1>11 DEF Good
<1> QED BY <1>2, <1>12

\* A released reply gives its lane's connection back to the queue.
LEMMA MaintainStep ==
    ASSUME IInv, NEW c \in Conns
    PROVE  Good(Maintained(net, call, c), call)
<1> DEFINE x == net.conn[c]
           k == net.work \ {c}
           w == [net EXCEPT !.work = k]
           m == Schedule(w, call, c)
<1>1. /\ net \in Net /\ ConnOK(x, idle, dynamic) /\ Good(net, call) /\ Distinct(net.ready)
      /\ ReadyAt(net, Full(net, call, c), c) /\ net.conn \in [Conns -> Conn]
  BY ConnFact DEF Net
<1>2. Maintained(net, call, c) = m
  BY DEF Maintained
<1>3. /\ w \in Net /\ w.conn = net.conn /\ w.ready = net.ready /\ w.work = net.work \ {c}
      /\ w.waiters = net.waiters /\ w.woken = net.woken
  BY <1>1 DEF Net
<1> HIDE DEF w
<1>4. m \in Net /\ m.conn = w.conn /\ Calm(w, m) /\ Offered(w, m, c, x, Full(w, call, c))
  BY <1>3, ScheduleFact
<1> HIDE DEF m
<1>5. Full(w, call, c) <=> Full(net, call, c)
  BY <1>3, FullSame
<1>6. m.conn = [net.conn EXCEPT ![c] = x]
  BY <1>1, <1>3, <1>4
<1>7. Touch(net, m, c, x) /\ m.conn[c] = x
  BY <1>3, <1>4, <1>6 DEF Touch
<1>8. ReadyAt(m, Full(net, call, c), c)
  BY <1>1, <1>3, <1>4, <1>5, <1>7 DEF ReadyAt, Offered
<1>9. Queued(net) \subseteq Queued(m) /\ net.work \ {c} \subseteq m.work /\ Distinct(m.ready)
  BY <1>1, <1>3, <1>4 DEF Calm, Offered, Queued
<1>10. \A d \in Conns : d # c => (d \in Elements(m.ready) <=> d \in Elements(net.ready))
  BY <1>3, <1>4 DEF Offered
<1>11. x.lane = net.conn[c].lane /\ x.dialer = net.conn[c].dialer
  OBVIOUS
<1> HIDE DEF x
<1>12. Good(m, call)
  BY <1>1, <1>7, <1>8, <1>9, <1>10, <1>11, TouchStep
<1> QED BY <1>2, <1>12

\* Park: a lane is maintained, and a waiter woken.
LEMMA ParkStep ==
    ASSUME IInv, Park
    PROVE  Good(net', call')
<1> DEFINE Wake(n) == IF CanWake(n, call) THEN WakeOne(n) ELSE n
<1>1. Good(net, call) /\ net.work \subseteq Conns
  BY DEF IInv, Good, Net
<1>2. \A n : Good(n, call) => Good(Wake(n), call)
  BY WakeStep
<1>3. call' = call
  BY DEF Park
<1>4. \A c \in net.work : Good(Maintained(net, call, c), call)
  BY <1>1, MaintainStep
<1>5. (\E c \in net.work : net' = Wake(Maintained(net, call, c))) \/ net' = Wake(net)
  BY DEF Park
<1> HIDE DEF Wake
<1> QED BY <1>1, <1>2, <1>3, <1>4, <1>5

\* Tick: leases shorten, and an expired one stays in the queue until it is claimed.
LEMMA TickStep ==
    ASSUME IInv, Tick
    PROVE  Good(net', call')
<1> DEFINE f == [c \in Conns |-> IF Open(c) THEN Older(net.conn[c]) ELSE net.conn[c]]
           m == [net EXCEPT !.conn = f]
<1>1. /\ net \in Net /\ ConnsOK(net) /\ Good(net, call) /\ ReadyOK(net, call) /\ DialsOK(net, call)
      /\ idle \in Nat /\ dynamic \in BOOLEAN
  BY DEF IInv, Good
<1>2. net' = m /\ call' = call
  BY DEF Tick, Older
<1>3. ASSUME NEW c \in Conns
      PROVE  /\ ConnOK(f[c], idle, dynamic) /\ f[c].lane = net.conn[c].lane /\ f[c].dialer = net.conn[c].dialer
             /\ f[c].failed = net.conn[c].failed /\ (Offerable(f[c]) <=> Offerable(net.conn[c]))
  <2>1. ConnOK(net.conn[c], idle, dynamic)
    BY <1>1 DEF ConnsOK
  <2>2. CASE Open(c)
    <3> DEFINE x == net.conn[c]
    <3>1. f[c] = Older(x) /\ x.state \in Open2
      BY <2>2 DEF Open, Open2
    <3> HIDE DEF f, x
    <3>2. ConnOK(Older(x), idle, dynamic) /\ Older(x).lane = x.lane /\ Older(x).state = x.state
           /\ Older(x).failed = x.failed /\ (CanQueue(Older(x).adm) <=> CanQueue(x.adm))
           /\ Older(x).dialer = x.dialer
      BY <1>1, <2>1, <3>1, OlderOK DEF x
    <3> QED BY <3>1, <3>2 DEF Offerable, x
  <2>3. CASE ~Open(c)
    <3>1. f[c] = net.conn[c]
      BY <2>3
    <3> QED BY <2>1, <3>1
  <2> QED BY <2>2, <2>3
<1>4. f \in [Conns -> Conn]
  <2>1. \A c \in Conns : f[c] \in Conn
    BY <1>3 DEF ConnOK
  <2>2. f = [c \in Conns |-> f[c]]
    OBVIOUS
  <2> HIDE DEF f
  <2> QED BY <2>1, <2>2
<1> HIDE DEF f
<1>5. /\ m \in Net /\ m.conn = f /\ m.ready = net.ready /\ m.work = net.work
      /\ m.waiters = net.waiters /\ m.woken = net.woken
  BY <1>1, <1>4 DEF Net
<1> HIDE DEF m
<1>6. ConnsOK(m) /\ \A c \in Conns : m.conn[c].lane = net.conn[c].lane
  BY <1>3, <1>5 DEF ConnsOK
<1>7. DialsOK(m, call)
  BY <1>1, <1>3, <1>5 DEF DialsOK
<1>8. Queued(net) \subseteq Queued(m) /\ Distinct(m.ready)
  BY <1>1, <1>5 DEF Queued, ReadyOK
<1>9. \A c \in Conns : ReadyAt(m, Full(net, call, c), c)
  BY <1>1, <1>3, <1>5 DEF ReadyOK, ReadyAt
<1>10. Good(m, call)
  BY <1>1, <1>5, <1>6, <1>7, <1>8, <1>9, QuietStep
<1> QED BY <1>2, <1>10

\* The lane's front, and the lane behind it.
LEMMA FrontFact ==
    ASSUME NEW q \in Seq(Places), q # <<>>, Solo(q)
    PROVE  /\ Head(q) \in Places /\ Head(q) \in Elements(q) /\ Solo(Tail(q))
           /\ Elements(Tail(q)) \subseteq Elements(q) /\ Elements(q) = Elements(Tail(q)) \cup {Head(q)}
           /\ Head(q) # Gone => Head(q) \notin Elements(Tail(q))
<1>1. Elements(q) = Elements(Tail(q)) \cup {Head(q)}
  BY TailElements
<1>2. /\ Len(q) \in Nat \ {0} /\ DOMAIN q = 1 .. Len(q) /\ Head(q) = q[1] /\ q[1] \in Places
      /\ Len(Tail(q)) = Len(q) - 1 /\ DOMAIN Tail(q) = 1 .. Len(q) - 1
      /\ \A i \in 1 .. Len(q) - 1 : Tail(q)[i] = q[i + 1]
  OBVIOUS
<1>3. Solo(Tail(q))
  <2> SUFFICES ASSUME NEW i \in DOMAIN Tail(q), NEW j \in DOMAIN Tail(q), Tail(q)[i] = Tail(q)[j], Tail(q)[i] # Gone PROVE i = j
    BY DEF Solo
  <2>1. i + 1 \in DOMAIN q /\ j + 1 \in DOMAIN q /\ q[i + 1] = q[j + 1] /\ q[i + 1] # Gone /\ i \in Nat /\ j \in Nat
    BY <1>2
  <2>2. i + 1 = j + 1
    BY <2>1 DEF Solo
  <2> QED BY <2>1, <2>2
<1>4. ASSUME Head(q) # Gone, Head(q) \in Elements(Tail(q)) PROVE FALSE
  <2>1. PICK i \in DOMAIN Tail(q) : Tail(q)[i] = Head(q)
    BY <1>4 DEF Elements
  <2>2. 1 \in DOMAIN q /\ i + 1 \in DOMAIN q /\ q[i + 1] = q[1] /\ q[1] # Gone /\ i \in Nat /\ i >= 1
    BY <1>2, <1>4, <2>1
  <2>3. i + 1 = 1
    BY <2>2 DEF Solo
  <2> QED BY <2>2, <2>3
<1> QED BY <1>1, <1>2, <1>3, <1>4

\* An event for a call.
Told(r, e) == [r EXCEPT !.inbox = Append(r.inbox, e)]

\* An event for the reader of a lane's front.
LEMMA DeliverFact ==
    ASSUME NEW n, NEW cl, Good(n, cl), NEW c \in Conns, NEW e \in Events, n.conn[c].lane # <<>>
    PROVE  LET k == Head(n.conn[c].lane)
               y == Told(cl[k], e)
           IN  \/ k = Gone /\ Deliver(n, cl, c, e) = cl
               \/ /\ k \in Calls /\ k # Gone /\ Deliver(n, cl, c, e) = [cl EXCEPT ![k] = y]
                  /\ Awaits(cl[k], c) /\ ~Answered(cl[k])
                  /\ CallOK(y) /\ y.phase = cl[k].phase /\ y.on = c /\ y.live /\ y.mail = cl[k].mail
                  /\ e = "head" => Elements(y.inbox) \subseteq {"head"}
                  /\ e # "head" => Answered(y)
<1> DEFINE q == n.conn[c].lane
           k == Head(q)
           r == cl[k]
           b == Append(r.inbox, e)
           y == Told(r, e)
<1>1. n \in Net /\ CallsOK(cl) /\ LanesOK(n, cl) /\ Gone \notin Calls
  BY ClientAssumption DEF Good
<1>2. q \in Seq(Places) /\ Solo(q)
  BY <1>1 DEF Net, Conn, LanesOK
<1>3. k \in Places /\ k \in Elements(q)
  BY <1>2, FrontFact
<1>4. CASE k = Gone
  BY <1>4 DEF Deliver
<1>5. CASE k # Gone
  <2>1. k \in Calls
    BY <1>3, <1>5 DEF Places
  <2>2. Awaits(r, c)
    BY <1>1, <1>3, <2>1 DEF LanesOK
  <2>3. cl \in [Calls -> CallRec] /\ r \in CallRec /\ CallOK(r) /\ r.inbox \in Seq(Events)
    BY <1>1, <2>1 DEF CallsOK, CallRec
  <2>4. Deliver(n, cl, c, e) = [cl EXCEPT ![k] = y]
    BY <1>5, <2>1, <2>3 DEF Deliver, Told
  <2> DEFINE o == r.inbox
  <2>a. o \in Seq(Events)
    BY <2>3
  <2> HIDE DEF o
  <2>b. Append(o, e) \in Seq(Events) /\ Elements(Append(o, e)) = Elements(o) \cup {e}
    BY <2>a, AppendFact
  <2>c. Append(o, e) # <<>> /\ Append(o, e)[Len(Append(o, e))] = e
    BY <2>a
  <2>5. b \in Seq(Events) /\ Elements(b) = Elements(r.inbox) \cup {e} /\ b # <<>> /\ b[Len(b)] = e
    BY <2>b, <2>c DEF o
  <2>6. ~Answered(r)
    <3>1. r.inbox # <<>> => r.inbox[Len(r.inbox)] \in Elements(r.inbox)
      <4>1. o # <<>> => o[Len(o)] \in Elements(o)
        BY <2>a DEF Elements
      <4> QED BY <4>1 DEF o
    <3> QED BY <2>2, <3>1 DEF Answered, Awaits
  <2>d. y = [r EXCEPT !.inbox = b]
    BY DEF Told
  <2> HIDE DEF b, r, k, y
  <2>7. /\ y \in CallRec /\ y.phase = r.phase /\ y.retry = r.retry /\ y.mail = r.mail /\ y.on = r.on /\ y.inbox = b
        /\ y.result = r.result /\ y.sent = r.sent /\ y.ever = r.ever /\ y.live = r.live
    BY <2>3, <2>5, <2>d DEF CallRec
  <2>8. CallOK(y)
    BY <2>2, <2>3, <2>7 DEF CallOK, Awaits, Outgoing, Reading
  <2>9. y.on = c /\ y.live /\ (e = "head" => Elements(y.inbox) \subseteq {"head"}) /\ (e # "head" => Answered(y))
    BY <2>2, <2>5, <2>7 DEF Awaits, Answered
  <2> QED BY <1>5, <2>1, <2>2, <2>4, <2>6, <2>7, <2>8, <2>9 DEF y, b, r, k
<1> QED BY <1>4, <1>5

\* A head is delivered: its reader still awaits the rest.
LEMMA HeadStep ==
    ASSUME NEW n, NEW cl, Good(n, cl), NEW c \in Conns, n.conn[c].lane # <<>>
    PROVE  Good(n, Deliver(n, cl, c, "head"))
<1> DEFINE k == Head(n.conn[c].lane)
           e == "head"
           y == Told(cl[k], e)
           cl2 == [cl EXCEPT ![k] = y]
<1>1. /\ n \in Net /\ ConnsOK(n) /\ CallsOK(cl) /\ LanesOK(n, cl) /\ DialsOK(n, cl) /\ WaitsOK(n, cl)
      /\ ReadyOK(n, cl)
  BY DEF Good
<1>2. e \in Events /\ e = "head"
  BY DEF Events
<1> HIDE DEF e, k
<1>3. \/ k = Gone /\ Deliver(n, cl, c, e) = cl
      \/ /\ k \in Calls /\ k # Gone /\ Deliver(n, cl, c, e) = cl2
         /\ Awaits(cl[k], c) /\ ~Answered(cl[k])
         /\ CallOK(y) /\ y.phase = cl[k].phase /\ y.on = c /\ y.live /\ y.mail = cl[k].mail
         /\ e = "head" => Elements(y.inbox) \subseteq {"head"}
         /\ e # "head" => Answered(y)
  <2>1. e \in Events
    BY <1>2
  <2> QED BY <2>1, DeliverFact, Zenon DEF k
<1> HIDE DEF y
<1>4. CASE Deliver(n, cl, c, e) = cl
  BY <1>2, <1>4
<1>5. CASE k \in Calls /\ Deliver(n, cl, c, e) = cl2 /\ Awaits(cl[k], c) /\ CallOK(y) /\ k # Gone
  <2>1. /\ cl[k].phase \in Reading /\ y.phase \in Reading /\ y.on = cl[k].on /\ y.live = cl[k].live
        /\ Elements(y.inbox) \subseteq {"head"} /\ (Answered(cl[k]) => Answered(y))
    <3>1. cl[k].live \in BOOLEAN /\ y.live \in BOOLEAN
      BY <1>1, <1>5 DEF CallsOK, CallOK, CallRec
    <3>2. cl[k].live /\ y.live /\ cl[k].phase \in Reading /\ y.phase = cl[k].phase /\ y.on = c /\ cl[k].on = c
      BY <1>3, <1>4, <1>5 DEF Awaits
    <3> QED BY <1>2, <1>3, <1>5, <3>1, <3>2
  <2>2. LanesOK(n, cl2) /\ CallsOK(cl2) /\ \A d \in Conns : Full(n, cl2, d) <=> Full(n, cl, d)
    BY <1>1, <1>5, <2>1, StayLanes
  <2>3. cl2[k] = y /\ \A j \in Calls : j # k => cl2[j] = cl[j]
    BY <1>1, <1>5, CallsKept
  <2> HIDE DEF cl2
  <2>4. cl[k].phase \notin {"dial", "wait"} /\ y.phase \notin {"dial", "wait"}
    BY <2>1 DEF Reading
  <2>5. DialsOK(n, cl2)
    BY <1>1, <1>5, <2>3, <2>4 DEF DialsOK
  <2>6. WaitsOK(n, cl2)
    BY <1>1, <1>5, <2>3, <2>4 DEF WaitsOK
  <2>7. ReadyOK(n, cl2)
    BY <1>1, <2>2 DEF ReadyOK, ReadyAt
  <2> QED BY <1>1, <1>2, <1>5, <2>2, <2>5, <2>6, <2>7 DEF Good
<1> QED BY <1>3, <1>4, <1>5

\* PublishHead: the head's control is kept, and the connection sealed if it is the last.
LEMMA PublishHeadStep ==
    ASSUME IInv, NEW c \in Conns, PublishHead(c)
    PROVE  Good(net', call')
<1> DEFINE x == net.conn[c]
<1>1. /\ net \in Net /\ x \in Conn /\ ConnOK(x, idle, dynamic) /\ idle \in Nat /\ dynamic \in BOOLEAN
      /\ Good(net, call) /\ Distinct(net.ready) /\ ReadyAt(net, Full(net, call, c), c) /\ net.conn \in [Conns -> Conn]
  BY ConnFact DEF Net
<1>2. x.state \in Open2 /\ x.lane # <<>> /\ call' = Deliver(net, call, c, "head")
  BY DEF PublishHead, Open, Open2
<1>3. PICK control \in {Control(TRUE, t) : t \in Timeouts} \cup {Control(FALSE, NoHint)} :
          LET seen == [net EXCEPT !.conn[c].headed = TRUE, !.conn[c].said = control,
                                  !.conn[c].budget = Admit(idle, control)]
          IN net' = IF Admit(idle, control) = 0 THEN Seal(seen, c) ELSE seen
  BY DEF PublishHead
<1>4. control \in Controls
  <2>1. \A t \in Timeouts : Control(TRUE, t) \in Controls
    BY DEF Controls, Control
  <2>2. Control(FALSE, NoHint) \in Controls
    BY DEF Controls, Control
  <2> QED BY <2>1, <2>2
<1> DEFINE b == Admit(idle, control)
           z == Seen(x, control)
           w == [net EXCEPT !.conn[c].headed = TRUE, !.conn[c].said = control, !.conn[c].budget = b]
           m == net'
<1>5. /\ z \in Conn /\ SealedConn(z) \in Conn /\ z.lane = x.lane /\ SealedConn(z).lane = x.lane
      /\ b # 0 => ConnOK(z, idle, dynamic)
      /\ b = 0 => ConnOK(SealedConn(z), idle, dynamic)
  BY <1>1, <1>2, <1>4, SeenOK
<1>6. net' = IF b = 0 THEN Seal(w, c) ELSE w
  BY <1>3
<1>7. z = [x EXCEPT !.headed = TRUE, !.said = control, !.budget = b]
  BY DEF Seen
<1> HIDE DEF b, z
<1>8. w = [net EXCEPT !.conn = [net.conn EXCEPT ![c] = z]]
  BY <1>1, <1>7 DEF Net, Conn
<1>9. z.dialer = x.dialer /\ z.state = x.state /\ z.adm = x.adm /\ z.failed = x.failed
  BY <1>1, <1>7 DEF Conn
<1> HIDE DEF w
<1>10. Touch(net, w, c, z) /\ Calm(net, w) /\ w.ready = net.ready /\ w.conn[c] = z /\ w \in Net
  BY <1>1, <1>5, <1>8, SetFact DEF Touch
<1>11. Good(m, call) /\ m.conn[c].lane = x.lane
  <2>1. CASE b # 0
    <3>1. m = w
      BY <1>6, <2>1
    <3>2. ReadyAt(w, Full(net, call, c), c)
      BY <1>1, <1>9, <1>10 DEF ReadyAt, Offerable, Calm
    <3>3. Queued(net) \subseteq Queued(w) /\ net.work \ {c} \subseteq w.work /\ Distinct(w.ready)
      BY <1>1, <1>10 DEF Calm
    <3>4. ConnOK(z, idle, dynamic) /\ z.lane = net.conn[c].lane /\ z.dialer = net.conn[c].dialer
      BY <1>5, <1>9, <2>1
    <3>5. \A d \in Conns : d # c => (d \in Elements(w.ready) <=> d \in Elements(net.ready))
      BY <1>10
    <3>6. Good(w, call)
      BY <1>1, <1>10, <3>2, <3>3, <3>4, <3>5, TouchStep
    <3> QED BY <1>5, <1>10, <3>1, <3>6
  <2>2. CASE b = 0
    <3> DEFINE y == SealedConn(z)
               v == Seal(w, c)
    <3>1. m = v
      BY <1>6, <2>2
    <3>2. Touch(w, v, c, y) /\ Calm(w, v) /\ Thinned(w, v, c)
      BY <1>10, SealFact
    <3>3. y.adm = Sealed /\ y.dialer = z.dialer
      BY <1>5 DEF SealedConn, Conn
    <3>4. ConnOK(y, idle, dynamic) /\ y.lane = net.conn[c].lane /\ y.dialer = net.conn[c].dialer /\ ~Offerable(y)
      BY <1>5, <1>9, <2>2, <3>3 DEF Offerable, CanQueue, Sealed
    <3> HIDE DEF y, v
    <3>5. Touch(net, v, c, y)
      BY <1>1, <1>10, <3>2, TouchTwice
    <3>6. v.conn[c] = y
      BY <1>1, <3>5, TouchFact
    <3>7. ReadyAt(v, Full(net, call, c), c)
      BY <3>2, <3>4, <3>6 DEF ReadyAt, Thinned
    <3>8. Queued(net) \subseteq Queued(v) /\ net.work \ {c} \subseteq v.work /\ Distinct(v.ready)
      BY <1>1, <1>10, <3>2 DEF Calm, Thinned
    <3>9. \A d \in Conns : d # c => (d \in Elements(v.ready) <=> d \in Elements(net.ready))
      BY <1>10, <3>2 DEF Thinned
    <3>10. Good(v, call)
      BY <1>1, <3>4, <3>5, <3>7, <3>8, <3>9, TouchStep
    <3> QED BY <3>1, <3>4, <3>6, <3>10
  <2> QED BY <2>1, <2>2
<1>12. Deliver(m, call, c, "head") = Deliver(net, call, c, "head")
  BY <1>11 DEF Deliver
<1> HIDE DEF m
<1>13. Good(m, Deliver(m, call, c, "head"))
  BY <1>2, <1>11, HeadStep
<1> QED BY <1>2, <1>12, <1>13 DEF m

\* The reply at a lane's front ends: its reader is told, and leaves the lane.
LEMMA PopStep ==
    ASSUME NEW n, NEW m \in Net, NEW cl, Good(n, cl), ConnsOK(m), NEW c \in Conns, NEW e \in Events, e # "head",
           n.conn[c].lane # <<>>, m.conn[c].lane = Tail(n.conn[c].lane),
           \A d \in Conns : d # c => m.conn[d].lane = n.conn[d].lane,
           \A d \in Conns : m.conn[d].dialer = n.conn[d].dialer,
           Queued(n) \subseteq Queued(m), Distinct(m.ready),
           \A d \in Conns : d # c => ReadyAt(m, Full(n, cl, d), d),
           ReadyAt(m, Full(m, cl, c), c)
    PROVE  Good(m, Deliver(n, cl, c, e))
<1> DEFINE q == n.conn[c].lane
           k == Head(q)
           y == Told(cl[k], e)
           cl2 == Deliver(n, cl, c, e)
<1>1. /\ n \in Net /\ ConnsOK(n) /\ CallsOK(cl) /\ LanesOK(n, cl) /\ DialsOK(n, cl) /\ WaitsOK(n, cl)
      /\ ReadyOK(n, cl) /\ Gone \notin Calls
  BY ClientAssumption DEF Good
<1>2. q \in Seq(Places) /\ Solo(q)
  BY <1>1 DEF Net, Conn, LanesOK
<1>3. /\ Solo(Tail(q)) /\ Elements(q) = Elements(Tail(q)) \cup {k} /\ k \in Elements(q)
      /\ k # Gone => k \notin Elements(Tail(q))
  BY <1>2, FrontFact
<1>4. \/ k = Gone /\ cl2 = cl
      \/ /\ k \in Calls /\ k # Gone /\ cl2 = [cl EXCEPT ![k] = y]
         /\ Awaits(cl[k], c) /\ ~Answered(cl[k])
         /\ CallOK(y) /\ y.phase = cl[k].phase /\ y.on = c /\ y.live /\ y.mail = cl[k].mail
         /\ e = "head" => Elements(y.inbox) \subseteq {"head"}
         /\ e # "head" => Answered(y)
  BY DeliverFact, Zenon
<1> HIDE DEF cl2, y, k
<1>5. /\ CallsOK(cl2)
      /\ \A j \in Calls : j # k => cl2[j] = cl[j]
      /\ \A j \in Calls : cl2[j].phase = cl[j].phase /\ (cl2[j].phase \in Reading => cl2[j].on = cl[j].on) /\ cl2[j].mail = cl[j].mail
      /\ k \in Calls => Answered(cl2[k]) /\ Awaits(cl[k], c)
  <2>1. CASE k = Gone /\ cl2 = cl
    BY <1>1, <2>1
  <2>2. CASE k \in Calls /\ cl2 = [cl EXCEPT ![k] = y]
    <3>1. CallOK(y) /\ Awaits(cl[k], c) /\ y.phase = cl[k].phase /\ y.on = c /\ y.mail = cl[k].mail /\ Answered(y)
      BY <1>1, <1>4, <2>2
    <3>2. CallsOK(cl2) /\ cl2[k] = y /\ \A j \in Calls : j # k => cl2[j] = cl[j]
      <4>1. k \in Calls /\ CallOK(y)
        BY <2>2, <3>1
      <4>2. LET f == [cl EXCEPT ![k] = y] IN CallsOK(f) /\ f[k] = y /\ \A j \in Calls : j # k => f[j] = cl[j]
        BY <1>1, <4>1, CallsKept
      <4> QED BY <2>2, <4>2
    <3>3. cl[k].on = c
      BY <3>1 DEF Awaits
    <3> QED BY <3>1, <3>2, <3>3
  <2> QED BY <1>4, <2>1, <2>2
<1>6. \A d \in Conns : d # c => k \notin Elements(n.conn[d].lane) \/ k \notin Calls
  BY <1>1, <1>5 DEF LanesOK, Awaits
<1>7. ASSUME NEW d \in Conns, NEW j \in Calls, j \in Elements(m.conn[d].lane)
      PROVE  j \in Elements(n.conn[d].lane) /\ j # k
  BY <1>1, <1>3, <1>6, <1>7
<1>8. LanesOK(m, cl2)
  <2>1. \A d \in Conns : Solo(m.conn[d].lane)
    BY <1>1, <1>3 DEF LanesOK
  <2>2. ASSUME NEW d \in Conns, NEW j \in Calls, j \in Elements(m.conn[d].lane) PROVE Awaits(cl2[j], d)
    <3>1. j \in Elements(n.conn[d].lane) /\ j # k
      BY <1>7, <2>2
    <3>2. cl2[j] = cl[j] /\ Awaits(cl[j], d)
      BY <1>1, <1>5, <3>1 DEF LanesOK
    <3> QED BY <3>2
  <2>3. ASSUME NEW j \in Calls, cl2[j].phase \in Reading
        PROVE  Answered(cl2[j]) \/ (cl2[j].live /\ j \in Elements(m.conn[cl2[j].on].lane))
    <3>1. CASE j = k
      BY <1>5, <3>1
    <3>2. CASE j # k
      <4>1. cl2[j] = cl[j] /\ cl[j].phase \in Reading
        BY <1>5, <2>3, <3>2
      <4>2. Answered(cl[j]) \/ (cl[j].live /\ j \in Elements(n.conn[cl[j].on].lane))
        BY <1>1, <4>1 DEF LanesOK
      <4>3. cl[j].on \in Conns
        BY <1>1, <4>1 DEF CallsOK, CallOK
      <4>4. j \in Elements(n.conn[cl[j].on].lane) => j \in Elements(m.conn[cl[j].on].lane)
        BY <1>3, <3>2, <4>3
      <4> QED BY <4>1, <4>2, <4>4
    <3> QED BY <3>1, <3>2
  <2> QED BY <2>1, <2>2, <2>3 DEF LanesOK
<1>9. DialsOK(m, cl2)
  BY <1>1, <1>5 DEF DialsOK
<1>10. WaitsOK(m, cl2)
  BY <1>1, <1>5 DEF WaitsOK
<1>11. ASSUME NEW d \in Conns PROVE Full(m, cl2, d) <=> Full(m, cl, d)
  <2>1. ASSUME NEW j \in Calls PROVE j \in Held(m, cl2, d) <=> j \in Held(m, cl, d)
    <3>1. cl2[j].phase = cl[j].phase /\ (cl2[j].phase \in Reading => cl2[j].on = cl[j].on)
      BY <1>5
    <3> QED BY <3>1 DEF Held, Reading
  <2>2. Held(m, cl2, d) \subseteq Calls /\ Held(m, cl, d) \subseteq Calls
    BY DEF Held
  <2>3. Held(m, cl2, d) = Held(m, cl, d)
    BY <2>1, <2>2
  <2> QED BY <2>3 DEF Full
<1>12. ReadyOK(m, cl2)
  <2>1. ASSUME NEW d \in Conns PROVE ReadyAt(m, Full(m, cl, d), d)
    <3>1. CASE d = c
      BY <3>1
    <3>2. CASE d # c
      <4>1. n.conn[d].lane = m.conn[d].lane
        BY <3>2
      <4>2. Full(n, cl, d) <=> Full(m, cl, d)
        BY <4>1, FullSame
      <4>3. ReadyAt(m, Full(n, cl, d), d)
        BY <3>2
      <4> QED BY <4>2, <4>3 DEF ReadyAt
    <3> QED BY <3>1, <3>2
  <2> QED BY <1>11, <2>1 DEF ReadyOK, ReadyAt
<1>13. Good(m, cl2)
  BY <1>5, <1>8, <1>9, <1>10, <1>12 DEF Good
<1> QED BY <1>13 DEF cl2

\* Retire: the replies of a closing connection fail one at a time.
LEMMA RetireStep ==
    ASSUME IInv, NEW c \in Conns, Retire(c)
    PROVE  Good(net', call')
<1> DEFINE x == net.conn[c]
<1>1. /\ net \in Net /\ x \in Conn /\ ConnOK(x, idle, dynamic) /\ idle \in Nat /\ dynamic \in BOOLEAN
      /\ Good(net, call) /\ Distinct(net.ready) /\ ReadyAt(net, Full(net, call, c), c) /\ ReadyOK(net, call)
      /\ ConnsOK(net)
  BY ConnFact DEF Good
<1>2. x.state = "closing" /\ x.closing # "none" /\ c \notin Elements(net.ready)
  BY <1>1 DEF Retire, ReadyAt, Offerable
<1>3. CASE x.lane = <<>>
  <2> DEFINE y == [x EXCEPT !.state = "drained"]
             m == [net EXCEPT !.conn[c].state = "drained"]
  <2>1. net' = m /\ call' = call
    BY <1>3 DEF Retire
  <2>2. m = [net EXCEPT !.conn = [net.conn EXCEPT ![c] = y]]
    BY <1>1 DEF Net, Conn
  <2>3. y \in Conn /\ y.lane = x.lane /\ y.dialer = x.dialer /\ y.state = "drained"
    BY <1>1 DEF Conn
  <2>4. ConnOK(y, idle, dynamic)
    BY <1>1, <1>2, <1>3, RetiredOK
  <2> HIDE DEF y, m
  <2>5. Touch(net, m, c, y) /\ Calm(net, m) /\ m.ready = net.ready /\ m.conn[c] = y
    BY <1>1, <2>2, <2>3, SetFact
  <2>6. ReadyAt(m, Full(net, call, c), c)
    BY <1>2, <2>3, <2>5 DEF ReadyAt, Offerable
  <2>7. Queued(net) \subseteq Queued(m) /\ net.work \ {c} \subseteq m.work /\ Distinct(m.ready)
    BY <1>1, <2>5 DEF Calm
  <2>8. \A d \in Conns : d # c => (d \in Elements(m.ready) <=> d \in Elements(net.ready))
    BY <2>5
  <2>9. Good(m, call)
    BY <1>1, <2>3, <2>4, <2>5, <2>6, <2>7, <2>8, TouchStep
  <2> QED BY <2>1, <2>9
<1>4. CASE x.lane # <<>>
  <2> DEFINE y == Advanced(x)
             m == PopLane(net, c)
             e == IF x.failed THEN ClassOf("Receive") ELSE x.closing
  <2>1. net' = m /\ call' = Deliver(net, call, c, e)
    BY <1>4 DEF Retire
  <2>2. e \in Events /\ e # "head"
    BY <1>1, <1>2, ClassFact DEF Conn, Causes, Classes, Events
  <2>3. ConnOK(y, idle, dynamic) /\ y.lane = Tail(x.lane) /\ y.dialer = x.dialer /\ y.state = x.state
    BY <1>1, <1>2, <1>4, RetiredOK, AdvancedFact
  <2>4. /\ Touch(net, m, c, y) /\ m.ready = net.ready /\ Queued(m) = Queued(net)
        /\ net.work \subseteq m.work
    BY <1>1, <1>4, PopFact
  <2> HIDE DEF m, y, e
  <2>5. m \in Net /\ m.conn[c] = y /\ \A d \in Conns : d # c => m.conn[d] = net.conn[d]
    BY <1>1, <2>4, TouchFact
  <2>6. ConnsOK(m)
    BY <1>1, <2>3, <2>4, ConnsKept
  <2>7. ReadyAt(m, Full(m, call, c), c)
    BY <1>2, <2>3, <2>4, <2>5 DEF ReadyAt, Offerable
  <2>8. net.work \ {c} \subseteq m.work /\ \A d \in Conns : d # c => (d \in Elements(m.ready) <=> d \in Elements(net.ready))
    BY <2>4
  <2>9. \A d \in Conns : d # c => ReadyAt(m, Full(net, call, d), d)
    BY <1>1, <2>4, <2>8, OthersReady
  <2>10. /\ m.conn[c].lane = Tail(net.conn[c].lane) /\ \A d \in Conns : d # c => m.conn[d].lane = net.conn[d].lane
         /\ \A d \in Conns : m.conn[d].dialer = net.conn[d].dialer
    BY <2>3, <2>5
  <2>11. Queued(net) \subseteq Queued(m) /\ Distinct(m.ready) /\ net.conn[c].lane # <<>>
    BY <1>1, <1>4, <2>4
  <2>12. Good(m, Deliver(net, call, c, e))
    BY <1>1, <2>2, <2>5, <2>6, <2>7, <2>9, <2>10, <2>11, PopStep
  <2> QED BY <2>1, <2>12
<1> QED BY <1>3, <1>4

\* What completion does to the record.
LEMMA FinishedFields ==
    ASSUME NEW x \in Conn
    PROVE  LET y == Finished(x)
           IN  /\ y.lane = x.lane /\ y.dialer = x.dialer /\ y.failed = x.failed /\ y.state = x.state
               /\ y.adm = Completed(x.adm, x.budget, Len(x.lane))
<1> DEFINE z == Ended(x)
           a == Completed(x.adm, x.budget, Len(x.lane))
           cause == "ScheduledRotation"
<1>1. x.budget \in Nat
  BY DEF Conn
<1>2. a \in Adms
  BY <1>1 DEF Completed, Sealed, Active, Idle, Adms, Kinds
<1> HIDE DEF a
<1>3. z = [x EXCEPT !.adm = a, !.budget = 0, !.headed = FALSE, !.quiet = 0]
  BY DEF Ended, a
<1> HIDE DEF z, cause
<1>4. z \in Conn /\ z.lane = x.lane /\ z.dialer = x.dialer /\ z.failed = x.failed /\ z.state = x.state /\ z.adm = a
  BY <1>2, <1>3 DEF Conn
<1>5. /\ Asked(z, cause).lane = z.lane /\ Asked(z, cause).dialer = z.dialer /\ Asked(z, cause).failed = z.failed
      /\ Asked(z, cause).state = z.state /\ Asked(z, cause).adm = z.adm
  BY <1>4, AskedFields
<1>6. Finished(x) = z \/ Finished(x) = Asked(z, cause)
  BY DEF Finished, z, cause
<1> HIDE DEF a
<1>7. LET y == Finished(x)
      IN  /\ y.lane = x.lane /\ y.dialer = x.dialer /\ y.failed = x.failed /\ y.state = x.state
          /\ y.adm = a
  BY <1>4, <1>5, <1>6
<1> QED BY <1>7 DEF a

\* PublishEnd: the reply ends, and its connection is offered, kept or rotated.
LEMMA PublishEndStep ==
    ASSUME IInv, NEW c \in Conns, PublishEnd(c)
    PROVE  Good(net', call')
<1> DEFINE x == net.conn[c]
           z == Advanced(x)
           w == PopLane(net, c)
           y == Finished(z)
           m == Completion(w, call, c)
           e == "end"
           full == Full(w, call, c) \/ (z.failed /\ z.lane = <<>>)
<1>1. /\ net \in Net /\ x \in Conn /\ ConnOK(x, idle, dynamic) /\ idle \in Nat /\ dynamic \in BOOLEAN
      /\ Good(net, call) /\ Distinct(net.ready) /\ ReadyAt(net, Full(net, call, c), c) /\ ReadyOK(net, call)
      /\ ConnsOK(net)
  BY ConnFact DEF Good
<1>2. x.state \in Open2 /\ x.headed /\ net' = m /\ call' = Deliver(net, call, c, e)
  BY DEF PublishEnd, Open, Open2
<1>3. e \in Events /\ e # "head"
  BY DEF Events
<1>4. x.lane # <<>> /\ ConnOK(y, idle, dynamic)
  BY <1>1, <1>2, PublishedOK
<1> HIDE DEF e, x
<1>5. /\ z \in Conn /\ z.lane = Tail(x.lane) /\ z.dialer = x.dialer /\ z.state = x.state /\ z.adm = x.adm
      /\ z.budget = x.budget
  BY <1>1, <1>4, AdvancedFact
<1>6. /\ Touch(net, w, c, z) /\ w.ready = net.ready /\ Queued(w) = Queued(net) /\ net.work \subseteq w.work
  BY <1>1, <1>4, PopFact DEF x
<1> HIDE DEF w, z
<1>7. w \in Net /\ w.conn[c] = z
  BY <1>1, <1>6, TouchFact
<1>8. /\ y.lane = z.lane /\ y.dialer = z.dialer /\ y.failed = z.failed /\ y.state = z.state
      /\ y.adm = Completed(z.adm, z.budget, Len(z.lane))
  BY <1>5, FinishedFields
<1>9. Touch(w, m, c, y) /\ Calm(w, m) /\ Offered(w, m, c, y, full)
  BY <1>7, CompletionFact
<1> HIDE DEF y, m
<1>10. Touch(net, m, c, y)
  BY <1>1, <1>6, <1>9, TouchTwice
<1>11. m \in Net /\ m.conn[c] = y /\ \A d \in Conns : d # c => m.conn[d] = net.conn[d]
  BY <1>1, <1>10, TouchFact
<1>12. ConnsOK(m)
  BY <1>1, <1>4, <1>10, ConnsKept
<1>13. Offerable(x) => Offerable(y)
  <2>1. ASSUME Offerable(x) PROVE CanQueue(y.adm)
    <3>1. x.adm.kind # "sealed"
      BY <2>1 DEF Offerable, CanQueue
    <3>2. x.budget # 0
      BY <1>1, <1>2, <3>1 DEF ConnOK, LeaseOK, Sealed
    <3> QED BY <1>5, <1>8, <3>1, <3>2 DEF Completed, CanQueue, Active, Idle
  <2> QED BY <1>5, <1>8, <2>1 DEF Offerable
<1>14. ReadyAt(m, Full(m, call, c), c)
  <2>1. Full(w, call, c) <=> Full(m, call, c)
    BY <1>7, <1>8, <1>11, FullSame
  <2>2. ASSUME Offerable(m.conn[c]), ~m.conn[c].failed, ~Full(m, call, c) PROVE c \in Elements(m.ready)
    BY <1>8, <1>9, <1>11, <2>1, <2>2 DEF Offered
  <2>3. ASSUME c \in Elements(m.ready) PROVE Offerable(m.conn[c])
    <3>1. c \in Elements(net.ready) \/ Offerable(y)
      BY <1>6, <1>9, <2>3 DEF Offered
    <3> QED BY <1>1, <1>11, <1>13, <3>1 DEF ReadyAt, x
  <2> QED BY <2>2, <2>3 DEF ReadyAt
<1>15. /\ net.work \ {c} \subseteq m.work
       /\ \A d \in Conns : d # c => (d \in Elements(m.ready) <=> d \in Elements(net.ready))
  BY <1>6, <1>9 DEF Calm, Offered
<1>16. \A d \in Conns : d # c => ReadyAt(m, Full(net, call, d), d)
  BY <1>1, <1>10, <1>15, OthersReady
<1>17. /\ m.conn[c].lane = Tail(net.conn[c].lane) /\ \A d \in Conns : d # c => m.conn[d].lane = net.conn[d].lane
       /\ \A d \in Conns : m.conn[d].dialer = net.conn[d].dialer
  BY <1>5, <1>8, <1>11 DEF x
<1>18. Queued(net) \subseteq Queued(m) /\ Distinct(m.ready) /\ net.conn[c].lane # <<>>
  BY <1>1, <1>4, <1>6, <1>9 DEF Calm, Offered, x
<1>19. Good(m, Deliver(net, call, c, e))
  BY <1>1, <1>3, <1>11, <1>12, <1>14, <1>16, <1>17, <1>18, PopStep
<1> QED BY <1>2, <1>19

\* What is sealed stays sealed when a response ends.
LEMMA VoidedFields ==
    ASSUME NEW x \in Conn
    PROVE  LET z == Voided(x)
           IN  z \in Conn /\ z.lane = x.lane /\ z.dialer = x.dialer /\ z.state = x.state /\ z.adm = Sealed
<1>1. Sealed \in Adms
  BY DEF Sealed, Adms, Kinds
<1> QED BY <1>1 DEF Voided, SealedConn, Conn

\* PublishFails: a protocol error or an event without room seals the connection.
LEMMA PublishFailsStep ==
    ASSUME IInv, NEW c \in Conns, NEW cause, PublishFails(c, cause)
    PROVE  Good(net', call')
<1> DEFINE x == net.conn[c]
           u == IF cause = "Protocol" THEN Request(net, c, cause) ELSE net
           x1 == IF cause = "Protocol" THEN Asked(x, cause) ELSE x
           x2 == [x1 EXCEPT !.budget = 0]
           v == [u EXCEPT !.conn[c].budget = 0]
           s == Seal(v, c)
           z == Voided(x1)
           e == ClassOf(cause)
           w == IF x.lane = <<>> THEN s ELSE PopLane(s, c)
           t == IF x.lane = <<>> THEN z ELSE Advanced(z)
           y == Finished(t)
           m == Completion(w, call, c)
<1>1. /\ net \in Net /\ x \in Conn /\ ConnOK(x, idle, dynamic) /\ idle \in Nat /\ dynamic \in BOOLEAN
      /\ Good(net, call) /\ Distinct(net.ready) /\ ReadyOK(net, call) /\ ConnsOK(net) /\ net.conn \in [Conns -> Conn]
  BY ConnFact DEF Good, Net
<1>2. x.state \in Open2 /\ net' = m /\ call' = Deliver(net, call, c, e)
  BY DEF PublishFails, Open, Open2
<1>3. e \in Events /\ e # "head"
  BY ClassFact DEF Events, Classes
<1>4. /\ ConnOK(x1, idle, dynamic) /\ x1 \in Conn /\ x1.lane = x.lane /\ x1.dialer = x.dialer /\ x1.state = x.state
  <2> HIDE DEF x
  <2> QED BY <1>1, AskedOK, AskedFields
<1>5. Touch(net, u, c, x1) /\ Calm(net, u) /\ u.ready = net.ready
  <2>1. CASE cause = "Protocol"
    <3>1. Touch(net, Request(net, c, cause), c, Asked(x, cause)) /\ Calm(net, Request(net, c, cause))
          /\ Request(net, c, cause).ready = net.ready
      BY <1>1, RequestFact
    <3> QED BY <2>1, <3>1
  <2>2. CASE cause # "Protocol"
    <3>1. net.conn = [net.conn EXCEPT ![c] = x]
      BY <1>1
    <3> QED BY <1>1, <2>2, <3>1 DEF Touch, Calm
  <2> QED BY <2>1, <2>2
<1> HIDE DEF x, x1, u, e
<1>6. u \in Net /\ u.conn[c] = x1
  BY <1>1, <1>5, TouchFact
<1>7. x2 \in Conn
  BY <1>4 DEF Conn
<1>8. v = [u EXCEPT !.conn = [u.conn EXCEPT ![c] = x2]]
  BY <1>6 DEF Net, Conn
<1>9. z = SealedConn(x2)
  BY DEF Voided
<1> HIDE DEF v, x2
<1>10. Touch(u, v, c, x2) /\ Calm(u, v) /\ v.ready = u.ready /\ v.conn[c] = x2 /\ v \in Net
  BY <1>6, <1>7, <1>8, SetFact DEF Touch
<1>11. Touch(v, s, c, z) /\ Calm(v, s) /\ Thinned(v, s, c)
  BY <1>9, <1>10, SealFact
<1>12. z \in Conn /\ z.lane = x.lane /\ z.dialer = x.dialer /\ z.state = x.state /\ z.adm = Sealed
  BY <1>4, VoidedFields
<1>13. ConnOK(y, idle, dynamic)
  BY <1>1, <1>2, <1>4, VoidedOK
<1> HIDE DEF s, z
<1>14. Touch(net, v, c, x2)
  BY <1>1, <1>5, <1>10, TouchTwice
<1>15. Touch(net, s, c, z)
  BY <1>1, <1>11, <1>14, TouchTwice
<1>16. s \in Net /\ s.conn[c] = z
  BY <1>1, <1>15, TouchFact
<1>17. /\ Touch(net, w, c, t) /\ w.ready = s.ready /\ Queued(w) = Queued(s) /\ s.work \subseteq w.work
       /\ t \in Conn /\ t.dialer = x.dialer /\ t.adm = Sealed /\ t.lane = IF x.lane = <<>> THEN x.lane ELSE Tail(x.lane)
  <2>1. CASE x.lane = <<>>
    BY <1>12, <1>15, <2>1
  <2>2. CASE x.lane # <<>>
    <3>1. w = PopLane(s, c) /\ t = Advanced(z)
      BY <2>2
    <3>2. t \in Conn /\ t.dialer = z.dialer /\ t.adm = z.adm /\ t.lane = Tail(z.lane)
      BY <1>12, <2>2, <3>1, AdvancedFact
    <3>3. Touch(s, w, c, t) /\ w.ready = s.ready /\ Queued(w) = Queued(s) /\ s.work \subseteq w.work
      BY <1>12, <1>16, <2>2, <3>1, PopFact
    <3> HIDE DEF w, t
    <3>4. Touch(net, w, c, t)
      BY <1>1, <1>15, <3>3, TouchTwice
    <3> QED BY <1>12, <2>2, <3>2, <3>3, <3>4
  <2> QED BY <2>1, <2>2
<1> HIDE DEF w, t
<1>18. w \in Net /\ w.conn[c] = t
  BY <1>1, <1>17, TouchFact
<1>19. y.lane = t.lane /\ y.dialer = t.dialer /\ y.adm = Completed(t.adm, t.budget, Len(t.lane))
  BY <1>17, FinishedFields
<1>20. ~Offerable(y)
  BY <1>17, <1>19 DEF Completed, Offerable, CanQueue, Sealed
<1>21. Touch(w, m, c, y) /\ Calm(w, m) /\ Offered(w, m, c, y, Full(w, call, c) \/ (t.failed /\ t.lane = <<>>))
  BY <1>18, CompletionFact
<1> HIDE DEF y, m
<1>22. Touch(net, m, c, y)
  BY <1>1, <1>17, <1>21, TouchTwice
<1>23. m \in Net /\ m.conn[c] = y /\ \A d \in Conns : d # c => m.conn[d] = net.conn[d]
  BY <1>1, <1>22, TouchFact
<1>24. c \notin Elements(m.ready)
  BY <1>11, <1>17, <1>20, <1>21 DEF Thinned, Offered
<1>25. \A full : ReadyAt(m, full, c)
  BY <1>20, <1>23, <1>24 DEF ReadyAt
<1>26. /\ net.work \ {c} \subseteq m.work /\ Queued(net) \subseteq Queued(m) /\ Distinct(m.ready)
  BY <1>1, <1>5, <1>10, <1>11, <1>17, <1>21 DEF Calm, Offered, Thinned
<1>27. \A d \in Conns : d # c => (d \in Elements(m.ready) <=> d \in Elements(net.ready))
  BY <1>5, <1>10, <1>11, <1>17, <1>21 DEF Offered, Thinned
<1>28. CASE x.lane = <<>>
  <2>1. y.lane = net.conn[c].lane /\ y.dialer = net.conn[c].dialer
    BY <1>17, <1>19, <1>28 DEF x
  <2>2. ReadyAt(m, Full(net, call, c), c)
    BY <1>25
  <2>3. Good(m, call)
    BY <1>1, <1>13, <1>22, <1>26, <1>27, <2>1, <2>2, TouchStep
  <2>4. Deliver(net, call, c, e) = call
    BY <1>28 DEF Deliver, x
  <2> QED BY <1>2, <2>3, <2>4
<1>29. CASE x.lane # <<>>
  <2>1. ConnsOK(m)
    BY <1>1, <1>13, <1>22, ConnsKept
  <2>2. \A d \in Conns : d # c => ReadyAt(m, Full(net, call, d), d)
    BY <1>1, <1>22, <1>26, <1>27, OthersReady
  <2>3. /\ m.conn[c].lane = Tail(net.conn[c].lane) /\ \A d \in Conns : d # c => m.conn[d].lane = net.conn[d].lane
        /\ \A d \in Conns : m.conn[d].dialer = net.conn[d].dialer
    BY <1>17, <1>19, <1>23, <1>29 DEF x
  <2>4. ReadyAt(m, Full(m, call, c), c) /\ net.conn[c].lane # <<>>
    BY <1>25, <1>29 DEF x
  <2>5. Good(m, Deliver(net, call, c, e))
    BY <1>1, <1>3, <1>23, <1>26, <2>1, <2>2, <2>3, <2>4, PopStep
  <2> QED BY <1>2, <2>5
<1> QED BY <1>28, <1>29

-----------------------------------------------------------------------------
(* The invariant. *)

\* The client starts in order.
LEMMA InitGood ==
    ASSUME Init
    PROVE  IInv
<1>1. idle \in Nat /\ dynamic \in BOOLEAN
  BY ClientAssumption DEF Init
<1>2. /\ net.conn = [c \in Conns |-> NewConn] /\ net.ready = <<>> /\ net.waiters = <<>> /\ net.woken = {} /\ net.work = {}
      /\ net = [conn |-> net.conn, ready |-> net.ready, waiters |-> net.waiters, woken |-> net.woken, work |-> net.work]
  BY DEF Init
<1>3. \A c \in Conns : net.conn[c] = NewConn
  BY <1>2
<1>4. ConnOK(NewConn, idle, dynamic) /\ NewConn \in Conn
  BY <1>1, NewConnOK DEF ConnOK
<1>5. NewConn.lane = <<>> /\ NewConn.dialer = NoCall /\ NewConn.state = "vacant"
  BY DEF NewConn
<1>6. net \in Net
  <2>1. net.conn \in [Conns -> Conn]
    BY <1>2, <1>4
  <2>2. <<>> \in Seq(Conns) /\ <<>> \in Seq(Calls)
    OBVIOUS
  <2> QED BY <1>2, <2>1, <2>2 DEF Net
<1>7. ConnsOK(net)
  BY <1>3, <1>4 DEF ConnsOK
<1>8. \A k \in Calls : call[k] = NewCall(k) /\ NewCall(k) \in CallRec /\ CallOK(NewCall(k)) /\ NewCall(k).phase = "dispatch"
  BY NewCallOK DEF Init, CallOK, NewCall
<1>9. CallsOK(call)
  <2>1. call = [k \in Calls |-> NewCall(k)]
    BY DEF Init
  <2>2. call \in [Calls -> CallRec]
    BY <1>8, <2>1
  <2> QED BY <1>8, <2>2 DEF CallsOK
<1>10. Elements(<<>>) = {} /\ DOMAIN <<>> = {}
  BY DEF Elements
<1>11. LanesOK(net, call)
  BY <1>3, <1>5, <1>8, <1>10 DEF LanesOK, Solo, Reading
<1>12. DialsOK(net, call)
  BY <1>3, <1>5, ClientAssumption DEF DialsOK
<1>13. WaitsOK(net, call)
  BY <1>8 DEF WaitsOK
<1>14. ReadyOK(net, call)
  <2>1. Distinct(<<>>)
    BY <1>10 DEF Distinct
  <2> QED BY <1>2, <1>3, <1>5, <1>10, <2>1 DEF ReadyOK, ReadyAt, Offerable
<1> QED BY <1>1, <1>6, <1>7, <1>9, <1>11, <1>12, <1>13, <1>14 DEF IInv, Good

\* Every step keeps the client in order.
LEMMA StepGood ==
    ASSUME IInv, Next
    PROVE  IInv'
<1>1. ASSUME NEW k \in Calls, CallStep(k) PROVE Good(net', call')
  BY <1>1, PollSubmitsStep, PollFailsStep, PollRefusedStep, PollDialsStep, PollWaitsStep, DialFailsStep, DialRefusedStep,
     DialSubmitsStep, DispatchTimeoutStep, BackoffEndsStep, ReadEventStep, RedirectStep, ReplyTimeoutStep, CancelStep
     DEF CallStep
<1>2. ASSUME NEW c \in Conns, ConnStep(c) PROVE Good(net', call')
  BY <1>2, ActivateStep, ConnectStep, ConnectFailsStep, PublishHeadStep, PublishEndStep, PublishFailsStep,
     InputStep, IoFailsStep, CloseStep, RetireStep, DisconnectStep
     DEF ConnStep
<1>3. Good(net', call')
  BY <1>1, <1>2, ParkStep, TickStep DEF Next
<1>4. ASSUME NEW k \in Calls, CallStep(k) PROVE idle' = idle /\ dynamic' = dynamic
  BY <1>4 DEF CallStep, Faulty, Regular, PollSubmits, PollFails, PollRefused, PollDials, PollWaits, DialFails,
     DialRefused, DialSubmits, DispatchTimeout, BackoffEnds, ReadEvent, Redirect, ReplyTimeout, Cancel
<1>5. ASSUME NEW c \in Conns, ConnStep(c) PROVE idle' = idle /\ dynamic' = dynamic
  BY <1>5 DEF ConnStep, Faulty, Regular, Activate, Connect, ConnectFails, PublishHead, PublishEnd, PublishFails,
     Input, IoFails, Close, Retire, Disconnect
<1>6. idle' = idle /\ dynamic' = dynamic
  BY <1>4, <1>5 DEF Next, Park, Tick, Regular
<1> QED BY <1>3, <1>6 DEF IInv, Good, ConnsOK

\* The client stays in order: each connection's and each call's record is consistent
\* by itself, lanes and their readers, dialled connections and their calls name each
\* other, and the ready queue holds what can be claimed.
THEOREM ClientInvariant == Spec => []IInv
<1>1. Init => IInv
  BY InitGood
<1>2. IInv /\ [Next]_vars => IInv'
  <2> SUFFICES ASSUME IInv, [Next]_vars PROVE IInv'
    OBVIOUS
  <2>1. CASE Next
    BY <2>1, StepGood
  <2>2. CASE UNCHANGED vars
    BY <2>2 DEF vars, IInv, Good, ConnsOK
  <2> QED BY <2>1, <2>2
<1> QED BY <1>1, <1>2, PTL DEF Spec

\* A failed call says BeforeSubmit exactly when nothing of it entered egress, and what is
\* not idempotent is sent at most once between redirects (retry.rs, safety.rs).
THEOREM SafetyKept == Spec => []SafetyExact
<1>1. IInv => SafetyExact
  BY DEF IInv, Good, CallsOK, CallOK, SafetyExact
<1> QED BY <1>1, ClientInvariant, PTL

\* A connection that could take a request is in the ready queue, once, and nothing else is
\* (Pool::schedule, remove).
THEOREM ReadyKept == Spec => []ReadyExact
<1>1. IInv => ReadyExact
  BY DEF IInv, Good, ReadyOK, ReadyAt, Offerable, ReadyExact
<1> QED BY <1>1, ClientInvariant, PTL

\* Nobody waits for what cannot come: a reader has an event or a place in a living lane, a
\* reserved connection its call, a waiting call its place in the queue (Pool::retire,
\* Dial's drop, finish_close).
THEOREM NobodyLost == Spec => []NobodyForgotten
<1>1. ASSUME IInv PROVE NobodyForgotten
  <2>1. /\ net \in Net /\ ConnsOK(net) /\ CallsOK(call) /\ LanesOK(net, call) /\ DialsOK(net, call) /\ WaitsOK(net, call)
    BY <1>1 DEF IInv, Good
  <2>2. \A k \in Calls : call[k].phase \in {"reply", "body"} =>
            \/ call[k].inbox # <<>>
            \/ call[k].live /\ k \in Elements(net.conn[call[k].on].lane)
    BY <2>1 DEF LanesOK, Answered, Reading
  <2>3. ASSUME NEW c \in Conns, net.conn[c].adm.kind = "reserved", net.conn[c].closing = "none"
        PROVE  net.conn[c].dialer \in Calls /\ call[net.conn[c].dialer].phase = "dial"
    <3>1. net.conn[c].dialer \in Calls \cup {NoCall}
      BY <2>1 DEF Net, Conn
    <3>2. net.conn[c].dialer # NoCall
      BY <2>1, <2>3 DEF ConnsOK, ConnOK, SlotOK
    <3> QED BY <2>1, <3>1, <3>2 DEF DialsOK
  <2>4. \A k \in Calls : call[k].phase = "wait" => k \in net.woken \cup Elements(net.waiters)
    BY <2>1 DEF WaitsOK, Queued
  <2> QED BY <2>2, <2>3, <2>4 DEF NobodyForgotten
<1> QED BY <1>1, ClientInvariant, PTL

-----------------------------------------------------------------------------
(* The lease.  A lane grows in the two steps that submit a request, and no other. *)

\* No lane is longer in m than in n.
NoLonger(n, m) == \A d \in Conns : Len(m.conn[d].lane) <= Len(n.conn[d].lane)

\* Lanes that stay.
LEMMA LanesStay ==
    ASSUME NEW n \in Net, NEW m, \A d \in Conns : m.conn[d].lane = n.conn[d].lane
    PROVE  NoLonger(n, m)
<1>1. \A d \in Conns : Len(n.conn[d].lane) \in Nat
  BY DEF Net, Conn
<1> QED BY <1>1 DEF NoLonger

\* One lane changes.
LEMMA LaneTouched ==
    ASSUME NEW n \in Net, NEW m, NEW c \in Conns, NEW y, Touch(n, m, c, y), Len(y.lane) <= Len(n.conn[c].lane)
    PROVE  NoLonger(n, m)
<1>1. \A d \in Conns : Len(n.conn[d].lane) \in Nat
  BY DEF Net, Conn
<1>2. m.conn[c] = y /\ \A d \in Conns : d # c => m.conn[d] = n.conn[d]
  BY TouchFact
<1> QED BY <1>1, <1>2 DEF NoLonger

\* A reader that leaves keeps its place taken.
LEMMA DropReplyLanes ==
    ASSUME IInv, NEW k \in Calls, call[k].phase \in Reading
    PROVE  NoLonger(net, DropReply(net, call, k))
<1> DEFINE c == call[k].on
           m == DropReply(net, call, k)
           y == Left(net.conn[c], k, call[k].live)
<1>1. net \in Net /\ c \in Conns
  BY DEF IInv, Good, CallsOK, CallOK
<1>2. net.conn[c].lane \in Seq(Places)
  BY <1>1 DEF Net, Conn
<1> HIDE DEF c
<1>3. Touch(net, m, c, y) /\ y.lane = Blank(net.conn[c].lane, k)
  BY <1>1, DropReplyFact DEF c
<1>4. Len(Blank(net.conn[c].lane, k)) = Len(net.conn[c].lane) /\ Len(net.conn[c].lane) \in Nat
  BY <1>2, BlankFact
<1> HIDE DEF m, y
<1>5. Len(y.lane) <= Len(net.conn[c].lane)
  BY <1>3, <1>4
<1>6. NoLonger(net, m)
  BY <1>1, <1>3, <1>5, LaneTouched
<1> QED BY <1>6 DEF m

\* Nor does the drop of a dispatch.
LEMMA DropDispatchLanes ==
    ASSUME IInv, NEW k \in Calls
    PROVE  NoLonger(net, DropDispatch(net, call, k))
<1> DEFINE m == DropDispatch(net, call, k)
<1>1. net \in Net /\ net.conn \in [Conns -> Conn]
  BY DEF IInv, Good, Net
<1>2. \A d \in Conns : m.conn[d] = IF call[k].phase = "dial" THEN Undialled(net.conn[d], k) ELSE net.conn[d]
  BY <1>1, DropDispatchFact
<1>3. \A d \in Conns : Undialled(net.conn[d], k).lane = net.conn[d].lane
  BY <1>1, UndialledFields
<1> HIDE DEF m
<1>4. \A d \in Conns : m.conn[d].lane = net.conn[d].lane
  BY <1>2, <1>3
<1>5. NoLonger(net, m)
  BY <1>1, <1>4, LanesStay
<1> QED BY <1>5 DEF m

\* A step of a call that submits nothing.
LEMMA CallLanes ==
    ASSUME IInv, NEW k \in Calls, CallStep(k), ~PollSubmits(k), ~DialSubmits(k)
    PROVE  NoLonger(net, net')
<1>1. net \in Net /\ net.conn \in [Conns -> Conn] /\ CallsOK(call)
  BY DEF IInv, Good, Net
<1> DEFINE f == Found(k)
           c == Claimed(net, call)
<1>2. Polled(k) => /\ f \in Net
                   /\ \A d \in Conns : f.conn[d].lane = net.conn[d].lane
                   /\ c # NoConn => c \in Conns
  BY PollFact
<1> HIDE DEF f, c
<1>3. ASSUME PollFails(k) PROVE NoLonger(net, net')
  <2>1. Polled(k) /\ c # NoConn /\ (net' = f \/ net' = CloseClaim(f, c))
    BY <1>3 DEF PollFails, f, c
  <2>2. CASE net' = f
    BY <1>1, <1>2, <2>1, <2>2, LanesStay
  <2>3. CASE net' = CloseClaim(f, c)
    <3>1. Touch(f, CloseClaim(f, c), c, Shut(f.conn[c])) /\ f.conn[c] \in Conn
      BY <1>2, <2>1, CloseFact DEF Net
    <3>2. Shut(f.conn[c]).lane = f.conn[c].lane
      BY <3>1, ShutFields
    <3>3. \A d \in Conns : net'.conn[d].lane = net.conn[d].lane
      BY <1>2, <2>1, <2>3, <3>1, <3>2, TouchFact
    <3> QED BY <1>1, <3>3, LanesStay
  <2> QED BY <2>1, <2>2, <2>3
<1>4. ASSUME PollRefused(k) PROVE NoLonger(net, net')
  <2>1. Polled(k) /\ c # NoConn /\ net' = Schedule(f, call, c)
    BY <1>4 DEF PollRefused, f, c
  <2>2. net'.conn = f.conn
    BY <1>2, <2>1, ScheduleFact
  <2> QED BY <1>1, <1>2, <2>1, <2>2, LanesStay
<1>5. ASSUME PollDials(k) \/ PollWaits(k) PROVE NoLonger(net, net')
  <2>1. Polled(k) /\ (net' = f \/ net' = [f EXCEPT !.waiters = Append(@, k)])
    BY <1>5 DEF PollDials, PollWaits, f
  <2>2. net'.conn = f.conn
    BY <1>2, <2>1 DEF Net
  <2> QED BY <1>1, <1>2, <2>1, <2>2, LanesStay
<1>6. ASSUME DialFails(k) \/ DialRefused(k) PROVE NoLonger(net, net')
  <2>1. net' = net \/ \E e \in Dialled(k) : net' = GiveUp(k, e)
    BY <1>6 DEF DialFails, DialRefused
  <2>2. ASSUME NEW e \in Dialled(k) PROVE \A d \in Conns : GiveUp(k, e).conn[d].lane = net.conn[d].lane
    <3>1. e \in Conns /\ net.conn[e].dialer = k
      BY <2>2 DEF Dialled
    <3> QED BY <3>1, GiveUpFact
  <2>3. \A d \in Conns : net'.conn[d].lane = net.conn[d].lane
    BY <2>1, <2>2
  <2> QED BY <1>1, <2>3, LanesStay
<1>7. ASSUME DispatchTimeout(k) PROVE NoLonger(net, net')
  BY <1>7, DropDispatchLanes DEF DispatchTimeout
<1>8. ASSUME BackoffEnds(k) PROVE NoLonger(net, net')
  BY <1>1, <1>8, LanesStay DEF BackoffEnds
<1>9. ASSUME ReadEvent(k) \/ Redirect(k) PROVE NoLonger(net, net')
  <2>1. call[k].phase \in Reading
    BY <1>9 DEF ReadEvent, Redirect, Reading
  <2>2. net' = net \/ net' = [net EXCEPT !.work = @ \cup {call[k].on}] \/ net' = DropReply(net, call, k)
    BY <1>9 DEF ReadEvent, Redirect
  <2>3. CASE net' = DropReply(net, call, k)
    BY <2>1, <2>3, DropReplyLanes
  <2>4. CASE net' = net \/ net' = [net EXCEPT !.work = @ \cup {call[k].on}]
    <3>1. net'.conn = net.conn
      BY <1>1, <2>4 DEF Net
    <3> QED BY <1>1, <3>1, LanesStay
  <2> QED BY <2>2, <2>3, <2>4
<1>10. ASSUME ReplyTimeout(k) PROVE NoLonger(net, net')
  <2>1. call[k].phase \in Reading /\ net' = DropReply(net, call, k)
    BY <1>10 DEF ReplyTimeout, Reading
  <2> QED BY <2>1, DropReplyLanes
<1>11. ASSUME Cancel(k) PROVE NoLonger(net, net')
  <2>1. CASE call[k].phase \in Reading
    <3>1. net' = DropReply(net, call, k)
      BY <1>11, <2>1 DEF Cancel, Reading
    <3> QED BY <2>1, <3>1, DropReplyLanes
  <2>2. CASE call[k].phase \notin Reading
    <3>1. net' = DropDispatch(net, call, k)
      BY <1>11, <2>2 DEF Cancel, Reading
    <3> QED BY <3>1, DropDispatchLanes
  <2> QED BY <2>1, <2>2
<1> QED BY <1>3, <1>4, <1>5, <1>6, <1>7, <1>8, <1>9, <1>10, <1>11 DEF CallStep

\* A record changes that keeps its lane.
LEMMA TouchLanes ==
    ASSUME NEW n \in Net, NEW m, NEW c \in Conns, NEW y, Touch(n, m, c, y), y.lane = n.conn[c].lane
    PROVE  m \in Net /\ \A d \in Conns : m.conn[d].lane = n.conn[d].lane
<1>1. m \in Net /\ m.conn[c] = y /\ \A d \in Conns : d # c => m.conn[d] = n.conn[d]
  BY TouchFact
<1> QED BY <1>1

\* A connection that is asked to close, or closes, keeps its lane.
LEMMA AskLanes ==
    ASSUME NEW n \in Net, NEW c \in Conns, NEW cause
    PROVE  /\ Request(n, c, cause) \in Net /\ CloseClaim(n, c) \in Net
           /\ \A d \in Conns : Request(n, c, cause).conn[d].lane = n.conn[d].lane
           /\ \A d \in Conns : CloseClaim(n, c).conn[d].lane = n.conn[d].lane
<1>1. n.conn[c] \in Conn
  BY DEF Net
<1>2. Touch(n, Request(n, c, cause), c, Asked(n.conn[c], cause)) /\ Asked(n.conn[c], cause).lane = n.conn[c].lane
  BY <1>1, RequestFact, AskedFields
<1>3. Touch(n, CloseClaim(n, c), c, Shut(n.conn[c])) /\ Shut(n.conn[c]).lane = n.conn[c].lane
  BY <1>1, CloseFact, ShutFields
<1>4. Request(n, c, cause) \in Net /\ \A d \in Conns : Request(n, c, cause).conn[d].lane = n.conn[d].lane
  BY <1>2, TouchLanes
<1>5. CloseClaim(n, c) \in Net /\ \A d \in Conns : CloseClaim(n, c).conn[d].lane = n.conn[d].lane
  BY <1>3, TouchLanes
<1> QED BY <1>4, <1>5

\* Fields of a record but its lane change.
LEMMA FieldLanes ==
    ASSUME NEW n \in Net, NEW c \in Conns, NEW y \in Conn, y.lane = n.conn[c].lane, NEW m, m.conn = [n.conn EXCEPT ![c] = y]
    PROVE  \A d \in Conns : m.conn[d].lane = n.conn[d].lane
<1>1. n.conn \in [Conns -> Conn]
  BY DEF Net
<1> QED BY <1>1

\* A lane's place ends, or the lane is emptied.
LEMMA PopLanes ==
    ASSUME NEW n \in Net, NEW c \in Conns, n.conn[c].lane # <<>>
    PROVE  PopLane(n, c) \in Net /\ NoLonger(n, PopLane(n, c))
<1> DEFINE x == n.conn[c]
           y == Advanced(x)
           m == PopLane(n, c)
<1>1. x \in Conn /\ x.lane \in Seq(Places)
  BY DEF Net, Conn
<1>2. Touch(n, m, c, y)
  BY PopFact
<1>3. y.lane = Tail(x.lane)
  BY <1>1, AdvancedFact
<1>4. Len(Tail(x.lane)) <= Len(x.lane)
  BY <1>1, SMTT(30)
<1> HIDE DEF m, y
<1>5. NoLonger(n, m)
  BY <1>2, <1>3, <1>4, LaneTouched
<1> QED BY <1>2, <1>5 DEF Touch, m

\* Completion keeps every lane.
LEMMA CompletionLanes ==
    ASSUME NEW n \in Net, NEW c \in Conns, NEW cl
    PROVE  \A d \in Conns : Completion(n, cl, c).conn[d].lane = n.conn[d].lane
<1>1. Touch(n, Completion(n, cl, c), c, Finished(n.conn[c])) /\ Finished(n.conn[c]).lane = n.conn[c].lane
  BY CompletionFact
<1> QED BY <1>1, TouchFact

\* A step of a connection submits nothing.
LEMMA ConnLanes ==
    ASSUME IInv, NEW c \in Conns, ConnStep(c)
    PROVE  NoLonger(net, net')
<1> DEFINE x == net.conn[c]
<1>1. /\ net \in Net /\ net.conn \in [Conns -> Conn] /\ x \in Conn /\ ConnOK(x, idle, dynamic) /\ idle \in Nat
      /\ dynamic \in BOOLEAN
  BY DEF IInv, Good, Net, ConnsOK
<1>2. ASSUME Activate(c) PROVE NoLonger(net, net')
  <2>1. net' = [net EXCEPT !.conn[c].state = "admitted"] \/ \E k \in Calls : net' = [net EXCEPT !.conn[c].state = "admitted", !.conn[c].dialer = k]
    BY <1>2 DEF Activate
  <2>2. CASE net' = [net EXCEPT !.conn[c].state = "admitted"]
    <3>1. \A d \in Conns : net'.conn[d].lane = net.conn[d].lane
      BY <1>1, <2>2 DEF Net, Conn
    <3> QED BY <1>1, <3>1, LanesStay
  <2>3. ASSUME NEW k \in Calls, net' = [net EXCEPT !.conn[c].state = "admitted", !.conn[c].dialer = k] PROVE NoLonger(net, net')
    <3>1. \A d \in Conns : net'.conn[d].lane = net.conn[d].lane
      BY <1>1, <2>3 DEF Net, Conn
    <3> QED BY <1>1, <3>1, LanesStay
  <2> QED BY <2>1, <2>2, <2>3
<1>3. ASSUME Connect(c) PROVE NoLonger(net, net')
  <2>1. CASE net' = Request(net, c, "Superseded")
    BY <1>1, <2>1, AskLanes, LanesStay
  <2>2. ASSUME NEW a \in Adms, NEW r \in Seq(Conns),
               net' = WakeOne([net EXCEPT !.conn = [net.conn EXCEPT ![c] = [x EXCEPT !.state = "ready", !.adm = a]], !.ready = r])
        PROVE  NoLonger(net, net')
    <3> DEFINE y == [x EXCEPT !.state = "ready", !.adm = a]
               w == [net EXCEPT !.conn = [net.conn EXCEPT ![c] = y], !.ready = r]
    <3>1. y \in Conn /\ y.lane = x.lane
      BY <1>1 DEF Conn
    <3> HIDE DEF y
    <3>2. w \in Net /\ w.conn = [net.conn EXCEPT ![c] = y]
      BY <1>1, <3>1 DEF Net
    <3> HIDE DEF w
    <3>3. \A d \in Conns : w.conn[d].lane = net.conn[d].lane
      BY <1>1, <3>1, <3>2, FieldLanes
    <3>4. WakeOne(w).conn = w.conn
      BY <3>2, WakeFact
    <3>5. net' = WakeOne(w)
      BY <2>2 DEF w, y
    <3>6. \A d \in Conns : net'.conn[d].lane = net.conn[d].lane
      BY <3>3, <3>4, <3>5
    <3> QED BY <1>1, <3>6, LanesStay
  <2>3. CASE net' = WakeOne([net EXCEPT !.conn[c].state = "ready", !.conn[c].adm = Available(idle), !.ready = Append(@, c)])
    <3> DEFINE a == Available(idle)
               r == Append(net.ready, c)
    <3>1. a \in Adms /\ r \in Seq(Conns)
      BY <1>1 DEF Available, Fresh, Idle, Adms, Kinds, Net
    <3> HIDE DEF a, r
    <3>2. [net EXCEPT !.conn[c].state = "ready", !.conn[c].adm = a, !.ready = r]
            = [net EXCEPT !.conn = [net.conn EXCEPT ![c] = [x EXCEPT !.state = "ready", !.adm = a]], !.ready = r]
      BY <1>1 DEF Net, Conn
    <3>3. [net EXCEPT !.conn[c].state = "ready", !.conn[c].adm = Available(idle), !.ready = Append(@, c)]
            = [net EXCEPT !.conn[c].state = "ready", !.conn[c].adm = a, !.ready = r]
      BY <1>1 DEF Net, a, r
    <3> QED BY <2>2, <2>3, <3>1, <3>2, <3>3
  <2>4. CASE net' = WakeOne([net EXCEPT !.conn[c].state = "ready", !.conn[c].adm = Reserved])
    <3> DEFINE a == Reserved
               r == net.ready
    <3>1. a \in Adms /\ r \in Seq(Conns)
      BY <1>1 DEF Reserved, Adms, Kinds, Net
    <3> HIDE DEF a
    <3>2. [net EXCEPT !.conn[c].state = "ready", !.conn[c].adm = a]
            = [net EXCEPT !.conn = [net.conn EXCEPT ![c] = [x EXCEPT !.state = "ready", !.adm = a]], !.ready = r]
      BY <1>1 DEF Net, Conn
    <3> HIDE DEF r
    <3> QED BY <2>2, <2>4, <3>1, <3>2 DEF a
  <2> QED BY <1>3, <2>1, <2>3, <2>4 DEF Connect
<1>4. ASSUME ConnectFails(c) \/ Disconnect(c) PROVE NoLonger(net, net')
  <2> DEFINE w == [net EXCEPT !.conn[c] = NewConn]
  <2>1. net' = w \/ net' = WakeOne(w)
    BY <1>4 DEF ConnectFails, Disconnect
  <2>2. NewConn \in Conn /\ Len(NewConn.lane) = 0 /\ Len(x.lane) \in Nat
    <3>1. NewConn \in Conn
      BY <1>1, NewConnOK DEF ConnOK
    <3>2. Len(NewConn.lane) = 0
      BY DEF NewConn
    <3> QED BY <1>1, <3>1, <3>2 DEF Conn
  <2>3. w \in Net /\ Touch(net, w, c, NewConn)
    BY <1>1, <2>2 DEF Net, Touch
  <2> HIDE DEF w
  <2>4. WakeOne(w).conn = w.conn
    BY <2>3, WakeFact
  <2>5. NoLonger(net, w)
    BY <1>1, <2>2, <2>3, LaneTouched
  <2> QED BY <2>1, <2>4, <2>5 DEF NoLonger
<1>5. ASSUME PublishHead(c) PROVE NoLonger(net, net')
  <2>1. PICK control \in {Control(TRUE, t) : t \in Timeouts} \cup {Control(FALSE, NoHint)} :
          LET seen == [net EXCEPT !.conn[c].headed = TRUE, !.conn[c].said = control,
                                  !.conn[c].budget = Admit(idle, control)]
          IN net' = IF Admit(idle, control) = 0 THEN Seal(seen, c) ELSE seen
    BY <1>5 DEF PublishHead
  <2>2. control \in Controls
    <3>1. \A t \in Timeouts : Control(TRUE, t) \in Controls
      BY DEF Controls, Control
    <3>2. Control(FALSE, NoHint) \in Controls
      BY DEF Controls, Control
    <3> QED BY <3>1, <3>2
  <2> DEFINE b == Admit(idle, control)
             z == [x EXCEPT !.headed = TRUE, !.said = control, !.budget = b]
             w == [net EXCEPT !.conn[c].headed = TRUE, !.conn[c].said = control, !.conn[c].budget = b]
  <2>3. b \in Nat
    BY <1>1, <2>2, AdmitFact
  <2>4. net' = w \/ net' = Seal(w, c)
    BY <2>1
  <2> HIDE DEF b
  <2>5. z \in Conn /\ z.lane = x.lane
    BY <1>1, <2>2, <2>3 DEF Conn
  <2>6. w = [net EXCEPT !.conn = [net.conn EXCEPT ![c] = z]]
    BY <1>1 DEF Net, Conn
  <2> HIDE DEF w, z
  <2>7. w \in Net /\ w.conn = [net.conn EXCEPT ![c] = z]
    BY <1>1, <2>5, <2>6 DEF Net
  <2>8. \A d \in Conns : w.conn[d].lane = net.conn[d].lane
    BY <1>1, <2>5, <2>7, FieldLanes
  <2>9. Touch(w, Seal(w, c), c, SealedConn(w.conn[c])) /\ w.conn[c] \in Conn
    BY <2>7, SealFact DEF Net
  <2>10. SealedConn(w.conn[c]).lane = w.conn[c].lane
    BY <2>9 DEF SealedConn, Conn
  <2>11. \A d \in Conns : Seal(w, c).conn[d].lane = w.conn[d].lane
    BY <2>7, <2>9, <2>10, TouchLanes, ZenonT(40)
  <2>12. \A d \in Conns : net'.conn[d].lane = net.conn[d].lane
    BY <2>4, <2>8, <2>11
  <2> QED BY <1>1, <2>12, LanesStay
<1>6. ASSUME PublishEnd(c) PROVE NoLonger(net, net')
  <2> DEFINE w == PopLane(net, c)
  <2>1. x.state \in Open2 /\ x.headed /\ net' = Completion(w, call, c)
    BY <1>6 DEF PublishEnd, Open, Open2
  <2>2. x.lane # <<>>
    BY <1>1, <2>1, PublishedOK
  <2>3. w \in Net /\ NoLonger(net, w)
    BY <1>1, <2>2, PopLanes
  <2> HIDE DEF w
  <2> QED BY <2>1, <2>3, CompletionLanes DEF NoLonger
<1>7. ASSUME NEW cause, PublishFails(c, cause) PROVE NoLonger(net, net')
  <2> DEFINE u == IF cause = "Protocol" THEN Request(net, c, cause) ELSE net
             v == [u EXCEPT !.conn[c].budget = 0]
             y == [u.conn[c] EXCEPT !.budget = 0]
             s == Seal(v, c)
             w == IF x.lane = <<>> THEN s ELSE PopLane(s, c)
  <2>1. net' = Completion(w, call, c)
    BY <1>7 DEF PublishFails
  <2>2. u \in Net /\ \A d \in Conns : u.conn[d].lane = net.conn[d].lane
    BY <1>1, AskLanes
  <2> HIDE DEF u
  <2>3. u.conn[c] \in Conn /\ u.conn \in [Conns -> Conn]
    BY <2>2 DEF Net
  <2>4. y \in Conn /\ y.lane = u.conn[c].lane
    BY <2>3 DEF Conn
  <2>5. v = [u EXCEPT !.conn = [u.conn EXCEPT ![c] = y]]
    BY <2>2, <2>3 DEF Net, Conn
  <2> HIDE DEF v, y
  <2>6. v \in Net /\ v.conn = [u.conn EXCEPT ![c] = y]
    BY <2>2, <2>3, <2>4, <2>5 DEF Net
  <2>7. \A d \in Conns : v.conn[d].lane = u.conn[d].lane
    BY <2>2, <2>4, <2>6, FieldLanes
  <2>8. Touch(v, s, c, SealedConn(v.conn[c])) /\ v.conn[c] \in Conn
    BY <2>6, SealFact DEF Net
  <2>9. SealedConn(v.conn[c]).lane = v.conn[c].lane
    BY <2>8 DEF SealedConn, Conn
  <2>10. s \in Net /\ \A d \in Conns : s.conn[d].lane = v.conn[d].lane
    BY <2>6, <2>8, <2>9, TouchLanes
  <2> HIDE DEF s
  <2>11. \A d \in Conns : s.conn[d].lane = net.conn[d].lane
    BY <2>2, <2>7, <2>10
  <2>12. w \in Net /\ NoLonger(net, w)
    <3>1. CASE x.lane = <<>>
      BY <1>1, <2>10, <2>11, <3>1, LanesStay
    <3>2. CASE x.lane # <<>>
      <4>1. w = PopLane(s, c) /\ s.conn[c].lane # <<>>
        BY <2>11, <3>2
      <4>2. w \in Net /\ NoLonger(s, w)
        BY <2>10, <4>1, PopLanes
      <4> QED BY <2>11, <4>2 DEF NoLonger
    <3> QED BY <3>1, <3>2
  <2> HIDE DEF w
  <2> QED BY <2>1, <2>12, CompletionLanes DEF NoLonger
<1>8. ASSUME Input(c) PROVE NoLonger(net, net')
  <2>1. PICK s \in Open2 : LET w == [net EXCEPT !.conn[c].state = s] IN net' = Unready(w, c) \/ net' = Schedule(w, call, c)
    BY <1>8 DEF Input, Open2
  <2> DEFINE y == [x EXCEPT !.state = s]
             w == [net EXCEPT !.conn[c].state = s]
  <2>2. y \in Conn /\ y.lane = x.lane
    BY <1>1 DEF Conn, Open2
  <2>3. w = [net EXCEPT !.conn = [net.conn EXCEPT ![c] = y]]
    BY <1>1 DEF Net, Conn
  <2>a. net' = Unready(w, c) \/ net' = Schedule(w, call, c)
    BY <2>1
  <2> HIDE DEF w, y
  <2>4. w \in Net /\ w.conn = [net.conn EXCEPT ![c] = y]
    BY <1>1, <2>2, <2>3 DEF Net
  <2>5. \A d \in Conns : w.conn[d].lane = net.conn[d].lane
    BY <1>1, <2>2, <2>4, FieldLanes
  <2>6. Unready(w, c).conn = w.conn /\ Schedule(w, call, c).conn = w.conn
    BY <2>4, UnreadyFact, ScheduleFact
  <2>7. \A d \in Conns : net'.conn[d].lane = net.conn[d].lane
    BY <2>a, <2>5, <2>6
  <2> QED BY <1>1, <2>7, LanesStay
<1>9. ASSUME IoFails(c) PROVE NoLonger(net, net')
  <2> DEFINE y == [x EXCEPT !.failed = TRUE]
             w == [net EXCEPT !.conn[c].failed = TRUE]
  <2>1. net' = Request(w, c, "Receive")
    BY <1>9 DEF IoFails
  <2>2. y \in Conn /\ y.lane = x.lane
    BY <1>1 DEF Conn
  <2>3. w = [net EXCEPT !.conn = [net.conn EXCEPT ![c] = y]]
    BY <1>1 DEF Net, Conn
  <2> HIDE DEF w, y
  <2>4. w \in Net /\ w.conn = [net.conn EXCEPT ![c] = y]
    BY <1>1, <2>2, <2>3 DEF Net
  <2>5. \A d \in Conns : w.conn[d].lane = net.conn[d].lane
    BY <1>1, <2>2, <2>4, FieldLanes
  <2> DEFINE cause == "Receive"
  <2> HIDE DEF cause
  <2>b. \A d \in Conns : Request(w, c, cause).conn[d].lane = w.conn[d].lane
    <3>1. w \in Net
      BY <2>4
    <3> QED BY <3>1, AskLanes
  <2>6. \A d \in Conns : net'.conn[d].lane = net.conn[d].lane
    BY <2>1, <2>5, <2>b DEF cause
  <2> QED BY <1>1, <2>6, LanesStay
<1>10. ASSUME Close(c) PROVE NoLonger(net, net')
  <2> DEFINE w == Request(net, c, "RemoteEof")
  <2>1. net' = CloseClaim(w, c)
    BY <1>10 DEF Close
  <2>2. w \in Net /\ \A d \in Conns : w.conn[d].lane = net.conn[d].lane
    BY <1>1, AskLanes
  <2> HIDE DEF w
  <2>3. \A d \in Conns : net'.conn[d].lane = net.conn[d].lane
    BY <2>1, <2>2, AskLanes
  <2> QED BY <1>1, <2>3, LanesStay
<1>11. ASSUME Retire(c) PROVE NoLonger(net, net')
  <2>1. CASE x.lane = <<>>
    <3>1. net' = [net EXCEPT !.conn[c].state = "drained"]
      BY <1>11, <2>1 DEF Retire
    <3>2. \A d \in Conns : net'.conn[d].lane = net.conn[d].lane
      BY <1>1, <3>1 DEF Net, Conn
    <3> QED BY <1>1, <3>2, LanesStay
  <2>2. CASE x.lane # <<>>
    <3>1. net' = PopLane(net, c)
      BY <1>11, <2>2 DEF Retire
    <3> QED BY <1>1, <2>2, <3>1, PopLanes
  <2> QED BY <2>1, <2>2
<1> QED BY <1>2, <1>3, <1>4, <1>5, <1>6, <1>7, <1>8, <1>9, <1>10, <1>11 DEF ConnStep

\* Parking and time submit nothing.
LEMMA ParkLanes ==
    ASSUME IInv, Park \/ Tick
    PROVE  NoLonger(net, net')
<1>1. net \in Net /\ net.conn \in [Conns -> Conn] /\ ConnsOK(net) /\ idle \in Nat /\ dynamic \in BOOLEAN
  BY DEF IInv, Good, Net
<1>2. ASSUME Park PROVE NoLonger(net, net')
  <2> DEFINE Wake(n) == IF CanWake(n, call) THEN WakeOne(n) ELSE n
  <2>1. \A n \in Net : Wake(n).conn = n.conn
    BY WakeFact
  <2>2. \A c \in net.work : Maintained(net, call, c) \in Net /\ Maintained(net, call, c).conn = net.conn
    <3> SUFFICES ASSUME NEW c \in net.work PROVE Maintained(net, call, c) \in Net /\ Maintained(net, call, c).conn = net.conn
      OBVIOUS
    <3> DEFINE w == [net EXCEPT !.work = @ \ {c}]
    <3>1. w \in Net /\ w.conn = net.conn /\ c \in Conns
      BY <1>1 DEF Net
    <3>2. Maintained(net, call, c) = Schedule(w, call, c)
      BY DEF Maintained
    <3> HIDE DEF w
    <3> QED BY <3>1, <3>2, ScheduleFact
  <2>3. (\E c \in net.work : net' = Wake(Maintained(net, call, c))) \/ net' = Wake(net)
    BY <1>2 DEF Park
  <2> HIDE DEF Wake
  <2>4. net'.conn = net.conn
    BY <1>1, <2>1, <2>2, <2>3
  <2> QED BY <1>1, <2>4, LanesStay
<1>3. ASSUME Tick PROVE NoLonger(net, net')
  <2> DEFINE f == [c \in Conns |-> IF Open(c) THEN Older(net.conn[c]) ELSE net.conn[c]]
  <2>1. net' = [net EXCEPT !.conn = f]
    BY <1>3 DEF Tick, Older
  <2>2. net'.conn = f
    <3> HIDE DEF f
    <3> QED BY <1>1, <2>1 DEF Net
  <2>3. \A c \in Conns : Older(net.conn[c]).lane = net.conn[c].lane
    BY <1>1 DEF Older, Conn
  <2>4. \A c \in Conns : net'.conn[c].lane = net.conn[c].lane
    BY <2>2, <2>3
  <2> QED BY <1>1, <2>4, LanesStay
<1> QED BY <1>2, <1>3

\* What LeaseKept asks of a connection that is about to be written to.
Leased(x) ==
    /\ x.said.reusable
    /\ x.used => idle > 0
    /\ x.lane = <<>> /\ x.dialer = NoCall /\ idle > 0 =>
          /\ x.quiet < idle
          /\ x.said.timeout # NoHint => x.quiet + Margin < x.said.timeout

\* A connection that can be claimed, or was dialled, is leased.
LEMMA LeaseFact ==
    ASSUME NEW x, idle \in Nat, ConnOK(x, idle, dynamic), IsLive(x.adm) \/ x.dialer # NoCall
    PROVE  Leased(x)
<1> DEFINE i == idle
<1>1. /\ x \in Conn /\ x.adm.kind \in Kinds /\ x.adm.left \in Nat /\ x.quiet \in Nat /\ Margin \in Nat
      /\ (x.said.timeout # NoHint => x.said.timeout \in Nat) /\ i \in Nat
  BY ConnTypes, ReuseAssumption DEF ConnOK
<1>2. LeaseOK(x, i) /\ SlotOK(x, dynamic)
  BY DEF ConnOK
<1>3. Sealed.kind = "sealed" /\ Unsaid.reusable
  BY DEF Sealed, Unsaid, Control
<1> HIDE DEF i
<1>4. CASE x.dialer # NoCall
  <2>1. x.said = Unsaid /\ ~x.used
    BY <1>2, <1>4 DEF SlotOK
  <2> QED BY <1>3, <1>4, <2>1 DEF Leased
<1>5. CASE IsLive(x.adm)
  <2>1. x.adm # Sealed
    BY <1>3, <1>5 DEF IsLive
  <2>2. x.said.reusable
    BY <1>2, <2>1 DEF LeaseOK
  <2>3. ~x.used
    BY <1>2, <2>1 DEF LeaseOK
  <2>4. ASSUME x.lane = <<>>, i > 0
        PROVE  x.quiet < i /\ (x.said.timeout # NoHint => x.quiet + Margin < x.said.timeout)
    <3>1. x.adm.kind = "idle" /\ x.adm.left > 0
      BY <1>1, <1>2, <1>5, <2>4 DEF IsLive, LeaseOK
    <3>2. x.adm.left + x.quiet <= i /\ (x.said.timeout # NoHint => x.adm.left + x.quiet + Margin <= x.said.timeout)
      BY <1>2, <3>1 DEF LeaseOK
    <3> QED BY <1>1, <3>1, <3>2
  <2> QED BY <2>2, <2>3, <2>4 DEF Leased, i
<1> QED BY <1>4, <1>5

\* A lane that grows is a leased connection's.
LEMMA GrowthLeased ==
    ASSUME IInv, Next, NEW c \in Conns, Len(net'.conn[c].lane) > Len(net.conn[c].lane)
    PROVE  Leased(net.conn[c])
<1>1. /\ net \in Net /\ net.conn \in [Conns -> Conn] /\ ConnsOK(net) /\ idle \in Nat
      /\ \A d \in Conns : Len(net.conn[d].lane) \in Nat
  BY DEF IInv, Good, Net, Conn
<1>2. ~NoLonger(net, net')
  <2>1. Len(net.conn[c].lane) \in Nat
    BY <1>1
  <2>2. ASSUME NoLonger(net, net') PROVE FALSE
    <3>1. Len(net'.conn[c].lane) <= Len(net.conn[c].lane)
      BY <2>2 DEF NoLonger
    <3>2. net' \in Net
      BY StepGood DEF IInv, Good
    <3>3. Len(net'.conn[c].lane) \in Nat
      BY <3>2 DEF Net, Conn
    <3> QED BY <2>1, <3>1, <3>3
  <2> QED BY <2>2
<1>3. PICK k \in Calls : PollSubmits(k) \/ DialSubmits(k)
  BY <1>2, CallLanes, ConnLanes, ParkLanes DEF Next
<1>4. ASSUME NEW d \in Conns, NEW f \in Net, \A e \in Conns : f.conn[e].lane = net.conn[e].lane, net' = Commit(f, call, k, d)
      PROVE  c = d
  <2> SUFFICES ASSUME c # d PROVE FALSE
    OBVIOUS
  <2> DEFINE y == Sent(f.conn[d], k)
  <2>1. Touch(f, Commit(f, call, k, d), d, y)
    BY <1>4, CommitFact
  <2> HIDE DEF y
  <2>2. \A e \in Conns : e # d => Commit(f, call, k, d).conn[e] = f.conn[e]
    BY <1>4, <2>1, TouchFact
  <2>3. net'.conn[c].lane = net.conn[c].lane
    BY <1>4, <2>2
  <2>4. Len(net.conn[c].lane) \in Nat /\ Len(net.conn[c].lane) > Len(net.conn[c].lane)
    BY <1>1, <2>3
  <2> QED BY <2>4
<1>5. CASE PollSubmits(k)
  <2> DEFINE d == Claimed(net, call)
             f == Found(k)
  <2>1. Polled(k) /\ d # NoConn /\ net' = Commit(f, call, k, d)
    BY <1>5 DEF PollSubmits
  <2>2. /\ f \in Net /\ \A e \in Conns : f.conn[e].lane = net.conn[e].lane
        /\ d \in Conns /\ IsLive(net.conn[d].adm)
    BY <2>1, PollFact
  <2> HIDE DEF d, f
  <2>3. c = d
    BY <1>4, <2>1, <2>2
  <2> QED BY <1>1, <2>2, <2>3, LeaseFact DEF ConnsOK
<1>6. CASE DialSubmits(k)
  <2>1. PICK d \in Dialled(k) : net' = Commit(net, call, k, d)
    BY <1>6 DEF DialSubmits
  <2>2. d \in Conns /\ net.conn[d].dialer = k /\ k # NoCall
    BY ClientAssumption DEF Dialled
  <2>3. c = d
    BY <1>1, <1>4, <2>1, <2>2
  <2> QED BY <1>1, <2>2, <2>3, LeaseFact DEF ConnsOK
<1> QED BY <1>3, <1>5, <1>6

\* A request is written to a connection only while its lease lasts: the last response
\* allowed reuse, and the connection was quiet for less than the client's maximum and than
\* the peer's timeout less the margin (reuse.rs, Admission::claim).
THEOREM LeaseHonoured == Spec => LeaseKept
<1> DEFINE A == \A c \in Conns :
        LET x == net.conn[c]
        IN Len(net'.conn[c].lane) > Len(x.lane) =>
            /\ x.said.reusable
            /\ x.used => idle > 0
            /\ x.lane = <<>> /\ x.dialer = NoCall /\ idle > 0 =>
                  /\ x.quiet < idle
                  /\ x.said.timeout # NoHint => x.quiet + Margin < x.said.timeout
<1>1. IInv /\ [Next]_vars => [A]_vars
  <2> SUFFICES ASSUME IInv, Next PROVE A
    OBVIOUS
  <2>1. \A c \in Conns : Len(net'.conn[c].lane) > Len(net.conn[c].lane) => Leased(net.conn[c])
    BY GrowthLeased
  <2> QED BY <2>1 DEF Leased
<1>2. Spec => [][A]_vars
  BY <1>1, ClientInvariant, PTL DEF Spec
<1> QED BY <1>2 DEF LeaseKept
=============================================================================
