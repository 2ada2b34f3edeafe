--------------------------- MODULE H2SendFlowProof --------------------------
(***************************************************************************)
(* The send windows are exact, for any number of streams, windows of any   *)
(* size and output of any length.  The argument is a ledger: each of the   *)
(* two halves of a window is the peer's own window less what the queued    *)
(* frames stand for, so every operation on the output has to move both     *)
(* alike.  That a frame still fits when it arrives does not follow from    *)
(* the totals, because a SETTINGS acknowledged behind it may shrink the    *)
(* window below zero; Fits states it for every place in the queue.         *)
(***************************************************************************)
EXTENDS H2SendFlow, QueuesProof

-----------------------------------------------------------------------------
(* The frames of the output. *)

DataFrames == [kind : {"Buffered", "Retained"}, stream : Streams, n : Nat]
AckFrames  == [kind : {"Ack"}, stream : SUBSET Streams, n : Int]

Frame == DataFrames \cup AckFrames

\* What is reserved from the connection, and what is spent.
Lent == FramesOf("Retained", Streams)
Paid == FramesOf("Buffered", Streams)

\* The frames that draw on the window of s at the peer (Retained(s) among them), those
\* that have already been paid for, and the acknowledgements that move it.
Copied(s) == FramesOf("Buffered", {s})
Draws(s) == Retained(s) \cup Copied(s)
Moves(s) == FramesOf("Ack", Having(s))

\* Every frame has an amount.
LEMMA FramesCounted == Counted(Frame)
  BY DEF Counted, Frame, DataFrames, AckFrames

\* A DATA frame draws on its own stream and on the connection.
LEMMA DataWeight ==
    ASSUME NEW f \in DataFrames, NEW s \in Streams
    PROVE  /\ f.n \in Nat /\ f.stream \in Streams /\ f.kind \in {"Buffered", "Retained"}
           /\ Weight(f, Lent) = IF f.kind = "Retained" THEN f.n ELSE 0
           /\ Weight(f, Paid) = IF f.kind = "Retained" THEN 0 ELSE f.n
           /\ Weight(f, Retained(s)) = IF f.kind = "Retained" /\ f.stream = s THEN f.n ELSE 0
           /\ Weight(f, Copied(s)) = IF f.kind # "Retained" /\ f.stream = s THEN f.n ELSE 0
           /\ Weight(f, Draws(s)) = IF f.stream = s THEN f.n ELSE 0
           /\ Weight(f, Moves(s)) = 0
           /\ f \in Draws(s) <=> f.stream = s
           /\ f \notin Moves(s)
<1>1. /\ f.n \in Nat /\ f.stream \in Streams /\ f.kind \in {"Buffered", "Retained"}
      /\ f = [kind |-> f.kind, stream |-> f.stream, n |-> f.n]
  BY DEF DataFrames
<1>2. f \in Lent <=> f.kind = "Retained"
  BY <1>1 DEF Lent, FramesOf
<1>3. f \in Paid <=> f.kind = "Buffered"
  BY <1>1 DEF Paid, FramesOf
<1>4. f \in Retained(s) <=> f.kind = "Retained" /\ f.stream = s
  BY <1>1 DEF Retained, FramesOf
<1>5. f \in Copied(s) <=> f.kind = "Buffered" /\ f.stream = s
  BY <1>1 DEF Copied, FramesOf
<1>6. f \notin Moves(s)
  BY <1>1 DEF Moves, FramesOf
<1>7. f \in Draws(s) <=> f.stream = s
  BY <1>1, <1>4, <1>5 DEF Draws
<1> QED BY <1>1, <1>2, <1>3, <1>4, <1>5, <1>6, <1>7 DEF Weight

\* An acknowledgement moves the windows of the streams it names, and nothing else.
LEMMA AckWeight ==
    ASSUME NEW f \in AckFrames, NEW s \in Streams
    PROVE  /\ f.n \in Int /\ f.stream \in SUBSET Streams /\ f.kind = "Ack"
           /\ Weight(f, Lent) = 0 /\ Weight(f, Paid) = 0
           /\ Weight(f, Retained(s)) = 0 /\ Weight(f, Copied(s)) = 0
           /\ Weight(f, Draws(s)) = 0
           /\ Weight(f, Moves(s)) = IF s \in f.stream THEN f.n ELSE 0
           /\ f \notin Draws(s)
           /\ f \in Moves(s) <=> s \in f.stream
<1>1. /\ f.n \in Int /\ f.stream \in SUBSET Streams /\ f.kind = "Ack"
      /\ f = [kind |-> f.kind, stream |-> f.stream, n |-> f.n]
  BY DEF AckFrames
<1>2. f \notin Lent /\ f \notin Paid
  BY <1>1 DEF Lent, Paid, FramesOf
<1>3. f \notin Retained(s) /\ f \notin Copied(s)
  BY <1>1 DEF Retained, Copied, FramesOf
<1>4. f \in Moves(s) <=> s \in f.stream
  BY <1>1 DEF Moves, FramesOf, Having
<1>5. f \notin Draws(s)
  BY <1>3 DEF Draws
<1> QED BY <1>1, <1>2, <1>3, <1>4, <1>5 DEF Weight

\* The five totals of a queue, and how they add up.
LEMMA TotalsFact ==
    ASSUME NEW q \in Seq(Frame), NEW s \in Streams
    PROVE  /\ Amount(q, Lent) \in Nat /\ Amount(q, Paid) \in Nat
           /\ Amount(q, Retained(s)) \in Nat /\ Amount(q, Copied(s)) \in Nat
           /\ Amount(q, Moves(s)) \in Int
           /\ Amount(q, Draws(s)) = Amount(q, Retained(s)) + Amount(q, Copied(s))
<1>1. \A f \in Frame : f \in Lent \/ f \in Paid \/ f \in Retained(s) \/ f \in Copied(s) => f.n >= 0
  BY DEF Frame, DataFrames, AckFrames, Lent, Paid, Retained, Copied, FramesOf
<1>2. Amount(q, Lent) \in Nat /\ Amount(q, Paid) \in Nat
  BY <1>1, FramesCounted, AmountNat
<1>3. Amount(q, Retained(s)) \in Nat /\ Amount(q, Copied(s)) \in Nat
  BY <1>1, FramesCounted, AmountNat
<1>4. Amount(q, Moves(s)) \in Int
  BY FramesCounted, WeightsFact
<1>5. Retained(s) \cap Copied(s) = {}
  BY DEF Retained, Copied, FramesOf
<1>6. Amount(q, Draws(s)) = Amount(q, Retained(s)) + Amount(q, Copied(s))
  BY <1>5, FramesCounted, AmountSplit DEF Draws
<1> QED BY <1>2, <1>3, <1>4, <1>6

\* What is not counted adds nothing.
LEMMA AmountNothing ==
    ASSUME NEW q \in Seq(Frame)
    PROVE  Amount(q, {}) = 0
<1>1. Amount(q, {} \cup {}) = Amount(q, {}) + Amount(q, {}) /\ Amount(q, {}) \in Int
  BY FramesCounted, AmountSplit, WeightsFact
<1> QED BY <1>1

\* Retiring s gives back what s reserved and touches no other total (Retained::cancel).
LEMMA KeptTotals ==
    ASSUME NEW q \in Seq(Frame), NEW s \in Streams
    PROVE  /\ Drop(q, Retained(s)) \in Seq(Frame)
           /\ Amount(Drop(q, Retained(s)), Lent) = Amount(q, Lent) - Amount(q, Retained(s))
           /\ Amount(Drop(q, Retained(s)), Paid) = Amount(q, Paid)
           /\ \A t \in Streams :
                 /\ Amount(Drop(q, Retained(s)), Copied(t)) = Amount(q, Copied(t))
                 /\ Amount(Drop(q, Retained(s)), Moves(t)) = Amount(q, Moves(t))
                 /\ t # s => Amount(Drop(q, Retained(s)), Retained(t)) = Amount(q, Retained(t))
<1> DEFINE D == Retained(s)
           r == Drop(q, D)
<1>1. \A A : Amount(r, A) = Amount(q, A \ D)
  BY FramesCounted, DropAmount
<1>2. Lent = (Lent \ D) \cup D /\ (Lent \ D) \cap D = {}
  BY DEF Lent, Retained, FramesOf
<1>3. Amount(q, Lent) = Amount(q, Lent \ D) + Amount(q, D)
  BY <1>2, FramesCounted, AmountSplit
<1>4. Amount(q, Lent \ D) \in Int /\ Amount(q, D) \in Int
  BY FramesCounted, WeightsFact
<1>5. Paid \ D = Paid
  BY DEF Paid, Retained, FramesOf
<1>6. ASSUME NEW t \in Streams
      PROVE  Copied(t) \ D = Copied(t) /\ Moves(t) \ D = Moves(t) /\ (t # s => Retained(t) \ D = Retained(t))
  BY DEF Copied, Moves, Retained, FramesOf
<1>7. r \in Seq(Frame)
  BY DropFact
<1> HIDE DEF r, D
<1>8. Amount(r, Lent) = Amount(q, Lent) - Amount(q, D) /\ Amount(r, Paid) = Amount(q, Paid)
  BY <1>1, <1>3, <1>4, <1>5
<1>9. \A t \in Streams :
         /\ Amount(r, Copied(t)) = Amount(q, Copied(t))
         /\ Amount(r, Moves(t)) = Amount(q, Moves(t))
         /\ t # s => Amount(r, Retained(t)) = Amount(q, Retained(t))
  BY <1>1, <1>6
<1> QED BY <1>7, <1>8, <1>9 DEF r, D

\* Closing the connection gives back every reservation (Transfer::discard).
LEMMA ClosedTotals ==
    ASSUME NEW q \in Seq(Frame)
    PROVE  /\ Drop(q, Lent) \in Seq(Frame)
           /\ Amount(Drop(q, Lent), Lent) = 0
           /\ Amount(Drop(q, Lent), Paid) = Amount(q, Paid)
           /\ \A t \in Streams :
                 /\ Amount(Drop(q, Lent), Copied(t)) = Amount(q, Copied(t))
                 /\ Amount(Drop(q, Lent), Moves(t)) = Amount(q, Moves(t))
                 /\ Amount(Drop(q, Lent), Retained(t)) = 0
<1> DEFINE D == Lent
           r == Drop(q, D)
<1>1. \A A : Amount(r, A) = Amount(q, A \ D)
  BY FramesCounted, DropAmount
<1>2. Lent \ D = {} /\ Paid \ D = Paid
  BY DEF Lent, Paid, FramesOf
<1>3. ASSUME NEW t \in Streams
      PROVE  Copied(t) \ D = Copied(t) /\ Moves(t) \ D = Moves(t) /\ Retained(t) \ D = {}
  BY DEF Copied, Moves, Retained, FramesOf, Lent
<1>4. r \in Seq(Frame)
  BY DropFact
<1>5. Amount(q, {}) = 0
  BY AmountNothing
<1> HIDE DEF r, D
<1>6. Amount(r, Lent) = 0 /\ Amount(r, Paid) = Amount(q, Paid)
  BY <1>1, <1>2, <1>5
<1>7. \A t \in Streams :
         /\ Amount(r, Copied(t)) = Amount(q, Copied(t))
         /\ Amount(r, Moves(t)) = Amount(q, Moves(t))
         /\ Amount(r, Retained(t)) = 0
  BY <1>1, <1>3, <1>5
<1> QED BY <1>4, <1>6, <1>7 DEF r, D

\* Dropping reservations makes no queued frame of any stream fit less.
LEMMA DroppedFits ==
    ASSUME NEW q \in Seq(Frame), NEW D \in SUBSET Lent, NEW t \in Streams, NEW w \in Int,
           Fits(q, w, Moves(t), Draws(t))
    PROVE  Fits(Drop(q, D), w, Moves(t), Draws(t))
<1>1. D \cap Moves(t) = {}
  BY DEF Lent, Moves, FramesOf
<1>2. \A f \in Frame \cap Draws(t) : f.n >= 0
  BY DataWeight, AckWeight DEF Frame
<1> QED BY <1>1, <1>2, FramesCounted, FitsDrop

-----------------------------------------------------------------------------
(* The inductive invariant. *)

Typed ==
    /\ conn \in Windows /\ win \in [Streams -> Windows]
    /\ state \in [Streams -> States]
    /\ initial \in 0 .. MaxWindow
    /\ opened \in {"Idle", "Ready"}
    /\ out \in Seq(Frame)
    /\ waiting \subseteq Streams
    /\ phase \in {"open", "failed", "closed"}
    /\ peerConn \in Int /\ peerWin \in [Streams -> Int]

\* A stream that has not been opened is in no frame.
Unnamed(q, s) == Elements(q) \cap (Draws(s) \cup Moves(s)) = {}

\* The connection's account: what is reserved, and what the peer holds against it.
ConnBooked ==
    /\ conn.value >= 0 /\ conn.committed <= MaxWindow
    /\ conn.committed - conn.value = Amount(out, Lent)
    /\ conn.committed = peerConn - Amount(out, Paid)

\* A stream's account with the frames q, in state st: its value v and committed credit c
\* against the peer's window p.
Booked(q, s, st, v, c, p) ==
    IF st \in {"Idle", "Closed"}
    THEN v = 0 /\ c = 0
    ELSE /\ v >= MinWindow /\ c <= MaxWindow
         /\ c - v = Amount(q, Retained(s))
         /\ c = p - Amount(q, Copied(s)) + Amount(q, Moves(s))

\* Everything about stream s.
StreamExact(s) ==
    /\ state[s] = "Idle" => Unnamed(out, s)
    /\ Booked(out, s, state[s], win[s].value, win[s].committed, peerWin[s])
    /\ Fits(out, peerWin[s], Moves(s), Draws(s))

IInv ==
    /\ Typed
    /\ ConnBooked
    /\ \A s \in Streams : StreamExact(s)
    /\ NoLostConnWake

\* The windows of the accounts are in range because nothing queued counts negative.
LEMMA InvariantSays ==
    ASSUME IInv
    PROVE  CreditExact
<1> USE FlowAssumption
<1>1. /\ Amount(out, Lent) \in Nat /\ conn.value \in Int /\ conn.committed \in Int
      /\ \A s \in Streams : Amount(out, Retained(s)) \in Nat /\ win[s].value \in Int /\ win[s].committed \in Int
  <2>1. SUFFICES ASSUME Streams = {} PROVE Amount(out, Lent) \in Nat
    BY TotalsFact DEF IInv, Typed, Windows
  <2>2. \A f \in Frame \cap Lent : f.n >= 0
    BY <2>1 DEF Frame, DataFrames, AckFrames, Lent, FramesOf
  <2> QED BY <2>2, FramesCounted, AmountNat DEF IInv, Typed
<1>2. InRange(conn) /\ conn.value >= 0
  BY <1>1 DEF IInv, ConnBooked, InRange
<1>3. ASSUME NEW s \in Streams PROVE InRange(win[s])
  BY <1>1 DEF IInv, StreamExact, Booked, InRange, NoWindow, With
<1>4. TypeOK
  BY <1>2, <1>3 DEF IInv, Typed, TypeOK
<1>5. ReservationsExact
  BY DEF IInv, ConnBooked, StreamExact, Booked, ReservationsExact, Total, Lent, Retained, IsActive
<1>6. PeerAgrees
  BY DEF IInv, ConnBooked, StreamExact, Booked, PeerAgrees, Total, Paid, Copied, Moves, IsActive
<1> QED BY <1>4, <1>5, <1>6 DEF CreditExact

\* At the start nothing is queued.
LEMMA InitInvariant ==
    ASSUME Init
    PROVE  IInv
<1> USE FlowAssumption
<1>1. Typed
  BY DEF Init, Typed, With, NoWindow, Windows, States
<1>2. ConnBooked
  BY AmountEmpty DEF Init, ConnBooked, With
<1>3. ASSUME NEW s \in Streams PROVE StreamExact(s)
  BY DEF Init, StreamExact, Unnamed, Elements, Booked, Fits, NoWindow, With
<1>4. NoLostConnWake
  BY DEF Init, NoLostConnWake
<1> QED BY <1>1, <1>2, <1>3, <1>4 DEF IInv

\* An active stream's account stays in order when both halves of its window, the peer's
\* window and what is queued move by amounts that agree.
LEMMA Rebooked ==
    ASSUME NEW q \in Seq(Frame), NEW r \in Seq(Frame), NEW s \in Streams, NEW st, NEW next,
           st \notin {"Idle", "Closed"}, next \notin {"Idle", "Closed"},
           NEW v \in Int, NEW c \in Int, NEW p \in Int, Booked(q, s, st, v, c, p),
           NEW w \in Int, NEW d \in Int, NEW o \in Int, w >= MinWindow, d <= MaxWindow,
           (d - w) - (c - v) = Amount(r, Retained(s)) - Amount(q, Retained(s)),
           d - c = (o - p) - (Amount(r, Copied(s)) - Amount(q, Copied(s)))
                   + (Amount(r, Moves(s)) - Amount(q, Moves(s)))
    PROVE  Booked(r, s, next, w, d, o)
<1> DEFINE A == Amount(r, Retained(s))
           B == Amount(r, Copied(s))
           C == Amount(r, Moves(s))
           X == Amount(q, Retained(s))
           Y == Amount(q, Copied(s))
           Z == Amount(q, Moves(s))
<1>1. A \in Int /\ B \in Int /\ C \in Int /\ X \in Int /\ Y \in Int /\ Z \in Int
  BY TotalsFact
<1>2. c - v = X /\ c = p - Y + Z
  BY DEF Booked
<1>3. (d - w) - (c - v) = A - X /\ d - c = (o - p) - (B - Y) + (C - Z)
  OBVIOUS
<1> HIDE DEF A, B, C, X, Y, Z
<1>4. d - w = A /\ d = o - B + C
  BY <1>1, <1>2, <1>3
<1> QED BY <1>4 DEF Booked, A, B, C

-----------------------------------------------------------------------------
(* Frames from the peer. *)

\* A stream that is opened finds no frame of its own in the output.
LEMMA OpenStep ==
    ASSUME IInv, NEW s \in Streams, NEW b \in Boundaries, Open(s, b)
    PROVE  IInv'
<1> USE FlowAssumption
<1>1. Typed'
  BY DEF IInv, Typed, Open, OpenRemote, States, With, Windows
<1>2. ConnBooked' /\ NoLostConnWake'
  BY DEF IInv, ConnBooked, NoLostConnWake, Open
<1>3. ASSUME NEW t \in Streams, t # s PROVE StreamExact(t)'
  BY <1>3 DEF IInv, Typed, StreamExact, Open
<1>4. StreamExact(s)'
  <2>1. out \in Seq(Frame) /\ initial \in 0 .. MaxWindow
    BY DEF IInv, Typed
  <2>2. \A f \in Elements(out) : f \notin Retained(s) /\ f \notin Copied(s) /\ f \notin Moves(s)
    BY DEF IInv, StreamExact, Unnamed, Open, Draws
  <2>3. Amount(out, Retained(s)) = 0 /\ Amount(out, Copied(s)) = 0 /\ Amount(out, Moves(s)) = 0
    <3>1. Amount(out, Retained(s)) = Amount(out, {})
      BY <2>1, <2>2, AmountSame
    <3>2. Amount(out, Copied(s)) = Amount(out, {})
      BY <2>1, <2>2, AmountSame
    <3>3. Amount(out, Moves(s)) = Amount(out, {})
      BY <2>1, <2>2, AmountSame
    <3> QED BY <2>1, <3>1, <3>2, <3>3, AmountNothing
  <2>4. Fits(out, initial, Moves(s), Draws(s))
    BY <2>1, <2>2 DEF Fits, Elements, Draws
  <2>5. /\ out' = out /\ state'[s] # "Idle" /\ win'[s] = With(initial) /\ peerWin'[s] = initial
    BY DEF IInv, Typed, Open, OpenRemote
  <2>6. Booked(out, s, state'[s], initial, initial, initial)
    BY <2>1, <2>3, FlowAssumption DEF Booked, Open, OpenRemote, IInv, Typed
  <2>7. With(initial).value = initial /\ With(initial).committed = initial
    BY DEF With
  <2> QED BY <2>4, <2>5, <2>6, <2>7 DEF StreamExact
<1> QED BY <1>1, <1>2, <1>3, <1>4 DEF IInv

\* The next state of an active stream after DATA is a state, and not an unopened one.
LEMMA DataStates ==
    ASSUME NEW st \in States, st \notin {"Idle", "Closed"}, NEW b
    PROVE  Send(st, "Data", b) # "Idle" /\ Recv(st, "Data", b) # "Idle"
  BY DEF States, Send, Recv, Directional

\* The peer's END_STREAM: the stream moves on, or leaves with its window.
LEMMA PeerEndStep ==
    ASSUME IInv, NEW s \in Streams, PeerEnd(s)
    PROVE  IInv'
<1> DEFINE next == Recv(state[s], "Data", "End")
<1>1. /\ state \in [Streams -> States] /\ win \in [Streams -> Windows]
      /\ state[s] \notin {"Idle", "Closed"} /\ next \in States
      /\ state' = [state EXCEPT ![s] = next]
      /\ win' = [win EXCEPT ![s] = IF next = "Closed" THEN NoWindow ELSE win[s]]
      /\ UNCHANGED <<conn, initial, opened, out, waiting, phase, peerConn, peerWin, changes>>
  BY DEF IInv, Typed, PeerEnd, IsActive, Advance
<1>2. next # "Idle"
  <2>1. state[s] \in States
    BY <1>1
  <2> QED BY <1>1, <2>1, DataStates
<1> HIDE DEF next
<1>3. Typed'
  BY <1>1 DEF IInv, Typed, NoWindow, With, Windows
<1>4. ConnBooked' /\ NoLostConnWake'
  BY <1>1 DEF IInv, ConnBooked, NoLostConnWake
<1>5. ASSUME NEW t \in Streams PROVE StreamExact(t)'
  <2>1. StreamExact(t)
    BY DEF IInv
  <2>2. CASE t # s
    BY <1>1, <2>1, <2>2 DEF StreamExact
  <2>3. CASE t = s /\ next = "Closed"
    BY <1>1, <2>1, <2>3 DEF StreamExact, Booked, NoWindow, With
  <2>4. CASE t = s /\ next # "Closed"
    BY <1>1, <1>2, <2>1, <2>4 DEF StreamExact, Booked
  <2> QED BY <2>2, <2>3, <2>4
<1> QED BY <1>3, <1>4, <1>5 DEF IInv

\* A connection WINDOW_UPDATE widens our window and the peer's, and wakes who waited.
LEMMA ConnUpdateStep ==
    ASSUME IInv, NEW inc \in Grants, ConnUpdate(inc)
    PROVE  IInv'
<1>1. inc \in Nat
  BY SendAssumption, FlowAssumption
<1>2. Typed'
  BY <1>1 DEF IInv, Typed, ConnUpdate, Shift, Windows, Unblocked
<1>3. ASSUME NEW t \in Streams PROVE StreamExact(t)'
  BY DEF IInv, StreamExact, ConnUpdate
<1>4. ConnBooked'
  <2>1. Amount(out, Lent) \in Int /\ Amount(out, Paid) \in Int
    BY FramesCounted, WeightsFact DEF IInv, Typed
  <2>2. CASE CanIncrease(conn, inc)
    BY <1>1, <2>1, <2>2 DEF IInv, Typed, ConnBooked, ConnUpdate, Shift, CanIncrease, Windows
  <2>3. CASE ~CanIncrease(conn, inc)
    BY <2>3 DEF IInv, ConnBooked, ConnUpdate
  <2> QED BY <2>2, <2>3
<1>5. NoLostConnWake'
  BY DEF IInv, NoLostConnWake, ConnUpdate, Unblocked
<1> QED BY <1>2, <1>3, <1>4, <1>5 DEF IInv

\* A stream WINDOW_UPDATE gives more room to every frame already queued.
LEMMA StreamUpdateStep ==
    ASSUME IInv, NEW s \in Streams, NEW inc \in Grants, StreamUpdate(s, inc)
    PROVE  IInv'
<1>1. inc \in Nat
  BY SendAssumption, FlowAssumption
<1>2. Typed'
  <2>1. Shift(win[s], inc) \in Windows /\ peerWin[s] + inc \in Int
    BY <1>1 DEF IInv, Typed, Shift, Windows
  <2> QED BY <2>1 DEF IInv, Typed, StreamUpdate
<1>3. ConnBooked' /\ NoLostConnWake'
  BY DEF IInv, ConnBooked, NoLostConnWake, StreamUpdate
<1>4. CASE CanIncrease(win[s], inc)
  <2>1. ASSUME NEW t \in Streams, t # s PROVE StreamExact(t)'
    BY <1>4, <2>1 DEF IInv, Typed, StreamExact, StreamUpdate
  <2>2. /\ out \in Seq(Frame) /\ out' = out /\ state' = state /\ state[s] \notin {"Idle", "Closed"}
        /\ win[s] \in Windows /\ win'[s] = Shift(win[s], inc)
        /\ peerWin[s] \in Int /\ peerWin'[s] = peerWin[s] + inc
    BY <1>4 DEF IInv, Typed, StreamUpdate, IsActive
  <2>3. /\ Booked(out, s, state[s], win[s].value, win[s].committed, peerWin[s]) /\ Fits(out, peerWin[s], Moves(s), Draws(s))
    BY DEF IInv, StreamExact
  <2>4. Fits(out, peerWin[s] + inc, Moves(s), Draws(s))
    BY <1>1, <2>2, <2>3, FramesCounted, FitsMore
  <2> DEFINE v == win[s].value
             c == win[s].committed
             p == peerWin[s]
  <2>5. v \in Int /\ c \in Int /\ p \in Int /\ v + inc >= MinWindow /\ c + inc <= MaxWindow
    BY <1>1, <1>4, <2>2, <2>3, FlowAssumption DEF Booked, CanIncrease, Windows
  <2>6. Booked(out, s, state[s], v + inc, c + inc, p + inc)
    <3> HIDE DEF v, c, p
    <3>1. Booked(out, s, state[s], v, c, p)
      BY <2>3 DEF v, c, p
    <3> QED BY <1>1, <2>2, <2>5, <3>1, TotalsFact, Rebooked, SMTT(30)
  <2>7. win'[s].value = v + inc /\ win'[s].committed = c + inc
    BY <2>2 DEF Shift
  <2>8. StreamExact(s)'
    BY <2>2, <2>4, <2>6, <2>7 DEF StreamExact
  <2> QED BY <1>2, <1>3, <2>1, <2>8 DEF IInv
<1>5. CASE ~CanIncrease(win[s], inc)
  BY <1>2, <1>3, <1>5 DEF IInv, StreamExact, StreamUpdate
<1> QED BY <1>4, <1>5

\* SETTINGS moves the windows of the active streams by as much as its acknowledgement
\* tells the peer, and comes after every frame already queued.
LEMMA SettingsStep ==
    ASSUME IInv, NEW size \in Sizes, Settings(size)
    PROVE  IInv'
<1> DEFINE delta == size - initial
           active == {s \in Streams : IsActive(s)}
           f == Ack(active, delta)
<1>1. /\ out \in Seq(Frame) /\ initial \in Int /\ size \in 0 .. MaxWindow /\ delta \in Int
      /\ active \in SUBSET Streams /\ MaxWindow \in Int /\ MinWindow \in Int
  BY SendAssumption, FlowAssumption DEF IInv, Typed
<1>2. CASE ~\A s \in active : CanAdjust(win[s], delta)
  <2>1. /\ UNCHANGED <<win, initial, out, conn, state, opened, waiting, peerConn, peerWin>>
        /\ phase' = "failed"
    BY <1>2 DEF Settings
  <2> QED BY <2>1 DEF IInv, Typed, ConnBooked, StreamExact, NoLostConnWake
<1>3. CASE \A s \in active : CanAdjust(win[s], delta)
  <2>1. /\ win' = [s \in Streams |-> IF s \in active THEN Shift(win[s], delta) ELSE win[s]]
        /\ initial' = size /\ out' = Append(out, f)
        /\ UNCHANGED <<phase, conn, state, opened, waiting, peerConn, peerWin>>
    BY <1>3 DEF Settings, Adjusted
  <2>2. f \in AckFrames /\ f.n = delta /\ f.stream = active
    BY <1>1 DEF Ack, AckFrames
  <2>3. f \in Frame
    BY <2>2 DEF Frame
  <2> HIDE DEF f
  <2>4. out' \in Seq(Frame)
    BY <1>1, <2>1, <2>3
  <2>5. \A S : Amount(out', S) = Amount(out, S) + Weight(f, S)
    BY <1>1, <2>1, <2>3, FramesCounted, AmountAppend
  <2>6. Typed'
    <3>1. \A s \in Streams : Shift(win[s], delta) \in Windows
      BY <1>1 DEF IInv, Typed, Shift, Windows
    <3>2. win' \in [Streams -> Windows]
      BY <2>1, <3>1 DEF IInv, Typed
    <3> QED BY <1>1, <2>1, <2>4, <3>2 DEF IInv, Typed
  <2>7. ConnBooked' /\ NoLostConnWake'
    <3>1. Weight(f, Lent) = 0 /\ Weight(f, Paid) = 0
      <4>1. f.kind = "Ack"
        BY <2>2 DEF AckFrames
      <4> QED BY <4>1 DEF Weight, Lent, Paid, FramesOf
    <3>2. Amount(out, Lent) \in Int /\ Amount(out, Paid) \in Int
      BY <1>1, FramesCounted, WeightsFact
    <3>3. Amount(out', Lent) = Amount(out, Lent) /\ Amount(out', Paid) = Amount(out, Paid)
      BY <2>5, <3>1, <3>2
    <3> QED BY <2>1, <3>3 DEF IInv, ConnBooked, NoLostConnWake
  <2>8. ASSUME NEW s \in Streams PROVE StreamExact(s)'
    <3> DEFINE p == peerWin[s]
               v == win[s].value
               c == win[s].committed
    <3>1. StreamExact(s)
      BY DEF IInv
    <3>2. /\ Weight(f, Retained(s)) = 0 /\ Weight(f, Copied(s)) = 0 /\ f \notin Draws(s)
          /\ Weight(f, Moves(s)) = IF s \in active THEN delta ELSE 0
          /\ f \in Moves(s) <=> s \in active
      BY <2>2, AckWeight
    <3>3. p \in Int /\ v \in Int /\ c \in Int
      BY DEF IInv, Typed, Windows
    <3>4. Amount(out, Retained(s)) \in Int /\ Amount(out, Copied(s)) \in Int /\ Amount(out, Moves(s)) \in Int
      BY <1>1, TotalsFact
    <3>5. Fits(out', p, Moves(s), Draws(s))
      BY <1>1, <2>1, <2>3, <3>1, <3>2, <3>3, FramesCounted, FitsAppend DEF StreamExact
    <3>6. state[s] = "Idle" => Unnamed(out', s)
      BY <1>1, <2>1, <2>3, <3>1, <3>2, AppendFact DEF StreamExact, Unnamed, IsActive
    <3>7. CASE s \notin active
      <4>1. state[s] \in {"Idle", "Closed"} /\ win'[s] = win[s]
        BY <2>1, <3>7 DEF IsActive
      <4> QED BY <2>1, <3>1, <3>5, <3>6, <4>1 DEF StreamExact, Booked
    <3>8. CASE s \in active
      <4>1. /\ state[s] \notin {"Idle", "Closed"} /\ win'[s] = Shift(win[s], delta)
            /\ v + delta >= MinWindow /\ c + delta <= MaxWindow
        BY <1>3, <2>1, <3>8 DEF IsActive, CanAdjust
      <4>2. Booked(out, s, state[s], v, c, p)
        BY <3>1 DEF StreamExact
      <4>3. /\ Amount(out', Retained(s)) = Amount(out, Retained(s))
            /\ Amount(out', Copied(s)) = Amount(out, Copied(s))
            /\ Amount(out', Moves(s)) = Amount(out, Moves(s)) + delta
        BY <1>1, <2>5, <3>2, <3>4, <3>8
      <4>4. win'[s].value = v + delta /\ win'[s].committed = c + delta
        BY <4>1 DEF Shift
      <4> HIDE DEF p, v, c, delta, active
      <4>5. Booked(out', s, state[s], v + delta, c + delta, p)
        <5> DEFINE q == out
                   r == out'
                   a == v + delta
                   b == c + delta
        <5>1. a \in Int /\ b \in Int /\ a >= MinWindow /\ b <= MaxWindow /\ q \in Seq(Frame) /\ r \in Seq(Frame)
          BY <1>1, <2>4, <3>3, <4>1
        <5>2. /\ (b - a) - (c - v) = Amount(r, Retained(s)) - Amount(q, Retained(s))
              /\ b - c = (p - p) - (Amount(r, Copied(s)) - Amount(q, Copied(s)))
                         + (Amount(r, Moves(s)) - Amount(q, Moves(s)))
          BY <1>1, <3>3, <3>4, <4>3
        <5>3. Booked(q, s, state[s], v, c, p)
          BY <4>2
        <5> HIDE DEF q, r, a, b
        <5>4. Booked(r, s, state[s], a, b, p)
          BY <3>3, <4>1, <5>1, <5>2, <5>3, Rebooked
        <5> QED BY <5>4 DEF r, a, b
      <4> QED BY <2>1, <3>5, <3>6, <4>4, <4>5 DEF StreamExact, p
    <3> QED BY <3>7, <3>8
  <2> QED BY <2>6, <2>7, <2>8 DEF IInv
<1> QED BY <1>2, <1>3

-----------------------------------------------------------------------------
(* The application. *)

\* What is admitted is covered by both windows.
LEMMA AdmittedFact ==
    ASSUME IInv, NEW s \in Streams, NEW len \in Nat
    PROVE  /\ Admitted(s, len) \in Nat /\ Admitted(s, len) <= conn.value
           /\ Admitted(s, len) > 0 => Admitted(s, len) <= win[s].value
<1>1. conn.value \in Int /\ conn.value >= 0 /\ win[s].value \in Int
  BY DEF IInv, Typed, Windows, ConnBooked
<1> QED BY <1>1 DEF Admitted, DebitUpTo, Least, Most, Available

\* DATA is reserved or spent, alike in the totals and in the two windows.
LEMMA SendDataStep ==
    ASSUME IInv, NEW s \in Streams, NEW len \in Nat, NEW b, NEW k \in {"Buffered", "Retained"},
           SendData(s, len, b, k)
    PROVE  IInv'
<1> DEFINE n == Admitted(s, len)
           last == IF n = len THEN b ELSE "More"
           next == Send(state[s], "Data", last)
           f == Data(k, s, n)
<1>1. /\ conn' = Debit(conn, n, k)
      /\ Advance(s, next, Debit(win[s], n, k))
      /\ out' = Append(out, f)
      /\ UNCHANGED <<initial, opened, waiting, phase, peerConn, peerWin>>
      /\ IsActive(s) /\ next \in States
  BY DEF SendData
<1>2. next # "Idle"
  <2>1. state[s] \in States /\ state[s] \notin {"Idle", "Closed"}
    BY <1>1 DEF IInv, Typed, IsActive
  <2> QED BY <2>1, DataStates
<1>3. n \in Nat /\ n <= conn.value /\ (n > 0 => n <= win[s].value)
  BY AdmittedFact
<1>4. f \in DataFrames /\ f.n = n /\ f.stream = s /\ f.kind = k
  BY <1>3 DEF DataFrames, Data
<1>5. f \in Frame
  BY <1>4 DEF Frame
<1>6. /\ out \in Seq(Frame) /\ win[s] \in Windows /\ conn \in Windows /\ peerConn \in Int
      /\ MaxWindow \in Int /\ MinWindow \in Int /\ MinWindow < 0 /\ MaxWindow >= 0
      /\ state \in [Streams -> States] /\ win \in [Streams -> Windows] /\ peerWin \in [Streams -> Int]
  BY FlowAssumption DEF IInv, Typed
<1> HIDE DEF n, f, next
<1>7. out' \in Seq(Frame)
  BY <1>1, <1>5, <1>6
<1>8. \A S : Amount(out', S) = Amount(out, S) + Weight(f, S)
  BY <1>1, <1>5, <1>6, FramesCounted, AmountAppend
<1>9. ASSUME NEW w \in Windows
      PROVE  /\ Debit(w, n, k) \in Windows /\ w.value \in Int /\ w.committed \in Int
             /\ Debit(w, n, k).value = w.value - n
             /\ Debit(w, n, k).committed = IF k = "Retained" THEN w.committed ELSE w.committed - n
  BY <1>3 DEF Windows, Debit, Reserve, Spend, Shift
<1>10. Typed'
  <2>1. conn' \in Windows /\ Debit(win[s], n, k) \in Windows /\ NoWindow \in Windows
    BY <1>1, <1>6, <1>9 DEF NoWindow, With, Windows
  <2> QED BY <1>1, <1>6, <1>7, <2>1 DEF IInv, Typed, Advance
<1>11. ConnBooked' /\ NoLostConnWake'
  <2> DEFINE v == conn.value
             c == conn.committed
             L == Amount(out, Lent)
             P == Amount(out, Paid)
  <2>1. v \in Int /\ c \in Int /\ L \in Int /\ P \in Int
    BY <1>6, <1>9, FramesCounted, WeightsFact
  <2>2. v >= 0 /\ c <= MaxWindow /\ c - v = L /\ c = peerConn - P
    BY DEF IInv, ConnBooked
  <2>3. conn'.value = v - n /\ conn'.committed = IF k = "Retained" THEN c ELSE c - n
    BY <1>1, <1>6, <1>9
  <2>4. /\ Amount(out', Lent) = IF k = "Retained" THEN L + n ELSE L
        /\ Amount(out', Paid) = IF k = "Retained" THEN P ELSE P + n
    BY <1>3, <1>4, <1>8, <2>1, DataWeight
  <2>5. NoLostConnWake'
    <3>1. Available(conn') # 0 => Available(conn) # 0
      BY <1>3, <2>1, <2>3 DEF Available, Most
    <3> QED BY <1>1, <3>1 DEF IInv, NoLostConnWake
  <2>6. v - n >= 0
    BY <1>3, <2>1
  <2> HIDE DEF v, c, L, P
  <2>7. CASE k = "Retained"
    <3>1. c - (v - n) = L + n
      BY <1>3, <2>1, <2>2
    <3> QED BY <1>1, <2>2, <2>3, <2>4, <2>5, <2>6, <2>7, <3>1 DEF ConnBooked
  <2>8. CASE k # "Retained"
    <3>1. (c - n) - (v - n) = L /\ c - n = peerConn - (P + n) /\ c - n <= MaxWindow
      BY <1>3, <1>6, <2>1, <2>2
    <3> QED BY <1>1, <2>3, <2>4, <2>5, <2>6, <2>8, <3>1 DEF ConnBooked
  <2> QED BY <2>7, <2>8
<1>12. ASSUME NEW t \in Streams, t # s PROVE StreamExact(t)'
  <2>1. StreamExact(t) /\ peerWin[t] \in Int
    BY DEF IInv, Typed
  <2>2. /\ Weight(f, Retained(t)) = 0 /\ Weight(f, Copied(t)) = 0 /\ Weight(f, Moves(t)) = 0
        /\ f \notin Draws(t) /\ f \notin Moves(t)
    BY <1>4, <1>12, DataWeight
  <2>3. Amount(out, Retained(t)) \in Int /\ Amount(out, Copied(t)) \in Int /\ Amount(out, Moves(t)) \in Int
    BY <1>6, TotalsFact
  <2>4. /\ Amount(out', Retained(t)) = Amount(out, Retained(t))
        /\ Amount(out', Copied(t)) = Amount(out, Copied(t))
        /\ Amount(out', Moves(t)) = Amount(out, Moves(t))
    BY <1>8, <2>2, <2>3
  <2>5. Fits(out', peerWin[t], Moves(t), Draws(t))
    BY <1>1, <1>5, <1>6, <2>1, <2>2, FramesCounted, FitsAppend DEF StreamExact
  <2>6. state[t] = "Idle" => Unnamed(out', t)
    BY <1>1, <1>5, <1>6, <2>1, <2>2, AppendFact DEF StreamExact, Unnamed
  <2>7. state'[t] = state[t] /\ win'[t] = win[t] /\ peerWin' = peerWin
    BY <1>1, <1>6, <1>12 DEF Advance
  <2> QED BY <2>1, <2>4, <2>5, <2>6, <2>7 DEF StreamExact, Booked
<1>13. StreamExact(s)'
  <2> DEFINE v == win[s].value
             c == win[s].committed
             p == peerWin[s]
             R == Amount(out, Retained(s))
             C == Amount(out, Copied(s))
             M == Amount(out, Moves(s))
  <2>1. StreamExact(s)
    BY DEF IInv
  <2>2. /\ v \in Int /\ c \in Int /\ p \in Int /\ R \in Int /\ C \in Int /\ M \in Int
        /\ Amount(out, Draws(s)) = R + C
    BY <1>6, <1>9, TotalsFact
  <2>3. c - v = R /\ c = p - C + M /\ v >= MinWindow /\ c <= MaxWindow
    BY <1>1, <2>1 DEF StreamExact, Booked, IsActive
  <2>4. /\ Weight(f, Moves(s)) = 0
        /\ Weight(f, Retained(s)) = IF k = "Retained" THEN n ELSE 0
        /\ Weight(f, Copied(s)) = IF k = "Retained" THEN 0 ELSE n
    BY <1>4, DataWeight
  <2>5. /\ Amount(out', Retained(s)) = IF k = "Retained" THEN R + n ELSE R
        /\ Amount(out', Copied(s)) = IF k = "Retained" THEN C ELSE C + n
        /\ Amount(out', Moves(s)) = M
    BY <1>3, <1>8, <2>2, <2>4
  <2>6. state'[s] = next /\ next \notin {"Idle"} /\ peerWin'[s] = p
        /\ win'[s] = IF next = "Closed" THEN NoWindow ELSE Debit(win[s], n, k)
    BY <1>1, <1>2, <1>6 DEF Advance
  <2>7. /\ Debit(win[s], n, k).value = v - n
        /\ Debit(win[s], n, k).committed = IF k = "Retained" THEN c ELSE c - n
    BY <1>6, <1>9
  <2>8. Fits(out, p, Moves(s), Draws(s)) /\ (n > 0 => n <= v)
    BY <1>3, <2>1 DEF StreamExact
  <2> HIDE DEF v, c, p, R, C, M
  <2>9. Fits(out', p, Moves(s), Draws(s))
    <3>1. n > 0 => p + M + 0 - ((R + C) + n) >= 0
      BY <1>3, <2>2, <2>3, <2>8
    <3>2. f.n > 0 => p + Amount(out, Moves(s)) + Weight(f, Moves(s)) - (Amount(out, Draws(s)) + f.n) >= 0
      BY <1>4, <2>2, <2>4, <3>1 DEF M
    <3> QED BY <1>1, <1>5, <1>6, <2>2, <2>8, <3>2, FramesCounted, FitsAppend
  <2>10. v - n >= MinWindow
    BY <1>3, <1>6, <2>2, <2>3, <2>8
  <2>11. CASE next = "Closed"
    BY <2>6, <2>9, <2>11 DEF StreamExact, Booked, NoWindow, With, p
  <2>12. CASE next # "Closed" /\ k = "Retained"
    <3>1. c - (v - n) = R + n /\ c = p - C + M
      BY <1>3, <2>2, <2>3
    <3>2. Booked(out', s, next, v - n, c, p)
      BY <2>3, <2>5, <2>6, <2>10, <2>12, <3>1 DEF Booked
    <3> QED BY <2>6, <2>7, <2>9, <2>12, <3>2 DEF StreamExact, p
  <2>13. CASE next # "Closed" /\ k # "Retained"
    <3>1. (c - n) - (v - n) = R /\ c - n = p - (C + n) + M /\ c - n <= MaxWindow
      BY <1>3, <1>6, <2>2, <2>3
    <3>2. Booked(out', s, next, v - n, c - n, p)
      BY <2>5, <2>6, <2>10, <2>13, <3>1 DEF Booked
    <3> QED BY <2>6, <2>7, <2>9, <2>13, <3>2 DEF StreamExact, p
  <2> QED BY <2>11, <2>12, <2>13
<1> QED BY <1>10, <1>11, <1>12, <1>13 DEF IInv

\* A wake is owed or taken; the accounts are left alone.
LEMMA WakeStep ==
    ASSUME IInv, PollWake \/ \E s \in Streams : Blocked(s)
    PROVE  IInv'
<1>1. UNCHANGED <<conn, win, state, initial, out, phase, peerConn, peerWin>>
  BY DEF PollWake, Blocked
<1>2. Typed' /\ NoLostConnWake'
  BY <1>1 DEF IInv, Typed, NoLostConnWake, PollWake, Blocked
<1> QED BY <1>1, <1>2 DEF IInv, ConnBooked, StreamExact

\* Reserved::cancel_one moves one half of the window.
LEMMA CancelFact ==
    ASSUME NEW w \in Windows, NEW n \in Nat
    PROVE  Cancel(w, n) \in Windows /\ Cancel(w, n).value = w.value + n /\ Cancel(w, n).committed = w.committed
  BY DEF Cancel, Windows

\* A reset returns what the stream reserved to the connection, and the stream leaves.
LEMMA ResetStep ==
    ASSUME IInv, NEW s \in Streams, Reset(s)
    PROVE  IInv'
<1> DEFINE x == Amount(out, Retained(s))
           r == Drop(out, Retained(s))
<1>1. /\ conn' = Cancel(conn, x) /\ opened' = Unblocked(conn') /\ out' = r
      /\ state' = [state EXCEPT ![s] = "Closed"] /\ win' = [win EXCEPT ![s] = NoWindow]
      /\ UNCHANGED <<initial, waiting, phase, peerConn, peerWin>>
  BY DEF Reset, Retire, Advance, Total, Retained, Kept
<1>2. /\ out \in Seq(Frame) /\ conn \in Windows /\ conn.value \in Int /\ conn.committed \in Int
      /\ state \in [Streams -> States] /\ win \in [Streams -> Windows] /\ peerWin \in [Streams -> Int]
  BY DEF IInv, Typed, Windows
<1>3. x \in Nat /\ Amount(out, Lent) \in Nat /\ Amount(out, Paid) \in Nat
  BY <1>2, TotalsFact
<1>4. /\ r \in Seq(Frame) /\ Amount(r, Lent) = Amount(out, Lent) - x /\ Amount(r, Paid) = Amount(out, Paid)
      /\ \A t \in Streams :
            /\ Amount(r, Copied(t)) = Amount(out, Copied(t))
            /\ Amount(r, Moves(t)) = Amount(out, Moves(t))
            /\ t # s => Amount(r, Retained(t)) = Amount(out, Retained(t))
  BY <1>2, KeptTotals
<1>5. Elements(r) \subseteq Elements(out)
  BY <1>2, DropElements
<1>6. ASSUME NEW t \in Streams PROVE Fits(r, peerWin[t], Moves(t), Draws(t))
  <2>1. Retained(s) \in SUBSET Lent
    BY DEF Retained, Lent, FramesOf
  <2>2. Fits(out, peerWin[t], Moves(t), Draws(t)) /\ peerWin[t] \in Int
    BY <1>2 DEF IInv, StreamExact
  <2> QED BY <1>2, <2>1, <2>2, DroppedFits
<1> HIDE DEF x, r
<1>7. conn' \in Windows /\ conn'.value = conn.value + x /\ conn'.committed = conn.committed
  BY <1>1, <1>2, <1>3, CancelFact
<1>8. Typed'
  BY <1>1, <1>4, <1>7 DEF IInv, Typed, Unblocked, States, NoWindow, With, Windows
<1>9. ConnBooked'
  <2> DEFINE L == Amount(out, Lent)
  <2>1. conn.value >= 0 /\ conn.committed <= MaxWindow /\ conn.committed - conn.value = L
        /\ conn.committed = peerConn - Amount(out, Paid)
    BY DEF IInv, ConnBooked
  <2>2. conn.value \in Int /\ conn.committed \in Int /\ L \in Int /\ x \in Nat
    BY <1>2, <1>3
  <2> HIDE DEF L
  <2>3. conn.value + x >= 0 /\ conn.committed - (conn.value + x) = L - x
    BY <2>1, <2>2
  <2> QED BY <1>1, <1>4, <1>7, <2>1, <2>3 DEF ConnBooked, L
<1>10. NoLostConnWake'
  BY <1>1 DEF IInv, NoLostConnWake, Unblocked
<1>11. ASSUME NEW t \in Streams PROVE StreamExact(t)'
  <2>1. StreamExact(t)
    BY DEF IInv
  <2>2. CASE t = s
    <3>1. state'[t] = "Closed" /\ win'[t].value = 0 /\ win'[t].committed = 0 /\ peerWin' = peerWin
      BY <1>1, <1>2, <2>2 DEF NoWindow, With
    <3> QED BY <1>1, <1>6, <3>1 DEF StreamExact, Booked
  <2>3. CASE t # s
    <3>1. state'[t] = state[t] /\ win'[t] = win[t] /\ peerWin' = peerWin
      BY <1>1, <1>2, <2>3
    <3>2. Unnamed(out, t) => Unnamed(r, t)
      BY <1>5 DEF Unnamed
    <3> QED BY <1>1, <1>4, <1>6, <2>1, <2>3, <3>1, <3>2 DEF StreamExact, Booked
  <2> QED BY <2>2, <2>3
<1> QED BY <1>8, <1>9, <1>10, <1>11 DEF IInv

\* Closing the connection returns every reservation.
LEMMA DiscardStep ==
    ASSUME IInv, Discard
    PROVE  IInv'
<1> DEFINE x == Amount(out, Lent)
           r == Drop(out, Lent)
           Freed(s) == IF IsActive(s) THEN Amount(out, Retained(s)) ELSE 0
<1>1. /\ conn' = Cancel(conn, x) /\ opened' = Unblocked(conn') /\ out' = r
      /\ win' = [s \in Streams |-> Cancel(win[s], Freed(s))] /\ phase' = "closed"
      /\ UNCHANGED <<state, initial, waiting, peerConn, peerWin>>
  BY DEF Discard, Total, Lent, Retained
<1>2. /\ out \in Seq(Frame) /\ conn \in Windows /\ conn.value \in Int /\ conn.committed \in Int
      /\ peerWin \in [Streams -> Int]
      /\ \A s \in Streams : win[s] \in Windows /\ win[s].value \in Int /\ win[s].committed \in Int
  BY DEF IInv, Typed, Windows
<1>3. x \in Nat /\ Amount(out, Paid) \in Int
  <2>1. \A f \in Frame \cap Lent : f.n >= 0
    BY DEF Frame, DataFrames, AckFrames, Lent, FramesOf
  <2> QED BY <1>2, <2>1, FramesCounted, AmountNat, WeightsFact
<1>4. \A s \in Streams : Freed(s) \in Nat
  BY <1>2, TotalsFact
<1>5. /\ r \in Seq(Frame) /\ Amount(r, Lent) = 0 /\ Amount(r, Paid) = Amount(out, Paid)
      /\ \A t \in Streams :
            /\ Amount(r, Copied(t)) = Amount(out, Copied(t))
            /\ Amount(r, Moves(t)) = Amount(out, Moves(t))
            /\ Amount(r, Retained(t)) = 0
  BY <1>2, ClosedTotals
<1>6. Elements(r) \subseteq Elements(out)
  BY <1>2, DropElements
<1>7. ASSUME NEW t \in Streams PROVE Fits(r, peerWin[t], Moves(t), Draws(t))
  <2>1. Fits(out, peerWin[t], Moves(t), Draws(t)) /\ peerWin[t] \in Int /\ Lent \in SUBSET Lent
    BY <1>2 DEF IInv, StreamExact
  <2> QED BY <1>2, <2>1, DroppedFits
<1>9. conn' \in Windows /\ conn'.value = conn.value + x /\ conn'.committed = conn.committed
  BY <1>1, <1>2, <1>3, CancelFact
<1>10. \A s \in Streams : /\ win'[s] \in Windows /\ win'[s].value = win[s].value + Freed(s)
                          /\ win'[s].committed = win[s].committed
  BY <1>1, <1>2, <1>4, CancelFact
<1> HIDE DEF x, r, Freed
<1>11. Typed'
  <2>1. win' \in [Streams -> Windows]
    BY <1>1, <1>10
  <2> QED BY <1>1, <1>5, <1>9, <2>1 DEF IInv, Typed, Unblocked
<1>12. ConnBooked'
  <2>1. conn.value >= 0 /\ conn.committed <= MaxWindow /\ conn.committed - conn.value = x
        /\ conn.committed = peerConn - Amount(out, Paid)
    BY DEF IInv, ConnBooked, x
  <2>2. conn.value + x >= 0 /\ conn.committed - (conn.value + x) = 0
    BY <1>2, <1>3, <2>1
  <2> QED BY <1>1, <1>5, <1>9, <2>1, <2>2 DEF ConnBooked
<1>13. NoLostConnWake'
  BY <1>1 DEF IInv, NoLostConnWake, Unblocked
<1>14. ASSUME NEW t \in Streams PROVE StreamExact(t)'
  <2> DEFINE v == win[t].value
             c == win[t].committed
  <2>1. StreamExact(t) /\ v \in Int /\ c \in Int /\ Freed(t) \in Nat
    BY <1>2, <1>4 DEF IInv
  <2>2. state[t] = "Idle" => Unnamed(r, t)
    BY <1>6, <2>1 DEF StreamExact, Unnamed
  <2>3. win'[t].value = v + Freed(t) /\ win'[t].committed = c
    BY <1>10
  <2>4. CASE ~IsActive(t)
    <3>1. v + Freed(t) = v
      BY <2>1, <2>4 DEF Freed
    <3> QED BY <1>1, <1>7, <2>1, <2>2, <2>3, <2>4, <3>1 DEF StreamExact, Booked, IsActive
  <2>5. CASE IsActive(t)
    <3>1. /\ v >= MinWindow /\ c <= MaxWindow /\ c - v = Freed(t)
          /\ c = peerWin[t] - Amount(out, Copied(t)) + Amount(out, Moves(t))
      BY <2>1, <2>5 DEF StreamExact, Booked, IsActive, Freed
    <3> HIDE DEF v, c
    <3>2. v + Freed(t) >= MinWindow /\ c - (v + Freed(t)) = 0
      BY <2>1, <3>1, FlowAssumption
    <3>3. Booked(r, t, state[t], v + Freed(t), c, peerWin[t])
      BY <1>5, <2>5, <3>1, <3>2 DEF Booked, IsActive
    <3> QED BY <1>1, <1>7, <2>2, <2>3, <3>3 DEF StreamExact
  <2> QED BY <2>4, <2>5
<1> QED BY <1>11, <1>12, <1>13, <1>14 DEF IInv

-----------------------------------------------------------------------------
(* The transport. *)

\* An acknowledgement reaches the peer: its windows move as ours did.
LEMMA TakeAck ==
    ASSUME IInv, Take, Head(out) \in AckFrames
    PROVE  IInv' /\ Peer!Adjust
<1> DEFINE f == Head(out)
<1>1. /\ out # <<>> /\ out \in Seq(Frame) /\ f \in Frame /\ f.kind = "Ack" /\ f.n \in Int /\ f.stream \in SUBSET Streams
      /\ peerWin \in [Streams -> Int]
  BY DEF IInv, Typed, Take, Frame, AckFrames
<1>2. /\ out' = Tail(out)
      /\ peerWin' = [s \in Streams |-> IF s \in f.stream THEN peerWin[s] + f.n ELSE peerWin[s]]
      /\ UNCHANGED <<conn, win, state, initial, opened, waiting, phase, peerConn>>
  BY <1>1 DEF Take
<1>3. out' \in Seq(Frame) /\ Elements(out') \subseteq Elements(out)
  BY <1>1, <1>2, TailFact DEF Elements
<1>4. \A S : Amount(out', S) = Amount(out, S) - Weight(f, S)
  BY <1>1, <1>2, FramesCounted, AmountTail
<1> HIDE DEF f
<1>5. Typed'
  BY <1>1, <1>2, <1>3 DEF IInv, Typed
<1>6. ConnBooked' /\ NoLostConnWake'
  <2>1. Weight(f, Lent) = 0 /\ Weight(f, Paid) = 0
    BY <1>1 DEF Weight, Lent, Paid, FramesOf
  <2>2. Amount(out, Lent) \in Int /\ Amount(out, Paid) \in Int
    BY <1>1, FramesCounted, WeightsFact
  <2>3. Amount(out', Lent) = Amount(out, Lent) /\ Amount(out', Paid) = Amount(out, Paid)
    BY <1>4, <2>1, <2>2
  <2> QED BY <1>2, <2>3 DEF IInv, ConnBooked, NoLostConnWake
<1>7. ASSUME NEW s \in Streams PROVE StreamExact(s)'
  <2> DEFINE m == Weight(f, Moves(s))
             p == peerWin[s]
  <2>1. StreamExact(s) /\ p \in Int
    BY <1>1 DEF IInv
  <2>2. /\ Weight(f, Retained(s)) = 0 /\ Weight(f, Copied(s)) = 0 /\ Weight(f, Draws(s)) = 0
        /\ m = IF s \in f.stream THEN f.n ELSE 0
    BY AckWeight DEF f
  <2>3. m \in Int /\ peerWin'[s] = p + m
    BY <1>1, <1>2, <2>1, <2>2
  <2>4. Amount(out, Retained(s)) \in Int /\ Amount(out, Copied(s)) \in Int /\ Amount(out, Moves(s)) \in Int
    BY <1>1, TotalsFact
  <2>5. /\ Amount(out', Retained(s)) = Amount(out, Retained(s)) /\ Amount(out', Copied(s)) = Amount(out, Copied(s))
        /\ Amount(out', Moves(s)) = Amount(out, Moves(s)) - m
    BY <1>4, <2>2, <2>4
  <2> HIDE DEF m, p
  <2>6. Fits(out', p + m, Moves(s), Draws(s))
    <3>1. Fits(Tail(out), p + m - 0, Moves(s), Draws(s))
      <4>1. Fits(out, p, Moves(s), Draws(s))
        BY <2>1 DEF StreamExact, p
      <4> QED BY <1>1, <2>1, <2>2, <4>1, FramesCounted, FitsTail DEF f, m
    <3>2. p + m - 0 = p + m
      BY <2>1, <2>3
    <3> QED BY <1>2, <3>1, <3>2
  <2>7. p - Amount(out, Copied(s)) + Amount(out, Moves(s))
        = (p + m) - Amount(out', Copied(s)) + Amount(out', Moves(s))
    BY <2>1, <2>3, <2>4, <2>5
  <2>8. Booked(out', s, state[s], win[s].value, win[s].committed, p + m)
    BY <2>1, <2>5, <2>7 DEF StreamExact, Booked, p
  <2>9. Unnamed(out, s) => Unnamed(out', s)
    BY <1>3 DEF Unnamed
  <2> QED BY <1>2, <2>1, <2>3, <2>6, <2>8, <2>9 DEF StreamExact
<1>8. Peer!Adjust
  <2>1. \A s, t \in f.stream : peerWin'[s] - peerWin[s] = peerWin'[t] - peerWin[t]
    BY <1>1, <1>2
  <2>2. \A s \in Streams \ f.stream : peerWin'[s] = peerWin[s]
    BY <1>2
  <2> QED BY <1>1, <1>2, <2>1, <2>2 DEF Peer!Adjust
<1> QED BY <1>5, <1>6, <1>7, <1>8 DEF IInv

\* A DATA frame reaches the peer: it fits both windows there, and a retained one
\* settles its reservation here.
LEMMA TakeData ==
    ASSUME IInv, Take, Head(out) \in DataFrames
    PROVE  IInv' /\ (Peer!Deliver(Head(out).stream) \/ UNCHANGED <<peerConn, peerWin>>)
<1> DEFINE f == Head(out)
           z == f.stream
           n == f.n
           kept == f.kind = "Retained"
<1>1. /\ out # <<>> /\ out \in Seq(Frame) /\ f \in Frame /\ f.kind \in {"Buffered", "Retained"}
      /\ n \in Nat /\ z \in Streams
      /\ conn \in Windows /\ peerConn \in Int /\ peerWin \in [Streams -> Int] /\ win \in [Streams -> Windows]
  BY DEF IInv, Typed, Take, Frame, DataFrames
<1>2. /\ out' = Tail(out)
      /\ conn' = IF kept THEN Accept(conn, n) ELSE conn
      /\ win' = IF kept /\ IsActive(z) THEN [win EXCEPT ![z] = Accept(win[z], n)] ELSE win
      /\ peerWin' = [peerWin EXCEPT ![z] = peerWin[z] - n]
      /\ peerConn' = peerConn - n
      /\ UNCHANGED <<state, initial, opened, waiting, phase>>
  BY <1>1 DEF Take, Settled
<1>3. out' \in Seq(Frame) /\ Elements(out') \subseteq Elements(out)
  BY <1>1, <1>2, TailFact DEF Elements
<1>4. \A S : Amount(out', S) = Amount(out, S) - Weight(f, S)
  BY <1>1, <1>2, FramesCounted, AmountTail
<1>5. \A s \in Streams :
         /\ Weight(f, Lent) = IF kept THEN n ELSE 0
         /\ Weight(f, Paid) = IF kept THEN 0 ELSE n
         /\ Weight(f, Retained(s)) = IF kept /\ z = s THEN n ELSE 0
         /\ Weight(f, Copied(s)) = IF ~kept /\ z = s THEN n ELSE 0
         /\ Weight(f, Draws(s)) = IF z = s THEN n ELSE 0
         /\ Weight(f, Moves(s)) = 0
         /\ f \in Draws(s) <=> z = s
  BY DataWeight
<1>6. ASSUME NEW w \in Windows
      PROVE  /\ w.value \in Int /\ w.committed \in Int /\ Accept(w, n) \in Windows
             /\ Accept(w, n).value = w.value /\ Accept(w, n).committed = w.committed - n
  BY <1>1 DEF Windows, Accept
<1> HIDE DEF f, z, n, kept
<1>7. Typed'
  <2>1. conn' \in Windows /\ win' \in [Streams -> Windows]
    BY <1>1, <1>2, <1>6
  <2> QED BY <1>1, <1>2, <1>3, <2>1 DEF IInv, Typed
<1> DEFINE L == Amount(out, Lent)
           P == Amount(out, Paid)
           v == conn.value
           c == conn.committed
<1>8. /\ L \in Nat /\ P \in Nat /\ Amount(out', Lent) \in Nat /\ Amount(out', Paid) \in Nat
      /\ v \in Int /\ c \in Int
      /\ v >= 0 /\ c <= MaxWindow /\ c - v = L /\ c = peerConn - P
  BY <1>1, <1>3, <1>6, TotalsFact DEF IInv, ConnBooked
<1>9. /\ Amount(out', Lent) = IF kept THEN L - n ELSE L
      /\ Amount(out', Paid) = IF kept THEN P ELSE P - n
  BY <1>1, <1>4, <1>5, <1>8
<1>10. n <= peerConn
  <2> HIDE DEF L, P, v, c
  <2> QED BY <1>1, <1>8, <1>9
<1>11. ConnBooked' /\ NoLostConnWake'
  <2>1. conn'.value = v /\ conn'.committed = IF kept THEN c - n ELSE c
    BY <1>1, <1>2, <1>6
  <2>2. NoLostConnWake'
    BY <1>2, <2>1 DEF IInv, NoLostConnWake, Available
  <2> HIDE DEF L, P, v, c
  <2>3. CASE kept
    <3>1. (c - n) - v = L - n /\ c - n = (peerConn - n) - P /\ c - n <= MaxWindow
      BY <1>1, <1>8, FlowAssumption
    <3> QED BY <1>2, <1>8, <1>9, <2>1, <2>2, <2>3, <3>1 DEF ConnBooked
  <2>4. CASE ~kept
    <3>1. c = (peerConn - n) - (P - n)
      BY <1>1, <1>8
    <3> QED BY <1>2, <1>8, <1>9, <2>1, <2>2, <2>4, <3>1 DEF ConnBooked
  <2> QED BY <2>3, <2>4
<1>12. ASSUME NEW s \in Streams
       PROVE  /\ Fits(out', peerWin'[s], Moves(s), Draws(s))
              /\ z = s /\ n > 0 => n <= peerWin[s]
  <2> DEFINE p == peerWin[s]
             d == Weight(f, Draws(s))
  <2>1. p \in Int /\ d \in Int /\ peerWin'[s] = p - d
    BY <1>1, <1>2, <1>5
  <2>2. Fits(out, p, Moves(s), Draws(s))
    BY DEF IInv, StreamExact
  <2>3. Weight(f, Moves(s)) = 0
    BY <1>5
  <2> HIDE DEF p, d
  <2>4. /\ Fits(Tail(out), p + 0 - d, Moves(s), Draws(s))
        /\ f \in Draws(s) /\ f.n > 0 => p + 0 - f.n >= 0
    BY <1>1, <2>1, <2>2, <2>3, FramesCounted, FitsTail DEF f, d
  <2>5. p + 0 - d = p - d
    BY <2>1
  <2>6. Fits(out', peerWin'[s], Moves(s), Draws(s))
    BY <1>2, <2>1, <2>4, <2>5
  <2>7. z = s /\ n > 0 => n <= p
    BY <1>1, <1>5, <2>1, <2>4 DEF n
  <2> QED BY <2>6, <2>7 DEF p
<1>13. ASSUME NEW s \in Streams PROVE StreamExact(s)'
  <2> DEFINE a == win[s].value
             b == win[s].committed
             p == peerWin[s]
             R == Amount(out, Retained(s))
             C == Amount(out, Copied(s))
             M == Amount(out, Moves(s))
  <2>1. StreamExact(s) /\ a \in Int /\ b \in Int /\ p \in Int /\ R \in Int /\ C \in Int /\ M \in Int
    BY <1>1, <1>6, TotalsFact DEF IInv
  <2>2. Unnamed(out, s) => Unnamed(out', s)
    BY <1>3 DEF Unnamed
  <2>3. /\ Amount(out', Retained(s)) = IF kept /\ z = s THEN R - n ELSE R
        /\ Amount(out', Copied(s)) = IF ~kept /\ z = s THEN C - n ELSE C
        /\ Amount(out', Moves(s)) = M
    BY <1>1, <1>4, <1>5, <2>1
  <2>4. /\ win'[s].value = a
        /\ win'[s].committed = IF kept /\ z = s /\ IsActive(s) THEN b - n ELSE b
        /\ peerWin'[s] = IF z = s THEN p - n ELSE p
    BY <1>1, <1>2, <1>6
  <2>5. IsActive(s) => a >= MinWindow /\ b <= MaxWindow /\ b - a = R /\ b = p - C + M
    BY <2>1 DEF StreamExact, Booked, IsActive
  <2>6. ~IsActive(s) => a = 0 /\ b = 0
    BY <2>1 DEF StreamExact, Booked, IsActive
  <2> HIDE DEF a, b, p, R, C, M
  <2>7. CASE ~IsActive(s)
    <3>1. Booked(out', s, state[s], win'[s].value, win'[s].committed, peerWin'[s])
      BY <2>4, <2>6, <2>7 DEF Booked, IsActive
    <3> QED BY <1>2, <1>12, <2>1, <2>2, <3>1 DEF StreamExact
  <2>8. CASE IsActive(s)
    <3>1. CASE z # s
      <4>1. Booked(out', s, state[s], a, b, p)
        BY <2>3, <2>5, <2>8, <3>1 DEF Booked, IsActive
      <4> QED BY <1>2, <1>12, <2>1, <2>2, <2>4, <3>1, <4>1 DEF StreamExact
    <3>2. CASE z = s /\ kept
      <4>1. (b - n) - a = R - n /\ b - n = (p - n) - C + M /\ b - n <= MaxWindow
        BY <1>1, <2>1, <2>5, <2>8, FlowAssumption
      <4>2. Booked(out', s, state[s], a, b - n, p - n)
        BY <2>3, <2>5, <2>8, <3>2, <4>1 DEF Booked, IsActive
      <4> QED BY <1>2, <1>12, <2>1, <2>2, <2>4, <2>8, <3>2, <4>2 DEF StreamExact
    <3>3. CASE z = s /\ ~kept
      <4>1. b = (p - n) - (C - n) + M
        BY <1>1, <2>1, <2>5, <2>8
      <4>2. Booked(out', s, state[s], a, b, p - n)
        BY <2>3, <2>5, <2>8, <3>3, <4>1 DEF Booked, IsActive
      <4> QED BY <1>2, <1>12, <2>1, <2>2, <2>4, <2>8, <3>3, <4>2 DEF StreamExact
    <3> QED BY <3>1, <3>2, <3>3
  <2> QED BY <2>7, <2>8
<1>14. Peer!Deliver(z) \/ UNCHANGED <<peerConn, peerWin>>
  <2>1. CASE n = 0
    BY <1>1, <1>2, <2>1
  <2>2. CASE n # 0
    <3>1. n \in 1 .. peerConn /\ n <= peerWin[z]
      BY <1>1, <1>10, <1>12, <2>2
    <3> QED BY <1>2, <3>1 DEF Peer!Deliver
  <2> QED BY <2>1, <2>2
<1> QED BY <1>7, <1>11, <1>13, <1>14 DEF IInv, f, z

-----------------------------------------------------------------------------
(* The theorems. *)

\* The frame the transport takes is of one kind or the other.
LEMMA TakeStep ==
    ASSUME IInv, Take
    PROVE  /\ IInv'
           /\ Peer!Next \/ UNCHANGED <<peerConn, peerWin>>
<1>1. Head(out) \in DataFrames \/ Head(out) \in AckFrames
  BY DEF IInv, Typed, Take, Frame
<1>2. CASE Head(out) \in DataFrames
  <2>1. Head(out).stream \in Streams
    BY <1>2 DEF DataFrames
  <2> QED BY <1>2, <2>1, TakeData DEF Peer!Next
<1>3. CASE Head(out) \in AckFrames
  BY <1>3, TakeAck DEF Peer!Next
<1> QED BY <1>1, <1>2, <1>3

\* Every step keeps the accounts.
LEMMA NextInvariant ==
    ASSUME IInv, [Next]_vars
    PROVE  IInv'
<1>1. CASE UNCHANGED vars
  BY <1>1 DEF vars, IInv, Typed, ConnBooked, StreamExact, NoLostConnWake
<1>2. CASE Next
  <2>1. ASSUME NEW s \in Streams, NEW b \in Boundaries, Open(s, b) PROVE IInv'
    BY <2>1, OpenStep
  <2>2. ASSUME NEW s \in Streams, PeerEnd(s) \/ Blocked(s) \/ Reset(s) PROVE IInv'
    BY <2>2, PeerEndStep, WakeStep, ResetStep
  <2>3. ASSUME NEW inc \in Grants, ConnUpdate(inc) PROVE IInv'
    BY <2>3, ConnUpdateStep
  <2>4. ASSUME NEW s \in Streams, NEW inc \in Grants, StreamUpdate(s, inc) PROVE IInv'
    BY <2>4, StreamUpdateStep
  <2>5. ASSUME NEW size \in Sizes, Settings(size) PROVE IInv'
    BY <2>5, SettingsStep
  <2>6. ASSUME NEW s \in Streams, NEW len \in 0 .. MaxLen, NEW b \in Boundaries,
               NEW k \in {"Buffered", "Retained"}, SendData(s, len, b, k)
        PROVE  IInv'
    <3>1. len \in Nat
      BY SendAssumption
    <3> QED BY <2>6, <3>1, SendDataStep
  <2>7. PollWake \/ Discard \/ Take => IInv'
    BY WakeStep, DiscardStep, TakeStep
  <2> QED BY <1>2, <2>1, <2>2, <2>3, <2>4, <2>5, <2>6, <2>7 DEF Next
<1> QED BY <1>1, <1>2

\* Whatever is sent, reset, settled and adjusted, in any order, the accounts of the
\* connection and of every stream stay in order.
THEOREM SendInvariant == Spec => []IInv
<1>1. Init => IInv
  BY InitInvariant
<1>2. IInv /\ [Next]_vars => IInv'
  BY NextInvariant
<1> QED BY <1>1, <1>2, PTL DEF Spec

\* Every window stays in its i32, differs from its protocol credit by exactly the queued
\* reservations, and agrees with the peer's window (flow.rs Window, Debit, Reserved).
THEOREM WindowsExact == Spec => []CreditExact
<1>1. IInv => CreditExact
  BY InvariantSays
<1> QED BY <1>1, SendInvariant, PTL

\* A stream refused for connection credit is never forgotten: when there is credit, a
\* wake is owed (Flow::mark_open).
THEOREM ConnWakeOwed == Spec => []NoLostConnWake
<1>1. IInv => NoLostConnWake
  BY DEF IInv
<1> QED BY <1>1, SendInvariant, PTL

\* Every step is, to the peer, one that a flow controlled sender may take.
LEMMA PeerStep ==
    ASSUME IInv, [Next]_vars
    PROVE  [Peer!Next]_(Peer!vars)
<1> SUFFICES Peer!Next \/ UNCHANGED <<peerConn, peerWin>>
  BY DEF Peer!vars
<1>0. /\ initial \in Nat /\ peerConn \in Int /\ peerWin \in [Streams -> Int] /\ Grants \subseteq Nat
  BY SendAssumption, FlowAssumption DEF IInv, Typed
<1>1. CASE UNCHANGED vars
  BY <1>1 DEF vars
<1>2. CASE Next
  <2>1. ASSUME NEW s \in Streams, NEW b \in Boundaries, Open(s, b) PROVE Peer!Open(s)
    BY <1>0, <2>1 DEF Open, Peer!Open, Peer!Only
  <2>2. ASSUME NEW s \in Streams, PeerEnd(s) \/ Blocked(s) \/ Reset(s)
        PROVE  UNCHANGED <<peerConn, peerWin>>
    BY <2>2 DEF PeerEnd, Blocked, Reset
  <2>3. ASSUME NEW inc \in Grants, ConnUpdate(inc) PROVE Peer!Widen \/ UNCHANGED <<peerConn, peerWin>>
    BY <1>0, <2>3 DEF ConnUpdate, Peer!Widen
  <2>4. ASSUME NEW s \in Streams, NEW inc \in Grants, StreamUpdate(s, inc)
        PROVE  Peer!WidenStream(s) \/ UNCHANGED <<peerConn, peerWin>>
    BY <1>0, <2>4 DEF StreamUpdate, Peer!WidenStream, Peer!Only
  <2>5. ASSUME NEW size \in Sizes, Settings(size) PROVE UNCHANGED <<peerConn, peerWin>>
    BY <2>5 DEF Settings
  <2>6. ASSUME NEW s \in Streams, NEW len \in 0 .. MaxLen, NEW b \in Boundaries,
               NEW k \in {"Buffered", "Retained"}, SendData(s, len, b, k)
        PROVE  UNCHANGED <<peerConn, peerWin>>
    BY <2>6 DEF SendData
  <2>7. PollWake \/ Discard => UNCHANGED <<peerConn, peerWin>>
    BY DEF PollWake, Discard
  <2>8. Take => Peer!Next \/ UNCHANGED <<peerConn, peerWin>>
    BY TakeStep
  <2> QED BY <1>2, <2>1, <2>2, <2>3, <2>4, <2>5, <2>6, <2>7, <2>8 DEF Next, Peer!Next
<1> QED BY <1>1, <1>2

\* No DATA frame ever exceeds a window its peer has when it arrives, although credit is
\* reserved early, returned late and moved by SETTINGS in between: the send side
\* implements H2Credit.
THEOREM NeverOverrun == Spec => PeerNeverOverrun
<1>1. Init => Peer!Init
  BY DEF Init, Peer!Init
<1>2. IInv /\ [Next]_vars => [Peer!Next]_(Peer!vars)
  BY PeerStep
<1> QED BY <1>1, <1>2, SendInvariant, PTL DEF Spec, PeerNeverOverrun, Peer!Spec
=============================================================================
