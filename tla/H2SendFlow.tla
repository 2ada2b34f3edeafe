----------------------------- MODULE H2SendFlow -----------------------------
(***************************************************************************)
(* Send-side flow control of one HTTP/2 connection.  DATA is admitted      *)
(* against the connection and the stream window (streams/prepared) and is  *)
(* either copied to the output at once, which spends the credit, or        *)
(* retained by reference, which only reserves it until the transport takes *)
(* the frame (accept) or the stream is retired under it (cancel).          *)
(* Meanwhile the peer widens windows, shrinks every stream window below    *)
(* zero by SETTINGS, ends and resets streams.                              *)
(*                                                                         *)
(* The output is the sequence of the frames that matter here, in wire      *)
(* order; what the transport takes, the peer receives.  peerConn and       *)
(* peerWin are the windows the peer holds us to: a smaller                 *)
(* SETTINGS_INITIAL_WINDOW_SIZE binds us from the moment the peer sees our *)
(* acknowledgement.                                                        *)
(***************************************************************************)
EXTENDS H2Flow, H2Stream, Queues

CONSTANTS Streams,    \* streams the peer opens, each once
          MaxLen,     \* bound: bytes the application offers at a time
          MaxQueue,   \* bound: frames the output holds
          Grants,     \* increments a WINDOW_UPDATE may carry
          Sizes,      \* values SETTINGS_INITIAL_WINDOW_SIZE may take
          MaxSettings \* bound: SETTINGS frames the peer sends

ASSUME SendAssumption ==
    /\ MaxLen \in Nat /\ MaxQueue \in Nat /\ MaxSettings \in Nat
    /\ Grants \subseteq 1 .. MaxWindow
    /\ Sizes \subseteq 0 .. MaxWindow

VARIABLES
    conn,      \* flow.send_window
    win,       \* record.send_window, per stream
    state,     \* record.state; "Closed": the record has left the registry
    initial,   \* settings.peer.initial_window_size
    opened,    \* flow.opened: the wake the connection owes
    out,       \* frames queued, in wire order
    waiting,   \* streams refused for connection credit and not woken since
    phase,     \* "open", or "failed" after a connection error, or "closed"
    peerConn, peerWin,
    changes    \* SETTINGS received

vars == <<conn, win, state, initial, opened, out, waiting, phase, peerConn, peerWin, changes>>

IsActive(s) == state[s] \notin {"Idle", "Closed"}

\* A record that is not there has no window.
NoWindow == With(0)

\* The stream's record takes its next state and window, or leaves the registry.
Advance(s, next, w) ==
    /\ state' = [state EXCEPT ![s] = next]
    /\ win' = [win EXCEPT ![s] = IF next = "Closed" THEN NoWindow ELSE w]

Init ==
    /\ conn = With(Initial)
    /\ win = [s \in Streams |-> NoWindow]
    /\ state = [s \in Streams |-> "Idle"]
    /\ initial = Initial
    /\ opened = "Idle"
    /\ out = <<>> /\ waiting = {} /\ phase = "open"
    /\ peerConn = Initial
    /\ peerWin = [s \in Streams |-> 0]
    /\ changes = 0

-----------------------------------------------------------------------------
(* The output.                                                             *)

\* A DATA frame copied into the output, or retained with its Reserved credit;
\* the acknowledgement of a SETTINGS, with what it means to the peer.
Data(kind, s, n)   == [kind |-> kind, stream |-> s, n |-> n]
Ack(streams, delta) == [kind |-> "Ack", stream |-> streams, n |-> delta]

Room == Len(out) < MaxQueue

\* The sets of streams that s is in.
Having(s) == {A \in SUBSET Streams : s \in A}

\* Frames of one kind, of the streams in a set (for "Ack", of the sets of streams).
FramesOf(kind, streams) == [kind : {kind}, stream : streams, n : Int]

\* The credit that the queued frames of one kind stand for.
Total(kind, streams) == Amount(out, FramesOf(kind, streams))

Retained(s) == FramesOf("Retained", {s})

\* Retained::discard and Retained::cancel: what stays when s is retired.
Kept(s) == Drop(out, Retained(s))

\* Defect: nobody is told that the connection window has opened.
Unblocked_Silently(next) == opened

\* Flow::mark_open, when the connection window leaves zero.
Unblocked(next) ==
    IF Available(conn) = 0 /\ Available(next) # 0 THEN "Ready" ELSE opened

\* State::retire_write with State::cancel_flow: the stream's retained DATA is
\* dropped and the connection gets its credit back.
Retire(s) ==
    /\ conn' = Cancel(conn, Total("Retained", {s}))
    /\ opened' = Unblocked(conn')
    /\ out' = Kept(s)

-----------------------------------------------------------------------------
(* Frames from the peer.                                                   *)

\* HEADERS: Vacant::insert takes the send window from the peer's settings.
Open(s, boundary) ==
    /\ phase = "open"
    /\ state[s] = "Idle"
    /\ state' = [state EXCEPT ![s] = OpenRemote(boundary)]
    /\ win' = [win EXCEPT ![s] = With(initial)]
    /\ peerWin' = [peerWin EXCEPT ![s] = initial]
    /\ UNCHANGED <<conn, initial, opened, out, waiting, phase, peerConn, changes>>

\* The peer's END_STREAM.
PeerEnd(s) ==
    /\ phase = "open" /\ IsActive(s)
    /\ Recv(state[s], "Data", "End") \in States
    /\ Advance(s, Recv(state[s], "Data", "End"), win[s])
    /\ UNCHANGED <<conn, initial, opened, out, waiting, phase, peerConn, peerWin, changes>>

\* WINDOW_UPDATE of the connection.
ConnUpdate(inc) ==
    /\ phase = "open"
    /\ IF CanIncrease(conn, inc)
       THEN /\ conn' = Shift(conn, inc)
            /\ opened' = Unblocked(conn')
            /\ peerConn' = peerConn + inc
            /\ phase' = phase
       ELSE /\ phase' = "failed"
            /\ UNCHANGED <<conn, opened, peerConn>>
    /\ UNCHANGED <<win, state, initial, out, waiting, peerWin, changes>>

\* WINDOW_UPDATE of a stream; one that has left is ignored.
StreamUpdate(s, inc) ==
    /\ phase = "open" /\ IsActive(s)
    /\ IF CanIncrease(win[s], inc)
       THEN /\ win' = [win EXCEPT ![s] = Shift(@, inc)]
            /\ peerWin' = [peerWin EXCEPT ![s] = @ + inc]
            /\ phase' = phase
       ELSE /\ phase' = "failed"
            /\ UNCHANGED <<win, peerWin>>
    /\ UNCHANGED <<conn, state, initial, opened, out, waiting, peerConn, changes>>

\* Window::adjust
Adjusted(w, delta) == Shift(w, delta)

\* SETTINGS: Registry::adjust_send over every active stream, then the ACK.
Settings(size) ==
    LET delta  == size - initial
        active == {s \in Streams : IsActive(s)}
    IN  /\ phase = "open" /\ Room /\ changes < MaxSettings
        /\ changes' = changes + 1
        /\ IF \A s \in active : CanAdjust(win[s], delta)
           THEN /\ win' = [s \in Streams |->
                              IF s \in active THEN Adjusted(win[s], delta) ELSE win[s]]
                /\ initial' = size
                /\ out' = Append(out, Ack(active, delta))
                /\ phase' = phase
           ELSE /\ phase' = "failed"
                /\ UNCHANGED <<win, initial, out>>
        /\ UNCHANGED <<conn, state, opened, waiting, peerConn, peerWin>>

-----------------------------------------------------------------------------
(* The application.                                                        *)

\* Defect: the two windows are not both consulted.
Admitted_ConnOnly(s, len) == Least(Available(conn), len)

\* Pair::debit_up_to, for an offer already cut to frame size and room.
Admitted(s, len) == DebitUpTo(conn, win[s], len)

\* Debit::reserve or Debit::commit
Debit(w, n, kind) == IF kind = "Retained" THEN Reserve(w, n) ELSE Spend(w, n)

\* Prepared::prepare then Commit::commit: len bytes are offered, the admitted
\* prefix goes out, END_STREAM only with the last of them.
SendData(s, len, boundary, kind) ==
    LET n    == Admitted(s, len)
        last == IF n = len THEN boundary ELSE "More"
    IN  /\ phase = "open" /\ IsActive(s) /\ Room
        /\ len # 0 => n # 0
        /\ Send(state[s], "Data", last) \in States
        /\ conn' = Debit(conn, n, kind)
        /\ Advance(s, Send(state[s], "Data", last), Debit(win[s], n, kind))
        /\ out' = Append(out, Data(kind, s, n))
        /\ UNCHANGED <<initial, opened, waiting, phase, peerConn, peerWin, changes>>

\* Outcome::Blocked(DataBlock::ConnectionFlow)
Blocked(s) ==
    /\ phase = "open" /\ IsActive(s) /\ s \notin waiting
    /\ Available(conn) = 0
    /\ waiting' = waiting \cup {s}
    /\ UNCHANGED <<conn, win, state, initial, opened, out, phase, peerConn, peerWin, changes>>

\* State::poll_wake takes the connection's wake; the scheduler resumes all.
PollWake ==
    /\ opened = "Ready"
    /\ opened' = "Idle"
    /\ waiting' = {}
    /\ UNCHANGED <<conn, win, state, initial, out, phase, peerConn, peerWin, changes>>

\* A stream is reset by either side, or the peer resets one that has left: the
\* DATA it still has in the output is retired.
Reset(s) ==
    /\ phase = "open" /\ state[s] # "Idle"
    /\ IsActive(s) \/ Elements(out) \cap Retained(s) # {}
    /\ Retire(s)
    /\ Advance(s, "Closed", win[s])
    /\ UNCHANGED <<initial, waiting, phase, peerConn, peerWin, changes>>

\* Transfer::discard: the connection closes and every reservation is returned.
Discard ==
    LET freed(s) == IF IsActive(s) THEN Total("Retained", {s}) ELSE 0
    IN  /\ phase = "open"
        /\ phase' = "closed"
        /\ conn' = Cancel(conn, Total("Retained", Streams))
        /\ opened' = Unblocked(conn')
        /\ win' = [s \in Streams |-> Cancel(win[s], freed(s))]
        /\ out' = Drop(out, FramesOf("Retained", Streams))
        /\ UNCHANGED <<state, initial, waiting, peerConn, peerWin, changes>>

-----------------------------------------------------------------------------
(* The transport.                                                          *)

\* Defect: the credit of a stream that has left is settled nowhere.
Settled_ActiveOnly(f) == IF IsActive(f.stream) THEN Accept(conn, f.n) ELSE conn

\* State::accept_write on the connection's window.
Settled(f) == Accept(conn, f.n)

\* The first frame is taken: a retained one settles its reservation.
Take ==
    LET f == Head(out)
    IN  /\ phase # "failed" /\ out # <<>>
        /\ out' = Tail(out)
        /\ IF f.kind = "Retained"
           THEN /\ conn' = Settled(f)
                /\ win' = IF IsActive(f.stream)
                          THEN [win EXCEPT ![f.stream] = Accept(@, f.n)] ELSE win
           ELSE UNCHANGED <<conn, win>>
        /\ IF f.kind = "Ack"
           THEN /\ peerWin' = [s \in Streams |-> IF s \in f.stream THEN peerWin[s] + f.n ELSE peerWin[s]]
                /\ peerConn' = peerConn
           ELSE /\ peerWin' = [peerWin EXCEPT ![f.stream] = @ - f.n]
                /\ peerConn' = peerConn - f.n
        /\ UNCHANGED <<state, initial, opened, waiting, phase, changes>>

-----------------------------------------------------------------------------
Next ==
    \/ \E s \in Streams, b \in Boundaries : Open(s, b)
    \/ \E s \in Streams : PeerEnd(s) \/ Blocked(s) \/ Reset(s)
    \/ \E inc \in Grants : ConnUpdate(inc)
    \/ \E s \in Streams, inc \in Grants : StreamUpdate(s, inc)
    \/ \E size \in Sizes : Settings(size)
    \/ \E s \in Streams, len \in 0 .. MaxLen, b \in Boundaries, k \in {"Buffered", "Retained"} :
          SendData(s, len, b, k)
    \/ PollWake \/ Discard \/ Take

Spec == Init /\ [][Next]_vars

-----------------------------------------------------------------------------
InRange(w) ==
    /\ w.value \in MinWindow .. MaxWindow
    /\ w.committed \in MinWindow .. MaxWindow

\* Both halves of every window stay in the i32 the code keeps them in: the
\* unchecked additions and subtractions of Reserved never wrap.
TypeOK ==
    /\ InRange(conn) /\ conn.value >= 0
    /\ \A s \in Streams : InRange(win[s])
    /\ state \in [Streams -> States]
    /\ initial \in 0 .. MaxWindow
    /\ opened \in {"Idle", "Ready"}
    /\ waiting \subseteq Streams
    /\ phase \in {"open", "failed", "closed"}

\* flow.rs: committed is "protocol credit including cancellable DATA reservations,
\* always >= value": the difference is exactly what the queued frames reserve.
ReservationsExact ==
    /\ conn.committed - conn.value = Total("Retained", Streams)
    /\ \A s \in Streams : IsActive(s) =>
          win[s].committed - win[s].value = Total("Retained", {s})

\* The committed credit is what the peer will allow once everything copied to the
\* output has arrived, whatever was reserved, cancelled or adjusted in between.
PeerAgrees ==
    phase = "open" =>
        /\ conn.committed = peerConn - Total("Buffered", Streams)
        /\ \A s \in Streams : IsActive(s) =>
              win[s].committed = peerWin[s] - Total("Buffered", {s}) + Total("Ack", Having(s))

\* Every window is exact on all three counts: in its i32, against the frames that reserve
\* from it, and against the peer's own (Debit, Reserved, Window::adjust).
CreditExact == TypeOK /\ ReservationsExact /\ PeerAgrees

\* A stream refused for connection credit is owed a wake as soon as there is some
\* (Flow::mark_open in apply_window and cancel_flow).
NoLostConnWake == waiting # {} /\ Available(conn) # 0 => opened = "Ready"

\* Every DATA frame fits the windows its peer has when it arrives.
Peer == INSTANCE H2Credit WITH conn <- peerConn, stream <- peerWin

PeerNeverOverrun == Peer!Spec
=============================================================================
