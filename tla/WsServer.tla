------------------------------ MODULE WsServer ------------------------------
(***************************************************************************)
(* One connection of the WebSocket server (ws/src/server/app): the opening *)
(* request and the frames after it arrive in chunks cut anywhere, are read *)
(* from the chunk or from the accumulator, and are answered into output    *)
(* that may be too small for the next answer or not to be had at all.      *)
(*                                                                         *)
(* The handler echoes a message, says nothing to an empty one and breaks   *)
(* off at <<"q">>.  The link is external: it grants a prefix of output of  *)
(* one of several sizes, or defers and calls send again, or is closed.     *)
(* Running out of memory is left out.                                      *)
(***************************************************************************)
EXTENDS WsInbound

CONSTANTS
    Streams,        \* what a peer sends: an opening request [kind, len], kind "good",
                    \* "forbidden" or "bad", and a sequence of frames
    Rooms,          \* sizes of a prefix of output
    MaxOpening,     \* opening::MAX_BYTES
    MaxAcc          \* WS_MAX_ACC

\* MAX_SERVER_CONTROL_WIRE: a server's head takes one unit.
ControlWire == 1 + MaxControl

ASSUME ServerAssumption ==
    /\ \A r \in Rooms : r \in Nat /\ r >= ControlWire
    /\ MaxOpening <= MaxAcc /\ MaxFrame + HeadLen <= MaxAcc

VARIABLES
    stream,     \* what the peer sends: opening, frames, and how much of it came
    state,      \* ConnState: phase, eof, pending, acc, inb, and timer (the open deadline)
    link,       \* egress: busy (it holds output), due (it owes a call of send), shut (close_after)
    hist        \* history: pos (frames committed), seen (what the handler was given),
                \* outs (what egress was given), cause (why the phase is Closed)

vars == <<stream, state, link, hist>>

-----------------------------------------------------------------------------
(* Reading frames.  A turn w holds the state and the history it works on, the prefix of   *)
(* output it was granted (free, user, written), the body it leaves, and if it is over.    *)

\* Sink::capacity and Sink::message of the handler.
Echo(m) == IF m = <<>> THEN <<>> ELSE <<[op |-> "echo", data |-> m]>>
Capacity(m) == 1 + Len(m)
Breaks(m) == m = <<"q">>

NewTurn(s, h, room) ==
    [s |-> s, h |-> h, free |-> room, user |-> room, written |-> 0, body |-> <<>>, over |-> FALSE]

\* Response::put and put_raw, within the inline target.
Put(w, item, size) ==
    [w EXCEPT !.h.outs = Append(@, item), !.free = @ - size, !.written = @ + size,
              !.user = Max({0, @ - size})]

Closed(w, cause) == [w EXCEPT !.s.phase = "Closed", !.h.cause = cause, !.over = TRUE]

\* Frames::reject_frame: the close frame is written, or owed.  The input is discarded.
RejectFrame(w, code) ==
    LET d == [w EXCEPT !.s.acc = 0, !.over = TRUE]
    IN IF w.free >= 2 THEN Closed(Put(d, [op |-> "close", data |-> <<code>>], 2), "fault")
       ELSE [d EXCEPT !.s.phase = "Rejected", !.s.code = code]

\* The frame is committed and leaves the source.
Taken(w, f) ==
    [w EXCEPT !.s.inb = CommitFrame(@, f), !.s.acc = @ - Wire(f), !.h.pos = @ + 1]

\* A terminal phase discards the rest of the source.
Ended(w, cause) == Closed([w EXCEPT !.s.acc = 0], cause)

\* Output::try_message and Frames::dispatch: inline while it fits, else in a body of its
\* own, for which nothing may be written before it in this turn.
TakeMessage(w, f, m) ==
    LET t == Taken(w, f)
        said == [t EXCEPT !.h.seen = Append(@, [op |-> KindOf(w.s.inb, f), data |-> m])]
        done == IF Capacity(m) <= w.user
                THEN IF m = <<>> THEN said ELSE Put(said, Head(Echo(m)), Capacity(m))
                ELSE [said EXCEPT !.body = Echo(m)]
    IN IF Capacity(m) > w.user /\ w.written # 0 THEN [w EXCEPT !.over = TRUE]
       ELSE IF Breaks(m) THEN Ended(done, "break") ELSE done

\* Control::commit_with: a ping or a close is committed with its reply, or not at all.
TakeControl(w, f) ==
    LET reply == [op |-> IF f.op = "ping" THEN "pong" ELSE "close", data |-> f.data]
    IN IF f.op = "pong" THEN Taken(w, f)
       ELSE IF 1 + Len(f.data) > w.free THEN [w EXCEPT !.over = TRUE]
       ELSE LET sent == Put(Taken(w, f), reply, 1 + Len(f.data))
            IN IF f.op = "close" THEN Ended(sent, "close") ELSE sent

\* One turn of the loop of Frames::drive_source.
ReadFrame(w) ==
    IF w.over \/ w.body # <<>> THEN w
    ELSE IF w.h.pos = Len(stream.frames) THEN [w EXCEPT !.over = TRUE]
    ELSE LET f == stream.frames[w.h.pos + 1]
             found == Decode(w.s.inb, f, w.s.acc)
             b == [w EXCEPT !.s.inb = Bounded(@, f, w.s.acc)]
         IN IF found = "more" THEN [b EXCEPT !.over = TRUE]
            ELSE IF found # "ready" THEN RejectFrame(b, found)
            ELSE IF PrepareFault(b.s.inb, f) # "none" THEN RejectFrame(b, PrepareFault(b.s.inb, f))
            ELSE IF IsMessage(f) THEN TakeMessage(b, f, MessageOf(b.s.inb, f))
            ELSE IF f.op \in Control THEN TakeControl(b, f)
            ELSE Taken(b, f)

\* Frames::drive_source: Response::reserve keeps room for a control frame.
DriveSource(w) ==
    FoldLeft(LAMBDA v, i : ReadFrame(v),
             [w EXCEPT !.user = Max({0, w.free - ControlWire})],
             [i \in 1..(Len(stream.frames) + 1) |-> i])

\* Frames::pump.
PumpFrames(w) ==
    IF w.s.phase = "Active" THEN DriveSource(w)
    ELSE IF w.s.phase = "Rejected" /\ w.free >= 2
         THEN Closed(Put(w, [op |-> "close", data |-> <<w.s.code>>], 2), "fault")
    ELSE IF w.s.phase = "MessageTooBig"
         THEN Closed(IF w.free >= 2 THEN Put(w, [op |-> "close", data |-> <<"TooLarge">>], 2) ELSE w, "overflow")
    ELSE w

\* opening::upgrade: the handler is asked, and the response written.
Upgrade(w) ==
    IF stream.opening.kind = "forbidden"
    THEN Closed(Put(w, [op |-> "forbidden", data |-> <<>>], 2), "opening")
    ELSE [Put(w, [op |-> "upgrade", data |-> <<>>], 2) EXCEPT !.s.phase = "Active"]

\* opening::drive, of the retained head.
DriveOpening(w) ==
    IF stream.opening.kind = "bad"
    THEN Closed(Put(w, [op |-> "refused", data |-> <<>>], 2), "opening")
    ELSE [Upgrade(w) EXCEPT !.s.acc = @ - stream.opening.len]

\* A complete frame waits in the accumulator: Inbound::required.
Waiting(s) == s.inb.end # 0 /\ s.inb.end <= s.acc

\* Defect: the end of input closes over a frame whose answer found no room.
IntoParts_Drops(w) ==
    IF /\ w.s.eof
       /\ w.s.phase # "Rejected"
       /\ w.body = <<>> \/ (w.s.phase = "Active" /\ w.s.acc = 0)
    THEN [w EXCEPT !.s.phase = "Closed", !.h.cause = IF w.s.phase = "Closed" THEN @ ELSE "eof"]
    ELSE w

\* Output::into_parts: the end of input, once nothing is left to be answered.
IntoParts(w) ==
    IF /\ w.s.eof
       /\ w.s.phase # "Rejected"
       /\ w.body = <<>> \/ (w.s.phase = "Active" /\ w.s.acc = 0)
       /\ ~Waiting(w.s)
    THEN [w EXCEPT !.s.phase = "Closed", !.h.cause = IF w.s.phase = "Closed" THEN @ ELSE "eof"]
    ELSE w

-----------------------------------------------------------------------------
(* The handlers of the application.  A call c holds state, link and history; the link's    *)
(* answers to it are drawn before.                                                         *)

\* Output::finish and App::finish: the turn is committed.
Committed(c, w) ==
    LET v == IntoParts(w)
        shut == v.body = <<>> /\ v.s.phase = "Closed"
    IN [s |-> [v.s EXCEPT !.pending = IF v.body = <<>> THEN @ ELSE v.body], h |-> v.h,
        l |-> [c.l EXCEPT !.busy = @ \/ v.written > 0, !.shut = @ \/ shut], done |-> "committed"]

\* App::finish of a write the link deferred, or refused since it is closed.
Refused(c, answer) ==
    IF answer = "deferred" THEN [c EXCEPT !.l.due = TRUE, !.done = "deferred"]
    ELSE [c EXCEPT !.s.phase = "Closed", !.h.cause = "link", !.l.shut = TRUE, !.done = "closed"]

\* App::send_pending: the body left by the turn before, then the end of input.
SendPending(c, answer) ==
    LET owed == c.s.pending # <<>>
        sent == IF owed THEN [c EXCEPT !.h.outs = @ \o c.s.pending, !.s.pending = <<>>, !.l.busy = TRUE]
                ELSE c
        ended == IF /\ sent.s.eof /\ sent.s.acc = 0
                    /\ sent.s.phase \notin {"OpeningRejected", "MessageTooBig", "Rejected"}
                 THEN [sent EXCEPT !.s.phase = "Closed",
                                   !.h.cause = IF sent.s.phase = "Closed" THEN @ ELSE "eof"]
                 ELSE sent
    IN IF owed /\ answer # "committed"
       THEN Refused(IF answer = "closed" THEN [c EXCEPT !.s.pending = <<>>] ELSE c, answer)
       ELSE IF ended.s.phase = "Closed" THEN [ended EXCEPT !.l.shut = TRUE, !.done = "closed"]
       ELSE [ended EXCEPT !.done = "committed"]

\* App::try_reject.
TryReject(c, a) ==
    IF a.write # "committed" THEN Refused(c, a.write)
    ELSE Committed(c, Closed(Put(NewTurn(c.s, c.h, a.room), [op |-> "refused", data |-> <<>>], 2), "opening"))

\* App::pump.
Pump(c0, a) ==
    LET c == SendPending(c0, a.body)
        opening == c.s.phase \in {"Handshake", "Opening"}
        turn == NewTurn(c.s, c.h, a.room)
        driven == PumpFrames(IF c.s.phase = "Opening" THEN DriveOpening(turn) ELSE turn)
        done == IF a.write = "committed" THEN Committed(c, driven) ELSE Refused(c, a.write)
        timed == IF opening /\ done.s.phase \notin {"Handshake", "Opening"}
                 THEN [done EXCEPT !.s.timer = FALSE] ELSE done
    IN IF c.done # "committed" THEN c
       ELSE IF c.s.phase = "OpeningRejected" THEN TryReject(c, a)
       ELSE IF timed.done = "committed" THEN SendPending(timed, a.after) ELSE timed

\* App::try_direct of n units, of which the first skip are the opening request.
TryDirect(c, n, skip, a) ==
    LET turn == NewTurn(c.s, c.h, a.room)
        opened == IF skip > 0 THEN Upgrade(turn) ELSE turn
        driven == IF opened.s.phase = "Active"
                  THEN DriveSource([opened EXCEPT !.s.acc = n - skip]) ELSE opened
        done == IF a.write = "committed" THEN Committed(c, driven) ELSE Refused(c, a.write)
    IN IF done.done # "committed" THEN done
       ELSE LET sent == SendPending(done, a.after)
            IN [sent EXCEPT !.done = IF @ = "closed" THEN @ ELSE "committed"]

\* Frames::append.
AppendChunk(c, n) ==
    IF c.s.acc + n <= MaxAcc THEN [c EXCEPT !.s.acc = @ + n]
    ELSE IF c.s.phase \in {"Handshake", "Opening"}
         THEN [c EXCEPT !.s.phase = "Closed", !.h.cause = "opening"]
    ELSE [c EXCEPT !.s.phase = "MessageTooBig", !.s.acc = 0]

\* The rest of App::chunk, when the chunk was not read in place.
Buffered(c, n, a) ==
    LET whole == stream.opening.len <= Min({c.s.acc + n, MaxOpening})
        checked == IF c.s.phase = "Handshake" /\ whole THEN [c EXCEPT !.s.phase = "Opening"] ELSE c
        kept == AppendChunk(checked, n)
        close(x) == [x EXCEPT !.s.phase = "Closed", !.h.cause = "opening", !.l.shut = TRUE]
    IN IF c.s.phase = "Handshake" /\ ~whole /\ n > MaxOpening - c.s.acc THEN close(c)
       ELSE IF kept.s.phase = "Closed" THEN close(kept)
       ELSE Pump(kept, a)

\* The opening read in place: opening::admit, which looks at MaxOpening units only.
DirectOpening(c, n, a) ==
    LET head == stream.opening
        rejected == [c EXCEPT !.s.phase = "OpeningRejected", !.s.acc = 0]
        direct == TryDirect([c EXCEPT !.s.phase = "Opening"], n, head.len, a)
    IN IF head.len > n /\ n <= MaxOpening THEN [c EXCEPT !.s.acc = n]
       ELSE IF head.len > MaxOpening \/ head.kind = "bad" THEN TryReject(rejected, a)
       ELSE IF direct.done = "deferred" THEN Buffered(direct, n, a)
       ELSE IF direct.done = "committed" THEN [direct EXCEPT !.s.timer = FALSE] ELSE direct

\* App::chunk, in a phase that reads.
ReceiveChunk(c, n, a) ==
    LET inPlace == c.s.acc = 0 /\ n <= MaxAcc /\ ~c.l.busy
        direct == TryDirect(c, n, 0, a)
    IN IF c.s.phase = "Closed" THEN c
       ELSE IF c.s.phase \in {"OpeningRejected", "MessageTooBig", "Rejected"} THEN Pump(c, a)
       ELSE IF c.s.phase = "Handshake" /\ inPlace THEN DirectOpening(c, n, a)
       ELSE IF c.s.phase = "Active" /\ inPlace /\ c.s.pending = <<>>
            THEN IF direct.done = "deferred" THEN Buffered(direct, n, a)
                 ELSE direct
       ELSE Buffered(c, n, a)

-----------------------------------------------------------------------------
Total == stream.opening.len + FoldLeft(LAMBDA t, f : t + Wire(f), 0, stream.frames)

Init ==
    /\ \E s \in Streams : stream = [opening |-> s.opening, frames |-> s.frames, got |-> 0]
    /\ state = [phase |-> "Handshake", code |-> "none", eof |-> FALSE, pending |-> <<>>, acc |-> 0,
                inb |-> NewInbound, timer |-> TRUE]
    /\ link = [busy |-> FALSE, due |-> FALSE, shut |-> FALSE]
    /\ hist = [pos |-> 0, seen |-> <<>>, outs |-> <<>>, cause |-> "none"]

\* The link's answers: to the body owed at first, to the prefix (its room), to the body
\* left by the turn.  A link that is closed closes them all.
Answers(set) == [body : set, write : set, after : set, room : Rooms]
Drawn == Answers({"committed", "deferred"}) \cup Answers({"closed"})

Now(l) == [s |-> state, l |-> l, h |-> hist, done |-> "none"]
Apply(c) == state' = c.s /\ link' = c.l /\ hist' = c.h

\* A chunk of n units arrives.
Chunk(n) ==
    /\ ~link.shut
    /\ ~state.eof
    /\ \E a \in Drawn : Apply(ReceiveChunk(Now(link), n, a))
    /\ stream' = [stream EXCEPT !.got = @ + n]

\* The link has sent what it held, or calls again after it deferred: Drive::send.
Send ==
    /\ link.busy \/ link.due
    /\ ~link.shut
    /\ \E a \in Drawn : Apply(Pump(Now([link EXCEPT !.busy = FALSE, !.due = FALSE]), a))
    /\ UNCHANGED stream

\* App::eof: the peer ends its stream, perhaps within a frame.
Eof ==
    /\ ~link.shut
    /\ ~state.eof
    /\ \E a \in Drawn : Apply(Pump([Now(link) EXCEPT !.s.eof = TRUE], a))
    /\ UNCHANGED stream

\* App::timeout of the opening.
Timeout ==
    /\ state.timer
    /\ ~link.shut
    /\ Apply([Now(link) EXCEPT !.s.phase = "Closed", !.s.acc = 0, !.s.timer = FALSE,
                               !.h.cause = "timeout", !.l.shut = TRUE])
    /\ UNCHANGED stream

Next ==
    \/ \E n \in 1..(Total - stream.got) : Chunk(n)
    \/ Send
    \/ Eof
    \/ Timeout

Spec == Init /\ [][Next]_vars

-----------------------------------------------------------------------------
(* What the server promises. *)

\* The reference: what the frames mean, read whole and one after another.
Meaning ==
    LET take(r, f) ==
            LET data == r.part \o f.data
                kind == IF f.op = "cont" THEN r.kind ELSE f.op
            IN IF f.op = "ping" THEN [r EXCEPT !.outs = Append(@, [op |-> "pong", data |-> f.data])]
               ELSE IF f.op = "close" THEN [r EXCEPT !.outs = Append(@, [op |-> "close", data |-> f.data])]
               ELSE IF f.op = "pong" THEN r
               ELSE IF ~f.fin THEN [r EXCEPT !.kind = kind, !.part = data]
               ELSE [r EXCEPT !.kind = "none", !.part = <<>>,
                              !.seen = Append(@, [op |-> kind, data |-> data]), !.outs = @ \o Echo(data)]
        start == [kind |-> "none", part |-> <<>>, seen |-> <<>>,
                  outs |-> <<[op |-> "upgrade", data |-> <<>>]>>]
        at[i \in 0..Len(stream.frames)] == IF i = 0 THEN start ELSE take(at[i - 1], stream.frames[i])
    IN at

\* The reason to refuse frame f after the frames r stands for, in the order in which the
\* server finds them.
Wrong(r, f) ==
    LET data == (IF f.op = "cont" THEN r.part ELSE <<>>) \o f.data
        kind == IF f.op = "cont" THEN r.kind ELSE f.op
    IN IF \/ ~f.masked
          \/ f.op \notin Control \cup {"text", "binary", "cont"}
          \/ f.op \in Control /\ (~f.fin \/ Len(f.data) > MaxControl)
          \/ f.op = "cont" /\ r.kind = "none"
          \/ f.op \in {"text", "binary"} /\ r.kind # "none"
          \/ f.op = "close" /\ f.data # <<>> /\ Head(f.data) # "c"
       THEN "Protocol"
       ELSE IF f.op \notin Control /\ (Len(data) > MaxMessage \/ Len(f.data) > MaxFrame) THEN "TooLarge"
       ELSE IF \/ f.op \notin Control /\ f.fin /\ kind = "text" /\ ~Valid(data)
               \/ f.op = "close" /\ f.data # <<>> /\ ~Valid(Tail(f.data))
            THEN "InvalidPayload" ELSE "none"

\* The answer an opening request deserves: one beyond the bound is never upgraded.
Due ==
    IF stream.opening.len > MaxOpening \/ stream.opening.kind = "bad" THEN "refused"
    ELSE IF stream.opening.kind = "forbidden" THEN "forbidden" ELSE "upgrade"

\* The handler is given, and the peer is answered, exactly what the frames committed mean,
\* in order and once, however the stream is cut, whatever found no room or was deferred;
\* a frame refused is refused for its own fault (drive_source, prepare, try_message); and an
\* opening gets its own answer or none, so that no other is upgraded (admit, check).
ExactlyAsSent ==
    LET r == Meaning[hist.pos]
        given == hist.outs \o state.pending
        refusals == IF hist.pos = Len(stream.frames) THEN {}
                    ELSE {Wrong(r, stream.frames[hist.pos + 1])} \ {"none"}
    IN /\ hist.seen = r.seen
       /\ \A i \in 1..hist.pos : i = 1 \/ stream.frames[i - 1].op # "close"
       /\ \A i \in 1..hist.pos : Wrong(Meaning[i - 1], stream.frames[i]) = "none"
       /\ given # <<>> => given[1] = [op |-> Due, data |-> <<>>]
       /\ CASE hist.cause \in {"opening", "timeout"} \/ state.phase \in {"Handshake", "Opening", "OpeningRejected"} ->
                 hist.pos = 0 /\ (given = <<>> \/ (Len(given) = 1 /\ Due # "upgrade"))
            [] hist.cause = "fault" -> \E code \in refusals : given = Append(r.outs, [op |-> "close", data |-> <<code>>])
            [] hist.cause = "overflow" -> given = Append(r.outs, [op |-> "close", data |-> <<"TooLarge">>])
            [] hist.cause = "link" -> IsPrefix(given, r.outs)
            [] hist.cause = "eof" -> given \in {<<>>, r.outs}
            [] OTHER -> given = r.outs

\* The bound kept of an incomplete frame is that of the frame the next bytes belong to:
\* no commit, retry or discard leaves one behind, and Fault::Changed is never found.
BoundExact ==
    /\ state.inb.end # 0 /\ state.phase = "Active" =>
          hist.pos < Len(stream.frames) /\ state.inb.end = Wire(stream.frames[hist.pos + 1])
    /\ state.code # Changed
    /\ \A i \in DOMAIN hist.outs : hist.outs[i].data # <<Changed>>

\* Nothing is stranded: when the link is quiet, no complete frame waits, no refusal is
\* owed and the end of input has closed; and what closes for the end of input has read
\* every complete frame (into_parts, send_pending, close_gate).
NothingStranded ==
    LET next == stream.frames[hist.pos + 1]
        complete == hist.pos < Len(stream.frames) /\ state.acc >= Wire(next)
    IN /\ ~link.busy /\ ~link.due /\ ~link.shut =>
             /\ state.phase \in {"Handshake", "Active"}
             /\ state.phase = "Active" => ~complete
             /\ state.pending = <<>>
             /\ ~state.eof
       /\ hist.cause = "eof" /\ hist.outs # <<>> => ~complete
       /\ link.shut => state.pending = <<>> /\ state.phase = "Closed"
=============================================================================
