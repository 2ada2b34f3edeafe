--------------------------- MODULE H3QpackReceiver ---------------------------
(***************************************************************************)
(* The receiving half of HTTP/3 field compression in a connection: the     *)
(* decoder's table, the streams blocked on insertions that have not come   *)
(* yet (conn/blocked.rs), the bounded wire of decoder instructions         *)
(* (decoder/state.rs), and the two lanes in which a stream waits to be     *)
(* driven again (conn/io/ingress/wait): Ready, and Feedback for a stream   *)
(* whose next instruction does not fit the wire.                           *)
(*                                                                         *)
(* The receiver is a record, its operations are functions of it; where the *)
(* code leaves a choice open (which of several equally urgent blocked      *)
(* streams a heap returns) an operation gives the set of its outcomes.     *)
(* Bytes are abstracted to whole instructions and whole field sections.    *)
(***************************************************************************)
EXTENDS H3QpackTable

CONSTANTS
    Streams,        \* the request streams
    Enc,            \* the peer's encoder stream
    BlockedLimit,   \* SETTINGS_QPACK_BLOCKED_STREAMS of this side
    FeedbackLimit   \* instructions the feedback wire holds (Feedback::limit)

ASSUME ReceiverAssumption ==
    /\ Enc \notin Streams
    /\ BlockedLimit \in Nat
    /\ FeedbackLimit \in Nat \ {0}

Ids == Streams \cup {Enc}

\* Instructions of the two QPACK streams.  On the encoder stream a literal insertion or
\* a new capacity; on the decoder stream the three of qpack::stream::Instruction.
SetCapacity == [kind |-> "capacity", field |-> "none"]
InsertLiteral(f) == [kind |-> "insert", field |-> f]
Ack(s) == [kind |-> "ack", stream |-> s, count |-> 0]
Cancel(s) == [kind |-> "cancel", stream |-> s, count |-> 0]
Increment(n) == [kind |-> "increment", stream |-> Enc, count |-> n]

\* table, capacity: the decoder's table and its limit.  blocked: what a blocked stream
\* waits for, 0 when it is not blocked.  retained: State::required of a section seen
\* once.  buf: received and not consumed.  ready, deferred: the two lanes.  feedback:
\* the wire.  fault: the connection error that closed it.
NewReceiver ==
    [table |-> EmptyTable, capacity |-> 0,
     blocked |-> [s \in Streams |-> 0], retained |-> [s \in Streams |-> 0],
     buf |-> [i \in Ids |-> <<>>], ready |-> <<>>, deferred |-> <<>>,
     feedback |-> <<>>, fault |-> "none"]

-----------------------------------------------------------------------------
(* Feedback wire, waiting lanes, blocked streams. *)

\* State::try_push: an increment is added to one at the tail.
PushFeedback(wire, x) ==
    IF wire # <<>> /\ x.kind = "increment" /\ Last(wire).kind = "increment"
    THEN Append(Front(wire), Increment(Last(wire).count + x.count))
    ELSE Append(wire, x)

\* State::can_prepare.
Fits(wire, x) == Len(PushFeedback(wire, x)) <= FeedbackLimit

\* recv.wait is some.
Waits(r, id) == id \in ToSet(r.ready) \cup ToSet(r.deferred)

\* receive::is_blocked: the transport keeps what comes for such a stream.
Stalled(r, id) == Waits(r, id) \/ (id \in Streams /\ r.blocked[id] # 0)

\* Parts::park and Parts::defer (wait::Table::push).
Park(r, id) ==
    IF Waits(r, id) THEN [r EXCEPT !.fault = "waits twice"] ELSE [r EXCEPT !.ready = Append(@, id)]

Defer(r, id) ==
    IF Waits(r, id) THEN [r EXCEPT !.fault = "waits twice"] ELSE [r EXCEPT !.deferred = Append(@, id)]

\* Blocked::pop_ready: a blocked stream of the lowest count, if that count has come.
Poppable(r) ==
    {s \in Streams : /\ r.blocked[s] \in 1..InsertCount(r.table)
                     /\ \A t \in Streams : r.blocked[t] # 0 => r.blocked[s] <= r.blocked[t]}

\* pop_ready and park of what it returned (Parts::wake, Schedule::retry).
Wake(r) ==
    IF Poppable(r) = {} THEN {r}
    ELSE {Park([r EXCEPT !.blocked[s] = 0], s) : s \in Poppable(r)}

-----------------------------------------------------------------------------
(* Driving one stream (conn/io/ingress/stream). *)

\* One instruction of the encoder stream (decoder/ingress commit and SetCapacity): the
\* increment must fit before the insertion is applied.
IngestOne(r) ==
    LET x == Head(r.buf[Enc])
        rest == [r EXCEPT !.buf[Enc] = Tail(@)]
    IN  IF x.kind = "capacity" THEN [rest EXCEPT !.capacity = Maximum]
        ELSE IF ~ Fits(r.feedback, Increment(1)) THEN r
        ELSE IF Size[x.field] > r.capacity THEN [r EXCEPT !.fault = "insertion too large"]
        ELSE [rest EXCEPT
                 !.table = Inserted(@, x.field, Evictions(@, Size[x.field], r.capacity)),
                 !.feedback = PushFeedback(@, Increment(1))]

\* The QpackEncoder arm of uni::resume, for a fragment of n instructions: wake one
\* blocked stream after an insertion, wait for the wire when an increment did not fit,
\* else come back for the rest.
DriveEncoder(r, n) ==
    LET done == FoldLeft(LAMBDA acc, k : IF acc.buf[Enc] = <<>> THEN acc ELSE IngestOne(acc),
                         r, [k \in 1..n |-> k])
        consumed == Len(r.buf[Enc]) - Len(done.buf[Enc])
        woken == IF InsertCount(done.table) > InsertCount(r.table) THEN Wake(done) ELSE {done}
        after(w) == IF consumed < n THEN Defer(w, Enc)
                    ELSE IF w.buf[Enc] # <<>> THEN Park(w, Enc) ELSE w
    IN  IF done.fault # "none" THEN {done} ELSE {after(w) : w \in woken}

\* Prepared::parse: the count is decoded once, when the section is first seen.
RequiredOf(r, s) ==
    IF r.retained[s] # 0 THEN r.retained[s]
    ELSE DecodeCount(Head(r.buf[s]).count, InsertCount(r.table))

\* Blocked::block.
Block(r, s, required) ==
    IF Cardinality({t \in Streams : r.blocked[t] # 0}) >= BlockedLimit
    THEN [r EXCEPT !.fault = "blocked limit"]
    ELSE [r EXCEPT !.blocked[s] = required, !.retained[s] = required]

\* The entries a section refers to, as the decoder finds them.
Decoded(r, x, required) == [i \in DOMAIN x.lines |-> Resolve(r.table, x, required, x.lines[i])]

\* One HEADERS frame (state::ingest, decoder::decode): blocked, waiting for the wire, or
\* decoded and acknowledged; what is left of the buffer waits for the next turn.
DriveStream(r, s) ==
    LET x == Head(r.buf[s])
        required == RequiredOf(r, s)
        read == [r EXCEPT !.buf[s] = Tail(@), !.retained[s] = 0,
                          !.feedback = IF required = 0 THEN @ ELSE PushFeedback(@, Ack(s))]
    IN  IF r.buf[s] = <<>> THEN r
        ELSE IF required < 0 THEN [r EXCEPT !.fault = "required count"]
        ELSE IF required > InsertCount(r.table) THEN Block(r, s, required)
        ELSE IF required # 0 /\ ~ Fits(r.feedback, Ack(s))
             THEN Defer([r EXCEPT !.retained[s] = required], s)
        ELSE IF \E i \in DOMAIN x.lines : Decoded(r, x, required)[i] = {}
             THEN [r EXCEPT !.fault = "reference"]
        ELSE IF read.buf[s] # <<>> THEN Park(read, s) ELSE read

\* stream::drive.  An encoder fragment has one instruction or more.
Drive(r, id) ==
    IF id # Enc THEN {DriveStream(r, id)}
    ELSE IF r.buf[Enc] = <<>> THEN {r}
    ELSE UNION {DriveEncoder(r, n) : n \in 1..Len(r.buf[Enc])}

-----------------------------------------------------------------------------
(* Schedule and status (conn/io/ingress/schedule.rs). *)

\* Defect: the encoder stream, which has no acknowledgment to write, is passed over.
Promotable_NotEncoder(r) ==
    r.deferred # <<>> /\ Head(r.deferred) # Enc /\ Fits(r.feedback, Ack(Head(r.deferred)))

\* Status::feedback: the head of the Feedback lane, if its instruction fits.
Promotable(r) ==
    r.deferred # <<>> /\ Fits(r.feedback, IF Head(r.deferred) = Enc THEN Increment(1)
                                                                  ELSE Ack(Head(r.deferred)))

\* Status::has_work, without the events and credits the application takes.
HasWork(r) == r.ready # <<>> \/ Poppable(r) # {} \/ Promotable(r)

\* Schedule::promote.
Promote(r) ==
    IF Promotable(r)
    THEN [r EXCEPT !.deferred = Tail(@), !.ready = Append(@, Head(r.deferred))]
    ELSE r

\* Schedule::step: promote, retry, then drive the first ready stream.
Step(r) ==
    UNION {IF w.ready = <<>> THEN {w}
           ELSE Drive([w EXCEPT !.ready = Tail(@)], Head(w.ready)) : w \in Wake(Promote(r))}

\* Credit::clear: the stream is given up and its cancellation put on the wire.
Clear(r, s) ==
    [r EXCEPT !.buf[s] = <<>>, !.blocked[s] = 0, !.retained[s] = 0,
              !.ready = SelectSeq(@, LAMBDA i : i # s),
              !.deferred = SelectSeq(@, LAMBDA i : i # s),
              !.feedback = PushFeedback(@, Cancel(s))]

=============================================================================
