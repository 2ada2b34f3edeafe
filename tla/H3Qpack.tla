------------------------------- MODULE H3Qpack -------------------------------
(***************************************************************************)
(* Field compression of one direction of an HTTP/3 connection, end to end: *)
(* the encoder with its table, its ledger and its unpublished output, the  *)
(* QUIC streams in between, and the receiver of H3QpackReceiver.           *)
(*                                                                         *)
(* A client commits a section together with the encoder instructions it    *)
(* needs, or not at all (Batch::commit).  The native server defers: the    *)
(* instructions are queued, or kept in pending_encoder while the write     *)
(* queue is full, and the response waits until what it refers to has been  *)
(* queued (Batch::defer, Pending::send).  QUIC keeps the order within a    *)
(* stream and none between streams.                                        *)
(***************************************************************************)
EXTENDS H3QpackReceiver

CONSTANTS
    Sections,       \* capacity of the encoder's ledger
    Bits,           \* width of an insertion count
    FieldLists,     \* the field lists sections are made from
    Starts,         \* tables the model may start from
    MaxSections,    \* bound: sections of one run
    MaxAborts       \* bound: streams the receiver gives up

ASSUME QpackAssumption ==
    /\ IsFiniteSet(Streams) /\ Streams \subseteq Nat
    /\ FieldLists \subseteq Seq(Fields)
    /\ Starts \subseteq Tables
    /\ Sections \in Nat /\ Bits \in Nat /\ MaxSections \in Nat /\ MaxAborts \in Nat

L == INSTANCE H3Ledger

VARIABLES
    native,     \* the role: a native server defers, a client commits
    table,      \* encoder::State: the table
    ledger,     \* encoder::State: the ledger
    known,      \* encoder::State: known_received_count
    pending,    \* QpackState: pending_encoder, batches of insertions with their base
    waiting,    \* per stream the deferred response (replies::Pending), or NoSection
    encoded,    \* per stream the number of sections encoded
    cancelled,  \* streams whose cancellation the encoder has read
    wire,       \* per stream what was written and not received yet
    back,       \* the decoder stream: instructions on their way to the encoder
    aborted,    \* streams the receiver gave up
    rx,         \* the receiver
    fault       \* the error the encoder closed the connection with

sender == <<table, ledger, known, pending, waiting, encoded>>
vars == <<native, sender, cancelled, wire, back, aborted, rx, fault>>

NoSection == [count |-> 0, sign |-> FALSE, delta |-> 0, lines |-> <<>>, meant |-> <<>>,
              required |-> -1]

Open == fault = "none" /\ rx.fault = "none"

\* The state after SETTINGS, when set_capacity has queued its instruction, or a later
\* one in which all that was sent has been received, decoded and acknowledged.
Init ==
    /\ native \in BOOLEAN
    /\ table \in Starts
    /\ ledger = L!EmptyLedger
    /\ known = InsertCount(table)
    /\ pending = <<>>
    /\ waiting = [s \in Streams |-> NoSection]
    /\ encoded = [s \in Streams |-> 0]
    /\ cancelled = {}
    /\ wire = [i \in Ids |-> IF i = Enc /\ known = 0 THEN <<SetCapacity>> ELSE <<>>]
    /\ back = <<>>
    /\ aborted = {}
    /\ rx = [NewReceiver EXCEPT !.table = table, !.capacity = IF known = 0 THEN 0 ELSE Maximum]
    /\ fault = "none"

-----------------------------------------------------------------------------
(* The encoder. *)

\* State::floor: unacknowledged insertions and outstanding references protect an entry.
EvictionFloor == Min({L!Floor(ledger, known), known})

\* Section::new to finish: the draft of a section for s.  Without room in the ledger
\* every field is a literal and nothing is inserted.
SectionDraft(s, fields) ==
    LET mayBlock == L!MayBlock(ledger, s, BlockedLimit)
        accepted == {i \in 0..(InsertCount(table) + Len(fields)) : L!Accepts(mayBlock, i, known)}
    IN  IF L!Vacant(ledger)
        THEN Draft(table, EvictionFloor, fields, accepted)
        ELSE NewDraft(table, EvictionFloor)

\* Commit::apply: track the section, then apply the insertions.
Commit(s, d, published) ==
    /\ ledger' = IF d.refs = <<>> THEN ledger
                 ELSE L!Tracked(ledger, s, Required(d), Minimum(d), known, published)
    /\ table' = d.table
    /\ encoded' = [encoded EXCEPT ![s] = @ + 1]

\* Streams are numbered in the order of their first use.
MayEncode(s) ==
    /\ Open
    /\ s \notin cancelled
    /\ \A t \in Streams : t < s => encoded[t] > 0 \/ t \in aborted
    /\ SumFunction(encoded) < MaxSections

\* Batch::commit, the client: the insertions and the section are queued together.  A
\* full queue discards the draft and changes nothing.
CommitSection(s, fields) ==
    LET d == SectionDraft(s, fields)
    IN  /\ ~ native
        /\ MayEncode(s) /\ encoded[s] < 2
        /\ Commit(s, d, TRUE)
        /\ wire' = [wire EXCEPT ![Enc] = @ \o [i \in DOMAIN d.inserts |-> InsertLiteral(d.inserts[i])],
                                ![s] = Append(@, WireSection(d, InsertCount(table)))]
        /\ UNCHANGED <<native, known, pending, waiting, cancelled, back, aborted, rx, fault>>

\* Batch::defer and stage, the native server: the insertions go to the write queue, or
\* to pending_encoder when that is not empty or the queue has no room; the response waits.
DeferSection(s, fields, room) ==
    LET d == SectionDraft(s, fields)
        direct == pending = <<>> /\ room
    IN  /\ native
        /\ MayEncode(s) /\ encoded[s] = 0
        /\ (d.inserts = <<>> \/ pending # <<>>) => room
        /\ Commit(s, d, FALSE)
        /\ waiting' = [waiting EXCEPT ![s] = WireSection(d, InsertCount(table))]
        /\ IF direct \/ d.inserts = <<>>
           THEN /\ wire' = [wire EXCEPT ![Enc] =
                               @ \o [i \in DOMAIN d.inserts |-> InsertLiteral(d.inserts[i])]]
                /\ UNCHANGED pending
           ELSE /\ pending' = Append(pending, [inserts |-> d.inserts, base |-> InsertCount(table)])
                /\ UNCHANGED wire
        /\ UNCHANGED <<native, known, cancelled, back, aborted, rx, fault>>

\* QpackState::published: what has been queued of the insertions.
PublishedCount == IF pending = <<>> THEN InsertCount(table) ELSE Head(pending).base

\* Connection::publish_encoder, when the queue has room.
PublishEncoder ==
    /\ Open
    /\ pending # <<>>
    /\ wire' = [wire EXCEPT ![Enc] =
                   @ \o [i \in DOMAIN Head(pending).inserts |-> InsertLiteral(Head(pending).inserts[i])]]
    /\ pending' = Tail(pending)
    /\ UNCHANGED <<native, table, ledger, known, waiting, encoded, cancelled, back, aborted, rx, fault>>

\* Occupied::is_ready of the stream's head section, if it has one.
IsReady(s) == ledger.queue[s] # <<>> => Head(ledger.queue[s]).req <= PublishedCount

\* Pending::send, when the queue has room.
SendPending(s) ==
    /\ Open
    /\ s \notin cancelled
    /\ waiting[s] # NoSection
    /\ IsReady(s)
    /\ wire' = [wire EXCEPT ![s] = Append(@, waiting[s])]
    /\ waiting' = [waiting EXCEPT ![s] = NoSection]
    /\ ledger' = IF ledger.queue[s] # <<>> THEN L!Published(ledger, s) ELSE ledger
    /\ UNCHANGED <<native, table, known, pending, encoded, cancelled, back, aborted, rx, fault>>

\* Pending::discard: the response is given up before it was sent.
DiscardPending(s) ==
    /\ Open
    /\ waiting[s] # NoSection
    /\ waiting' = [waiting EXCEPT ![s] = NoSection]
    /\ ledger' = L!Cancelled(ledger, s)
    /\ UNCHANGED <<native, table, known, pending, encoded, cancelled, wire, back, aborted, rx, fault>>

\* encoder::State::apply, for the next instruction of the decoder stream.
Apply ==
    LET x == Head(back)
        advanced == known + x.count
    IN  /\ Open
        /\ back # <<>>
        /\ back' = Tail(back)
        /\ CASE x.kind = "ack" /\ L!Unknown(ledger, x.stream) ->
                    /\ fault' = "unknown section"
                    /\ UNCHANGED <<ledger, known, cancelled>>
             [] x.kind = "ack" /\ ~ L!Unknown(ledger, x.stream) ->
                    /\ ledger' = L!Acknowledged(ledger, x.stream, known)
                    /\ known' = L!AtLeast(known, Head(ledger.queue[x.stream]).req)
                    /\ UNCHANGED <<cancelled, fault>>
             [] x.kind = "cancel" ->
                    /\ ledger' = L!Cancelled(ledger, x.stream)
                    /\ cancelled' = cancelled \cup {x.stream}
                    /\ UNCHANGED <<known, fault>>
             [] x.kind = "increment" /\ advanced > PublishedCount ->
                    /\ fault' = "increment beyond table"
                    /\ UNCHANGED <<ledger, known, cancelled>>
             [] x.kind = "increment" /\ advanced <= PublishedCount ->
                    /\ ledger' = L!Advanced(ledger, known, advanced)
                    /\ known' = advanced
                    /\ UNCHANGED <<cancelled, fault>>
        /\ UNCHANGED <<native, table, pending, waiting, encoded, wire, aborted, rx>>

-----------------------------------------------------------------------------
(* The receiver. *)

\* receive::append: n whole units arrive on a stream that is not stalled; what comes for
\* a stream the receiver gave up is dropped.
Receive(id, n) ==
    /\ Open
    /\ n \in 1..Len(wire[id])
    /\ ~ Stalled(rx, id)
    /\ wire' = [wire EXCEPT ![id] = SubSeq(@, n + 1, Len(@))]
    /\ IF id \in aborted THEN rx' = rx
       ELSE rx' \in Drive([rx EXCEPT !.buf[id] = @ \o SubSeq(wire[id], 1, n)], id)
    /\ UNCHANGED <<native, sender, cancelled, back, aborted, fault>>

\* Events::poll_token: one step of the schedule.
Poll ==
    /\ Open
    /\ HasWork(rx)
    /\ rx' \in Step(rx)
    /\ UNCHANGED <<native, sender, cancelled, wire, back, aborted, fault>>

\* Events::poll_write with the feedback wire first: it is sent whole, then one step.
FlushFeedback ==
    /\ Open
    /\ rx.feedback # <<>>
    /\ back' = back \o rx.feedback
    /\ rx' \in Step([rx EXCEPT !.feedback = <<>>])
    /\ UNCHANGED <<native, sender, cancelled, wire, aborted, fault>>

\* Credit::discard: the application gives up a stream; tried again while the
\* cancellation does not fit.
Abort(s) ==
    /\ Open
    /\ s \notin aborted
    /\ Cardinality(aborted) < MaxAborts
    /\ Fits(rx.feedback, Cancel(s))
    /\ rx' = Clear(rx, s)
    /\ aborted' = aborted \cup {s}
    /\ UNCHANGED <<native, sender, cancelled, wire, back, fault>>

-----------------------------------------------------------------------------
Next ==
    \/ \E s \in Streams, fields \in FieldLists : CommitSection(s, fields)
    \/ \E s \in Streams, fields \in FieldLists, room \in BOOLEAN : DeferSection(s, fields, room)
    \/ PublishEncoder
    \/ \E s \in Streams : SendPending(s)
    \/ \E s \in Streams : DiscardPending(s)
    \/ Apply
    \/ \E id \in Ids : \E n \in 1..Len(wire[id]) : Receive(id, n)
    \/ Poll
    \/ FlushFeedback
    \/ \E s \in Streams : Abort(s)

Spec == Init /\ [][Next]_vars

-----------------------------------------------------------------------------
(* Properties. *)

\* Frontier::advance and its buckets: at any time a section is linked exactly when it
\* needs more than is known to be received, in the bucket of its highest differing bit
\* from the present count; the stream and connection counters are exact, and never more
\* streams may block than the peer allows.
FrontierExact ==
    LET linked(s) == {i \in DOMAIN ledger.queue[s] : ledger.queue[s][i].bucket # 0}
    IN  /\ \A s \in Streams : \A i \in DOMAIN ledger.queue[s] :
               ledger.queue[s][i].bucket = L!Linked(known, ledger.queue[s][i].req)
        /\ \A s \in Streams : ledger.blocking[s] = Cardinality(linked(s))
        /\ ledger.blocked = Cardinality({s \in Streams : linked(s) # {}})
        /\ ledger.blocked <= BlockedLimit

\* Two ends that both run this code never accuse each other: no section needs a count
\* the decoder rejects, refers to an entry it does not hold or blocks one stream too
\* many, no acknowledgment is for a section the encoder does not know or has not sent,
\* no increment passes what was published, and no stream waits in two lanes.  Nor does
\* pending_encoder ever need more places than the table has entries, which Batch::stage
\* declares unreachable.
NoFault == Open /\ Len(pending) <= MaxEntries

\* Sections of s that are on their way or buffered.
InFlight(s) == IF s \in aborted THEN <<>> ELSE rx.buf[s] \o wire[s]

\* Whatever the order in which streams are received, a section that is decoded now
\* means what the encoder meant: the wrapped count decodes to the one encoded, and
\* every reference finds the entry it was made for.
ReferencesResolve ==
    \A s \in Streams : \A k \in DOMAIN InFlight(s) :
        LET x == InFlight(s)[k]
            required == IF k = 1 /\ rx.buf[s] # <<>> THEN RequiredOf(rx, s)
                        ELSE DecodeCount(x.count, InsertCount(rx.table))
        IN  /\ required = x.required
            /\ required <= InsertCount(rx.table) =>
                   \A i \in DOMAIN x.lines : Decoded(rx, x, required)[i] = {x.meant[i]}

\* The two ends never come to disagree about a section: neither accuses the other, and what
\* is decoded is what was meant.
EndsAgree == NoFault /\ ReferencesResolve

\* What the two event loops still have to do without the application.
Busy ==
    \/ pending # <<>> \/ back # <<>> \/ rx.feedback # <<>> \/ HasWork(rx)
    \/ \E s \in Streams : waiting[s] # NoSection /\ (s \in cancelled \/ IsReady(s))
    \/ \E i \in Ids : wire[i] # <<>> /\ ~ Stalled(rx, i)

\* No lost wakeup between the lanes, the blocked streams, the feedback wire and the
\* unpublished batches: when neither loop has anything to do, every section has been
\* decoded and released, and nothing waits for an insertion or for room for ever.
QuietMeansDone ==
    Open /\ ~ Busy => /\ \A s \in Streams : ledger.queue[s] = <<>> /\ waiting[s] = NoSection
                      /\ \A i \in Ids : wire[i] = <<>> /\ rx.buf[i] = <<>>
                      /\ InsertCount(rx.table) = InsertCount(table) /\ known = InsertCount(table)

=============================================================================
