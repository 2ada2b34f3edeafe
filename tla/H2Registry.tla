----------------------------- MODULE H2Registry -----------------------------
(***************************************************************************)
(* The stream registry of an HTTP/2 server connection and everything that  *)
(* shares its records: the slab of stream records and the by_id index      *)
(* (h2/src/conn/registry), the queue of decoded events the application has *)
(* not taken yet, the send wake queue, the chain of resets whose           *)
(* RST_STREAM does not fit the output yet, the one retained response head, *)
(* and the references an application's duplex session holds.               *)
(*                                                                         *)
(* The decoder handles frames in one uninterrupted drive (mode "decode");  *)
(* between drives the application takes events, answers, cancels, and the  *)
(* transport drains the output.  Decoding a frame that meets pressure (no  *)
(* event slot, no output room) changes nothing and is retried: its action  *)
(* is disabled.                                                            *)
(*                                                                         *)
(* Abstractions.  Stream ids 1, 3, 5... are 1, 2, 3...  What a header      *)
(* block or a body must satisfy is one bit, `valid`.  A send window is     *)
(* "Stalled" or "Open".  Output is counted in units: an RST_STREAM takes   *)
(* RstLen of them, any other frame one.                                    *)
(***************************************************************************)
EXTENDS H2Stream, FiniteSets, Queues

CONSTANTS Slots,       \* slab positions, a set of naturals
          MaxId,       \* bound: ids the peer may use
          MaxActive,   \* local SETTINGS_MAX_CONCURRENT_STREAMS
          EventCap,    \* capacity of the event queue
          Limit,       \* output available to ordinary frames
          RstLen,      \* size of an RST_STREAM; the output holds Limit + RstLen
          MaxResets    \* MAX_PEER_RESETS_PER_CONNECTION

ASSUME RegistryAssumption ==
    /\ Slots \subseteq Nat /\ IsFiniteSet(Slots) /\ Slots # {}
    /\ {MaxId, MaxActive, EventCap, Limit, RstLen, MaxResets} \subseteq Nat \ {0}

VARIABLES
    rec,         \* streams: slot -> Record
    index,       \* by_id: the keys it holds
    peerCount,   \* store.peer_count
    lastPeer,    \* history.last_peer_id
    resets,      \* pending_reset chain, newest first
    wakes,       \* send_wakes
    pending,     \* the header block awaiting CONTINUATION, if any
    head,        \* the response head retained by the header encoder, if any
    events,      \* decoded events not yet taken
    used,        \* output units queued
    barrier,     \* outbound.terminal_barrier
    mode,        \* "app" | "decode" | "failed": the connection is gone
    phase,       \* lifecycle.phase: "Open" | "Draining"
    peerResets,  \* lifecycle.peer_reset_count
    app,         \* id -> what the application does with the exchange
    waiting      \* keys whose send was refused for credit and not woken since

storeVars == <<rec, index, peerCount, wakes>>
outVars   == <<resets, used, barrier>>
vars == <<storeVars, outVars, lastPeer, pending, head, events, mode, phase,
          peerResets, app, waiting>>

Ids  == 1..MaxId
Keys == [id : Ids, slot : Slots]

\* Option::None of a key, of the block under assembly, of the retained head.
None    == [id |-> 0, slot |-> 0]
NoBlock == [id |-> 0, boundary |-> "More", action |-> "Deliver"]
NoHead  == [key |-> None, boundary |-> "More"]

Live   == {"Initial", "Trailing", "Duplex", "End", "DuplexEnd"}
Closed == {"Duplex", "End", "DuplexEnd", "Reset", "DuplexReset"}

\* One record for every state of a slot.  live is the Live phase of an active
\* stream, otherwise the Closed phase that still owns the slot ("None": nobody).
\* "Unreachable" marks an arm the code declares unreachable!.
Record == [kind   : {"Free", "Active", "Reset", "Closed"},
           id     : 0..MaxId,
           state  : States,
           live   : Live \cup Closed \cup {"None", "Unreachable"},
           credit : {"Open", "Stalled"}]

Free == [kind |-> "Free", id |-> 0, state |-> "Closed", live |-> "None", credit |-> "Open"]

Owner(id, kind, live) ==
    [kind |-> kind, id |-> id, state |-> "Closed", live |-> live, credit |-> "Open"]

Apps == {"unseen", "known", "head", "body", "duplexHead", "duplex", "done", "cancelled"}

Init ==
    /\ rec = [s \in Slots |-> Free]
    /\ index = {} /\ peerCount = 0 /\ lastPeer = 0
    /\ resets = <<>> /\ wakes = <<>>
    /\ pending = NoBlock /\ head = NoHead
    /\ events = <<>>
    /\ used = 0 /\ barrier = "Open"
    /\ mode = "app" /\ phase = "Open" /\ peerResets = 0
    /\ app = [i \in Ids |-> "unseen"]
    /\ waiting = {}

-----------------------------------------------------------------------------
(* Records.                                                                *)

IsKey(k, kind) == rec[k.slot].kind = kind /\ rec[k.slot].id = k.id

IsActive(k) == IsKey(k, "Active")

KeyOf(id) == CHOOSE k \in index : k.id = id

\* Defect: the newest id of all is not part of the history.
Lookup_OffByOne(id) ==
    IF \E k \in index : k.id = id
    THEN IF IsActive(KeyOf(id)) THEN "Active" ELSE "Closed"
    ELSE IF id < lastPeer THEN "Closed" ELSE "Idle"

\* Store::lookup: the index, then the record, then the history.
Lookup(id) ==
    IF \E k \in index : k.id = id
    THEN IF IsActive(KeyOf(id)) THEN "Active" ELSE "Closed"
    ELSE IF id <= lastPeer THEN "Closed" ELSE "Idle"

\* Live::retire: what of an active stream outlives it.
Retire(live, reset) ==
    IF live \in {"Initial", "Trailing"}
    THEN IF reset THEN "Reset" ELSE "None"
    ELSE IF ~reset THEN live
    ELSE IF live = "End" THEN "Reset" ELSE "DuplexReset"

\* Defect: a cancelled exchange keeps waiting for the RESET event it dropped.
ReleaseOwner_KeepsReset(owner, notice) ==
    IF notice = "Duplex"
    THEN IF owner = "Duplex" THEN "None"
         ELSE IF owner = "DuplexEnd" THEN "End"
         ELSE IF owner = "DuplexReset" THEN "Reset" ELSE "Unreachable"
    ELSE IF (owner = "End" /\ notice # "Reset") \/ (owner = "Reset" /\ notice = "Reset")
    THEN "None"
    ELSE IF (owner = "DuplexEnd" /\ notice # "Reset") \/ (owner = "DuplexReset" /\ notice # "End")
    THEN "Duplex"
    ELSE owner

\* Closed::release: the phase left, "None" when the slot may be discarded.
ReleaseOwner(owner, notice) ==
    IF notice = "Duplex"
    THEN IF owner = "Duplex" THEN "None"
         ELSE IF owner = "DuplexEnd" THEN "End"
         ELSE IF owner = "DuplexReset" THEN "Reset" ELSE "Unreachable"
    ELSE IF (owner = "End" /\ notice # "Reset") \/ (owner = "Reset" /\ notice # "End")
    THEN "None"
    ELSE IF (owner = "DuplexEnd" /\ notice # "Reset") \/ (owner = "DuplexReset" /\ notice # "End")
    THEN "Duplex"
    ELSE owner

\* Defect: a session that ends forgets the END event still queued.
ReleaseLive_ForgetsEnd(live, notice) ==
    IF notice = "Duplex"
    THEN IF live \in {"Duplex", "DuplexEnd"} THEN "Trailing" ELSE "Unreachable"
    ELSE IF notice = "Reset" THEN live
    ELSE IF live = "End" THEN "Trailing"
    ELSE IF live = "DuplexEnd" THEN "Duplex" ELSE live

\* State::release on an active stream.
ReleaseLive(live, notice) ==
    IF notice = "Duplex"
    THEN IF live = "Duplex" THEN "Trailing"
         ELSE IF live = "DuplexEnd" THEN "End" ELSE "Unreachable"
    ELSE IF notice = "Reset" THEN live
    ELSE IF live = "End" THEN "Trailing"
    ELSE IF live = "DuplexEnd" THEN "Duplex" ELSE live

\* State::release: a Closed record with nobody left frees its slot.
Released(r, notice) ==
    IF r.kind = "Active" THEN [r EXCEPT !.live = ReleaseLive(@, notice)]
    ELSE IF r.kind = "Closed" /\ ReleaseOwner(r.live, notice) = "None" THEN Free
    ELSE IF r.live = "None" /\ notice # "Duplex" THEN r
    ELSE [r EXCEPT !.live = ReleaseOwner(@, notice)]

\* Store::release.
Release(k, notice) ==
    IF rec[k.slot].kind # "Free" /\ rec[k.slot].id = k.id
    THEN [rec EXCEPT ![k.slot] = Released(@, notice)] ELSE rec

\* State::hold_duplex.
HoldDuplex(live) ==
    IF live = "Trailing" THEN "Duplex"
    ELSE IF live = "End" THEN "DuplexEnd" ELSE "Unreachable"

\* Active::complete_head, then Active::queue_end.
CompleteHead(live) == IF live = "Initial" THEN "Trailing" ELSE live

QueueEnd(live, boundary) ==
    IF boundary = "More" THEN live
    ELSE IF live = "Trailing" THEN "End"
    ELSE IF live = "Duplex" THEN "DuplexEnd" ELSE "Unreachable"

\* State::close: the slot goes to whoever is left, or is free.
Close(id, owner) == IF owner = "None" THEN Free ELSE Owner(id, "Closed", owner)

Section(live) == IF live = "Initial" THEN "Initial" ELSE "Trailing"

-----------------------------------------------------------------------------
(* Steps of the registry, each constraining the primed store variables.    *)

\* Defect: removing a stream leaves its wake queued.
RemoveKey_KeepsWake(k, r, reset) ==
    /\ index' = index \ {k}
    /\ rec' = [rec EXCEPT ![k.slot] = Close(k.id, Retire(r.live, reset))]
    /\ wakes' = wakes
    /\ peerCount' = peerCount - 1

\* Transition::remove, of the record whose last value is r.
RemoveKey(k, r, reset) ==
    /\ index' = index \ {k}
    /\ rec' = [rec EXCEPT ![k.slot] = Close(k.id, Retire(r.live, reset))]
    /\ wakes' = Unlink(wakes, k)
    /\ peerCount' = peerCount - 1

\* An active record takes the value r, or leaves when r is Closed.
Advance(k, r) ==
    IF r.state = "Closed"
    THEN RemoveKey(k, r, FALSE)
    ELSE rec' = [rec EXCEPT ![k.slot] = r] /\ UNCHANGED <<index, peerCount, wakes>>

\* Vacant::insert
Insert(k, state, live) ==
    /\ rec' = [rec EXCEPT ![k.slot] =
                  [kind |-> "Active", id |-> k.id, state |-> state, live |-> live, credit |-> "Open"]]
    /\ index' = index \cup {k}
    /\ peerCount' = peerCount + 1

\* How many RST_STREAMs of a chain of n still fit the output.
Writable(n, base) ==
    CHOOSE i \in 0..n :
        /\ i = 0 \/ base + i * RstLen <= Limit + RstLen
        /\ i = n \/ base + (i + 1) * RstLen > Limit + RstLen

\* Defect: the index keeps the streams whose reset is written.
Flushed_KeepsIndex(recs, keys, chain, n) ==
    LET done == {chain[i] : i \in 1..n}
    IN  /\ resets' = SubSeq(chain, n + 1, Len(chain))
        /\ index' = keys
        /\ rec' = [s \in Slots |-> IF \E k \in done : k.slot = s
                                   THEN Close(recs[s].id, recs[s].live) ELSE recs[s]]

\* The first n resets of the chain are on the wire: their records close.
Flushed(recs, keys, chain, n) ==
    LET done == {chain[i] : i \in 1..n}
    IN  /\ resets' = SubSeq(chain, n + 1, Len(chain))
        /\ index' = keys \ done
        /\ rec' = [s \in Slots |-> IF \E k \in done : k.slot = s
                                   THEN Close(recs[s].id, recs[s].live) ELSE recs[s]]

\* State::flush_resets: write RST_STREAMs while they fit, each closing its record.
Flush(recs, keys, chain, base) ==
    LET n == Writable(Len(chain), base)
    IN  /\ Flushed(recs, keys, chain, n)
        /\ used' = base + n * RstLen
        /\ barrier' = IF n = Len(chain) THEN "Open" ELSE "Blocked"

\* Transition::reset pushed on the chain, and the flush every caller runs next.
BeginReset(recs, k, notify) ==
    /\ Flush([recs EXCEPT ![k.slot] = Owner(k.id, "Reset", Retire(@.live, notify))],
             index, <<k>> \o resets, used)
    /\ wakes' = Unlink(wakes, k)
    /\ peerCount' = peerCount - 1

\* State::retire_write: the head retained for a stream that leaves is rolled back.
DropHead(id) == head' = IF head.key.id = id THEN NoHead ELSE head

-----------------------------------------------------------------------------
(* Output and events.                                                      *)

EventRoom == Len(events) < EventCap

Emit(k, what) == events' = Append(events, [key |-> k, what |-> what])

\* Outbound::try_append
Room(n) == barrier = "Open" /\ used + n <= Limit

\* Defect: a drive goes on after it wrote past the limit.
Checked_Never == mode' = "decode"

\* Outbound::check ends the drive that wrote past the limit.
Checked == mode' = IF used' > Limit THEN "app" ELSE "decode"

\* Outbound::reset: an RST_STREAM outside the chain, into the reserve.
WriteReset == used' = used + RstLen

Decoding == mode = "decode" /\ pending = NoBlock

-----------------------------------------------------------------------------
(* Frames.  Frames that are connection errors end in ConnectionError.      *)

\* Registry::admit for a new peer stream: a slot, a place under the limit, no GOAWAY.
Admits ==
    /\ phase = "Open"
    /\ peerCount < MaxActive
    /\ \E s \in Slots : rec[s] = Free

\* Opening a stream, first by HEADERS that need CONTINUATION: the record is
\* inserted before the block is complete.
HeadersBegin(k, boundary) ==
    /\ Decoding
    /\ k.id > lastPeer /\ Admits /\ rec[k.slot] = Free
    /\ Insert(k, "Idle", "Initial")
    /\ lastPeer' = k.id
    /\ pending' = [id |-> k.id, boundary |-> boundary, action |-> "Deliver"]
    /\ UNCHANGED <<wakes, outVars, head, events, mode, phase, peerResets, app, waiting>>

HeadersOpen(k, boundary) ==
    /\ Decoding /\ EventRoom
    /\ k.id > lastPeer /\ Admits /\ rec[k.slot] = Free
    /\ Insert(k, OpenRemote(boundary), IF boundary = "End" THEN "End" ELSE "Trailing")
    /\ lastPeer' = k.id
    /\ Emit(k, boundary)
    /\ UNCHANGED <<wakes, outVars, pending, head, mode, phase, peerResets, app, waiting>>

\* Admission::Full, or GOAWAY sent: the stream is refused; an invalid head is
\* rejected.  Either way the id is spent and no record is made.
HeadersRefuse(id, cause) ==
    /\ Decoding
    /\ id > lastPeer
    /\ \/ cause = "refused" /\ ~Admits
       \/ cause = "invalid" /\ Admits /\ EventRoom
    /\ lastPeer' = id
    /\ WriteReset /\ Checked
    /\ UNCHANGED <<storeVars, resets, barrier, pending, head, events, phase, peerResets,
                   app, waiting>>

\* HEADERS of a stream that is gone.
HeadersPast(id) ==
    /\ Decoding
    /\ Lookup(id) = "Closed"
    /\ WriteReset /\ Checked
    /\ UNCHANGED <<storeVars, resets, barrier, lastPeer, pending, head, events, phase,
                   peerResets, app, waiting>>

\* A block that will be answered by a reset still has to be received in full.
HeadersBeginReset(id) ==
    /\ Decoding
    /\ \/ Lookup(id) = "Closed" /\ lastPeer' = lastPeer
       \/ id > lastPeer /\ ~Admits /\ lastPeer' = id
    /\ pending' = [id |-> id, boundary |-> "More", action |-> "Reset"]
    /\ UNCHANGED <<storeVars, outVars, head, events, mode, phase, peerResets, app, waiting>>

\* A further block of an active stream: trailers, which must end the stream.
TrailersBegin(id, boundary) ==
    /\ Decoding
    /\ Lookup(id) = "Active"
    /\ pending' = [id |-> id, boundary |-> boundary,
                   action |-> IF boundary = "More" THEN "Reset" ELSE "Deliver"]
    /\ UNCHANGED <<storeVars, outVars, lastPeer, head, events, mode, phase, peerResets,
                   app, waiting>>

\* Action::Reset through the entry, then State::finish_reset.
ResetEntry(k, notify) ==
    /\ BeginReset(rec, k, notify)
    /\ DropHead(k.id)
    /\ IF notify THEN Emit(k, "Reset") ELSE events' = events
    /\ Checked

\* headers::complete
Complete(k, boundary, valid) ==
    LET r    == rec[k.slot]
        next == Recv(r.state, "Headers", boundary)
    IN  /\ EventRoom
        /\ \/ /\ ~valid \/ next = "ErrorStreamClosed"
              /\ ResetEntry(k, Section(r.live) = "Trailing")
           \/ /\ valid /\ next \in States
              /\ Advance(k, [r EXCEPT !.state = next,
                                      !.live = QueueEnd(CompleteHead(@), boundary)])
              /\ Emit(k, boundary)
              /\ UNCHANGED <<outVars, head, mode>>

Trailers(id, boundary, valid) ==
    /\ Decoding
    /\ Lookup(id) = "Active"
    /\ IF boundary = "More"
       THEN EventRoom /\ ResetEntry(KeyOf(id), TRUE)
       ELSE Complete(KeyOf(id), boundary, valid)
    /\ UNCHANGED <<lastPeer, pending, phase, peerResets, app, waiting>>

\* The CONTINUATION that ends the block.
Continue(valid) ==
    /\ mode = "decode" /\ pending # NoBlock
    /\ pending' = NoBlock
    /\ IF Lookup(pending.id) = "Active"
       THEN IF pending.action = "Reset"
            THEN EventRoom /\ ResetEntry(KeyOf(pending.id), TRUE)
            ELSE Complete(KeyOf(pending.id), pending.boundary, valid)
       ELSE /\ IF pending.action = "Reset"
               THEN WriteReset /\ Checked
               ELSE EventRoom /\ UNCHANGED <<used, mode>>
            /\ UNCHANGED <<storeVars, resets, barrier, head, events>>
    /\ UNCHANGED <<lastPeer, phase, peerResets, app, waiting>>

\* data::apply on an active stream; update counts the WINDOW_UPDATEs sent with it.
Data(id, boundary, valid, update) ==
    LET k == KeyOf(id)  r == rec[k.slot]  next == Recv(r.state, "Data", boundary)
    IN  /\ Decoding /\ EventRoom
        /\ Lookup(id) = "Active"
        /\ \/ /\ ~valid \/ next = "ErrorStreamClosed"
              /\ Room(RstLen + update)
              /\ used' = used + RstLen + update
              /\ DropHead(id)
              /\ RemoveKey(k, r, TRUE)
              /\ Emit(k, "Reset")
           \/ /\ valid /\ next \in States
              /\ update = 0 \/ Room(update)
              /\ used' = used + update
              /\ Advance(k, [r EXCEPT !.state = next, !.live = QueueEnd(@, boundary)])
              /\ Emit(k, boundary)
              /\ head' = head
        /\ UNCHANGED <<resets, barrier, lastPeer, pending, mode, phase, peerResets, app, waiting>>

DataPast(id, update) ==
    /\ Decoding
    /\ Lookup(id) = "Closed"
    /\ Room(RstLen + update)
    /\ used' = used + RstLen + update
    /\ UNCHANGED <<storeVars, resets, barrier, lastPeer, pending, head, events, mode, phase,
                   peerResets, app, waiting>>

\* data::apply_reset: RST_STREAM of an active stream.
PeerReset(id) ==
    LET k == KeyOf(id)
    IN  /\ Decoding /\ EventRoom
        /\ Lookup(id) = "Active"
        /\ peerResets < MaxResets
        /\ peerResets' = peerResets + 1
        /\ DropHead(id)
        /\ RemoveKey(k, rec[k.slot], TRUE)
        /\ Emit(k, "Reset")
        /\ UNCHANGED <<outVars, lastPeer, pending, mode, phase, app, waiting>>

\* Wake::update over the records in opened, in slot order.
Opened(opened) ==
    LET new == {[id |-> rec[s].id, slot |-> s] : s \in opened} \ Elements(wakes)
    IN  \E q \in [1 .. Cardinality(new) -> new] :
            /\ Elements(q) = new
            /\ \A i, j \in DOMAIN q : i < j => q[i].slot < q[j].slot
            /\ wakes' = wakes \o q

\* WINDOW_UPDATE lifts one stream's window above zero.
WindowUpdate(id) ==
    LET k == KeyOf(id)
    IN  /\ Decoding
        /\ Lookup(id) = "Active"
        /\ rec[k.slot].credit = "Stalled"
        /\ rec' = [rec EXCEPT ![k.slot].credit = "Open"]
        /\ Opened({k.slot})
        /\ UNCHANGED <<index, peerCount, outVars, lastPeer, pending, head, events, mode, phase,
                       peerResets, app, waiting>>

\* SETTINGS_INITIAL_WINDOW_SIZE shifts every window: those in moved cross zero.
Settings(credit, moved) ==
    /\ Decoding /\ EventRoom /\ Room(1) /\ head = NoHead
    /\ moved \subseteq {s \in Slots : rec[s].kind = "Active" /\ rec[s].credit # credit}
    /\ rec' = [s \in Slots |-> IF s \in moved THEN [rec[s] EXCEPT !.credit = credit] ELSE rec[s]]
    /\ IF credit = "Open" THEN Opened(moved) ELSE wakes' = wakes
    /\ used' = used + 1
    /\ Emit(None, "Settings")
    /\ UNCHANGED <<index, peerCount, resets, barrier, lastPeer, pending, head, mode, phase,
                   peerResets, app, waiting>>

\* A frame on an idle stream, a foreign frame within a block, a reset too many.
ConnectionError(id) ==
    /\ mode = "decode"
    /\ \/ pending # NoBlock
       \/ Lookup(id) = "Idle"
       \/ Lookup(id) = "Active" /\ peerResets = MaxResets
    /\ mode' = "failed"
    /\ UNCHANGED <<storeVars, outVars, lastPeer, pending, head, events, phase, peerResets,
                   app, waiting>>

-----------------------------------------------------------------------------
(* Between drives: the application and the transport.                      *)

Idle == mode = "app"

\* Ingress::prepare: flush, then decode only below the limit.
Ingest ==
    /\ mode = "app"
    /\ IF resets # <<>>
       THEN Flush(rec, index, resets, used)
       ELSE UNCHANGED <<outVars, rec, index>>
    /\ Checked
    /\ UNCHANGED <<peerCount, wakes, lastPeer, pending, head, events, phase, peerResets,
                   app, waiting>>

\* Input exhausted, or pressure.
EndDrive ==
    /\ mode = "decode"
    /\ mode' = "app"
    /\ UNCHANGED <<storeVars, outVars, lastPeer, pending, head, events, phase, peerResets,
                   app, waiting>>

\* ready::take: a terminal event releases the record it kept alive.
TakeEvent ==
    LET e == Head(events)
    IN  /\ Idle /\ events # <<>>
        /\ events' = Tail(events)
        /\ rec' = IF e.what \in {"End", "Reset"} THEN Release(e.key, e.what) ELSE rec
        /\ app' = IF e.what \in {"More", "End"} /\ app[e.key.id] = "unseen"
                  THEN [app EXCEPT ![e.key.id] = "known"] ELSE app
        /\ UNCHANGED <<index, peerCount, wakes, outVars, lastPeer, pending, head, mode, phase,
                       peerResets, waiting>>

\* Headers::prepare then commit of a buffered response head.
PrepareHead(k, boundary) ==
    /\ Idle
    /\ app[k.id] = "known" /\ IsActive(k) /\ head = NoHead
    /\ Send(rec[k.slot].state, "Headers", boundary) \in States
    /\ head' = [key |-> k, boundary |-> boundary]
    /\ app' = [app EXCEPT ![k.id] = "head"]
    /\ UNCHANGED <<storeVars, outVars, lastPeer, pending, events, mode, phase, peerResets, waiting>>

\* Driver::open: the head of a duplex exchange, and the session's hold on the record.
OpenDuplex(k) ==
    /\ Idle
    /\ app[k.id] = "known" /\ IsActive(k) /\ head = NoHead
    /\ Send(rec[k.slot].state, "Headers", "More") \in States
    /\ head' = [key |-> k, boundary |-> "More"]
    /\ rec' = [rec EXCEPT ![k.slot].live = HoldDuplex(@)]
    /\ app' = [app EXCEPT ![k.id] = "duplexHead"]
    /\ UNCHANGED <<index, peerCount, wakes, outVars, lastPeer, pending, events, mode, phase,
                   peerResets, waiting>>

\* Headers::publish: the retained head reaches the output; its effect is applied
\* to the state the stream has now.
CommitHead ==
    LET k == head.key  r == rec[k.slot]
    IN  /\ Idle /\ head # NoHead
        /\ IsActive(k) /\ Room(1)
        /\ used' = used + 1
        /\ head' = NoHead
        /\ Advance(k, [r EXCEPT !.state = Apply(head.boundary, @)])
        /\ app' = [app EXCEPT ![k.id] =
                      IF @ = "duplexHead" THEN "duplex"
                      ELSE IF head.boundary = "End" THEN "done" ELSE "body"]
        /\ UNCHANGED <<resets, barrier, lastPeer, pending, events, mode, phase, peerResets, waiting>>

\* Set::try_to: DATA, which takes credit unless it is empty.
SendData(k, boundary, credit) ==
    LET r == rec[k.slot]
    IN  /\ Idle
        /\ app[k.id] \in {"body", "duplex"} /\ IsActive(k) /\ Room(1)
        /\ Send(r.state, "Data", boundary) \in States
        /\ r.credit = "Stalled" => boundary = "End" /\ credit = "Stalled"
        /\ used' = used + 1
        /\ Advance(k, [r EXCEPT !.state = Send(@, "Data", boundary), !.credit = credit])
        /\ app' = IF boundary = "End" /\ app[k.id] = "body"
                  THEN [app EXCEPT ![k.id] = "done"] ELSE app
        /\ UNCHANGED <<resets, barrier, lastPeer, pending, head, events, mode, phase, peerResets,
                       waiting>>

\* DATA finds no credit; the exchange waits to be woken.
Blocked(k) ==
    /\ Idle
    /\ app[k.id] \in {"body", "duplex"} /\ IsActive(k)
    /\ rec[k.slot].credit = "Stalled" /\ k \notin waiting
    /\ waiting' = waiting \cup {k}
    /\ UNCHANGED <<storeVars, outVars, lastPeer, pending, head, events, mode, phase, peerResets, app>>

\* Registry::poll_wake
PollWake ==
    /\ Idle /\ wakes # <<>>
    /\ wakes' = Tail(wakes)
    /\ waiting' = waiting \ {Head(wakes)}
    /\ UNCHANGED <<rec, index, peerCount, outVars, lastPeer, pending, head, events, mode, phase,
                   peerResets, app>>

\* Set::cancel and Set::retire: the exchange is rejected, or expires under way.
Cancel(k) ==
    /\ Idle
    /\ app[k.id] \notin {"unseen", "cancelled"} /\ IsActive(k)
    /\ BeginReset(rec, k, FALSE)
    /\ DropHead(k.id)
    /\ UNCHANGED <<lastPeer, pending, events, mode, phase, peerResets, app, waiting>>

\* The queued events of the exchange.
EventsOf(k) == {e \in Elements(events) : e.key = k}

\* Defect: the last event is not looked at.
Withdrawn_Short(k) == Sifted(events, EventsOf(k))[IF events = <<>> THEN 0 ELSE Len(events) - 1]

\* Events::cancel: the queue is turned once around in place, without the exchange's events.
Withdrawn(k) == Sifted(events, EventsOf(k))[Len(events)]

\* Connection::cancel_ingress: an exchange the application has not started expires.
\* Its own block cannot be pending: that deadline closes the connection instead.
CancelIngress(k) ==
    LET kept == Release(k, "Cancel")
    IN  /\ Idle
        /\ app[k.id] \in {"unseen", "known"} /\ k.id <= lastPeer /\ pending.id # k.id
        /\ IsActive(k) \/ IsKey(k, "Closed") \/ IsKey(k, "Reset")
        /\ events' = Withdrawn(k)
        /\ IF IsActive(k)
           THEN BeginReset(kept, k, FALSE) /\ DropHead(k.id)
           ELSE rec' = kept /\ UNCHANGED <<index, peerCount, wakes, outVars, head>>
        /\ app' = [app EXCEPT ![k.id] = "cancelled"]
        /\ UNCHANGED <<lastPeer, pending, mode, phase, peerResets, waiting>>

\* response::discard, or the end of the session: its head is dropped and its hold ends.
ReleaseDuplex(k) ==
    /\ Idle
    /\ app[k.id] \in {"duplexHead", "duplex"}
    /\ \E s \in Slots : k.slot = s /\ rec[s].id = k.id
    /\ DropHead(k.id)
    /\ rec' = Release(k, "Duplex")
    /\ app' = [app EXCEPT ![k.id] = "done"]
    /\ UNCHANGED <<index, peerCount, wakes, outVars, lastPeer, pending, events, mode, phase,
                   peerResets, waiting>>

\* State::commit_write: the transport takes n units; waiting resets move up.
Drain(n) ==
    /\ Idle
    /\ n <= used
    /\ Flush(rec, index, resets, used - n)
    /\ UNCHANGED <<peerCount, wakes, lastPeer, pending, head, events, mode, phase, peerResets,
                   app, waiting>>

\* Control::drain: GOAWAY goes to a reserve of its own, whatever is queued.
Goaway ==
    /\ Idle /\ phase = "Open"
    /\ phase' = "Draining"
    /\ used' = used + 1
    /\ UNCHANGED <<storeVars, resets, barrier, lastPeer, pending, head, events, mode, peerResets,
                   app, waiting>>

-----------------------------------------------------------------------------
NextFrame ==
    \/ \E k \in Keys, b \in Boundaries : HeadersBegin(k, b) \/ HeadersOpen(k, b)
    \/ \E id \in Ids, c \in {"refused", "invalid"} : HeadersRefuse(id, c)
    \/ \E id \in Ids : HeadersPast(id) \/ HeadersBeginReset(id) \/ PeerReset(id) \/ WindowUpdate(id)
    \/ \E id \in Ids : ConnectionError(id)
    \/ \E id \in Ids, b \in Boundaries : TrailersBegin(id, b)
    \/ \E id \in Ids, b \in Boundaries, v \in BOOLEAN : Trailers(id, b, v)
    \/ \E v \in BOOLEAN : Continue(v)
    \/ \E id \in Ids, b \in Boundaries, v \in BOOLEAN, u \in 0..1 : Data(id, b, v, u)
    \/ \E id \in Ids, u \in 0..1 : DataPast(id, u)
    \/ \E c \in {"Open", "Stalled"}, moved \in SUBSET Slots : Settings(c, moved)

NextApp ==
    \/ Ingest \/ EndDrive \/ TakeEvent \/ CommitHead \/ PollWake \/ Goaway
    \/ \E k \in Keys, b \in Boundaries : PrepareHead(k, b)
    \/ \E k \in Keys, b \in Boundaries, c \in {"Open", "Stalled"} : SendData(k, b, c)
    \/ \E k \in Keys : OpenDuplex(k) \/ Blocked(k) \/ Cancel(k) \/ CancelIngress(k) \/ ReleaseDuplex(k)
    \/ \E n \in 1..(Limit + RstLen + 1) : Drain(n)

Next == NextFrame \/ NextApp

Spec == Init /\ [][Next]_vars

-----------------------------------------------------------------------------
(* What must hold.                                                         *)

KeysOf(kinds) == {[id |-> rec[s].id, slot |-> s] : s \in {x \in Slots : rec[x].kind \in kinds}}

Queued(k, what) == \E i \in DOMAIN events : events[i] = [key |-> k, what |-> what]

\* Every variable keeps the shape of the Rust type it models; in particular no
\* record ever reaches an arm marked unreachable!("stream").
TypeOK ==
    /\ rec \in [Slots -> {r \in Record : r.live # "Unreachable"}]
    /\ index \subseteq Keys
    /\ peerCount \in 0..MaxActive /\ lastPeer \in 0..MaxId
    /\ Elements(resets) \subseteq Keys /\ Elements(wakes) \subseteq Keys /\ waiting \subseteq Keys
    /\ pending \in {NoBlock} \cup [id : Ids, boundary : Boundaries, action : {"Deliver", "Reset"}]
    /\ head \in {NoHead} \cup [key : Keys, boundary : Boundaries]
    /\ Len(events) <= EventCap
    /\ used \in 0..(Limit + RstLen + 1) /\ barrier \in {"Open", "Blocked"}
    /\ mode \in {"app", "decode", "failed"} /\ phase \in {"Open", "Draining"}
    /\ peerResets \in 0..MaxResets
    /\ app \in [Ids -> Apps]

\* The index, the counters, the reset chain and the slab (store.rs) describe the
\* same streams: by_id holds exactly the active and resetting records, one per id;
\* peer_count counts the active ones; the chain runs through each resetting record
\* exactly once.
StoreConsistent ==
    /\ TypeOK
    /\ index = KeysOf({"Active", "Reset"})
    /\ \A j, k \in index : j.id = k.id => j = k
    /\ peerCount = Cardinality(KeysOf({"Active"}))
    /\ Elements(resets) = KeysOf({"Reset"})
    /\ Distinct(resets)

\* A record lives exactly as long as somebody will still name it: the phase that
\* owns the slot agrees with the terminal events still queued (ready/raw.rs) and
\* with the duplex session (build.rs), so no slot leaks and none is reused early.
OwnersMatch ==
    \A k \in Keys :
        LET mine == IF rec[k.slot].id = k.id /\ rec[k.slot].kind # "Free"
                    THEN rec[k.slot].live ELSE "None"
        IN  /\ mine \in {"Reset", "DuplexReset"} <=> Queued(k, "Reset")
            /\ Queued(k, "End") => mine \in {"End", "DuplexEnd", "Reset", "DuplexReset"}
            /\ mine \in {"End", "DuplexEnd"} => Queued(k, "End")
            /\ mine \in {"Duplex", "DuplexEnd", "DuplexReset"} =>
                   app[k.id] \in {"duplexHead", "duplex"}
            /\ rec[k.slot].kind = "Closed" /\ rec[k.slot].id = k.id => mine # "None"

\* A duplex session's key stays good until the session gives it up: its slot is
\* not handed to another stream under it (Driver::open to response::discard).
SessionsHold ==
    \A id \in Ids : app[id] \in {"duplexHead", "duplex"} =>
        \E s \in Slots : rec[s].id = id /\ rec[s].live \in {"Duplex", "DuplexEnd", "DuplexReset"}

\* A slot is kept for as long as its owners need it, and no longer.
OwnersExact == OwnersMatch /\ SessionsHold

\* The wake queue names active streams, each once, and a stream that was refused
\* for credit and has credit again is in it (Wake::update, Wake::clear).
NoLostWake ==
    /\ Elements(wakes) \subseteq KeysOf({"Active"})
    /\ Distinct(wakes)
    /\ \A k \in waiting : IsActive(k) /\ rec[k.slot].credit = "Open" => k \in Elements(wakes)

\* While frames are decoded no reset is waiting and the reserve is free, so the
\* RST_STREAM a handler writes unconditionally (Outbound::reset) always fits.
ReserveKept ==
    /\ mode = "decode" => resets = <<>> /\ used <= Limit
    /\ used <= Limit + RstLen + (IF phase = "Open" THEN 0 ELSE 1)

\* After cancel_ingress the application hears nothing more of the exchange.
CancelledSilent ==
    \A i \in DOMAIN events :
        events[i].key # None => app[events[i].key.id] # "cancelled"

\* The queued events of a stream come in protocol order: nothing follows its
\* RESET, and only a RESET follows its END (data::apply, headers::complete).
EventOrder ==
    \A i, j \in DOMAIN events :
        i < j /\ events[i].key = events[j].key /\ events[i].key # None =>
            events[i].what = "More" \/ (events[i].what = "End" /\ events[j].what = "Reset")

\* The queue of events tells each stream's story in order, or not at all.
EventsExact == EventOrder /\ CancelledSilent

\* A head retained for want of output belongs to a live stream (one left behind
\* would refuse every later response with HeaderBusy) and takes, whenever it is
\* written, the effect the stream state of that moment prescribes (Sending::apply
\* against State::send), whatever was received in between.
HeadEffectExact ==
    head # NoHead =>
        LET state == rec[head.key.slot].state
        IN  /\ IsActive(head.key)
            /\ Apply(head.boundary, state) = Send(state, "Headers", head.boundary)

\* A stream id that is spent stays spent (history.rs): it is never active or idle again.
NeverReopened == [][\A id \in Ids : Lookup(id) = "Closed" => Lookup(id)' = "Closed"]_vars

-----------------------------------------------------------------------------
(* Progress.  The server's turn runs the decoder, then the application over   *)
(* the events, then the transport, so each gets its turn again and again.     *)

Fairness ==
    /\ WF_vars(EndDrive)
    /\ SF_vars(TakeEvent)
    /\ SF_vars(\E n \in 1..(Limit + RstLen + 1) : Drain(n))
    /\ \A k \in Keys : SF_vars(ReleaseDuplex(k))

FairSpec == Spec /\ Fairness

\* Every RST_STREAM that did not fit (State::flush_resets) is eventually written.
ResetsWritten == resets # <<>> ~> resets = <<>>

\* A closed stream's slot is eventually free again: whoever keeps it (Closed in
\* store.rs) lets go, unless the connection fails first.
SlotsReturn == \A s \in Slots : rec[s].kind = "Closed" ~> (rec[s].kind = "Free" \/ mode = "failed")

\* Whatever a closed stream leaves behind goes in the end: its RST_STREAM and its slot.
ClosedStreamsGo == ResetsWritten /\ SlotsReturn
=============================================================================
