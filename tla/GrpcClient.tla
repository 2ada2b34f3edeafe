----------------------------- MODULE GrpcClient -----------------------------
(***************************************************************************)
(* The calls of one gRPC client connection (grpc/src/client/state and      *)
(* receive) over an HTTP/2 connection (h2/src/conn/machine).               *)
(*                                                                         *)
(* A call is three things that have to agree: a stream of the connection,  *)
(* a record in the table of calls, and a reply's place.  The table is      *)
(* indexed by the stream's slot.  The connection gives a slot back as soon *)
(* as a stream is closed, while the events that tell so may wait: ingress  *)
(* stops at an event whose delivery has no room, and what follows it waits *)
(* until the application polls.                                            *)
(*                                                                         *)
(* Ingress is one event, or one message of an event, per step; the         *)
(* application acts only when run.at is "idle".  Which queued requests a   *)
(* drive sends is left open (flow control and rounds are H2SendFlow and    *)
(* CoreSchedule).  A message is a number, a request a boundary.  Left out: *)
(* interim heads, a message that one DATA frame begins and another         *)
(* completes, segment storage, failures to allocate, and the output a      *)
(* RST_STREAM waits for.                                                   *)
(***************************************************************************)
EXTENDS GrpcClaims, SequencesExt

CONSTANTS
    Slots,         \* positions of the stream slab and of the table of calls: 1..n
    RequestCap,    \* requests waiting to be sent: output.owner_count
    WireCap,       \* events the HTTP/2 connection holds
    MaxFrames,     \* bound: frames of the peer
    Asks           \* bound: id -> the kinds of reply its call may ask for, and whether with
                   \* its only message or with an open request

ASSUME ClientAssumption ==
    /\ IsFiniteSet(Slots) /\ Slots # {} /\ Slots = 1..Cardinality(Slots)
    /\ \A c \in {RequestCap, WireCap} : c \in Nat \ {0}
    /\ MaxFrames \in Nat
    /\ Asks \in [Ids -> SUBSET (Kinds \X BOOLEAN)]

VARIABLES
    conn,    \* the connection: net (slot -> stream), wire (its events), next (id), goaway, frames
    calls,   \* calls::Store: slot -> Record
    ing,     \* Assembler: claims and budget, pending, phase
    run,     \* at: what the connection is doing; via: the call whose send drives, 0 for none;
             \* whole: that send consumes the handle of the whole call
    app,     \* the application's handles of a call: of its reply, and whether it may still send
    peer,    \* history: what the peer sent of a reply that is still owned
    got,     \* history: what the application was given of a reply it still polls
    fault    \* history: why the connection failed, or "Drive" once another call paid for it

vars == <<conn, calls, ing, run, app, peer, got, fault>>

\* The state a handler works on.
w == [conn |-> conn, calls |-> calls, ing |-> ing]
Become(v) == conn' = v.conn /\ calls' = v.calls /\ ing' = v.ing

NoStream == [id |-> 0, local |-> "End", remote |-> "End"]
NoCall == [id |-> 0, resp |-> "None", held |-> 0, cut |-> FALSE, requests |-> <<>>, boundary |-> "End"]
NoKey == [id |-> 0, slot |-> 0]
Event(kind, key) ==
    [kind |-> kind, key |-> key, end |-> FALSE, valid |-> TRUE, grpc |-> TRUE, messages |-> <<>>,
     last |-> 0, clean |-> TRUE, next |-> 1]
NoEvent == Event("None", NoKey)
NoReply == [count |-> 0, grpc |-> FALSE, ended |-> FALSE, bad |-> FALSE, broken |-> FALSE]
Idle == [at |-> "idle", via |-> 0, whole |-> FALSE]
Draining == [Idle EXCEPT !.at = "drain"]
Driving(id, whole) == [at |-> "drive", via |-> id, whole |-> whole]

Init ==
    /\ conn = [net |-> [s \in Slots |-> NoStream], wire |-> <<>>, next |-> 1, goaway |-> FALSE, frames |-> 0]
    /\ calls = [s \in Slots |-> NoCall]
    /\ ing = [claims |-> NewClaims, pending |-> NoEvent, phase |-> "Open"]
    /\ run = Idle
    /\ app = [id \in Ids |-> [kind |-> "None", slot |-> 0, reply |-> "None", sends |-> FALSE]]
    /\ peer = [id \in Ids |-> NoReply]
    /\ got = [id \in Ids |-> <<>>]
    /\ fault = "None"

-----------------------------------------------------------------------------
(* The connection and the table. *)

Key(id) == [id |-> id, slot |-> app[id].slot]

\* store.active_mut: the stream is still the connection's.
IsActive(v, k) == v.conn.net[k.slot].id = k.id
FreeStream(v, k) == IF IsActive(v, k) THEN [v EXCEPT !.conn.net[k.slot] = NoStream] ELSE v

\* Connection::cancel: a reset, and Events::cancel takes the stream's events off the queue.
CancelStream(v, k) ==
    [FreeStream(v, k) EXCEPT !.conn.wire = SelectSeq(@, LAMBDA e : e.key # k)]

\* Set::try_to, try_parts: END_STREAM on a stream the peer ended closes it.
EndLocal(v, k) ==
    IF v.conn.net[k.slot].remote = "End" THEN FreeStream(v, k)
    ELSE [v EXCEPT !.conn.net[k.slot].local = "End"]

\* Store::get, Store::response_mut.
HasCall(v, k) == v.calls[k.slot].id = k.id
HasResponse(v, k) == HasCall(v, k) /\ v.calls[k.slot].resp # "None"

\* Store::remove: the queue of requests goes with the record.
RemoveCall(v, k) == [v EXCEPT !.calls[k.slot] = NoCall]

\* A request that was sent to its end: nothing keeps the record but the reply.
IsSent(r) == r.boundary = "End" /\ r.requests = <<>>

\* Store::reclaim
Reclaim(v, k) ==
    IF HasCall(v, k) /\ ~HasResponse(v, k) /\ IsSent(v.calls[k.slot]) THEN RemoveCall(v, k) ELSE v

Queued(v) == MapThenSumSet(LAMBDA s : Len(v.calls[s].requests), Slots)

\* Turn::run, after the events: a drive, when there is something to send.
Settled(v) == IF Queued(v) = 0 THEN Idle ELSE Driving(0, FALSE)

\* Store::charges
Held(v) == Cardinality({s \in Slots : v.calls[s].held # 0})

\* Assembler::cancel_reply
CancelReply(v, r) == [v EXCEPT !.ing.claims = CancelPlace(Release(@, r.held), r.id)]

\* Output::cancel and Policy::cancel, of a stream that has a record.
RetireCall(v, k) ==
    LET gone == RemoveCall(CancelStream(v, k), k)
    IN IF HasResponse(v, k) THEN CancelReply(gone, v.calls[k.slot]) ELSE gone

\* Assembler::discard
Discard(v, k) == IF v.ing.pending.key = k THEN [v EXCEPT !.ing.pending = NoEvent] ELSE v

\* State::cancel
Cancel(v, k) == IF HasCall(v, k) THEN RetireCall(Discard(v, k), k) ELSE Discard(v, k)

\* State::cancel_unary, cancel_feed: the place of a call whose reply came is given back too.
CancelCall(v, k) ==
    LET c == Cancel(v, k)
    IN IF HasResponse(v, k) THEN c ELSE [c EXCEPT !.ing.claims = CancelPlace(@, k.id)]

\* Assembler::refill after a poll or a cancel: what waits is looked at again.
Refill(v) ==
    run' = IF v.ing.pending # NoEvent \/ v.conn.wire # <<>> THEN Draining ELSE run

-----------------------------------------------------------------------------
(* Starting a call. *)

NewCall(id) == [NoCall EXCEPT !.id = id, !.resp = "Wait", !.boundary = "More"]

\* Defect: a call the table has no room for leaves its place behind.
Refuse_KeepsPlace(v, k) == FreeStream(v, k)

\* The stream is reset and the place released.
Refuse(v, k) == [FreeStream(v, k) EXCEPT !.ing.claims = CancelPlace(@, k.id)]

\* The positions the stream slab may give next: one given back, or the lowest not used yet.
\* Which, decides whether the table still has the record of an earlier stream there, and the
\* order in which a GOAWAY visits it.
FreeSlots == {s \in Slots : conn.net[s] = NoStream /\ s <= conn.next}

\* State::start_reply, up to the table: a place, then a stream.
Reserved(k, kind) ==
    [w EXCEPT !.ing.claims = Claim(@, k.id, kind), !.conn.next = @ + 1,
              !.conn.net[k.slot] = [id |-> k.id, local |-> "Open", remote |-> "Initial"]]

\* State::start_reply, alone for an open request, or followed by its only message.  A start
\* that the connection refuses (a GOAWAY was decoded, no stream is free) releases the place
\* just claimed and changes nothing.
Start(kind, single, slot) ==
    LET k == [id |-> conn.next, slot |-> slot]
    IN /\ run.at = "idle" /\ conn.next \in Ids /\ <<kind, single>> \in Asks[conn.next]
       /\ ing.phase = "Open" /\ ~conn.goaway
       /\ slot \in FreeSlots /\ CanClaim(ing.claims, kind)
       /\ \/ /\ calls[slot] = NoCall
             /\ Become([Reserved(k, kind) EXCEPT !.calls[slot] = NewCall(k.id)])
             /\ app' = [app EXCEPT ![k.id] = [kind |-> kind, slot |-> slot, reply |-> "Held",
                                              sends |-> ~single]]
             /\ run' = IF single THEN [Idle EXCEPT !.at = "send", !.via = k.id] ELSE run
          \/ /\ calls[slot] # NoCall
             /\ Become(Refuse(Reserved(k, kind), k))
             /\ app' = [app EXCEPT ![k.id].reply = "Refused"]
             /\ UNCHANGED run
       /\ UNCHANGED <<peer, got, fault>>

-----------------------------------------------------------------------------
(* Requests. *)

\* The histories of a reply end with it.
Forget(id) == peer' = [peer EXCEPT ![id] = NoReply] /\ got' = [got EXCEPT ![id] = <<>>]

\* State::send, send_bytes, finish on an error: the call is cancelled, and its place with it
\* unless the record's reply is already there.  finish takes the handle of the whole call and
\* gives none back, so that reply then has no owner.
SendFails(v, k, whole) ==
    /\ Become(Cancel(v, k))
    /\ app' = [app EXCEPT ![k.id].sends = @ /\ ~whole,
                          ![k.id].reply = IF HasResponse(v, k) THEN "Refused"
                                          ELSE IF whole /\ @ = "Held" THEN "Lost" ELSE @]
    /\ IF HasResponse(v, k) THEN Forget(k.id) ELSE UNCHANGED <<peer, got>>
    /\ run' = Idle

\* Commit::apply of a request that is queued.
Enqueue(v, k, b) ==
    [v EXCEPT !.calls[k.slot].requests = Append(@, b), !.calls[k.slot].boundary = b]

\* Output::send.  A queue, of any call, puts the message behind it and drives; otherwise it
\* is written at once, or queued when blocked.  A request that ended takes no message.
SendMessage(k, b) ==
    LET open == HasCall(w, k) /\ calls[k.slot].boundary = "More"
    IN \/ /\ open /\ Queued(w) \in 1..(RequestCap - 1)
          /\ Become(Enqueue(w, k, b))
          /\ run' = Driving(k.id, FALSE)
          /\ UNCHANGED <<app, peer, got>>
       \/ /\ open /\ Queued(w) = 0 /\ IsActive(w, k)
          /\ \/ LET sent == [w EXCEPT !.calls[k.slot].boundary = b]
                IN Become(Reclaim(IF b = "End" THEN EndLocal(sent, k) ELSE sent, k))
             \/ Become(Enqueue(w, k, b))
          /\ run' = Idle
          /\ UNCHANGED <<app, peer, got>>
       \/ /\ open => (IF Queued(w) = 0 THEN ~IsActive(w, k) ELSE Queued(w) = RequestCap)
          /\ SendFails(w, k, FALSE)

\* State::start_single, start_raw: the only message ends the request.
SendOnly ==
    /\ run.at = "send"
    /\ SendMessage(Key(run.via), "End")
    /\ UNCHANGED fault

\* try_send, try_half, send_raw.
Send(id) ==
    /\ run.at = "idle" /\ app[id].sends
    /\ SendMessage(Key(id), "More")
    /\ UNCHANGED fault

\* State::finish: the last queued message takes the end, or an empty DATA does.  whole tells
\* that the handle is of the whole call (request, bidi), not the send half of a split one.
Finish(id, whole) ==
    LET k == Key(id)
        q == calls[k.slot].requests
        sealed == app' = [app EXCEPT ![id].sends = FALSE] /\ UNCHANGED <<peer, got>>
    IN /\ run.at = "idle" /\ app[id].sends /\ (app[id].kind = "Unary" => whole)
       /\ \/ /\ HasCall(w, k) /\ q # <<>>
             /\ Become([w EXCEPT !.calls[k.slot].requests = Append(Front(q), "End"),
                                 !.calls[k.slot].boundary = "End"])
             /\ run' = Driving(id, whole)
             /\ sealed
          \/ /\ HasCall(w, k) /\ q = <<>> /\ IsActive(w, k)
             /\ \/ Become(Reclaim(EndLocal([w EXCEPT !.calls[k.slot].boundary = "End"], k), k))
                \/ Queued(w) < RequestCap /\ Become(Enqueue(w, k, "End"))
             /\ sealed
             /\ UNCHANGED run
          \/ /\ HasCall(w, k) => (q = <<>> /\ (~IsActive(w, k) \/ Queued(w) = RequestCap))
             /\ SendFails(w, k, whole)
       /\ UNCHANGED fault

\* Driver::data and settle: n requests of the slot are sent.
Sent(v, s, n) ==
    LET k == [id |-> v.calls[s].id, slot |-> s]
        q == v.calls[s].requests
        u == [v EXCEPT !.calls[s].requests = SubSeq(q, n + 1, Len(q))]
    IN IF n = 0 THEN v ELSE Reclaim(IF q[n] = "End" THEN EndLocal(u, k) ELSE u, k)

\* Turns a drive can take: any number of requests of each active stream.
Turns(v) ==
    {f \in [Slots -> 0..RequestCap] :
        \A s \in Slots : f[s] <= Len(v.calls[s].requests)
            /\ (f[s] > 0 => IsActive(v, [id |-> v.calls[s].id, slot |-> s]))}

\* Store::drive, without a failure.
Drive ==
    /\ run.at = "drive"
    /\ \E f \in Turns(w) : Become(FoldLeft(LAMBDA v, s : Sent(v, s, f[s]), w, SetToSeq(Slots)))
    /\ run' = Idle
    /\ UNCHANGED <<app, peer, got, fault>>

\* Driver::settle, Terminal::Failed: the turn of a stream the peer reset.  Its reset fails
\* as well, so the record stays, without its requests, and the drive is an error: of the
\* call that was sending, or else of the connection.  What the drive sends besides is Drive.
DriveFails ==
    /\ run.at = "drive"
    /\ \E dead \in SUBSET {s \in Slots : calls[s].requests # <<>> /\ conn.net[s].id # calls[s].id} :
          LET v == [w EXCEPT !.calls = [s \in Slots |->
                       IF s \in dead THEN [@[s] EXCEPT !.requests = <<>>] ELSE @[s]]]
          IN /\ dead # {}
             /\ \/ run.via = 0 /\ run' = [run EXCEPT !.at = "failed"] /\ Become(v) /\ UNCHANGED <<app, peer, got>>
                \/ run.via # 0 /\ SendFails(v, Key(run.via), run.whole)
             /\ fault' = IF {calls[s].id : s \in dead} = {run.via} THEN fault ELSE "Drive"

\* Session::drain, flush: output went out, and the connection drives.
Flush ==
    /\ run.at = "idle" /\ Queued(w) > 0
    /\ run' = Driving(0, FALSE)
    /\ UNCHANGED <<conn, calls, ing, app, peer, got, fault>>

-----------------------------------------------------------------------------
(* Ingress: Turn::drain. *)

Current == IF ing.pending # NoEvent THEN ing.pending ELSE Head(conn.wire)

\* The current event is taken, and either done with or kept, in part, as the pending one.
Taken == [w EXCEPT !.conn.wire = IF ing.pending # NoEvent THEN @ ELSE Tail(@), !.ing.pending = NoEvent]
Keep(v, e) == [v EXCEPT !.ing.pending = e]

\* Step::Complete, Step::Blocked and an error out of drain.
Complete(v) == Become(v) /\ UNCHANGED <<run, fault>>
Blocked(e) == Become(Keep(Taken, e)) /\ run' = Settled(w) /\ UNCHANGED fault
Fails(cause) ==
    /\ run' = [run EXCEPT !.at = "failed"]
    /\ fault' = IF fault = "None" THEN cause ELSE fault
    /\ UNCHANGED <<conn, calls, ing>>

Room(v, k) == TryReady(v.ing.claims, app[k.id].kind)

\* Turn::publish: the place gets its terminal delivery, with the message a unary reply holds.
Publish(v, r, what) ==
    [v EXCEPT !.ing.claims =
        Push(@, r.id, Delivery(what, IF what = "Result" THEN r.held ELSE 0, r.held))]

\* Defect: the end of the stream is taken for the end of the message.
Ending_Cut(r) == IF app[r.id].kind = "Unary" THEN "Result" ELSE "Trailers"

\* How a reply that was not broken off ends.
Ending(r) == IF r.cut THEN "Error" ELSE IF app[r.id].kind = "Unary" THEN "Result" ELSE "Trailers"

\* Store::finish and Turn::finish: the record stays while its request is unsent; a message
\* that is cut short is an error.
FinishReply(v, k) ==
    LET r == v.calls[k.slot]
        u == IF IsSent(r) THEN RemoveCall(v, k)
             ELSE [v EXCEPT !.calls[k.slot].resp = "None", !.calls[k.slot].held = 0]
    IN Publish(u, r, Ending(r))

\* Turn::finish_reset
FinishReset(v, k, what) == Publish(RemoveCall(CancelStream(v, k), k), v.calls[k.slot], what)

\* Claims would refuse the delivery.
Unplaced(k) == ~CanPush(ing.claims, k.id)

\* Turn::reset
OnReset(e) ==
    IF ~HasCall(w, e.key) THEN Fails("Unknown")
    ELSE IF ~HasResponse(w, e.key) THEN Complete(RetireCall(Taken, e.key))
    ELSE IF ~Room(w, e.key) THEN Blocked([e EXCEPT !.kind = "Reset"])
    ELSE IF Unplaced(e.key) THEN Fails("Claim")
    ELSE Complete(FinishReset(Taken, e.key, "Error"))

\* Turn::head, Section::Trailing.
OnTrailers(e) ==
    IF ~HasResponse(w, e.key) THEN Fails("Unknown")
    ELSE IF ~Room(w, e.key) THEN Blocked(e)
    ELSE IF ~e.valid THEN OnReset(e)
    ELSE IF Unplaced(e.key) THEN Fails("Claim")
    ELSE Complete(FinishReply(Taken, e.key))

\* Turn::head, Section::Initial: with END_STREAM it is the whole reply.
OnHead(e) ==
    LET s == e.key.slot
        headed == [Taken EXCEPT !.calls[s].resp = IF e.grpc THEN "Grpc" ELSE "Plain"]
    IN IF ~HasResponse(w, e.key) THEN Fails("Unknown")
       ELSE IF ~Room(w, e.key) /\ (app[e.key.id].kind = "Streaming" \/ e.end) THEN Blocked(e)
       ELSE IF ~e.valid THEN OnReset(e)
       ELSE IF Unplaced(e.key) THEN Fails("Claim")
       ELSE IF e.end THEN Complete(FinishReply(Taken, e.key))
       ELSE IF app[e.key.id].kind = "Unary" THEN Complete(headed)
       ELSE Complete([headed EXCEPT !.ing.claims = Push(@, e.key.id, Delivery("Headers", 0, 0))])

\* What is left of a DATA event once its first message is dealt with.
Rest(v, e) ==
    IF Len(e.messages) = 1 /\ ~e.end THEN v ELSE Keep(v, [e EXCEPT !.messages = Tail(@)])

\* Data::publish: held for the result of a unary call, or delivered.
PublishMessage(v, e) ==
    LET m == Head(e.messages)
        u == [v EXCEPT !.ing.claims = Admit(@)]
    IN Rest(IF app[e.key.id].kind = "Unary" THEN [u EXCEPT !.calls[e.key.slot].held = m]
            ELSE [u EXCEPT !.ing.claims = Push(@, e.key.id, Delivery("Message", m, m))], e)

\* Data::run, one message or the end of the event.  -1 is a malformed message, 0 one that is
\* cut short.  A budget that only unfinished replies hold refuses the message.
OnData(e) ==
    LET k == e.key
        r == calls[k.slot]
        m == Head(e.messages)
        discard == r.resp = "Plain"
    IN IF ~HasResponse(w, k) THEN Fails("Unknown")
       ELSE IF discard /\ ~e.end THEN Complete(Taken)
       ELSE IF ~Room(w, k) THEN Blocked(e)
       ELSE IF Unplaced(k) THEN Fails("Claim")
       ELSE IF discard \/ e.messages = <<>> THEN Complete(FinishReply(Taken, k))
       ELSE IF m = 0 THEN Complete(Rest([Taken EXCEPT !.calls[k.slot].cut = TRUE], e))
       ELSE IF m = -1 \/ (app[k.id].kind = "Unary" /\ r.held # 0) THEN Complete(FinishReset(Taken, k, "Error"))
       ELSE IF Admits(ing.claims) THEN Complete(PublishMessage(Taken, e))
       ELSE IF CanRelease(ing.claims, Held(w)) THEN Blocked(e)
       ELSE Complete(FinishReset(Taken, k, "Exhausted"))

\* Phase::observe
Observe(phase, clean) == IF phase = "Failed" \/ ~clean THEN "Failed" ELSE "Drain"

\* The calls a GOAWAY ends, from the table's index on where it stopped.
Abandoned(e) ==
    {s \in Slots : s >= e.next /\ calls[s].resp # "None" /\ ~(e.clean /\ calls[s].id <= e.last)}

\* Turn::goaway, one call of the table.
OnGoAway(e) ==
    LET seen == [Taken EXCEPT !.ing.phase = Observe(@, e.clean)]
        s == Min(Abandoned(e))
        k == [id |-> calls[s].id, slot |-> s]
    IN IF Abandoned(e) = {} THEN Complete(seen)
       ELSE IF ~Room(w, k)
            THEN /\ Become(Keep(seen, [e EXCEPT !.next = s]))
                 /\ run' = Settled(w) /\ UNCHANGED fault
       ELSE IF Unplaced(k) THEN Fails("Claim")
       ELSE Complete(Keep(FinishReset(seen, k, "Error"), [e EXCEPT !.next = s + 1]))

\* Turn::step
Step ==
    /\ run.at = "drain" /\ (ing.pending # NoEvent \/ conn.wire # <<>>)
    /\ LET e == Current
       IN \/ e.kind = "Head" /\ OnHead(e)
          \/ e.kind = "Trailers" /\ OnTrailers(e)
          \/ e.kind = "Data" /\ OnData(e)
          \/ e.kind = "Reset" /\ OnReset(e)
          \/ e.kind = "GoAway" /\ OnGoAway(e)
    /\ UNCHANGED <<app, peer, got>>

\* The queue is empty: Turn::run drives the requests.
Drained ==
    /\ run.at = "drain" /\ ing.pending = NoEvent /\ conn.wire = <<>>
    /\ run' = Settled(w)
    /\ UNCHANGED <<conn, calls, ing, app, peer, got, fault>>

\* Session::resume: the runtime looks at a blocked connection again.
Resume ==
    /\ run.at = "idle" /\ (ing.pending # NoEvent \/ conn.wire # <<>>)
    /\ run' = Draining
    /\ UNCHANGED <<conn, calls, ing, app, peer, got, fault>>

-----------------------------------------------------------------------------
(* The application. *)

\* poll_unary, poll_stream with something to take.  The handle of a unary reply is what
\* finish gives for the handle of the request.
PollReply(id) ==
    LET d == Head(ing.claims.places[id].queue)
        v == [w EXCEPT !.ing.claims = Poll(@, id)]
    IN /\ run.at = "idle" /\ app[id].reply = "Held" /\ ing.claims.places[id].queue # <<>>
       /\ app[id].kind = "Unary" => ~app[id].sends
       /\ Become(v)
       /\ \/ /\ IsTerminal(d.what)
             /\ app' = [app EXCEPT ![id].reply = "Ended"]
             /\ Forget(id)
          \/ /\ ~IsTerminal(d.what)
             /\ got' = [got EXCEPT ![id] = Append(@, [what |-> d.what, message |-> d.message])]
             /\ UNCHANGED <<app, peer>>
       /\ Refill(v)
       /\ UNCHANGED fault

\* cancel of a call, or of the response half of a split one, whose send half stays.
CancelReplyHandle(id, whole) ==
    LET v == CancelCall(w, Key(id))
    IN /\ run.at = "idle" /\ app[id].reply = "Held" /\ (app[id].kind = "Unary" => whole)
       /\ Become(v)
       /\ app' = [app EXCEPT ![id].reply = "Dropped", ![id].sends = @ /\ ~whole]
       /\ Forget(id)
       /\ Refill(v)
       /\ UNCHANGED fault

\* cancel_half: the whole call goes, unless the reply is already in its place.
CancelHalf(id) ==
    LET v == Cancel(w, Key(id))
    IN /\ run.at = "idle" /\ app[id].sends /\ app[id].kind = "Streaming"
       /\ Become(v)
       /\ app' = [app EXCEPT ![id].sends = FALSE,
                             ![id].reply = IF HasResponse(w, Key(id)) THEN "Dropped" ELSE @]
       /\ IF HasResponse(w, Key(id)) THEN Forget(id) ELSE UNCHANGED <<peer, got>>
       /\ Refill(v)
       /\ UNCHANGED fault

-----------------------------------------------------------------------------
(* The peer.  A frame is decoded into an event while the queue has room; ingest then drains. *)

Receive(e, net) ==
    /\ run.at = "idle" /\ Len(conn.wire) < WireCap /\ conn.frames < MaxFrames
    /\ conn' = [conn EXCEPT !.wire = Append(@, e), !.net = net, !.frames = @ + 1,
                            !.goaway = @ \/ e.kind = "GoAway"]
    /\ run' = Draining
    /\ UNCHANGED <<calls, ing, app, got, fault>>

\* The stream of slot s after a frame of the peer: closed when both sides ended.
Net(s, remote) ==
    [conn.net EXCEPT ![s] = IF remote = "End" /\ @.local = "End" THEN NoStream ELSE [@ EXCEPT !.remote = remote]]

StreamKey(s) == [id |-> conn.net[s].id, slot |-> s]

\* What is observed of the peer, of a reply that somebody still owns.
Observed(id, p) ==
    peer' = IF app[id].reply = "Held" THEN [peer EXCEPT ![id] = p] ELSE peer

\* HEADERS: the head of a reply, or with END_STREAM all of it.
RecvHead(s, end, valid, grpc) ==
    LET k == StreamKey(s)
    IN /\ conn.net[s].remote = "Initial"
       /\ Receive([Event("Head", k) EXCEPT !.end = end, !.valid = valid, !.grpc = grpc],
                  Net(s, IF end THEN "End" ELSE "Body"))
       /\ Observed(k.id, [peer[k.id] EXCEPT !.ended = end /\ valid, !.bad = ~valid, !.grpc = grpc])

\* DATA: messages, the last of which may be malformed or cut short by what follows.
RecvData(s, messages, end) ==
    LET k == StreamKey(s)
        good == Cardinality({i \in DOMAIN messages : messages[i] > 0})
    IN /\ conn.net[s].remote = "Body" /\ ~peer[k.id].bad
       /\ Receive([Event("Data", k) EXCEPT !.end = end, !.messages = messages],
                  Net(s, IF end THEN "End" ELSE "Body"))
       /\ Observed(k.id, [peer[k.id] EXCEPT !.count = @ + good, !.ended = end, !.bad = good < Len(messages)])

\* HEADERS: trailers, which always end the stream.
RecvTrailers(s, valid) ==
    LET k == StreamKey(s)
    IN /\ conn.net[s].remote = "Body"
       /\ Receive([Event("Trailers", k) EXCEPT !.valid = valid], Net(s, "End"))
       /\ Observed(k.id, [peer[k.id] EXCEPT !.ended = valid, !.bad = @ \/ ~valid])

\* RST_STREAM: the stream is closed before the event is seen.
RecvReset(s) ==
    LET k == StreamKey(s)
    IN /\ k.id # 0
       /\ Receive(Event("Reset", k), [conn.net EXCEPT ![s] = NoStream])
       /\ Observed(k.id, [peer[k.id] EXCEPT !.broken = TRUE])

\* GOAWAY: no stream starts after it.  Ids above last were not processed.
RecvGoAway(last, clean) ==
    /\ Receive([Event("GoAway", NoKey) EXCEPT !.last = last, !.clean = clean], conn.net)
    /\ peer' = [id \in Ids |-> IF app[id].reply # "Held" \/ (clean /\ id <= last) THEN peer[id]
                               ELSE [peer[id] EXCEPT !.broken = TRUE]]

\* What a DATA frame may carry, n being the number of the next message; empty only at the end.
Chunks(n, end) == IF end THEN {<<>>, <<n>>} ELSE {<<n>>, <<n, n + 1>>, <<n, -1>>, <<0>>}

Peer ==
    \/ \E s \in Slots, end, valid, grpc \in BOOLEAN :
          (grpc => valid /\ ~end) /\ RecvHead(s, end, valid, grpc)
    \/ \E s \in {t \in Slots : conn.net[t].id # 0}, end \in BOOLEAN :
          \E c \in Chunks(peer[conn.net[s].id].count + 1, end) : RecvData(s, c, end)
    \/ \E s \in Slots, valid \in BOOLEAN : RecvTrailers(s, valid)
    \/ \E s \in Slots : RecvReset(s)
    \/ \E last \in 0..MaxId : RecvGoAway(last, last > 0)

Next ==
    \/ \E kind \in Kinds, single \in BOOLEAN, slot \in Slots : Start(kind, single, slot)
    \/ SendOnly \/ Drive \/ Flush \/ Step \/ Drained \/ Resume
    \/ DriveFails
    \/ \E id \in Ids, whole \in BOOLEAN : Finish(id, whole) \/ CancelReplyHandle(id, whole)
    \/ \E id \in Ids : Send(id) \/ PollReply(id) \/ CancelHalf(id)
    \/ Peer

Spec == Init /\ [][Next]_vars

-----------------------------------------------------------------------------
(* Properties. *)

Events == ToSet(conn.wire) \cup {ing.pending}

\* An event after which the record of its stream goes, or its reply is in its place.
EndsReply(e) == e.kind \in {"Reset", "Trailers"} \/ e.end

\* Stream, record, place and budget agree between any two steps, though slots are reused while
\* the events of their last stream still wait: a live place is served by exactly one of a
\* record and its terminal delivery, and has an owner, or else a finish of the whole call failed
\* when that delivery was made already (what CapacityReturns is about); every stream has its
\* record; a record without its stream has the event that ends it; the budget is what is queued
\* and held; and no event meets a record or a place that is gone (state/mod.rs,
\* receive/turn.rs).  That a drive may meet a stream that is gone is ResetsStayLocal's.
PlacesExact ==
    /\ fault \notin {"Unknown", "Claim"}
    /\ \A id \in Ids :
          LET p == ing.claims.places[id]
              served == \E s \in Slots : calls[s].id = id /\ calls[s].resp # "None"
          IN IF p.kind = "None" THEN ~served
             ELSE /\ served # p.last
                  /\ app[id].reply # "Held" => app[id].reply = "Lost" /\ p.last /\ ~app[id].sends
    /\ \A s \in Slots :
          /\ conn.net[s].id \in {0, calls[s].id}
          /\ calls[s].id # conn.net[s].id =>
                \E e \in Events : e.key = [id |-> calls[s].id, slot |-> s] /\ EndsReply(e)
    /\ ing.claims.budget = Held(w) + MapThenSumSet(LAMBDA id : Charges(ing.claims.places[id].queue), Ids)

\* What a reply's owner was given and will be given, in order.
Delivered(id) ==
    got[id] \o [i \in DOMAIN ing.claims.places[id].queue |->
                    [what |-> ing.claims.places[id].queue[i].what,
                     message |-> ing.claims.places[id].queue[i].message]]

\* A reply is what the peer sent of it: its messages in order and without a gap after the
\* head, one terminal delivery last; a good end only of a reply that the peer ended well and
\* that was delivered whole, an error only of one that was broken off, whatever other calls
\* were cancelled, reset or given up meanwhile (receive/turn.rs, data.rs, assemble.rs).
RepliesExact ==
    \A id \in Ids :
        LET d == Delivered(id)
            told == SelectSeq(d, LAMBDA x : x.what = "Message")
            total == IF peer[id].grpc THEN peer[id].count ELSE 0
            last == IF d = <<>> THEN "None" ELSE d[Len(d)].what
        IN /\ \A i \in DOMAIN told : told[i].message = i
           /\ Len(told) <= total
           /\ \A i \in DOMAIN d : (IsTerminal(d[i].what) => i = Len(d)) /\ (d[i].what = "Headers" => i = 1)
           /\ last \in {"Result", "Trailers"} => peer[id].ended /\ (peer[id].grpc => ~peer[id].bad)
           /\ last = "Trailers" => Len(told) = total
           /\ last = "Result" => d[1].message = total
           /\ last = "Error" => peer[id].bad \/ peer[id].broken \/ (app[id].kind = "Unary" /\ total > 1)

\* Ingress stops at an event, which waits.
Stops == run.at = "drain" /\ run'.at \in {"idle", "drive"} /\ ing'.pending # NoEvent

\* A delivery waits that the owner of its place can poll.
Takeable(id) == ing.claims.places[id].queue # <<>> /\ app[id].reply = "Held"

\* An event that was looked at waits only for something a caller can take: when ingress stops
\* at an event, a delivery is there that the owner of its place can poll, or one that a failed
\* finish put out of reach (CapacityReturns).  A message for which only unfinished replies hold
\* the budget is refused instead, and an event that met no room goes on once all is polled
\* (Turn::drain, Data::budget, Budget::can_release).
NeverStuck == [][Stops => \E id \in Ids : Takeable(id) \/ app[id].reply = "Lost"]_vars

\* "early unary response and open request are reclaimed together"
\* (grpc/tests/grpc_calls_retire.rs): once a caller gave up the handle of its call, in whatever
\* way, no place is left that nobody can poll or cancel.
CapacityReturns == \A id \in Ids : ing.claims.places[id].kind # "None" => app[id].reply = "Held"

\* "stream-local resets" (grpc/tests/grpc_response_completion.rs): the peer's reset of one call is
\* no error of another call or of the connection.
ResetsStayLocal == fault # "Drive"
=============================================================================
