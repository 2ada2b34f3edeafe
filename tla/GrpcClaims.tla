----------------------------- MODULE GrpcClaims -----------------------------
(***************************************************************************)
(* The places replies are delivered to (grpc/src/client/receive/claims.rs) *)
(* and the budget of undelivered messages (receive/budget.rs).             *)
(*                                                                         *)
(* A call reserves its place when it starts.  A unary call is given one    *)
(* result, a streaming call a queue of events that ends with a terminal    *)
(* one.  Results share one slab and events another, so a call that is not  *)
(* polled takes room from every other call of its kind.                    *)
(*                                                                         *)
(* A slab key carries a generation, so a place is named by its call.  A    *)
(* message has size one: the limit on bytes is the limit on messages.      *)
(***************************************************************************)
EXTENDS Integers, Sequences, FiniteSets, FiniteSetsExt

CONSTANTS
    MaxId,         \* bound: calls started
    PlaceCap,      \* places of each kind: limits.unary_count, limits.call_count
    ReadyCap,      \* results waiting to be polled: input.done_count
    EventCap,      \* events waiting to be polled: input.event_count
    MessageCap     \* messages waiting to be polled: input.owner_count

ASSUME ClaimsAssumption ==
    /\ MaxId \in Nat
    /\ \A c \in {PlaceCap, ReadyCap, EventCap, MessageCap} : c \in Nat \ {0}

Ids == 1..MaxId
Kinds == {"Unary", "Streaming"}

\* A place: kind "None" is vacant; queue holds what was delivered and not polled; last tells
\* that the terminal delivery was made (Completion::Ready, Tail::Closed).
Vacant == [kind |-> "None", queue |-> <<>>, last |-> FALSE]
Place(kind) == [kind |-> kind, queue |-> <<>>, last |-> FALSE]

\* Delivery: what is delivered, the message in it (0: none), and the message charged to it.
Delivery(what, message, charge) == [what |-> what, message |-> message, charge |-> charge]

\* Result: a unary reply that ended; Trailers: the end of a stream; Error: either, broken off;
\* Exhausted: broken off for want of room.
IsTerminal(what) == what \in {"Result", "Trailers", "Error", "Exhausted"}

\* Claims::try_new, Budget::new
NewClaims == [places |-> [id \in Ids |-> Vacant], budget |-> 0]

OfKind(c, kind) == {id \in Ids : c.places[id].kind = kind}

\* Claims::claim_unary, claim_stream: the slab has room.
CanClaim(c, kind) == Cardinality(OfKind(c, kind)) < PlaceCap
Claim(c, id, kind) == [c EXCEPT !.places[id] = Place(kind)]

\* How much of a slab the deliveries of a kind take.
Waiting(c, kind) == MapThenSumSet(LAMBDA id : Len(c.places[id].queue), OfKind(c, kind))

\* Claims::try_ready
TryReady(c, kind) == Waiting(c, kind) < (IF kind = "Unary" THEN ReadyCap ELSE EventCap)

\* Budget::admit
Admits(c) == c.budget < MessageCap
Admit(c) == [c EXCEPT !.budget = @ + 1]

\* Budget::release, of a delivery or of a message a response holds.
Release(c, charge) == IF charge = 0 THEN c ELSE [c EXCEPT !.budget = @ - 1]

\* Defect: any message in the budget counts as one that can be polled.
CanRelease_Any(c, held) == c.budget > 0

\* Budget::can_release: more messages than unfinished unary replies hold.
CanRelease(c, held) == c.budget > held

\* Claims::push_unary, push_event refuse a place that is gone or has its terminal delivery.
CanPush(c, id) == c.places[id].kind # "None" /\ ~c.places[id].last
Push(c, id, d) ==
    [c EXCEPT !.places[id].queue = Append(@, d), !.places[id].last = IsTerminal(d.what)]

\* Claims::poll_unary, poll_stream with Assembler::poll_*: the charge is released, and the
\* place too after its last delivery.
Poll(c, id) ==
    LET p == c.places[id]
        d == Head(p.queue)
    IN Release([c EXCEPT !.places[id] =
                   IF p.last /\ Len(p.queue) = 1 THEN Vacant ELSE [p EXCEPT !.queue = Tail(@)]],
               d.charge)

\* Charges of a queue.
Charges(q) == Cardinality({i \in 1..Len(q) : q[i].charge # 0})

\* Claims::cancel_unary, cancel_feed: everything the place holds is given back.
CancelPlace(c, id) ==
    [c EXCEPT !.places[id] = Vacant, !.budget = @ - Charges(c.places[id].queue)]
=============================================================================
