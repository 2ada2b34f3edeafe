------------------------------ MODULE H3Ledger ------------------------------
(***************************************************************************)
(* The ownership ledger of the HTTP/3 field encoder (h3 qpack/ledger).     *)
(*                                                                         *)
(* A field section that refers to the dynamic table is tracked until the   *)
(* peer's decoder acknowledges it or cancels its stream.  Two things are   *)
(* read from the ledger: the lowest table entry some section still needs   *)
(* (what may not be evicted) and how many streams the peer may be unable   *)
(* to decode yet (what SETTINGS_QPACK_BLOCKED_STREAMS limits).  A section  *)
(* that needs more insertions than the peer is known to have received is   *)
(* linked in a bucket: the position of the highest bit in which its count  *)
(* differs from the received count, so that an advance of the received     *)
(* count only visits the buckets it can change.                            *)
(*                                                                         *)
(* A ledger is a record.  The slab, the free lists, the heap positions and *)
(* the doubly linked chains are left out: a section is an element of its   *)
(* stream's queue, the heap is the minimum over them, a chain is a set.    *)
(***************************************************************************)
EXTENDS Integers, Sequences, FiniteSets, FiniteSetsExt, SequencesExt

CONSTANTS
    Streams,    \* the request streams
    Sections,   \* capacity of the ledger (Plan::new)
    Bits        \* width of an insertion count (64 in the code)

\* One tracked section (Row): its Required and Minimum counts, the bucket it is
\* linked in (0 when BlockPrevious is NONE), and whether its Next link is other
\* than UNPUBLISHED.
Section == [req: Nat, min: Nat, bucket: 0..Bits, pub: BOOLEAN]

\* Store: per stream the queue of its sections and the number of them that are
\* linked (Queue::Blocking), and the number of streams with one (blocked_streams).
Ledgers == [queue: [Streams -> Seq(Section)], blocking: [Streams -> Nat], blocked: Nat]

EmptyLedger ==
    [queue |-> [s \in Streams |-> <<>>], blocking |-> [s \in Streams |-> 0], blocked |-> 0]

-----------------------------------------------------------------------------
(* Buckets. *)

\* Bucket::new: the bit length of frontier XOR key, 0 when they are equal.
Bucket(frontier, key) ==
    CHOOSE b \in 0..Bits :
        /\ frontier \div 2^b = key \div 2^b
        /\ b > 0 => frontier \div 2^(b - 1) # key \div 2^(b - 1)

\* Frontier::insert: only a section above the frontier is linked.
Linked(received, required) == IF required > received THEN Bucket(received, required) ELSE 0

-----------------------------------------------------------------------------
(* Admission and tracking. *)

\* header.heap_len.
Held(l) == SumFunction([s \in Streams |-> Len(l.queue[s])])

\* Store::vacant.
Vacant(l) == Held(l) < Sections

\* Ledger::admit: may the next section of s refer to entries not received yet.
MayBlock(l, s, limit) == l.blocking[s] # 0 \/ l.blocked < limit

\* Admission::accept, on an absolute index.
Accepts(mayBlock, absolute, received) == mayBlock \/ absolute + 1 <= received

\* Admission::track and Tracked::apply.  Appending to a queue writes the Next link of
\* its tail, and with it removes the tail's UNPUBLISHED mark.
Tracked(l, s, required, minimum, received, published) ==
    LET blocks == required > received
        before == [i \in DOMAIN l.queue[s] |-> [l.queue[s][i] EXCEPT !.pub = TRUE]]
    IN  [l EXCEPT !.queue[s] = Append(before, [req |-> required, min |-> minimum,
                                               bucket |-> Linked(received, required),
                                               pub |-> published]),
                  !.blocking[s] = IF blocks THEN @ + 1 ELSE @,
                  !.blocked = IF blocks /\ l.blocking[s] = 0 THEN @ + 1 ELSE @]

-----------------------------------------------------------------------------
(* Release and advance. *)

\* Detached::unblock, for n sections of s at once.
Unblocked(l, s, n) ==
    [l EXCEPT !.blocking[s] = @ - n,
              !.blocked = IF n > 0 /\ l.blocking[s] = n THEN @ - 1 ELSE @]

\* Table::release_head: unlink the oldest section of s and retire it.
Released(l, s) ==
    [Unblocked(l, s, IF Head(l.queue[s]).bucket # 0 THEN 1 ELSE 0) EXCEPT !.queue[s] = Tail(@)]

\* Ledger::cancel and discard_initial: release every section of s; the last release
\* removes the stream.
Cancelled(l, s) ==
    [Unblocked(l, s, Cardinality({i \in DOMAIN l.queue[s] : l.queue[s][i].bucket # 0}))
        EXCEPT !.queue[s] = <<>>]

\* One section of a drained chain: relocated or detached.
Moved(x, received) == [x EXCEPT !.bucket = Linked(received, x.req)]

\* Defect: drains only the buckets below the one that changes.
Advanced_Short(l, previous, received) ==
    LET reach == Bucket(previous, received)
        drained(s) == {i \in DOMAIN l.queue[s] : l.queue[s][i].bucket \in 1..reach - 1}
        freed(s) == Cardinality({i \in drained(s) : l.queue[s][i].req <= received})
        blocking == [s \in Streams |-> l.blocking[s] - freed(s)]
    IN  [queue |-> [s \in Streams |-> [i \in DOMAIN l.queue[s] |->
                       IF i \in drained(s) THEN Moved(l.queue[s][i], received)
                                           ELSE l.queue[s][i]]],
         blocking |-> blocking,
         blocked |-> l.blocked - Cardinality({s \in Streams : l.blocking[s] > 0 /\ blocking[s] = 0})]

\* Frontier::advance: drain the buckets up to the one the two counts differ in; every
\* section there is relocated, or unblocked when it is now received.
Advanced(l, previous, received) ==
    LET reach == Bucket(previous, received)
        drained(s) == {i \in DOMAIN l.queue[s] : l.queue[s][i].bucket \in 1..reach}
        freed(s) == Cardinality({i \in drained(s) : l.queue[s][i].req <= received})
        blocking == [s \in Streams |-> l.blocking[s] - freed(s)]
    IN  [queue |-> [s \in Streams |-> [i \in DOMAIN l.queue[s] |->
                       IF i \in drained(s) THEN Moved(l.queue[s][i], received)
                                           ELSE l.queue[s][i]]],
         blocking |-> blocking,
         blocked |-> l.blocked - Cardinality({s \in Streams : l.blocking[s] > 0 /\ blocking[s] = 0})]

\* Advance::at_least.
AtLeast(previous, floor) == IF floor > previous THEN floor ELSE previous

\* Ledger::acknowledge: an acknowledgment of no section, or of one that has not been
\* sent, is an error of the peer.
Unknown(l, s) == l.queue[s] = <<>> \/ ~ Head(l.queue[s]).pub

Acknowledged(l, s, received) ==
    Advanced(Released(l, s), received, AtLeast(received, Head(l.queue[s]).req))

\* Occupied::publish_initial.
Published(l, s) == [l EXCEPT !.queue[s] = <<[Head(@) EXCEPT !.pub = TRUE]>> \o Tail(@)]

\* Store::floor: the lowest entry an outstanding section needs, else the default.
Floor(l, default) ==
    LET held == UNION {{l.queue[s][i].min : i \in DOMAIN l.queue[s]} : s \in Streams}
    IN  IF held = {} THEN default ELSE Min(held)

=============================================================================
