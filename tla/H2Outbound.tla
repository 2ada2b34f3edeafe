----------------------------- MODULE H2Outbound -----------------------------
(***************************************************************************)
(* The output of an HTTP/2 connection (h2/src/conn/outputs): a byte ring   *)
(* for frames that are copied and a ledger for frames that are retained by *)
(* reference, DATA with its body and complete header blocks.  A retained   *)
(* frame carries a mark, the position of the ring at which it belongs; the *)
(* ring's own position advances as bytes leave and wraps around.           *)
(*                                                                         *)
(* The transport takes, in one write, bytes of the ring up to the first    *)
(* mark and then, if the prefix has room for its frame header, that        *)
(* retained frame.                                                         *)
(*                                                                         *)
(* A byte is a unit [id, pos]: its frame and its place in the frame.  A    *)
(* retained frame is withdrawn with its owner (0: never, a header block).  *)
(***************************************************************************)
EXTENDS Queues, FiniteSetsExt

CONSTANTS Owners,        \* streams with retained DATA
          MaxFrames,     \* bound: frames queued in a behaviour
          Lens,          \* lengths of copied frames
          Bodies,        \* lengths of retained bodies
          HeadLen,       \* frame header of retained DATA
          Rooms,         \* prefix capacities the transport offers
          Limit,         \* Capacity::logical
          ResetSlack,    \* room past the limit for an RST_STREAM
          TerminalSlack, \* room past that for GOAWAY
          Payloads,      \* capacity of the ledger
          Modulus        \* marks wrap here, 2^64 in the code

ASSUME OutboundAssumption ==
    /\ {MaxFrames, HeadLen, Limit, ResetSlack, TerminalSlack, Payloads} \subseteq Nat \ {0}
    /\ Lens \subseteq Nat \ {0} /\ Bodies \subseteq Nat /\ Rooms \subseteq Nat
    /\ Owners \subseteq Nat \ {0}
    /\ Modulus \in Nat /\ Modulus > Limit + ResetSlack + TerminalSlack

VARIABLES
    ring,      \* outbound.bytes
    ledger,    \* outbound.payloads.records, oldest first
    bytes,     \* outbound.payloads.bytes
    head,      \* outbound.head
    terminal,  \* whether GOAWAY has used its reserve
    frames,    \* frames queued so far
    taken      \* units the latest step handed to the transport

vars == <<ring, ledger, bytes, head, terminal, frames, taken>>

Init ==
    /\ ring = <<>> /\ ledger = <<>> /\ bytes = 0
    /\ head = 0
    /\ terminal = "free"
    /\ frames = 0 /\ taken = <<>>

Units(id, len) == [i \in 1..len |-> [id |-> id, pos |-> i]]

-----------------------------------------------------------------------------
(* Marks.                                                                  *)

Size == Len(ring) + bytes

\* Mark::after
After(mark, n) == (mark + n) % Modulus

\* Mark::distance
Distance(mark, from) == (mark + Modulus - from) % Modulus

-----------------------------------------------------------------------------
(* Queueing.                                                               *)

\* consume::Error::check and reserve::Append::try_new
HasRoom(len, limit) == bytes <= limit /\ Len(ring) + len <= limit - bytes

\* Outbound::append, of an ordinary frame or of an RST_STREAM.
Copy(len, limit) ==
    /\ frames < MaxFrames
    /\ HasRoom(len, limit)
    /\ ring' = ring \o Units(frames + 1, len)
    /\ frames' = frames + 1
    /\ taken' = <<>>
    /\ UNCHANGED <<ledger, bytes, head, terminal>>

\* reserve::Ring::finish: GOAWAY takes the reserve nothing else may use.
Finish ==
    /\ frames < MaxFrames
    /\ terminal = "free"
    /\ terminal' = "used"
    /\ ring' = ring \o Units(frames + 1, TerminalSlack)
    /\ frames' = frames + 1
    /\ taken' = <<>>
    /\ UNCHANGED <<ledger, bytes, head>>

\* Where a frame retained now belongs.
Mark == After(head, Len(ring))

\* Prepared::bind and Owned::try_new, then Entry::insert: DATA of a stream, or a
\* header block (owner 0, no header of its own).  n is its data_len.
Retain(owner, headLen, body) ==
    /\ frames < MaxFrames
    /\ Len(ledger) < Payloads
    /\ Size + headLen + body <= Limit
    /\ ledger' = Append(ledger, [id |-> frames + 1, owner |-> owner, mark |-> Mark,
                                 head |-> headLen, n |-> headLen + body])
    /\ bytes' = bytes + headLen + body
    /\ frames' = frames + 1
    /\ taken' = <<>>
    /\ UNCHANGED <<ring, head, terminal>>

-----------------------------------------------------------------------------
(* Withdrawing.                                                            *)

\* What Taken::commit gives back, over these records of the ledger.
Charge(records) == Amount(ledger, records)

\* Ledger::drain by the stream's id.
Withdrawn(owner) == {p \in Elements(ledger) : p.owner = owner}

\* Retained::discard, Retained::cancel.
Cancel(owner) ==
    LET gone == Withdrawn(owner)
    IN  /\ gone # {}
        /\ ledger' = Drop(ledger, gone)
        /\ bytes' = bytes - Charge(gone)
        /\ taken' = <<>>
        /\ UNCHANGED <<ring, head, terminal, frames>>

\* Retained::clear, when the connection closes.
Clear ==
    /\ ledger # <<>>
    /\ ledger' = <<>>
    /\ bytes' = 0
    /\ taken' = <<>>
    /\ UNCHANGED <<ring, head, terminal, frames>>

-----------------------------------------------------------------------------
(* The transport.                                                          *)

\* Bytes of the ring ahead of the first retained frame.
Due == IF ledger = <<>> THEN Len(ring) ELSE Distance(ledger[1].mark, head)

\* Transfer::select: how much of the ring goes into the prefix.
Prefix(room) == Min({room, Due, Len(ring)})

\* Defect: a prefix the frame header fills exactly is refused.
TakesFront_Strict(room) ==
    /\ ledger # <<>>
    /\ Prefix(room) = Due
    /\ Prefix(room) + ledger[1].head < room

\* Defect: the front of the ledger overtakes bytes the prefix had no room for.
TakesFront_Early(room) ==
    /\ ledger # <<>>
    /\ Prefix(room) + ledger[1].head <= room

\* Transfer::select: whether the front of the ledger follows.
TakesFront(room) ==
    /\ ledger # <<>>
    /\ Prefix(room) = Due
    /\ Prefix(room) + ledger[1].head <= room

\* Defect: the ring's position is not moved with the bytes.
Advanced_Not(n) == head

Advanced(n) == After(head, n)

\* Selected::finish, Pending::commit: n bytes of the ring leave, and the front of the ledger.
Commit(n, front) ==
    /\ ring' = SubSeq(ring, n + 1, Len(ring))
    /\ head' = Advanced(n)
    /\ taken' = SubSeq(ring, 1, n) \o
                (IF front = "taken" THEN Units(ledger[1].id, ledger[1].n) ELSE <<>>)
    /\ IF front = "taken"
       THEN ledger' = Tail(ledger) /\ bytes' = bytes - ledger[1].n
       ELSE UNCHANGED <<ledger, bytes>>
    /\ UNCHANGED <<terminal, frames>>

\* One write of the transport.  A write that is dropped instead changes nothing.
Write(room) ==
    /\ Prefix(room) > 0 \/ TakesFront(room)
    /\ Commit(Prefix(room), IF TakesFront(room) THEN "taken" ELSE "deferred")

\* Pooled::new: the pooled cursor is shorter than the prefix chosen for it.
WriteShort(room, cursor) ==
    LET n == Min({cursor, Prefix(room)})
    IN  /\ cursor < Prefix(room) + (IF TakesFront(room) THEN ledger[1].head ELSE 0)
        /\ n > 0
        /\ Commit(n, "deferred")

\* Transfer::drain: bytes are consumed up to the first retained frame.
Drain(n) ==
    /\ n > 0 /\ n <= Due /\ n <= Len(ring)
    /\ Commit(n, "deferred")

Next ==
    \/ \E len \in Lens, limit \in {Limit, Limit + ResetSlack} : Copy(len, limit)
    \/ \E o \in Owners, b \in Bodies : Retain(o, HeadLen, b)
    \/ \E b \in Bodies \ {0} : Retain(0, 0, b)
    \/ \E o \in Owners : Cancel(o)
    \/ \E p \in Rooms : Write(p)
    \/ \E p \in Rooms, r \in Rooms : WriteShort(p, r)
    \/ \E n \in Rooms : Drain(n)
    \/ Finish \/ Clear

Spec == Init /\ [][Next]_vars

\* The event loop writes again whenever output is left.  Nothing more is assumed
\* of the prefix it offers than that it can carry one frame header.
FairSpec == Spec /\ WF_vars(Write(HeadLen))

-----------------------------------------------------------------------------
(* What must hold.                                                         *)

\* The wire order of ring r, its position at h, up to byte m, with the retained frames
\* of q each after the ring's bytes up to its mark.
Place(q, h, i) == IF i = 0 THEN 0 ELSE Distance(q[i].mark, h)

Woven(r, h, q, m) ==
    LET wire[i \in 0 .. Len(q)] ==
            IF i = 0 THEN <<>>
            ELSE wire[i - 1] \o (SubSeq(r, Place(q, h, i - 1) + 1, Place(q, h, i)) \o Units(q[i].id, q[i].n))
    IN  wire[Len(q)] \o SubSeq(r, Place(q, h, Len(q)) + 1, m)

Merged == Woven(ring, head, ledger, Len(ring))

\* Every variable has the shape of the field it models, and the output never
\* outgrows its storage: ordinary frames stop at the limit, an RST_STREAM and
\* GOAWAY have what is reserved for them.
TypeOK ==
    /\ head \in 0 .. Modulus - 1 /\ bytes \in Nat
    /\ terminal \in {"free", "used"}
    /\ Len(ledger) <= Payloads
    /\ Size <= Limit + ResetSlack + (IF terminal = "used" THEN TerminalSlack ELSE 0)

\* The ledger's account is the sum of its records ("the admitted sum", Taken::commit)
\* and its marks run forward through the bytes the ring holds, wrapped or not; the
\* output as a whole stays within its storage.
LedgerExact ==
    /\ TypeOK
    /\ bytes = Charge(Elements(ledger))
    /\ \A i \in DOMAIN ledger :
        /\ Distance(ledger[i].mark, head) <= Len(ring)
        /\ i > 1 => Distance(ledger[i - 1].mark, head) <= Distance(ledger[i].mark, head)

\* Whatever is withdrawn from the middle and however writes are cut, the transport
\* gets the frames whole and in the order they were queued (Transfer::select).
Wire == INSTANCE H2Wire WITH queue <- Merged, last <- taken

WireOrder == Wire!Spec

\* Output does not stay: a prefix that holds a frame header is enough to get on.
Delivered == Size # 0 ~> Size = 0
=============================================================================
