----------------------------- MODULE WsInbound -----------------------------
(***************************************************************************)
(* Admission and reassembly of WebSocket frames (ws/src/inbound,           *)
(* ws/src/fragment): a frame is looked at again and again as its bytes     *)
(* arrive, and is committed once.                                          *)
(*                                                                         *)
(* A frame is a record [op, fin, masked, data].  data is a sequence of     *)
(* pieces that stand for bytes: "l" and "m" begin a character that one or  *)
(* two "t" complete, and every other piece is a character.  A head takes   *)
(* HeadLen units of the stream and a piece one.                            *)
(***************************************************************************)
EXTENDS Integers, Sequences, FiniteSets, SequencesExt

CONSTANTS
    HeadLen,        \* units of a frame's head
    MaxControl,     \* frame::MAX_CONTROL_PAYLOAD
    MaxFrame,       \* App::limit
    MaxMessage      \* Buffer::max_payload

ASSUME InboundAssumption ==
    /\ HeadLen \in Nat \ {0}
    /\ MaxControl \in Nat /\ MaxFrame \in Nat /\ MaxMessage \in Nat

Wire(f) == HeadLen + Len(f.data)

\* Inbound::new: the fragments assembled, and the end of the frame being awaited (0: not known).
NewInbound == [open |-> "none", payload |-> <<>>, end |-> 0]

-----------------------------------------------------------------------------
(* Text. *)

Width(piece) == IF piece = "l" THEN 2 ELSE IF piece = "m" THEN 3 ELSE 1

\* str::from_utf8 succeeds.
Valid(s) ==
    /\ \A i \in DOMAIN s : \A j \in 1..(Width(s[i]) - 1) : i + j <= Len(s) /\ s[i + j] = "t"
    /\ \A i \in DOMAIN s : s[i] = "t" => \E j \in 1..2 : i > j /\ Width(s[i - j]) > j

\* The error of str::from_utf8 has no length: all but the last character, which is cut,
\* is valid.  Its beginnings.
Cuts(s) ==
    {i \in DOMAIN s : /\ i + Width(s[i]) - 1 > Len(s)
                      /\ Valid(SubSeq(s, 1, i - 1))
                      /\ \A j \in (i + 1)..Len(s) : s[j] = "t"}

\* Defect: the pieces after the cut character are not looked at.
ValidPair_Head(first, second) ==
    IF Valid(first) THEN Valid(second)
    ELSE \E i \in Cuts(first) :
            LET tail == SubSeq(first, i, Len(first))
                needed == Min({Width(first[i]) - Len(tail), Len(second)})
            IN Valid(tail \o SubSeq(second, 1, needed))

\* text::validate_pair: the character cut between the two parts is put together apart.
ValidPair(first, second) ==
    IF Valid(first) THEN Valid(second)
    ELSE \E i \in Cuts(first) :
            LET tail == SubSeq(first, i, Len(first))
                needed == Min({Width(first[i]) - Len(tail), Len(second)})
            IN /\ Valid(tail \o SubSeq(second, 1, needed))
               /\ Valid(SubSeq(second, needed + 1, Len(second)))

-----------------------------------------------------------------------------
(* Admission.  A fault is named by the close code it is answered with. *)

Control == {"close", "ping", "pong"}

\* Buffer::admit and start: the fault of a data frame, or "none".
AdmitFragment(in, f) ==
    IF f.op = "cont"
    THEN IF in.open = "none" THEN "Protocol"
         ELSE IF Len(in.payload) + Len(f.data) > MaxMessage THEN "TooLarge" ELSE "none"
    ELSE IF in.open # "none" THEN "Protocol"
         ELSE IF Len(f.data) > MaxMessage THEN "TooLarge" ELSE "none"

\* valid::check, for a peer that is a client.
Check(in, f) ==
    IF ~f.masked THEN "Protocol"
    ELSE IF f.op \in Control
         THEN IF ~f.fin \/ Len(f.data) > MaxControl THEN "Protocol" ELSE "none"
    ELSE IF f.op \in {"text", "binary", "cont"} THEN AdmitFragment(in, f)
    ELSE "Protocol"

\* What Inbound::decode finds in the first have units: more to wait for, a fault, or a
\* complete frame.
Changed == "Changed"
Decode(in, f, have) ==
    IF in.end # 0 /\ have < in.end THEN "more"
    ELSE IF have < HeadLen THEN IF in.end # 0 THEN Changed ELSE "more"
    ELSE IF Check(in, f) # "none" THEN Check(in, f)
    ELSE IF Len(f.data) > MaxFrame THEN "TooLarge"
    ELSE IF in.end # 0 /\ in.end # Wire(f) THEN Changed
    ELSE IF have < Wire(f) THEN "more" ELSE "ready"

\* The bound decode leaves: known once the head is admitted.
Bounded(in, f, have) ==
    IF have >= HeadLen /\ Decode(in, f, have) \in {"more", "ready"} /\ ~(in.end # 0 /\ have < in.end)
    THEN [in EXCEPT !.end = Wire(f)] ELSE in

\* Admission::prepare of a complete frame: the fault of its payload, or "none".  A close
\* with an admitted code begins with "c".
PrepareFault(in, f) ==
    LET whole == f.op = "text" /\ f.fin /\ ~Valid(f.data)
        joined == f.op = "cont" /\ f.fin /\ in.open = "text" /\ ~ValidPair(in.payload, f.data)
        close == f.op = "close" /\ f.data # <<>>
    IN IF whole \/ joined THEN "InvalidPayload"
       ELSE IF close /\ Head(f.data) # "c" THEN "Protocol"
       ELSE IF close /\ ~Valid(Tail(f.data)) THEN "InvalidPayload" ELSE "none"

IsMessage(f) == f.op \in {"text", "binary", "cont"} /\ f.fin
MessageOf(in, f) == IF f.op = "cont" THEN in.payload \o f.data ELSE f.data
KindOf(in, f) == IF f.op = "cont" THEN in.open ELSE f.op

\* Defect: the bound of the committed frame is inherited by the next.
Settle_Kept(in) == in

\* Inbound::settle.
Settle(in) == [in EXCEPT !.end = 0]

\* The commit of a frame: a message ends its fragments, a fragment is appended, and a
\* control frame leaves them alone.
CommitFrame(in, f) ==
    IF f.op \in Control THEN Settle(in)
    ELSE IF f.op = "cont" /\ f.fin THEN Settle([in EXCEPT !.open = "none", !.payload = <<>>])
    ELSE IF f.fin THEN Settle(in)
    ELSE Settle([in EXCEPT !.payload = @ \o f.data,
                           !.open = IF f.op = "cont" THEN @ ELSE f.op])
=============================================================================
