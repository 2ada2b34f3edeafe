---------------------------- MODULE ClientReuse ----------------------------
(***************************************************************************)
(* When a client connection may carry another request (fiber client,       *)
(* exchange/reuse.rs).  A budget is a duration in ticks, 0 when the        *)
(* connection is to be retired; an idle admission counts its lease down.   *)
(***************************************************************************)
EXTENDS Naturals

CONSTANTS
    Margin,         \* KEEP_ALIVE_MARGIN
    NoHint          \* a response without a keep-alive timeout

ASSUME ReuseAssumption == Margin \in Nat

\* framing::Control of a final response: persistent or not, the peer's timeout.
Control(reusable, timeout) == [reusable |-> reusable, timeout |-> timeout]

Idle(left) == [kind |-> "idle", left |-> left]
Reserved == [kind |-> "reserved", left |-> 0]
Fresh == [kind |-> "fresh", left |-> 0]
Active == [kind |-> "active", left |-> 0]
Sealed == [kind |-> "sealed", left |-> 0]

\* Policy::available of a policy whose maximum is max.
Available(max) == IF max = 0 THEN Fresh ELSE Idle(max)

\* Defect: the margin under the peer's own timeout is left out.
Admit_NoMargin(max, control) ==
    IF max = 0 \/ ~control.reusable THEN 0
    ELSE IF control.timeout = NoHint THEN max
    ELSE IF control.timeout < max THEN control.timeout ELSE max

\* Policy::admit: the peer's timeout, less the margin, only shortens the budget.
Admit(max, control) ==
    IF max = 0 \/ ~control.reusable THEN 0
    ELSE IF control.timeout = NoHint THEN max
    ELSE LET peer == IF control.timeout > Margin THEN control.timeout - Margin ELSE 0
         IN IF peer < max THEN peer ELSE max

\* Admission::can_queue.
CanQueue(adm) == adm.kind \in {"fresh", "active", "idle"}

\* Admission::claim.
IsLive(adm) == adm.kind \in {"fresh", "active"} \/ (adm.kind = "idle" /\ adm.left > 0)
IsExpired(adm) == adm.kind = "idle" /\ adm.left = 0

\* Admission::submitted.
Submitted(adm, max) ==
    IF adm.kind = "sealed" \/ (adm.kind \in {"fresh", "reserved"} /\ max = 0)
    THEN Sealed ELSE Active

\* Admission::completed: a lease starts only when nothing is outstanding.
Completed(adm, budget, depth) ==
    IF adm.kind = "sealed" \/ budget = 0 THEN Sealed
    ELSE IF depth # 0 THEN Active ELSE Idle(budget)

\* Time passes.
Aged(adm) == IF adm.kind = "idle" /\ adm.left > 0 THEN Idle(adm.left - 1) ELSE adm
=============================================================================
