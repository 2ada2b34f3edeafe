------------------------------- MODULE H2Flow -------------------------------
(***************************************************************************)
(* The arithmetic of HTTP/2 flow control (h2/src/flow.rs), as operators.   *)
(* A send window is the pair the code keeps: `value`, the credit the       *)
(* scheduler may still spend, and `committed`, the credit the protocol     *)
(* still owes, which includes DATA that is reserved but not yet written.   *)
(* A receive window only ever has value = committed, so a receive endpoint *)
(* is modelled by its value and the bytes `held` back from WINDOW_UPDATE.  *)
(***************************************************************************)
EXTENDS Integers

CONSTANTS Initial,    \* Window::INITIAL, 65535 in the code
          MaxWindow,  \* Window::MAX, 2^31 - 1 in the code
          MinWindow   \* i32::MIN, -2^31 in the code

ASSUME FlowAssumption ==
    /\ Initial \in Nat \ {0}
    /\ MaxWindow \in Nat
    /\ Initial <= MaxWindow
    /\ MinWindow = -MaxWindow - 1

Least(a, b) == IF a < b THEN a ELSE b
Most(a, b)  == IF a < b THEN b ELSE a

-----------------------------------------------------------------------------
(* Targets: what a receiver advertises, and when it gives credit back.     *)

\* Target::new admits 0 .. Window::MAX.
Targets == 0 .. MaxWindow

\* Defect: refill only once more than the whole window is held back.
Low_Whole(target) == target + 1

Low(target) == Most(target \div 2, 1)

ForTarget(target) == Most(target, Initial)

\* Target::increment: the WINDOW_UPDATE the first flight carries (0 = none).
FirstIncrement(target) == Most(target - Initial, 0)

-----------------------------------------------------------------------------
(* Send windows.                                                           *)

Windows == [value : Int, committed : Int]

With(v) == [value |-> v, committed |-> v]

Available(w) == Most(w.value, 0)
IsStalled(w) == w.value <= 0

Shift(w, n) == [value |-> w.value + n, committed |-> w.committed + n]

\* Window::increase refuses a WINDOW_UPDATE that overflows the protocol credit.
CanIncrease(w, inc) == w.committed + inc <= MaxWindow

\* Window::adjust refuses a SETTINGS delta that leaves the i32 range.
CanAdjust(w, delta) ==
    /\ w.committed + delta <= MaxWindow
    /\ w.value + delta >= MinWindow

DebitUpTo(conn, stream, limit) ==
    Least(Least(Available(conn), Available(stream)), limit)

\* Debit::commit, Debit::reserve, Reserved::accept_one, Reserved::cancel_one.
Spend(w, n)   == Shift(w, -n)
Reserve(w, n) == [w EXCEPT !.value = @ - n]
Accept(w, n)  == [w EXCEPT !.committed = @ - n]
Cancel(w, n)  == [w EXCEPT !.value = @ + n]

-----------------------------------------------------------------------------
(* Receive endpoints.                                                      *)

Stalls(value, amount) == amount > Most(value, 0)

\* Defects: the window is refilled without the bytes just received; the
\* WINDOW_UPDATE omits them.
Endpoint_ShortWindow(value, held, limit, amount, refill) ==
    IF amount = 0 \/ ~refill \/ held + amount < limit
    THEN [next |-> value - amount, held |-> held + amount, bump |-> 0]
    ELSE [next |-> value - amount + held, held |-> 0, bump |-> held + amount]
Endpoint_StaleBump(value, held, limit, amount, refill) ==
    IF amount = 0 \/ ~refill \/ held + amount < limit
    THEN [next |-> value - amount, held |-> held + amount, bump |-> 0]
    ELSE [next |-> value + held, held |-> 0, bump |-> held]

\* Endpoint::new once the amount is admitted: the next window, the bytes still
\* held back and the WINDOW_UPDATE to send (0 = none).
Endpoint(value, held, limit, amount, refill) ==
    IF amount = 0 \/ ~refill \/ held + amount < limit
    THEN [next |-> value - amount, held |-> held + amount, bump |-> 0]
    ELSE [next |-> value + held, held |-> 0, bump |-> held + amount]
=============================================================================
