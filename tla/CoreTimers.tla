----------------------------- MODULE CoreTimers -----------------------------
(***************************************************************************)
(* What a deadline book promises (abstract specification).  Every exchange *)
(* has one instant per action; it moves only when the exchange changes     *)
(* phase or makes progress, at once and by the phase's window.  An action  *)
(* is handed out when its instant has come, the earliest first, and at     *)
(* equal instants the one of lowest rank.                                  *)
(***************************************************************************)
EXTENDS Naturals

CONSTANTS Keys,      \* exchanges
          Actions,   \* what may fall due
          Phases,    \* actions that fall due one window after they are set
          Window     \* their windows; 0: disabled

VARIABLES now,    \* the clock
          due,    \* the instant of every exchange and action; 0: not set
          event   \* what happened last, and to which exchange

vars == <<now, due, event>>

Happened(kind, k, a) == [kind |-> kind, key |-> k, action |-> a]

\* The order of deadline::Action: Total, Head, BodyIdle, Handler,
\* ResponseAdmission, then wakes.
Rank(a) ==
    IF a = "Total" THEN 0 ELSE IF a = "Head" THEN 1 ELSE IF a = "BodyIdle" THEN 2
    ELSE IF a = "Handler" THEN 4 ELSE IF a = "ResponseAdmission" THEN 5 ELSE 6

Init ==
    /\ now = 0
    /\ due = [k \in Keys |-> [a \in Actions |-> 0]]
    /\ \E k \in Keys : event = Happened("Changed", k, "None")

Tick ==
    /\ now' = now + 1
    /\ UNCHANGED <<due, event>>

\* An exchange moves on: phases are set one window ahead, cleared or kept, and
\* no other exchange is touched.
Change(k) ==
    /\ \A j \in Keys \ {k} : due'[j] = due[j]
    /\ \A a \in Phases : due'[k][a] \in {due[k][a], 0, now + Window[a]}
    /\ event' = Happened("Changed", k, "None")
    /\ UNCHANGED now

\* Body bytes arrive: the idle instant, if there is one, moves ahead at once.
Progress(k) ==
    /\ due' = [due EXCEPT ![k]["BodyIdle"] = IF @ = 0 THEN 0 ELSE now + Window["BodyIdle"]]
    /\ event' = Happened("Progress", k, "None")
    /\ UNCHANGED now

\* The exchange ends, and with it everything it waited for.
Retire(k) ==
    /\ due' = [due EXCEPT ![k] = [a \in Actions |-> 0]]
    /\ event' = Happened("Retired", k, "None")
    /\ UNCHANGED now

\* The earliest instant of all has come: its action is handed out, once.
Expire(k, a) ==
    /\ 0 < due[k][a] /\ due[k][a] <= now
    /\ \A j \in Keys, b \in Actions :
          0 < due[j][b] => \/ due[k][a] < due[j][b]
                           \/ due[k][a] = due[j][b] /\ Rank(a) <= Rank(b)
    /\ due' = [due EXCEPT ![k][a] = 0]
    /\ event' = Happened("Expired", k, a)
    /\ UNCHANGED now

Next ==
    \/ Tick
    \/ \E k \in Keys : Change(k) \/ Progress(k) \/ Retire(k)
    \/ \E k \in Keys, a \in Actions : Expire(k, a)

Spec == Init /\ [][Next]_vars
=============================================================================
