---------------------------- MODULE CoreDeadline ----------------------------
(***************************************************************************)
(* The deadline agenda of a connection (core/src/deadline): three phase    *)
(* lanes and a wake per exchange, and a heap with one key per exchange,    *)
(* the earliest of its lanes.  Body progress is lazy: it is only noted,    *)
(* and the idle deadline renewed when the old one comes to the heap's top. *)
(*                                                                         *)
(* The heap is modelled by the key each exchange has in it.  A key whose   *)
(* slot belongs to another exchange is refused and changes nothing; keys   *)
(* here have slots of their own.                                           *)
(***************************************************************************)
EXTENDS Naturals

CONSTANTS Keys,      \* exchanges
          Window,    \* config::Config: the window of each phase; 0: Disabled
          Delays,    \* how far ahead a wake is scheduled
          MaxTime    \* bound on the clock

Phases == {"Total", "Head", "BodyIdle", "Handler", "ResponseAdmission"}

Actions == Phases \cup {"Wake"}

ASSUME DeadlineAssumption ==
    /\ Window \in [Phases -> Nat]
    /\ Delays \subseteq Nat \ {0}
    /\ MaxTime \in Nat

VARIABLES
    now,       \* the clock
    total,     \* timeline.scheduled[0]
    ingress,   \* timeline.scheduled[1]: Head or BodyIdle
    work,      \* timeline.scheduled[2]: Handler or ResponseAdmission
    wake,      \* Lane::wake
    progress,  \* timeline.body_progress; 0: None
    heap,      \* the key of each exchange in the heap; NoItem: vacant
    event      \* what happened last

lanes == <<total, ingress, work, wake, progress>>
vars  == <<now, lanes, heap, event>>

NoItem == [at |-> 0, action |-> "None"]

Scheduled(at, action) == [at |-> at, action |-> action]

Happened(kind, k, a) == [kind |-> kind, key |-> k, action |-> a]

\* Phase::rank, and wakes after every expiry (Action::cmp).
Rank(a) ==
    IF a = "Total" THEN 0 ELSE IF a = "Head" THEN 1 ELSE IF a = "BodyIdle" THEN 2
    ELSE IF a = "Handler" THEN 4 ELSE IF a = "ResponseAdmission" THEN 5 ELSE 6

\* Scheduled::cmp
Precedes(x, y) == x.at < y.at \/ (x.at = y.at /\ Rank(x.action) <= Rank(y.action))

Sooner(x, y) == IF y = NoItem \/ (x # NoItem /\ Precedes(x, y)) THEN x ELSE y

\* Lane::next
NextOf(t, i, w, v) == Sooner(Sooner(t, i), Sooner(w, v))

Least(k) == NextOf(total[k], ingress[k], work[k], wake[k])

Init ==
    /\ now = 0
    /\ total = [k \in Keys |-> NoItem]
    /\ ingress = [k \in Keys |-> NoItem]
    /\ work = [k \in Keys |-> NoItem]
    /\ wake = [k \in Keys |-> NoItem]
    /\ progress = [k \in Keys |-> 0]
    /\ heap = [k \in Keys |-> NoItem]
    /\ \E k \in Keys : event = Happened("Changed", k, "None")

-----------------------------------------------------------------------------
(* One lane.                                                               *)

\* Timeline::insert_at with the phase's instant.
Put(lane, k, phase) ==
    IF Window[phase] = 0 THEN lane
    ELSE [lane EXCEPT ![k] = Scheduled(now + Window[phase], phase)]

\* Timeline::remove
Drop(lane, k, phase) ==
    IF lane[k].action = phase THEN [lane EXCEPT ![k] = NoItem] ELSE lane

\* Defect: a new item in the idle lane keeps the old one's progress.
Forget_Never(k) == progress

\* Timeline::set and clear_phase: a change of the idle lane ends its progress.
Forget(k) == IF ingress'[k] = ingress[k] THEN progress ELSE [progress EXCEPT ![k] = 0]

\* Defect: the heap is told only of an earlier minimum.
Rekey_Earlier(k) ==
    heap' = [heap EXCEPT ![k] =
                IF @ # NoItem /\ Precedes(@, Least(k)') THEN @ ELSE Least(k)']

\* Lane::transition and Agenda::transition: the heap is touched when the lane's
\* minimum moved.
Rekey(k) ==
    heap' = [heap EXCEPT ![k] = IF Least(k) = Least(k)' THEN @ ELSE Least(k)']

Changed(k) ==
    /\ Rekey(k)
    /\ event' = Happened("Changed", k, "None")
    /\ UNCHANGED now

-----------------------------------------------------------------------------
(* Agenda::transition, one action per Transition.                          *)

\* Transition::Open: a total set by the raw head is not extended.
Open(k) ==
    /\ total' = IF total[k] = NoItem THEN Put(total, k, "Total") ELSE total
    /\ UNCHANGED <<ingress, work, wake, progress>>
    /\ Changed(k)

AwaitingHead(k) ==
    /\ total' = Put(total, k, "Total")
    /\ ingress' = Put(ingress, k, "Head")
    /\ progress' = Forget(k)
    /\ UNCHANGED <<work, wake>>
    /\ Changed(k)

HeadAdmitted(k) ==
    /\ ingress' = Put(Drop(ingress, k, "Head"), k, "BodyIdle")
    /\ progress' = Forget(k)
    /\ UNCHANGED <<total, work, wake>>
    /\ Changed(k)

InputAdmitted(k) ==
    /\ ingress' = Drop(ingress, k, "Head")
    /\ UNCHANGED <<total, work, wake, progress>>
    /\ Changed(k)

\* Defect: progress counts from the idle deadline, not from now.
Renewal_FromDeadline(k) == ingress[k].at + Window["BodyIdle"]

Renewal(k) == now + Window["BodyIdle"]

\* Timeline::progress: noted, and not before what is noted already.  The heap
\* keeps the old key.
BodyProgress(k) ==
    /\ progress' =
          IF ingress[k].action = "BodyIdle" /\ Window["BodyIdle"] # 0 /\ progress[k] < Renewal(k)
          THEN [progress EXCEPT ![k] = Renewal(k)] ELSE progress
    /\ event' = Happened("Progress", k, "None")
    /\ UNCHANGED <<now, total, ingress, work, wake, heap>>

InputFinished(k) ==
    /\ ingress' = Drop(ingress, k, "BodyIdle")
    /\ progress' = Forget(k)
    /\ UNCHANGED <<total, work, wake>>
    /\ Changed(k)

HandlerStarted(k) ==
    /\ work' = Put(work, k, "Handler")
    /\ UNCHANGED <<total, ingress, wake, progress>>
    /\ Changed(k)

ResponseReady(k) ==
    /\ work' = Put(Drop(work, k, "Handler"), k, "ResponseAdmission")
    /\ UNCHANGED <<total, ingress, wake, progress>>
    /\ Changed(k)

ResponseCommitted(k) ==
    /\ work' = Drop(Drop(work, k, "Handler"), k, "ResponseAdmission")
    /\ UNCHANGED <<total, ingress, wake, progress>>
    /\ Changed(k)

\* Transition::Retired, which clears the wake too, and Book::cancel.
Retired(k) ==
    /\ total' = [total EXCEPT ![k] = NoItem]
    /\ ingress' = [ingress EXCEPT ![k] = NoItem]
    /\ work' = [work EXCEPT ![k] = NoItem]
    /\ wake' = [wake EXCEPT ![k] = NoItem]
    /\ progress' = [progress EXCEPT ![k] = 0]
    /\ heap' = [heap EXCEPT ![k] = NoItem]
    /\ event' = Happened("Retired", k, "None")
    /\ UNCHANGED now

-----------------------------------------------------------------------------
(* The rest of Book.                                                       *)

\* Book::schedule as it is used: the total of a raw head, and wakes.
ScheduleTotal(k) ==
    /\ total' = Put(total, k, "Total")
    /\ UNCHANGED <<ingress, work, wake, progress>>
    /\ Changed(k)

ScheduleWake(k, delay) ==
    /\ wake' = [wake EXCEPT ![k] = Scheduled(now + delay, "Wake")]
    /\ UNCHANGED <<total, ingress, work, progress>>
    /\ Changed(k)

\* Book::cancel_one, on whichever lane holds the action.
CancelOne(k, action) ==
    /\ total' = Drop(total, k, action)
    /\ ingress' = Drop(ingress, k, action)
    /\ work' = Drop(work, k, action)
    /\ wake' = Drop(wake, k, action)
    /\ progress' = Forget(k)
    /\ Changed(k)

\* Defect: an entry is due only once its instant is over.
Due_After(k) ==
    /\ heap[k] # NoItem /\ heap[k].at < now
    /\ \A j \in Keys : heap[j] # NoItem => Precedes(heap[k], heap[j])

\* The heap's first entry, if it is due.
Due(k) ==
    /\ heap[k] # NoItem /\ heap[k].at <= now
    /\ \A j \in Keys : heap[j] # NoItem => Precedes(heap[k], heap[j])

\* Timeline::refresh
Renews(k) == heap[k].action = "BodyIdle" /\ progress[k] > heap[k].at

\* Book::poll_due when the body has moved on: Poll::Renewed.
Renew(k) ==
    /\ Due(k)
    /\ Renews(k)
    /\ ingress' = [ingress EXCEPT ![k] = Scheduled(progress[k], "BodyIdle")]
    /\ progress' = [progress EXCEPT ![k] = 0]
    /\ UNCHANGED <<now, total, work, wake, event>>
    /\ heap' = [heap EXCEPT ![k] = Least(k)']

\* Book::poll_due otherwise: Poll::Expired.
Expire(k) ==
    /\ Due(k)
    /\ ~Renews(k)
    /\ LET a == heap[k].action
       IN  /\ total' = Drop(total, k, a)
           /\ ingress' = Drop(ingress, k, a)
           /\ work' = Drop(work, k, a)
           /\ wake' = Drop(wake, k, a)
           /\ progress' = IF a = "BodyIdle" THEN [progress EXCEPT ![k] = 0] ELSE progress
           /\ event' = Happened("Expired", k, a)
    /\ heap' = [heap EXCEPT ![k] = Least(k)']
    /\ UNCHANGED now

Poll(k) == Renew(k) \/ Expire(k)

Tick ==
    /\ now < MaxTime
    /\ now' = now + 1
    /\ UNCHANGED <<lanes, heap, event>>

-----------------------------------------------------------------------------
Transition(k) ==
    \/ Open(k) \/ AwaitingHead(k) \/ HeadAdmitted(k) \/ InputAdmitted(k)
    \/ BodyProgress(k) \/ InputFinished(k) \/ HandlerStarted(k)
    \/ ResponseReady(k) \/ ResponseCommitted(k) \/ Retired(k)

Schedule(k) ==
    \/ ScheduleTotal(k)
    \/ \E delay \in Delays : ScheduleWake(k, delay)
    \/ \E action \in Actions : CancelOne(k, action)

Next ==
    \/ Tick
    \/ \E k \in Keys : Transition(k) \/ Schedule(k) \/ Poll(k)

Spec == Init /\ [][Next]_vars

\* The event loop polls while the earliest deadline has passed: a turn that
\* renewed or expired reports the change, and the timer is armed again.
FairSpec == Spec /\ \A k \in Keys : WF_vars(Poll(k))

-----------------------------------------------------------------------------
\* What a lane may hold: nothing, or one of its own actions at an instant.
Lane(own) == {NoItem} \cup [at : Nat \ {0}, action : own]

\* Every lane holds one of its own actions (Phase::lane), or nothing.
TypeOK ==
    /\ now \in Nat
    /\ total \in [Keys -> Lane({"Total"})]
    /\ ingress \in [Keys -> Lane({"Head", "BodyIdle"})]
    /\ work \in [Keys -> Lane({"Handler", "ResponseAdmission"})]
    /\ wake \in [Keys -> Lane({"Wake"})]
    /\ progress \in [Keys -> Nat]
    /\ heap \in [Keys -> Lane(Actions)]

\* The heap's key is the earliest instant of the exchange's lanes, so that the
\* connection's timer, armed at the top of the heap, is armed for all of them
\* (Agenda::transition returns early when it believes nothing moved).
HeapExact == \A k \in Keys : heap[k] = Least(k)

\* Noted progress belongs to the body being received and is never behind its
\* idle deadline.
ProgressBelongs ==
    \A k \in Keys : progress[k] # 0 =>
        ingress[k].action = "BodyIdle" /\ ingress[k].at <= progress[k]

Later(a, b) == IF a < b THEN b ELSE a

At(item, a) == IF item.action = a THEN item.at ELSE 0

\* The instant at which an action of the exchange really falls due.
DueAt(k, a) ==
    IF a = "Total" THEN At(total[k], a)
    ELSE IF a = "Head" THEN At(ingress[k], a)
    ELSE IF a = "BodyIdle"
         THEN IF ingress[k].action = a THEN Later(ingress[k].at, progress[k]) ELSE 0
    ELSE IF a \in {"Handler", "ResponseAdmission"} THEN At(work[k], a)
    ELSE At(wake[k], a)

AllDue == [k \in Keys |-> [a \in Actions |-> DueAt(k, a)]]

Eager == INSTANCE CoreTimers WITH due <- AllDue

\* The lazy agenda hands out what an eager one would: no idle expiry although
\* the body made progress, none late behind another exchange's, none twice and
\* none after the exchange has retired.
LazyIsEager == Eager!Spec

\* A deadline that has passed is handed out, renewed or withdrawn; it is not
\* lost behind others.
EveryExpiryComes ==
    \A k \in Keys, a \in Actions :
        (0 < DueAt(k, a) /\ DueAt(k, a) <= now)
            ~> ~(0 < DueAt(k, a) /\ DueAt(k, a) <= now)
=============================================================================
