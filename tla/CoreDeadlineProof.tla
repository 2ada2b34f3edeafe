------------------------- MODULE CoreDeadlineProof -------------------------
(***************************************************************************)
(* The lazy agenda of CoreDeadline keeps its heap exact and implements the *)
(* eager one of CoreTimers, for any exchanges, windows and delays.         *)
(*                                                                         *)
(* The inductive invariant adds to the checked ones that neither the idle  *)
(* deadline nor noted progress lies more than one window ahead: hence what *)
(* BodyProgress refuses to note is no later than what is noted already.    *)
(***************************************************************************)
EXTENDS CoreDeadline, TLAPS

\* Idle deadlines and progress are at most one (enabled) window ahead.
Recent ==
    \A k \in Keys : ingress[k].action = "BodyIdle" =>
        /\ Window["BodyIdle"] # 0
        /\ ingress[k].at <= now + Window["BodyIdle"]
        /\ progress[k] <= now + Window["BodyIdle"]

IInv == TypeOK /\ HeapExact /\ ProgressBelongs /\ Recent

-----------------------------------------------------------------------------
(* What a transition may do to one lane, and to all of them.               *)

Settable(p) == IF Window[p] = 0 THEN {} ELSE {Scheduled(now + Window[p], p)}

MovedTotal(new, k) ==
    /\ new \in [Keys -> Lane({"Total"})]
    /\ \A j \in Keys \ {k} : new[j] = total[j]
    /\ new[k] \in {total[k], NoItem} \cup Settable("Total")

MovedIngress(new, k) ==
    /\ new \in [Keys -> Lane({"Head", "BodyIdle"})]
    /\ \A j \in Keys \ {k} : new[j] = ingress[j]
    /\ new[k] \in {ingress[k], NoItem} \cup Settable("Head") \cup Settable("BodyIdle")

MovedWork(new, k) ==
    /\ new \in [Keys -> Lane({"Handler", "ResponseAdmission"})]
    /\ \A j \in Keys \ {k} : new[j] = work[j]
    /\ new[k] \in {work[k], NoItem} \cup Settable("Handler") \cup Settable("ResponseAdmission")

MovedWake(new, k) ==
    /\ new \in [Keys -> Lane({"Wake"})]
    /\ \A j \in Keys \ {k} : new[j] = wake[j]

Moves(k) ==
    /\ MovedTotal(total', k)
    /\ MovedIngress(ingress', k)
    /\ MovedWork(work', k)
    /\ MovedWake(wake', k)
    /\ progress' = Forget(k)
    /\ Changed(k)

\* Setting a phase changes nothing or puts its item in the lane of its exchange.
LEMMA PutFact ==
    ASSUME NEW own, NEW lane \in [Keys -> Lane(own)], NEW k \in Keys,
           NEW p \in Phases, p \in own, now \in Nat
    PROVE  /\ Put(lane, k, p) \in [Keys -> Lane(own)]
           /\ \A j \in Keys \ {k} : Put(lane, k, p)[j] = lane[j]
           /\ Put(lane, k, p)[k] \in {lane[k]} \cup Settable(p)
<1>1. CASE Window[p] = 0
  BY <1>1 DEF Put
<1>2. CASE Window[p] # 0
  <2>1. Window[p] \in Nat
    BY DeadlineAssumption
  <2>2. Scheduled(now + Window[p], p) \in Lane(own)
    BY <1>2, <2>1 DEF Scheduled, Lane
  <2> QED
    BY <1>2, <2>2 DEF Put, Settable
<1> QED
  BY <1>1, <1>2

\* Removing an action empties the lane that holds it and no other.
LEMMA DropFact ==
    ASSUME NEW own, NEW lane \in [Keys -> Lane(own)], NEW k \in Keys, NEW p
    PROVE  /\ Drop(lane, k, p) \in [Keys -> Lane(own)]
           /\ \A j \in Keys \ {k} : Drop(lane, k, p)[j] = lane[j]
           /\ Drop(lane, k, p)[k] \in {lane[k], NoItem}
           /\ p # "None" => Drop(lane, k, p)[k].action # p
BY DEF Drop, Lane, NoItem

\* The earliest of four items is one of them.
LEMMA LeastFact ==
    ASSUME TypeOK, NEW k \in Keys
    PROVE  /\ Least(k) \in {total[k], ingress[k], work[k], wake[k]}
           /\ Least(k) \in Lane(Actions)
<1>1. Least(k) \in {total[k], ingress[k], work[k], wake[k]}
  BY DEF Least, NextOf, Sooner
<1>2. {total[k], ingress[k], work[k], wake[k]} \subseteq Lane(Actions)
  BY DEF TypeOK, Lane, Actions, Phases
<1> QED
  BY <1>1, <1>2

-----------------------------------------------------------------------------
(* Every operation that re-keys the heap is a move of its exchange.        *)

\* Lanes that stay as they are move trivially.
LEMMA SameFact ==
    ASSUME TypeOK, NEW k \in Keys
    PROVE  MovedTotal(total, k) /\ MovedIngress(ingress, k)
           /\ MovedWork(work, k) /\ MovedWake(wake, k)
BY DEF TypeOK, MovedTotal, MovedIngress, MovedWork, MovedWake

\* Setting and removing phases of a lane moves it.
LEMMA LaneFact ==
    ASSUME TypeOK, NEW k \in Keys
    PROVE  /\ MovedTotal(Put(total, k, "Total"), k)
           /\ MovedIngress(Put(ingress, k, "Head"), k)
           /\ MovedIngress(Put(Drop(ingress, k, "Head"), k, "BodyIdle"), k)
           /\ MovedWork(Put(work, k, "Handler"), k)
           /\ MovedWork(Put(Drop(work, k, "Handler"), k, "ResponseAdmission"), k)
           /\ \A p : MovedTotal(Drop(total, k, p), k) /\ MovedIngress(Drop(ingress, k, p), k)
           /\ \A p : MovedWork(Drop(work, k, p), k) /\ MovedWake(Drop(wake, k, p), k)
           /\ \A p, q : MovedWork(Drop(Drop(work, k, p), k, q), k)
<1> USE DEF TypeOK
<1> DEFINE In == {"Head", "BodyIdle"}
           Wo == {"Handler", "ResponseAdmission"}
<1>0. {"Total", "Head", "BodyIdle", "Handler", "ResponseAdmission"} \subseteq Phases
  BY DEF Phases
<1>1. MovedTotal(Put(total, k, "Total"), k)
  BY <1>0, PutFact DEF MovedTotal
<1>2. MovedIngress(Put(ingress, k, "Head"), k)
  BY <1>0, PutFact DEF MovedIngress
<1>3. MovedWork(Put(work, k, "Handler"), k)
  BY <1>0, PutFact DEF MovedWork
<1>4. MovedIngress(Put(Drop(ingress, k, "Head"), k, "BodyIdle"), k)
  <2> DEFINE mid == Drop(ingress, k, "Head")
  <2>1. /\ mid \in [Keys -> Lane(In)]
        /\ \A j \in Keys \ {k} : mid[j] = ingress[j]
        /\ mid[k] \in {ingress[k], NoItem}
    BY DropFact
  <2> HIDE DEF mid
  <2>2. /\ Put(mid, k, "BodyIdle") \in [Keys -> Lane(In)]
        /\ \A j \in Keys \ {k} : Put(mid, k, "BodyIdle")[j] = mid[j]
        /\ Put(mid, k, "BodyIdle")[k] \in {mid[k]} \cup Settable("BodyIdle")
    BY <1>0, <2>1, PutFact
  <2>3. MovedIngress(Put(mid, k, "BodyIdle"), k)
    BY <2>1, <2>2 DEF MovedIngress
  <2> QED
    BY <2>3 DEF mid
<1>5. MovedWork(Put(Drop(work, k, "Handler"), k, "ResponseAdmission"), k)
  <2> DEFINE mid == Drop(work, k, "Handler")
  <2>1. /\ mid \in [Keys -> Lane(Wo)]
        /\ \A j \in Keys \ {k} : mid[j] = work[j]
        /\ mid[k] \in {work[k], NoItem}
    BY DropFact
  <2> HIDE DEF mid
  <2>2. /\ Put(mid, k, "ResponseAdmission") \in [Keys -> Lane(Wo)]
        /\ \A j \in Keys \ {k} : Put(mid, k, "ResponseAdmission")[j] = mid[j]
        /\ Put(mid, k, "ResponseAdmission")[k] \in {mid[k]} \cup Settable("ResponseAdmission")
    BY <1>0, <2>1, PutFact
  <2>3. MovedWork(Put(mid, k, "ResponseAdmission"), k)
    BY <2>1, <2>2 DEF MovedWork
  <2> QED
    BY <2>3 DEF mid
<1>6. \A p : MovedTotal(Drop(total, k, p), k) /\ MovedIngress(Drop(ingress, k, p), k)
  BY DropFact DEF MovedTotal, MovedIngress
<1>7. \A p : MovedWork(Drop(work, k, p), k) /\ MovedWake(Drop(wake, k, p), k)
  BY DropFact DEF MovedWork, MovedWake
<1>8. ASSUME NEW p, NEW q PROVE MovedWork(Drop(Drop(work, k, p), k, q), k)
  <2> DEFINE mid == Drop(work, k, p)
  <2>1. /\ mid \in [Keys -> Lane(Wo)]
        /\ \A j \in Keys \ {k} : mid[j] = work[j]
        /\ mid[k] \in {work[k], NoItem}
    BY DropFact
  <2> HIDE DEF mid
  <2>2. /\ Drop(mid, k, q) \in [Keys -> Lane(Wo)]
        /\ \A j \in Keys \ {k} : Drop(mid, k, q)[j] = mid[j]
        /\ Drop(mid, k, q)[k] \in {mid[k], NoItem}
    BY <2>1, DropFact
  <2>3. MovedWork(Drop(mid, k, q), k)
    BY <2>1, <2>2 DEF MovedWork
  <2> QED
    BY <2>3 DEF mid
<1> QED
  BY <1>1, <1>2, <1>3, <1>4, <1>5, <1>6, <1>7, <1>8

\* Every operation that re-keys the heap moves its exchange: transitions other
\* than BodyProgress and Retired, schedule and cancel_one.
LEMMA OperationMoves ==
    ASSUME IInv, NEW k \in Keys,
           \/ Open(k) \/ AwaitingHead(k) \/ HeadAdmitted(k) \/ InputAdmitted(k)
           \/ InputFinished(k) \/ HandlerStarted(k) \/ ResponseReady(k)
           \/ ResponseCommitted(k) \/ Schedule(k)
    PROVE  Moves(k)
<1>0. TypeOK
  BY DEF IInv
<1>same. ingress' = ingress /\ progress' = progress => progress' = Forget(k)
  BY DEF Forget
<1>1. CASE Open(k)
  BY <1>0, <1>1, <1>same, SameFact, LaneFact DEF Open, Moves
<1>2. CASE AwaitingHead(k)
  BY <1>0, <1>2, SameFact, LaneFact DEF AwaitingHead, Moves
<1>3. CASE HeadAdmitted(k)
  BY <1>0, <1>3, SameFact, LaneFact DEF HeadAdmitted, Moves
<1>4. CASE InputAdmitted(k)
  <2>1. ingress[k].action = "Head" => progress[k] = 0
    BY DEF IInv, ProgressBelongs
  <2>2. progress' = Forget(k)
    BY <1>0, <1>4, <2>1 DEF InputAdmitted, Forget, Drop, TypeOK
  <2> QED
    BY <1>0, <1>4, <2>2, SameFact, LaneFact DEF InputAdmitted, Moves
<1>5. CASE InputFinished(k)
  BY <1>0, <1>5, SameFact, LaneFact DEF InputFinished, Moves
<1>6. CASE HandlerStarted(k)
  BY <1>0, <1>6, <1>same, SameFact, LaneFact DEF HandlerStarted, Moves
<1>7. CASE ResponseReady(k)
  BY <1>0, <1>7, <1>same, SameFact, LaneFact DEF ResponseReady, Moves
<1>8. CASE ResponseCommitted(k)
  BY <1>0, <1>8, <1>same, SameFact, LaneFact DEF ResponseCommitted, Moves
<1>9. CASE ScheduleTotal(k)
  BY <1>0, <1>9, <1>same, SameFact, LaneFact DEF ScheduleTotal, Moves
<1>10. ASSUME NEW delay \in Delays, ScheduleWake(k, delay) PROVE Moves(k)
  <2>1. Scheduled(now + delay, "Wake") \in Lane({"Wake"})
    BY <1>0, DeadlineAssumption DEF Scheduled, Lane, TypeOK
  <2>2. MovedWake(wake', k)
    BY <1>0, <1>10, <2>1 DEF ScheduleWake, MovedWake, TypeOK
  <2> QED
    BY <1>0, <1>10, <2>2, <1>same, SameFact DEF ScheduleWake, Moves
<1>11. ASSUME NEW action \in Actions, CancelOne(k, action) PROVE Moves(k)
  BY <1>0, <1>11, LaneFact DEF CancelOne, Moves
<1> QED
  BY <1>1, <1>2, <1>3, <1>4, <1>5, <1>6, <1>7, <1>8, <1>9, <1>10, <1>11 DEF Schedule

\* A move keeps the invariant: the heap follows the lane's minimum, and what
\* the idle lane held took its progress with it.
LEMMA MovesKeeps ==
    ASSUME IInv, NEW k \in Keys, Moves(k)
    PROVE  IInv'
<1>0. now' = now /\ now \in Nat
  BY DEF IInv, TypeOK, Moves, Changed
<1>1. \A j \in Keys \ {k} : Least(j)' = Least(j)
  BY DEF Moves, MovedTotal, MovedIngress, MovedWork, MovedWake, Least
<1>2. HeapExact'
  <2>1. heap \in [Keys -> Lane(Actions)] /\ \A j \in Keys : heap[j] = Least(j)
    BY DEF IInv, TypeOK, HeapExact
  <2>2. heap' = [heap EXCEPT ![k] = IF Least(k) = Least(k)' THEN heap[k] ELSE Least(k)']
    BY DEF Moves, Changed, Rekey
  <2>3. \A j \in Keys : heap'[j] = Least(j)'
    BY <1>1, <2>1, <2>2
  <2> QED
    BY <2>3 DEF HeapExact
<1>3. progress' \in [Keys -> Nat]
      /\ (\A j \in Keys \ {k} : progress'[j] = progress[j])
      /\ (IF ingress'[k] = ingress[k] THEN progress'[k] = progress[k] ELSE progress'[k] = 0)
  BY DEF Moves, Forget, IInv, TypeOK
<1>4. Least(k)' \in {total'[k], ingress'[k], work'[k], wake'[k]}
  BY DEF Least, NextOf, Sooner
<1>5. TypeOK'
  <2>1. {total'[k], ingress'[k], work'[k], wake'[k]} \subseteq Lane(Actions)
    BY DEF Moves, MovedTotal, MovedIngress, MovedWork, MovedWake, Lane, Actions, Phases
  <2>2. heap' \in [Keys -> Lane(Actions)]
    BY <1>4, <2>1 DEF Moves, Changed, Rekey, IInv, TypeOK
  <2> QED
    BY <1>0, <1>3, <2>2 DEF Moves, MovedTotal, MovedIngress, MovedWork, MovedWake, TypeOK
<1>6. \A j \in Keys \ {k} : ingress'[j] = ingress[j]
  BY DEF Moves, MovedIngress
<1>7. ProgressBelongs'
  BY <1>3, <1>6 DEF IInv, ProgressBelongs
<1>8. Recent'
  <2>1. ingress'[k] \in {ingress[k], NoItem} \cup Settable("Head") \cup Settable("BodyIdle")
    BY DEF Moves, MovedIngress
  <2>2. Window["BodyIdle"] \in Nat
    BY DeadlineAssumption DEF Phases
  <2>3. ingress'[k] # ingress[k] /\ ingress'[k].action = "BodyIdle"
        => /\ Window["BodyIdle"] # 0
           /\ ingress'[k].at = now + Window["BodyIdle"]
           /\ progress'[k] = 0
    BY <1>3, <2>1 DEF Settable, Scheduled, NoItem
  <2> QED
    BY <1>0, <1>3, <1>6, <2>2, <2>3 DEF IInv, Recent
<1> QED
  BY <1>2, <1>5, <1>7, <1>8 DEF IInv

-----------------------------------------------------------------------------
(* The inductive invariant.                                                *)

\* Noting progress, retiring, renewing and expiring keep the invariant.
LEMMA OthersKeep ==
    ASSUME IInv, NEW k \in Keys,
           BodyProgress(k) \/ Retired(k) \/ Renew(k) \/ Expire(k)
    PROVE  IInv'
<1>0. now \in Nat /\ Window["BodyIdle"] \in Nat
  BY DeadlineAssumption DEF IInv, TypeOK, Phases
<1>1. CASE BodyProgress(k)
  <2>1. \A j \in Keys : Least(j)' = Least(j)
    BY <1>1 DEF BodyProgress, Least
  <2>2. HeapExact'
    BY <1>1, <2>1 DEF BodyProgress, IInv, HeapExact
  <2>3. TypeOK'
    BY <1>0, <1>1 DEF BodyProgress, Renewal, IInv, TypeOK
  <2>4. /\ \A j \in Keys \ {k} : progress'[j] = progress[j]
        /\ \/ progress'[k] = progress[k]
           \/ ingress[k].action = "BodyIdle" /\ progress'[k] = now + Window["BodyIdle"]
    <3>1. CASE progress' = progress
      BY <3>1
    <3>2. CASE progress' # progress
      BY <1>1, <3>2 DEF BodyProgress, Renewal, IInv, TypeOK
    <3> QED
      BY <3>1, <3>2
  <2>5. ingress' = ingress /\ now' = now
    BY <1>1 DEF BodyProgress
  <2>6. ProgressBelongs'
    BY <1>0, <2>4, <2>5 DEF IInv, ProgressBelongs, Recent
  <2>7. Recent'
    BY <1>0, <2>4, <2>5 DEF IInv, Recent
  <2> QED
    BY <2>2, <2>3, <2>6, <2>7 DEF IInv
<1>2. CASE Retired(k)
  <2>1. NoItem \in Lane({"Total"}) /\ NoItem \in Lane({"Head", "BodyIdle"})
        /\ NoItem \in Lane({"Handler", "ResponseAdmission"}) /\ NoItem \in Lane({"Wake"})
        /\ NoItem \in Lane(Actions)
    BY DEF Lane
  <2>2. TypeOK'
    BY <1>2, <2>1 DEF Retired, IInv, TypeOK
  <2>3. Least(k)' = NoItem /\ heap'[k] = NoItem
    BY <1>2 DEF Retired, Least, NextOf, Sooner, IInv, TypeOK
  <2>4. \A j \in Keys \ {k} : Least(j)' = Least(j) /\ heap'[j] = heap[j]
    BY <1>2 DEF Retired, Least, IInv, TypeOK
  <2>5. HeapExact'
    BY <2>3, <2>4 DEF IInv, HeapExact
  <2>6. /\ \A j \in Keys \ {k} : ingress'[j] = ingress[j] /\ progress'[j] = progress[j]
        /\ ingress'[k] = NoItem /\ progress'[k] = 0
    BY <1>2 DEF Retired, IInv, TypeOK
  <2>7. now' = now
    BY <1>2 DEF Retired
  <2>8. ProgressBelongs' /\ Recent'
    BY <2>6, <2>7 DEF IInv, ProgressBelongs, Recent, NoItem
  <2> QED
    BY <2>2, <2>5, <2>8 DEF IInv
<1>3. CASE Renew(k)
  <2>1. heap[k] = Least(k) /\ heap[k].action = "BodyIdle" /\ progress[k] > heap[k].at
    BY <1>3 DEF Renew, Renews, IInv, HeapExact
  <2>2. ingress[k].action = "BodyIdle" /\ progress[k] \in Nat \ {0}
    BY <2>1, LeastFact DEF IInv, ProgressBelongs, TypeOK, Lane, NoItem
  <2>3. Scheduled(progress[k], "BodyIdle") \in Lane({"Head", "BodyIdle"})
    BY <2>2 DEF Scheduled, Lane
  <2>4. ingress' \in [Keys -> Lane({"Head", "BodyIdle"})] /\ progress' \in [Keys -> Nat]
    BY <1>3, <2>3 DEF Renew, IInv, TypeOK
  <2>5. Least(k)' \in Lane(Actions)
    <3>1. Least(k)' \in {total'[k], ingress'[k], work'[k], wake'[k]}
      BY DEF Least, NextOf, Sooner
    <3>2. total' = total /\ work' = work /\ wake' = wake
      BY <1>3 DEF Renew
    <3>3. {total'[k], ingress'[k], work'[k], wake'[k]} \subseteq Lane(Actions)
      BY <2>4, <3>2 DEF IInv, TypeOK, Lane, Actions, Phases
    <3> QED
      BY <3>1, <3>3
  <2>6. TypeOK'
    BY <1>3, <2>4, <2>5 DEF Renew, IInv, TypeOK
  <2>7. \A j \in Keys \ {k} : Least(j)' = Least(j) /\ heap'[j] = heap[j]
    BY <1>3 DEF Renew, Least, IInv, TypeOK
  <2>8. heap'[k] = Least(k)'
    BY <1>3 DEF Renew, IInv, TypeOK
  <2>9. HeapExact'
    BY <2>7, <2>8 DEF IInv, HeapExact
  <2>10. /\ \A j \in Keys \ {k} : ingress'[j] = ingress[j] /\ progress'[j] = progress[j]
         /\ ingress'[k].at = progress[k] /\ progress'[k] = 0
    BY <1>3 DEF Renew, Scheduled, IInv, TypeOK
  <2>11. now' = now
    BY <1>3 DEF Renew
  <2>12. ProgressBelongs' /\ Recent'
    BY <1>0, <2>2, <2>10, <2>11 DEF IInv, ProgressBelongs, Recent
  <2> QED
    BY <2>6, <2>9, <2>12 DEF IInv
<1>4. CASE Expire(k)
  <2> DEFINE a == heap[k].action
  <2>1. /\ total' = Drop(total, k, a) /\ ingress' = Drop(ingress, k, a)
        /\ work' = Drop(work, k, a) /\ wake' = Drop(wake, k, a) /\ now' = now
        /\ progress' = IF a = "BodyIdle" THEN [progress EXCEPT ![k] = 0] ELSE progress
        /\ heap' = [heap EXCEPT ![k] = Least(k)']
    BY <1>4 DEF Expire
  <2> HIDE DEF a
  <2>2. /\ total' \in [Keys -> Lane({"Total"})]
        /\ ingress' \in [Keys -> Lane({"Head", "BodyIdle"})]
        /\ work' \in [Keys -> Lane({"Handler", "ResponseAdmission"})]
        /\ wake' \in [Keys -> Lane({"Wake"})]
    BY <2>1, DropFact DEF IInv, TypeOK
  <2>3. \A j \in Keys \ {k} : /\ total'[j] = total[j] /\ ingress'[j] = ingress[j]
                               /\ work'[j] = work[j] /\ wake'[j] = wake[j]
    BY <2>1, DropFact DEF IInv, TypeOK
  <2>4. Least(k)' \in Lane(Actions)
    <3>1. Least(k)' \in {total'[k], ingress'[k], work'[k], wake'[k]}
      BY DEF Least, NextOf, Sooner
    <3>2. {total'[k], ingress'[k], work'[k], wake'[k]} \subseteq Lane(Actions)
      BY <2>2 DEF Lane, Actions, Phases
    <3> QED
      BY <3>1, <3>2
  <2>5. TypeOK'
    BY <2>1, <2>2, <2>4 DEF IInv, TypeOK
  <2>6. HeapExact'
    BY <2>1, <2>3 DEF IInv, HeapExact, TypeOK, Least
  <2>7. /\ \A j \in Keys \ {k} : progress'[j] = progress[j]
        /\ progress'[k] \in {progress[k], 0}
        /\ a = "BodyIdle" => progress'[k] = 0
    BY <2>1 DEF IInv, TypeOK
  <2>8. ingress'[k] \in {ingress[k], NoItem} /\ (ingress[k].action # a => ingress'[k] = ingress[k])
    BY <2>1, DropFact DEF IInv, TypeOK, Drop
  <2>9. ProgressBelongs'
    BY <2>3, <2>7, <2>8 DEF IInv, ProgressBelongs, TypeOK
  <2>10. Recent'
    BY <1>0, <2>1, <2>3, <2>7, <2>8 DEF IInv, Recent, NoItem
  <2> QED
    BY <2>5, <2>6, <2>9, <2>10 DEF IInv
<1> QED
  BY <1>1, <1>2, <1>3, <1>4

\* The inductive invariant of the agenda.
THEOREM Inductive == Spec => []IInv
<1>1. Init => IInv
  BY DEF Init, IInv, TypeOK, HeapExact, ProgressBelongs, Recent, Lane, Least, NextOf, Sooner, NoItem
<1>2. IInv /\ [Next]_vars => IInv'
  <2> SUFFICES ASSUME IInv, [Next]_vars PROVE IInv'
    OBVIOUS
  <2>1. CASE Tick
    <3>1. now \in Nat /\ Window["BodyIdle"] \in Nat /\ now' = now + 1 /\ UNCHANGED <<lanes, heap>>
      BY <2>1, DeadlineAssumption DEF IInv, TypeOK, Phases, Tick
    <3>2. TypeOK' /\ HeapExact' /\ ProgressBelongs'
      BY <3>1 DEF IInv, TypeOK, HeapExact, ProgressBelongs, Least, lanes
    <3>3. Recent'
      <4> SUFFICES ASSUME NEW k \in Keys, ingress[k].action = "BodyIdle"
                   PROVE  /\ Window["BodyIdle"] # 0
                          /\ ingress[k].at <= now + 1 + Window["BodyIdle"]
                          /\ progress[k] <= now + 1 + Window["BodyIdle"]
        BY <3>1 DEF Recent, lanes
      <4>1. ingress[k].at \in Nat /\ progress[k] \in Nat
        BY DEF IInv, TypeOK, Lane, NoItem
      <4> QED
        BY <3>1, <4>1 DEF IInv, Recent
    <3> QED
      BY <3>2, <3>3 DEF IInv
  <2>2. ASSUME NEW k \in Keys, Transition(k) \/ Schedule(k) \/ Poll(k) PROVE IInv'
    BY <2>2, OperationMoves, MovesKeeps, OthersKeep DEF Transition, Poll
  <2>3. CASE UNCHANGED vars
    BY <2>3 DEF vars, lanes, IInv, TypeOK, HeapExact, ProgressBelongs, Recent, Least
  <2> QED
    BY <2>1, <2>2, <2>3 DEF Next
<1> QED
  BY <1>1, <1>2, PTL DEF Spec

\* Every lane holds one of its own actions, or nothing.
THEOREM Typed == Spec => []TypeOK
BY Inductive, PTL DEF IInv

\* The heap's key is the earliest instant of the exchange's lanes: the early
\* returns of Agenda::transition never leave it stale.
THEOREM KeysExact == Spec => []HeapExact
BY Inductive, PTL DEF IInv

\* Noted progress belongs to the body being received.
THEOREM ProgressKept == Spec => []ProgressBelongs
BY Inductive, PTL DEF IInv

-----------------------------------------------------------------------------
(* Implementation of CoreTimers.                                           *)

\* Ranks are numbers.
LEMMA RankNat == \A a : Rank(a) \in Nat
BY DEF Rank

\* Both specifications order actions alike.
LEMMA SameRank == \A a : Eager!Rank(a) = Rank(a)
BY DEF Rank, Eager!Rank

\* The order of scheduled items is transitive and total.
LEMMA PrecedesOrder ==
    ASSUME NEW x, NEW y, NEW z, x.at \in Nat, y.at \in Nat, z.at \in Nat
    PROVE  /\ Precedes(x, y) /\ Precedes(y, z) => Precedes(x, z)
           /\ Precedes(x, y) \/ Precedes(y, x)
           /\ Precedes(x, x)
BY RankNat DEF Precedes

\* The sooner of two items comes no later than either.
LEMMA SoonerFact ==
    ASSUME NEW x, NEW y, x.at \in Nat, y.at \in Nat
    PROVE  /\ x # NoItem => Sooner(x, y) # NoItem /\ Precedes(Sooner(x, y), x)
           /\ y # NoItem => Sooner(x, y) # NoItem /\ Precedes(Sooner(x, y), y)
           /\ Sooner(x, y).at \in Nat
BY PrecedesOrder DEF Sooner

\* The minimum of a lane precedes everything in it.
LEMMA LeastPrecedes ==
    ASSUME TypeOK, NEW k \in Keys, NEW x \in {total[k], ingress[k], work[k], wake[k]}, x # NoItem
    PROVE  Least(k) # NoItem /\ Precedes(Least(k), x)
<1> DEFINE l == Sooner(total[k], ingress[k])
           r == Sooner(work[k], wake[k])
<1>0. total[k].at \in Nat /\ ingress[k].at \in Nat /\ work[k].at \in Nat /\ wake[k].at \in Nat
  BY DEF TypeOK, Lane, NoItem
<1>1. l.at \in Nat /\ r.at \in Nat
  BY <1>0, SoonerFact
<1>2. Least(k) = Sooner(l, r)
  BY DEF Least, NextOf
<1>3. CASE x \in {total[k], ingress[k]}
  <2>1. l # NoItem /\ Precedes(l, x) /\ x.at \in Nat
    BY <1>0, <1>3, SoonerFact
  <2> HIDE DEF l, r
  <2>2. Sooner(l, r) # NoItem /\ Precedes(Sooner(l, r), l) /\ Sooner(l, r).at \in Nat
    BY <1>1, <2>1, SoonerFact
  <2> QED
    BY <1>1, <1>2, <2>1, <2>2, PrecedesOrder
<1>4. CASE x \in {work[k], wake[k]}
  <2>1. r # NoItem /\ Precedes(r, x) /\ x.at \in Nat
    BY <1>0, <1>4, SoonerFact
  <2> HIDE DEF l, r
  <2>2. Sooner(l, r) # NoItem /\ Precedes(Sooner(l, r), r) /\ Sooner(l, r).at \in Nat
    BY <1>1, <2>1, SoonerFact
  <2> QED
    BY <1>1, <1>2, <2>1, <2>2, PrecedesOrder
<1> QED
  BY <1>3, <1>4

\* An action that is due has an item in its lane, no later than it is due.
LEMMA DueHasItem ==
    ASSUME IInv, NEW k \in Keys, NEW a \in Actions, 0 < DueAt(k, a)
    PROVE  \E x \in {total[k], ingress[k], work[k], wake[k]} :
              x # NoItem /\ x.action = a /\ x.at \in Nat /\ x.at <= DueAt(k, a)
<1>0. total[k].at \in Nat /\ ingress[k].at \in Nat /\ work[k].at \in Nat /\ wake[k].at \in Nat
      /\ progress[k] \in Nat
  BY DEF IInv, TypeOK, Lane, NoItem
<1>1. NoItem.action = "None" /\ a # "None"
  BY DEF NoItem, Actions, Phases
<1> QED
  BY <1>0, <1>1 DEF DueAt, At, Later, Actions, Phases

\* Conversely an item in a lane makes its action due, and only the idle
\* deadline may be due later than its item says.
LEMMA ItemIsDue ==
    ASSUME IInv, NEW k \in Keys, NEW x \in {total[k], ingress[k], work[k], wake[k]}, x # NoItem
    PROVE  /\ x.action \in Actions /\ x.at \in Nat \ {0}
           /\ DueAt(k, x.action) =
                 IF x.action = "BodyIdle" THEN Later(x.at, progress[k]) ELSE x.at
<1>1. CASE x = total[k]
  BY <1>1 DEF IInv, TypeOK, Lane, DueAt, At, Actions, Phases
<1>2. CASE x = ingress[k]
  BY <1>2 DEF IInv, TypeOK, Lane, DueAt, At, Actions, Phases
<1>3. CASE x = work[k]
  BY <1>3 DEF IInv, TypeOK, Lane, DueAt, At, Actions, Phases
<1>4. CASE x = wake[k]
  BY <1>4 DEF IInv, TypeOK, Lane, DueAt, At, Actions, Phases
<1> QED
  BY <1>1, <1>2, <1>3, <1>4

\* A move changes the exchange's instants as an eager agenda would.
LEMMA MovesChange ==
    ASSUME IInv, NEW k \in Keys, Moves(k)
    PROVE  Eager!Change(k)
<1>0. now' = now /\ now \in Nat /\ event' = Happened("Changed", k, "None")
  BY DEF IInv, TypeOK, Moves, Changed
<1>1. \A j \in Keys \ {k} : progress'[j] = progress[j]
  BY DEF Moves, Forget, IInv, TypeOK
<1>2. IF ingress'[k] = ingress[k] THEN progress'[k] = progress[k] ELSE progress'[k] = 0
  BY DEF Moves, Forget, IInv, TypeOK
<1>3. \A j \in Keys \ {k} : AllDue'[j] = AllDue[j]
  BY <1>1 DEF Moves, MovedTotal, MovedIngress, MovedWork, MovedWake, AllDue, DueAt
<1>4. \A p \in Phases : Window[p] \in Nat
  BY DeadlineAssumption
<1>5. ASSUME NEW a \in Phases
      PROVE  DueAt(k, a)' \in {DueAt(k, a), 0, now + Window[a]}
  <2>1. CASE a = "Total"
    <3>1. total'[k] \in {total[k], NoItem} \cup Settable("Total")
      BY DEF Moves, MovedTotal
    <3> QED
      BY <2>1, <3>1 DEF DueAt, At, Settable, Scheduled, NoItem
  <2>2. CASE a \in {"Head", "BodyIdle"}
    <3>1. ingress'[k] \in {ingress[k], NoItem} \cup Settable("Head") \cup Settable("BodyIdle")
      BY DEF Moves, MovedIngress
    <3>2. CASE ingress'[k] = ingress[k]
      BY <1>2, <2>2, <3>2 DEF DueAt, At
    <3>3. CASE ingress'[k] # ingress[k]
      <4>1. progress'[k] = 0 /\ Window["BodyIdle"] \in Nat
        BY <1>2, <1>4, <3>3 DEF Phases
      <4> QED
        BY <1>0, <2>2, <3>1, <3>3, <4>1 DEF DueAt, At, Later, Settable, Scheduled, NoItem
    <3> QED
      BY <3>2, <3>3
  <2>3. CASE a \in {"Handler", "ResponseAdmission"}
    <3>1. work'[k] \in {work[k], NoItem} \cup Settable("Handler") \cup Settable("ResponseAdmission")
      BY DEF Moves, MovedWork
    <3> QED
      BY <2>3, <3>1 DEF DueAt, At, Settable, Scheduled, NoItem
  <2> QED
    BY <2>1, <2>2, <2>3 DEF Phases
<1>6. \A a \in Phases : AllDue'[k][a] = DueAt(k, a)' /\ AllDue[k][a] = DueAt(k, a)
  BY DEF AllDue, Actions
<1> QED
  BY <1>0, <1>3, <1>5, <1>6 DEF Eager!Change, Eager!Happened, Happened

\* Noting progress moves the idle instant at once, as far as a reader of the
\* agenda can tell.
LEMMA BodyProgressIsEager ==
    ASSUME IInv, NEW k \in Keys, BodyProgress(k)
    PROVE  Eager!Progress(k)
<1> DEFINE W == Window["BodyIdle"]
           new == IF AllDue[k]["BodyIdle"] = 0 THEN 0 ELSE now + W
<1>0. now \in Nat /\ W \in Nat /\ progress[k] \in Nat /\ ingress[k].at \in Nat
  BY DeadlineAssumption DEF IInv, TypeOK, Phases, Lane, NoItem
<1>1. /\ now' = now /\ total' = total /\ ingress' = ingress /\ work' = work /\ wake' = wake
      /\ event' = Happened("Progress", k, "None")
  BY DEF BodyProgress
<1>2. \A j \in Keys \ {k} : progress'[j] = progress[j]
  BY DEF BodyProgress, IInv, TypeOK
<1>3. \A j \in Keys, a \in Actions : a # "BodyIdle" => DueAt(j, a)' = DueAt(j, a)
  BY <1>1 DEF DueAt, At
<1>4. \A j \in Keys \ {k} : DueAt(j, "BodyIdle")' = DueAt(j, "BodyIdle")
  BY <1>1, <1>2 DEF DueAt
<1>5. AllDue[k]["BodyIdle"] = DueAt(k, "BodyIdle") /\ "BodyIdle" \in Actions
  BY DEF AllDue, Actions, Phases
<1>6. DueAt(k, "BodyIdle")' = new
  <2>1. CASE ingress[k].action # "BodyIdle"
    BY <1>1, <1>5, <2>1 DEF DueAt
  <2>2. CASE ingress[k].action = "BodyIdle"
    <3>1. /\ W # 0 /\ ingress[k].at <= now + W /\ progress[k] <= now + W
          /\ ingress[k].at # 0
      BY <2>2 DEF IInv, Recent, TypeOK, Lane, NoItem
    <3>2. progress'[k] = now + W
      BY <1>0, <2>2, <3>1 DEF BodyProgress, Renewal, IInv, TypeOK
    <3>3. DueAt(k, "BodyIdle") # 0
      BY <1>0, <2>2, <3>1 DEF DueAt, Later
    <3>4. DueAt(k, "BodyIdle")' = Later(ingress[k].at, now + W)
      BY <1>1, <2>2, <3>2 DEF DueAt
    <3> QED
      BY <1>0, <1>5, <3>1, <3>3, <3>4 DEF Later
  <2> QED
    BY <2>1, <2>2
<1> HIDE DEF new
<1>7. AllDue' = [AllDue EXCEPT ![k] = [AllDue[k] EXCEPT !["BodyIdle"] = new]]
  BY <1>3, <1>4, <1>5, <1>6 DEF AllDue
<1>8. AllDue' = [AllDue EXCEPT ![k]["BodyIdle"] = IF @ = 0 THEN 0 ELSE now + W]
  BY <1>7 DEF new
<1> QED
  BY <1>1, <1>8 DEF Eager!Progress, Eager!Happened, Happened

\* Retiring an exchange clears every instant it had.
LEMMA RetiredIsEager ==
    ASSUME IInv, NEW k \in Keys, Retired(k)
    PROVE  Eager!Retire(k)
<1>1. \A a \in Actions : DueAt(k, a)' = 0
  BY DEF Retired, DueAt, At, NoItem, IInv, TypeOK, Actions, Phases
<1>2. \A j \in Keys \ {k} : \A a \in Actions : DueAt(j, a)' = DueAt(j, a)
  BY DEF Retired, DueAt, At, IInv, TypeOK
<1>3. AllDue' = [AllDue EXCEPT ![k] = [a \in Actions |-> 0]]
  BY <1>1, <1>2 DEF AllDue
<1> QED
  BY <1>3 DEF Retired, Eager!Retire, Eager!Happened, Happened

\* Renewing an idle deadline is invisible.
LEMMA RenewIsSilent ==
    ASSUME IInv, NEW k \in Keys, Renew(k)
    PROVE  UNCHANGED Eager!vars
<1>1. /\ now' = now /\ total' = total /\ work' = work /\ wake' = wake /\ event' = event
      /\ ingress' = [ingress EXCEPT ![k] = Scheduled(progress[k], "BodyIdle")]
      /\ progress' = [progress EXCEPT ![k] = 0]
  BY DEF Renew
<1>2. heap[k] = Least(k) /\ heap[k].action = "BodyIdle" /\ progress[k] > heap[k].at
  BY DEF Renew, Renews, IInv, HeapExact
<1>3. heap[k] = ingress[k] /\ progress[k] \in Nat /\ ingress[k].at \in Nat
  BY <1>2, LeastFact DEF IInv, TypeOK, Lane, NoItem
<1>4. ingress'[k].at = progress[k] /\ ingress'[k].action = "BodyIdle" /\ progress'[k] = 0
  BY <1>1 DEF Scheduled, IInv, TypeOK
<1>5. \A a \in Actions : DueAt(k, a)' = DueAt(k, a)
  BY <1>1, <1>2, <1>3, <1>4 DEF DueAt, At, Later
<1>6. \A j \in Keys \ {k} : ingress'[j] = ingress[j] /\ progress'[j] = progress[j]
  BY <1>1 DEF IInv, TypeOK
<1>7. \A j \in Keys \ {k} : \A a \in Actions : DueAt(j, a)' = DueAt(j, a)
  BY <1>1, <1>6 DEF DueAt, At
<1>8. AllDue' = AllDue
  BY <1>5, <1>7 DEF AllDue
<1> QED
  BY <1>1, <1>8 DEF Eager!vars

\* What expires is what an eager agenda would hand out first.
LEMMA ExpireIsEager ==
    ASSUME IInv, NEW k \in Keys, Expire(k)
    PROVE  Eager!Expire(k, heap[k].action)
<1>a. PICK a : a = heap[k].action
  OBVIOUS
<1>0. TypeOK /\ \A j \in Keys : heap[j] = Least(j) /\ heap[j] \in Lane(Actions)
  BY DEF IInv, TypeOK, HeapExact
<1>1. /\ total' = Drop(total, k, a) /\ ingress' = Drop(ingress, k, a)
      /\ work' = Drop(work, k, a) /\ wake' = Drop(wake, k, a) /\ now' = now
      /\ progress' = IF a = "BodyIdle" THEN [progress EXCEPT ![k] = 0] ELSE progress
      /\ event' = Happened("Expired", k, a)
  BY <1>a DEF Expire
<1>2. heap[k] # NoItem /\ heap[k].at <= now
      /\ \A j \in Keys : heap[j] # NoItem => Precedes(heap[k], heap[j])
  BY DEF Expire, Due
<1>3. a \in Actions /\ heap[k].at \in Nat \ {0} /\ DueAt(k, a) = heap[k].at
  <2>1. heap[k] \in {total[k], ingress[k], work[k], wake[k]}
    BY <1>0, LeastFact
  <2>2. a = "BodyIdle" => Later(heap[k].at, progress[k]) = heap[k].at
    <3>1. heap[k].at \in Nat /\ progress[k] \in Nat
      BY <1>0 DEF TypeOK, Lane, NoItem
    <3> QED
      BY <1>a, <3>1 DEF Expire, Renews, Later
  <2> QED
    BY <1>a, <1>2, <2>1, <2>2, ItemIsDue
<1>4. ASSUME NEW j \in Keys, NEW b \in Actions, 0 < DueAt(j, b)
      PROVE  \/ DueAt(k, a) < DueAt(j, b)
             \/ DueAt(k, a) = DueAt(j, b) /\ Rank(a) <= Rank(b)
  <2>1. PICK x \in {total[j], ingress[j], work[j], wake[j]} :
             x # NoItem /\ x.action = b /\ x.at \in Nat /\ x.at <= DueAt(j, b)
    BY <1>4, DueHasItem
  <2>2. heap[j] # NoItem /\ Precedes(heap[j], x) /\ heap[j].at \in Nat
    BY <1>0, <2>1, LeastPrecedes DEF Lane, NoItem
  <2>3. Precedes(heap[k], x)
    BY <1>2, <1>3, <2>1, <2>2, PrecedesOrder
  <2>4. DueAt(j, b) \in Nat
    BY DEF DueAt, At, Later, IInv, TypeOK, Lane, NoItem
  <2> QED
    BY <1>a, <1>3, <2>1, <2>3, <2>4 DEF Precedes
<1>5. \A j \in Keys \ {k} : /\ total'[j] = total[j] /\ ingress'[j] = ingress[j]
                             /\ work'[j] = work[j] /\ wake'[j] = wake[j]
                             /\ progress'[j] = progress[j]
  BY <1>1, DropFact DEF IInv, TypeOK
<1>6. \A j \in Keys \ {k} : \A b \in Actions : DueAt(j, b)' = DueAt(j, b)
  BY <1>5 DEF DueAt, At
<1>7. DueAt(k, a)' = 0
  <2> a # "None"
    BY <1>3 DEF Actions, Phases
  <2>1. total'[k].action # a /\ ingress'[k].action # a /\ work'[k].action # a /\ wake'[k].action # a
    BY <1>0, <1>1, DropFact DEF TypeOK
  <2> QED
    BY <2>1 DEF DueAt, At
<1>8. ASSUME NEW b \in Actions, b # a PROVE DueAt(k, b)' = DueAt(k, b)
  <2>0. b # "None"
    BY DEF Actions, Phases
  <2>1. /\ total'[k] = total[k] \/ (total[k].action = a /\ total'[k].action = "None")
        /\ ingress'[k] = ingress[k] \/ (ingress[k].action = a /\ ingress'[k].action = "None")
        /\ work'[k] = work[k] \/ (work[k].action = a /\ work'[k].action = "None")
        /\ wake'[k] = wake[k] \/ (wake[k].action = a /\ wake'[k].action = "None")
    BY <1>0, <1>1 DEF TypeOK, Drop, NoItem
  <2>2. b = "BodyIdle" => progress'[k] = progress[k]
    BY <1>1, <1>8 DEF IInv, TypeOK
  <2> QED
    BY <1>8, <2>0, <2>1, <2>2 DEF DueAt, At
<1>9. AllDue' = [AllDue EXCEPT ![k] = [AllDue[k] EXCEPT ![a] = 0]]
  BY <1>3, <1>6, <1>7, <1>8 DEF AllDue
<1>10. \A j \in Keys, b \in Actions : AllDue[j][b] = DueAt(j, b)
  BY DEF AllDue
<1>11. Eager!Expire(k, a)
  BY <1>1, <1>2, <1>3, <1>4, <1>9, <1>10, SameRank DEF Eager!Expire, Eager!Happened, Happened
<1> QED
  BY <1>11, <1>a

\* The lazy agenda implements the eager one: whatever the windows and the
\* exchanges, an expiry is handed out only at its real instant and in order.
THEOREM Implements == Spec => LazyIsEager
<1>1. Init => Eager!Init
  BY DEF Init, Eager!Init, AllDue, DueAt, At, NoItem, Eager!Happened, Happened
<1>2. IInv /\ [Next]_vars => [Eager!Next]_(Eager!vars)
  <2> SUFFICES ASSUME IInv, [Next]_vars PROVE [Eager!Next]_(Eager!vars)
    OBVIOUS
  <2>1. CASE Tick
    <3>1. AllDue' = AllDue
      BY <2>1 DEF Tick, lanes, AllDue, DueAt
    <3>2. Eager!Tick
      BY <2>1, <3>1 DEF Tick, Eager!Tick
    <3> QED
      BY <3>2 DEF Eager!Next
  <2>2. ASSUME NEW k \in Keys, Transition(k) \/ Schedule(k) \/ Poll(k)
        PROVE  [Eager!Next]_(Eager!vars)
    <3>1. CASE BodyProgress(k)
      BY <3>1, BodyProgressIsEager DEF Eager!Next
    <3>2. CASE Retired(k)
      BY <3>2, RetiredIsEager DEF Eager!Next
    <3>3. CASE Renew(k)
      BY <3>3, RenewIsSilent
    <3>4. CASE Expire(k)
      <4>1. heap[k].action \in Actions
        BY <3>4, LeastFact DEF Expire, Due, IInv, HeapExact, Lane, NoItem
      <4> QED
        BY <3>4, <4>1, ExpireIsEager DEF Eager!Next
    <3>5. CASE Moves(k)
      BY <3>5, MovesChange DEF Eager!Next
    <3> QED
      BY <2>2, <3>1, <3>2, <3>3, <3>4, <3>5, OperationMoves DEF Transition, Poll
  <2>3. CASE UNCHANGED vars
    BY <2>3 DEF vars, lanes, AllDue, DueAt, Eager!vars
  <2> QED
    BY <2>1, <2>2, <2>3 DEF Next
<1> QED
  BY <1>1, <1>2, Inductive, PTL DEF Spec, LazyIsEager, Eager!Spec
=============================================================================
