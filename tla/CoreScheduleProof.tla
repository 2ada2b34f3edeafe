------------------------- MODULE CoreScheduleProof --------------------------
(***************************************************************************)
(* The scheduler for any streams, any limit and any driver: every record   *)
(* has one place, nobody waits for what is there, and a round gives no     *)
(* stream a second turn.                                                   *)
(*                                                                         *)
(* The inductive invariant adds what a round in progress relies on: the    *)
(* stream its pass ends with is still in the data lane, and no stream up   *)
(* to it has had its turn (PassOrder); a control turn that was promised    *)
(* still has its stream (HeadsReady).                                      *)
(***************************************************************************)
EXTENDS CoreSchedule, QueuesProof, FiniteSetTheorems

\* Lanes that hold members of R, each in one place.
Shape(ln, R) ==
    /\ ln \in [Lanes -> Seq(R)]
    /\ \A l \in Lanes : Distinct(ln[l])
    /\ \A l, m \in Lanes : l # m => Elements(ln[l]) \cap Elements(ln[m]) = {}

\* What the streams of a lane wait for.
WaitOf(l) ==
    IF l \in {"ConnectionWait", "ControlConnectionWait"} THEN "Connection"
    ELSE IF l \in {"StreamWait", "ControlStreamWait"} THEN "Stream"
    ELSE IF l = "ControlEgressWait" THEN "Egress" ELSE "None"

Missing(w, s) == carrier[Resource(w, s)] = "shut" \/ Resource(w, s) \in owed

LanesOwed ==
    \A l \in Lanes : WaitOf(l) # "None" => \A s \in Elements(lane[l]) : Missing(WaitOf(l), s)

DataOwed == data = "blocked" => Missing("Egress", None)

Stages == {"idle", "round", "first", "control", "data"}

DriveOK ==
    drive \in [stage : Stages, budget : Int, permits : Int, mode : {"drive", "one", "data"},
               round : {"Single", "DataFirst", "ControlFirst"}, control : {"yes", "no"},
               tail : Streams \cup {None, "any"}, activity : Classes \cup {"None"},
               served : SUBSET Streams]

Basics ==
    /\ resident \subseteq Streams /\ IsFiniteSet(resident) /\ Cardinality(resident) <= Limit
    /\ Shape(lane, resident)
    /\ prefer \in Classes /\ data \in {"open", "blocked"}
    /\ carrier \in [Resources -> {"open", "shut"}] /\ owed \subseteq Resources
    /\ DriveOK

HeadsReady ==
    /\ drive.stage = "first" => lane["DataReady"] # <<>> /\ drive.served = {}
    /\ drive.stage \in {"first", "control"} /\ drive.control = "yes" =>
          lane["ControlReady"] # <<>> /\ Head(lane["ControlReady"]) \notin drive.served

PassOrder ==
    drive.stage \in {"first", "control", "data"} /\ drive.mode # "data" /\ drive.tail # None /\ data = "open" =>
        \E p \in DOMAIN lane["DataReady"] :
            /\ lane["DataReady"][p] = drive.tail
            /\ \A q \in 1 .. p : lane["DataReady"][q] \notin drive.served

IInv == Basics /\ LanesOwed /\ DataOwed /\ HeadsReady /\ PassOrder

-----------------------------------------------------------------------------
(* Lanes. *)

\* A place in a lane belongs to one stream, as TypeOK states it.
LEMMA ShapeMeans ==
    ASSUME NEW R, NEW ln
    PROVE  Shape(ln, R) <=>
              /\ ln \in [Lanes -> Seq(R)]
              /\ \A l, m \in Lanes : \A i \in DOMAIN ln[l], j \in DOMAIN ln[m] :
                    ln[l][i] = ln[m][j] => l = m /\ i = j
<1>1. ASSUME Shape(ln, R), NEW l \in Lanes, NEW m \in Lanes,
             NEW i \in DOMAIN ln[l], NEW j \in DOMAIN ln[m], ln[l][i] = ln[m][j]
      PROVE  l = m /\ i = j
  <2>1. ln[l][i] \in Elements(ln[l]) /\ ln[m][j] \in Elements(ln[m])
    BY DEF Elements
  <2>2. l = m
    BY <1>1, <2>1 DEF Shape
  <2> QED BY <1>1, <2>2 DEF Shape, Distinct
<1>2. ASSUME \A l, m \in Lanes : \A i \in DOMAIN ln[l], j \in DOMAIN ln[m] :
                ln[l][i] = ln[m][j] => l = m /\ i = j
      PROVE  /\ \A l \in Lanes : Distinct(ln[l])
             /\ \A l, m \in Lanes : l # m => Elements(ln[l]) \cap Elements(ln[m]) = {}
  <2>1. \A l \in Lanes : Distinct(ln[l])
    BY <1>2 DEF Distinct
  <2>2. ASSUME NEW l \in Lanes, NEW m \in Lanes, l # m, NEW e \in Elements(ln[l]) \cap Elements(ln[m])
        PROVE  FALSE
    <3>1. PICK i \in DOMAIN ln[l] : ln[l][i] = e
      BY DEF Elements
    <3>2. PICK j \in DOMAIN ln[m] : ln[m][j] = e
      BY DEF Elements
    <3> QED BY <1>2, <2>2, <3>1, <3>2
  <2> QED BY <2>1, <2>2
<1> QED BY <1>1, <1>2 DEF Shape

\* A smaller or a larger set of members.
LEMMA ShapeMembers ==
    ASSUME NEW R, NEW ln, Shape(ln, R), NEW Q, \A l \in Lanes : Elements(ln[l]) \subseteq Q
    PROVE  Shape(ln, Q)
<1>1. ASSUME NEW l \in Lanes PROVE ln[l] \in Seq(Q)
  <2>1. ln[l] \in Seq(R)
    BY DEF Shape
  <2>2. \A i \in 1 .. Len(ln[l]) : ln[l][i] \in Q
    BY <2>1 DEF Elements
  <2> QED BY <2>1, <2>2
<1> QED BY <1>1 DEF Shape

\* One lane of many.
LEMMA Members ==
    ASSUME NEW R, NEW ln, Shape(ln, R), NEW l \in Lanes
    PROVE  /\ ln[l] \in Seq(R) /\ Distinct(ln[l]) /\ Elements(ln[l]) \subseteq R
           /\ ln[l] # <<>> => Head(ln[l]) \in Elements(ln[l])
  BY DEF Shape, Elements

\* lanes::Slot::unlink takes one stream out and leaves the others where they are.
LEMMA UnlinkedShape ==
    ASSUME NEW R, Shape(lane, R), NEW s
    PROVE  /\ Shape(Unlinked(s), R)
           /\ \A l \in Lanes : Elements(Unlinked(s)[l]) = Elements(lane[l]) \ {s}
<1>1. ASSUME NEW l \in Lanes
      PROVE  /\ Unlinked(s)[l] \in Seq(R) /\ Distinct(Unlinked(s)[l])
             /\ Elements(Unlinked(s)[l]) = Elements(lane[l]) \ {s}
  <2>1. Unlinked(s)[l] = Unlink(lane[l], s)
    BY DEF Unlinked
  <2> QED BY <2>1, Members, UnlinkFact
<1>2. Unlinked(s) \in [Lanes -> Seq(R)]
  BY <1>1 DEF Unlinked
<1> QED BY <1>1, <1>2 DEF Shape

\* lanes::Slot::move_to_back puts it at the back of one lane.
LEMMA MovedShape ==
    ASSUME NEW R, Shape(lane, R), NEW s \in R, NEW to \in Lanes
    PROVE  /\ Shape(MovedToBack(s, to), R)
           /\ \A l \in Lanes : Elements(MovedToBack(s, to)[l]) =
                 IF l = to THEN Elements(lane[l]) \cup {s} ELSE Elements(lane[l]) \ {s}
           /\ \A l \in Lanes : MovedToBack(s, to)[l] =
                 IF l = to THEN Append(Unlink(lane[l], s), s) ELSE Unlink(lane[l], s)
<1> DEFINE ln == MovedToBack(s, to)
<1>1. Unlinked(s) \in [Lanes -> Seq(R)]
  BY UnlinkedShape DEF Shape
<1>2. \A l \in Lanes : ln[l] = IF l = to THEN Append(Unlink(lane[l], s), s) ELSE Unlink(lane[l], s)
  BY DEF MovedToBack, Unlinked
<1>3. ASSUME NEW l \in Lanes
      PROVE  /\ ln[l] \in Seq(R) /\ Distinct(ln[l])
             /\ Elements(ln[l]) = IF l = to THEN Elements(lane[l]) \cup {s} ELSE Elements(lane[l]) \ {s}
  <2>1. /\ Unlink(lane[l], s) \in Seq(R) /\ Distinct(Unlink(lane[l], s))
        /\ Elements(Unlink(lane[l], s)) = Elements(lane[l]) \ {s}
    BY Members, UnlinkFact
  <2>2. s \notin Elements(Unlink(lane[l], s))
    BY <2>1
  <2>3. CASE l = to
    <3>1. ln[l] = Append(Unlink(lane[l], s), s)
      BY <2>3, <1>2
    <3> HIDE DEF ln
    <3>2. ln[l] \in Seq(R) /\ Distinct(ln[l]) /\ Elements(ln[l]) = Elements(Unlink(lane[l], s)) \cup {s}
      BY <2>1, <2>2, <3>1, AppendFact
    <3> QED BY <2>1, <2>3, <3>2
  <2>4. CASE l # to
    BY <2>1, <2>4, <1>2
  <2> QED BY <2>3, <2>4
<1>4. ln \in [Lanes -> Seq(R)]
  <2>1. ln = [l \in Lanes |-> ln[l]]
    BY DEF MovedToBack, Unlinked
  <2> QED BY <2>1, <1>3
<1> HIDE DEF ln
<1>5. \A l, m \in Lanes : l # m => Elements(ln[l]) \cap Elements(ln[m]) = {}
  BY <1>3 DEF Shape
<1>6. Shape(ln, R)
  BY <1>3, <1>4, <1>5 DEF Shape
<1> QED BY <1>2, <1>3, <1>6 DEF ln

\* One lane put behind another.
Joined(old, from, to) ==
    [l \in Lanes |-> IF l = from THEN <<>> ELSE IF l = to THEN old[to] \o old[from] ELSE old[l]]

\* lanes::Table::move_all keeps every stream, and the order within each lane.
LEMMA JoinedShape ==
    ASSUME NEW R, NEW old, Shape(old, R), NEW from \in Lanes, NEW to \in Lanes, from # to,
           NEW ln, ln = Joined(old, from, to)
    PROVE  Shape(ln, R)
<1>1. ASSUME NEW l \in Lanes
      PROVE  /\ ln[l] \in Seq(R) /\ Distinct(ln[l])
             /\ Elements(ln[l]) =
                 IF l = from THEN {}
                 ELSE IF l = to THEN Elements(old[to]) \cup Elements(old[from]) ELSE Elements(old[l])
  <2>1. CASE l = from
    <3>1. ln[l] = <<>>
      BY <2>1 DEF Joined
    <3> QED BY <2>1, <3>1 DEF Elements, Distinct
  <2>2. CASE l = to
    <3>1. ln[l] = old[to] \o old[from]
      BY <2>2 DEF Joined
    <3>2. Elements(old[to]) \cap Elements(old[from]) = {}
      BY DEF Shape
    <3>3. /\ old[to] \in Seq(R) /\ Distinct(old[to])
          /\ old[from] \in Seq(R) /\ Distinct(old[from])
      BY Members
    <3>4. /\ ln[l] \in Seq(R) /\ Distinct(ln[l])
          /\ Elements(ln[l]) = Elements(old[to]) \cup Elements(old[from])
      BY <3>1, <3>2, <3>3, ConcatFact
    <3> QED BY <2>2, <3>4
  <2>3. CASE l # from /\ l # to
    BY <2>3, Members DEF Joined
  <2> QED BY <2>1, <2>2, <2>3
<1>2. ln \in [Lanes -> Seq(R)]
  BY <1>1 DEF Joined
<1>3. \A l, m \in Lanes : l # m => Elements(ln[l]) \cap Elements(ln[m]) = {}
  BY <1>1 DEF Shape
<1> QED BY <1>1, <1>2, <1>3 DEF Shape

-----------------------------------------------------------------------------
(* Waiting. *)

\* WorkClass::blocked_lane names a lane, and one whose wait is the one reported.
LEMMA BlockedLaneFact ==
    ASSUME NEW c \in Classes, NEW w \in Waits \cup {"None"}
    PROVE  /\ BlockedLane(c, w) \in Lanes /\ ReadyLane(c) \in Lanes
           /\ WaitOf(ReadyLane(c)) = "None"
           /\ WaitOf(BlockedLane(c, w)) \in {"None", w}
<1>1. CASE w = "None"
  BY <1>1 DEF BlockedLane, ReadyLane, Lanes, Classes, Waits, WaitOf
<1>2. CASE w = "Egress"
  BY <1>2 DEF BlockedLane, ReadyLane, Lanes, Classes, Waits, WaitOf
<1>3. CASE w = "Connection"
  BY <1>3 DEF BlockedLane, ReadyLane, Lanes, Classes, Waits, WaitOf
<1>4. CASE w = "Stream"
  BY <1>4 DEF BlockedLane, ReadyLane, Lanes, Classes, Waits, WaitOf
<1> QED BY <1>1, <1>2, <1>3, <1>4 DEF Waits

\* A stream that goes to the back of a lane, while no resource is missed less,
\* leaves every waiter owed.
LEMMA MoveOwed ==
    ASSUME NEW R, Shape(lane, R), LanesOwed, NEW s \in R, NEW to \in Lanes,
           lane' = MovedToBack(s, to),
           \A w \in Waits, t \in R : Missing(w, t) => Missing(w, t)',
           WaitOf(to) = "None" \/ Missing(WaitOf(to), s)'
    PROVE  LanesOwed'
<1> SUFFICES ASSUME NEW l \in Lanes, WaitOf(l) # "None", NEW t \in Elements(lane'[l])
             PROVE  Missing(WaitOf(l), t)'
  BY DEF LanesOwed, WaitOf
<1>1. WaitOf(l) \in Waits
  BY DEF WaitOf, Waits
<1>2. CASE l = to /\ t = s
  BY <1>2
<1>3. CASE ~(l = to /\ t = s)
  <2>1. t \in Elements(lane[l])
    <3>1. Elements(lane'[l]) = IF l = to THEN Elements(lane[l]) \cup {s} ELSE Elements(lane[l]) \ {s}
      BY MovedShape
    <3> QED BY <1>3, <3>1
  <2>2. Missing(WaitOf(l), t) /\ t \in R
    BY <2>1, Members DEF LanesOwed
  <2> QED BY <1>1, <2>2
<1> QED BY <1>2, <1>3

\* So does a stream that leaves its lane.
LEMMA UnlinkOwed ==
    ASSUME NEW R, Shape(lane, R), LanesOwed, NEW s, lane' = Unlinked(s),
           \A w \in Waits, t \in R : Missing(w, t) => Missing(w, t)'
    PROVE  LanesOwed'
<1> SUFFICES ASSUME NEW l \in Lanes, WaitOf(l) # "None", NEW t \in Elements(lane'[l])
             PROVE  Missing(WaitOf(l), t)'
  BY DEF LanesOwed, WaitOf
<1>1. WaitOf(l) \in Waits
  BY DEF WaitOf, Waits
<1>2. t \in Elements(lane[l])
  BY UnlinkedShape
<1>3. Missing(WaitOf(l), t) /\ t \in R
  BY <1>2, Members DEF LanesOwed
<1> QED BY <1>1, <1>3
-----------------------------------------------------------------------------
(* Steps between drives.  They leave the drive idle, so that what a round  *)
(* relies on says nothing.                                                 *)

\* The invariant of an idle scheduler.
LEMMA IdleKept ==
    ASSUME drive.stage = "idle", drive' = drive
    PROVE  HeadsReady' /\ PassOrder'
  BY DEF HeadsReady, PassOrder

\* A carrier that is left alone misses what it missed.
LEMMA SameMissing ==
    ASSUME carrier' = carrier, owed' = owed
    PROVE  \A w, t : Missing(w, t)' = Missing(w, t)
  BY DEF Missing, Resource

\* A block that is reported is missed.
LEMMA ReportMissing ==
    ASSUME NEW w \in Waits \cup {"None"}, NEW s, Reportable(w, s), NEW c \in Classes
    PROVE  /\ WaitOf(BlockedLane(c, w)) = "None" \/ Missing(WaitOf(BlockedLane(c, w)), s)
           /\ Blocks(c, w) => Missing("Egress", None)
<1>1. w # "None" => Missing(w, s)
  BY DEF Reportable, Missing
<1>2. w = "Egress" => Resource(w, s) = Resource("Egress", None)
  BY DEF Resource
<1> QED BY <1>1, <1>2, BlockedLaneFact DEF Blocks, Missing

\* place::insert and Occupied::transition.
LEMMA PlaceKeeps ==
    ASSUME IInv, NEW s, NEW c \in Classes, NEW w \in Waits \cup {"None"}, Reportable(w, s),
           resident \subseteq resident', s \in resident', Place(s, c, w),
           carrier' = carrier, owed' = owed
    PROVE  Shape(lane, resident)' /\ LanesOwed' /\ DataOwed' /\ data' \in {"open", "blocked"}
<1> DEFINE R == resident'
           to == BlockedLane(c, w)
<1>1. Shape(lane, R)
  BY ShapeMembers, Members DEF IInv, Basics
<1>2. to \in Lanes
  BY BlockedLaneFact
<1>3. lane' = MovedToBack(s, to)
  BY DEF Place
<1>4. WaitOf(to) = "None" \/ Missing(WaitOf(to), s)'
  BY ReportMissing, SameMissing
<1>5. \A v \in Waits, t \in R : Missing(v, t) => Missing(v, t)'
  BY SameMissing
<1>6. LanesOwed
  BY DEF IInv
<1> HIDE DEF R, to
<1>7. s \in R
  BY DEF R
<1>8. LanesOwed'
  BY <1>1, <1>2, <1>3, <1>4, <1>5, <1>6, <1>7, MoveOwed
<1>9. Shape(lane', R)
  BY <1>1, <1>2, <1>3, <1>7, MovedShape
<1>10. DataOwed' /\ data' \in {"open", "blocked"}
  <2>1. data' = IF Blocks(c, w) THEN "blocked" ELSE data
    BY DEF Place
  <2> QED BY <2>1, ReportMissing, SameMissing DEF IInv, Basics, DataOwed
<1> QED BY <1>8, <1>9, <1>10 DEF Shape, R
\* Runtime::try_store, try_insert
LEMMA AdmitStep ==
    ASSUME IInv, NEW s \in Streams,
           Store(s) \/ \E c \in Classes, w \in Waits \cup {"None"} : Insert(s, c, w)
    PROVE  IInv'
<1>1. /\ drive.stage = "idle" /\ drive' = drive /\ Admits(s) /\ resident' = resident \cup {s}
      /\ carrier' = carrier /\ owed' = owed /\ prefer' = prefer
  BY DEF Store, Insert
<1>2. resident' \subseteq Streams /\ IsFiniteSet(resident') /\ Cardinality(resident') <= Limit
  <2>1. resident \subseteq Streams /\ IsFiniteSet(resident) /\ Cardinality(resident) < Limit /\ s \notin resident
    BY <1>1 DEF IInv, Basics, Admits
  <2>2. Cardinality(resident) \in Nat
    BY <2>1, FS_CardinalityType
  <2>3. IsFiniteSet(resident \cup {s}) /\ Cardinality(resident \cup {s}) = Cardinality(resident) + 1
    BY <2>1, FS_AddElement
  <2> QED BY <1>1, <2>1, <2>2, <2>3, ScheduleAssumption
<1>3. Shape(lane, resident)' /\ LanesOwed' /\ DataOwed' /\ data' \in {"open", "blocked"}
  <2>1. CASE Store(s)
    <3>1. lane' = lane /\ data' = data
      BY <2>1 DEF Store
    <3>2. Shape(lane, resident')
      BY <1>1, ShapeMembers, Members DEF IInv, Basics
    <3>3. LanesOwed' /\ DataOwed'
      BY <1>1, <3>1, SameMissing DEF IInv, LanesOwed, DataOwed
    <3> QED BY <3>1, <3>2, <3>3 DEF IInv, Basics, Shape
  <2>2. ASSUME NEW c \in Classes, NEW w \in Waits \cup {"None"}, Insert(s, c, w)
        PROVE  Shape(lane, resident)' /\ LanesOwed' /\ DataOwed' /\ data' \in {"open", "blocked"}
    <3>1. Reportable(w, s) /\ Place(s, c, w)
      BY <2>2 DEF Insert
    <3> QED BY <1>1, <3>1, PlaceKeeps
  <2> QED BY <2>1, <2>2
<1>4. HeadsReady' /\ PassOrder'
  BY <1>1, IdleKept
<1> QED BY <1>1, <1>2, <1>3, <1>4 DEF IInv, Basics, DriveOK

\* Runtime::try_apply, typed::Occupied::transition
LEMMA RequeueStep ==
    ASSUME IInv, NEW s \in Streams, NEW c \in Classes, NEW w \in Waits \cup {"None"},
           Activate(s, c, w) \/ Transition(s, c, w)
    PROVE  IInv'
<1>1. /\ drive.stage = "idle" /\ drive' = drive /\ s \in resident /\ Reportable(w, s)
      /\ resident' = resident /\ carrier' = carrier /\ owed' = owed /\ prefer' = prefer
  BY DEF Activate, Transition
<1>2. HeadsReady' /\ PassOrder'
  BY <1>1, IdleKept
<1>3. Shape(lane, resident)' /\ LanesOwed' /\ DataOwed' /\ data' \in {"open", "blocked"}
  <2>1. CASE Place(s, c, w)
    BY <1>1, <2>1, PlaceKeeps
  <2>2. CASE lane' = lane /\ data' = IF Blocks(c, w) THEN "blocked" ELSE data
    <3>1. LanesOwed'
      BY <1>1, <2>2, SameMissing DEF IInv, LanesOwed
    <3>2. DataOwed' /\ data' \in {"open", "blocked"}
      BY <1>1, <2>2, ReportMissing, SameMissing DEF IInv, Basics, DataOwed
    <3> QED BY <1>1, <2>2, <3>1, <3>2 DEF IInv, Basics, Shape
  <2>3. Place(s, c, w) \/ (lane' = lane /\ data' = IF Blocks(c, w) THEN "blocked" ELSE data)
    BY DEF Activate, Transition, Place
  <2> QED BY <2>1, <2>2, <2>3
<1> QED BY <1>1, <1>2, <1>3 DEF IInv, Basics, DriveOK

\* A stream that is taken out, and stays a record or not.
LEMMA UnlinkKeeps ==
    ASSUME IInv, NEW s \in resident, lane' = Unlinked(s), resident' \in {resident, resident \ {s}},
           carrier' = carrier, owed' = owed, data' = data
    PROVE  /\ resident' \subseteq Streams /\ IsFiniteSet(resident') /\ Cardinality(resident') <= Limit
           /\ Shape(lane, resident)' /\ LanesOwed' /\ DataOwed' /\ data' \in {"open", "blocked"}
<1>1. resident' \subseteq Streams /\ IsFiniteSet(resident') /\ Cardinality(resident') <= Limit
  <2>1. resident \subseteq Streams /\ IsFiniteSet(resident) /\ Cardinality(resident) <= Limit
    BY DEF IInv, Basics
  <2>2. Cardinality(resident) \in Nat
    BY <2>1, FS_CardinalityType
  <2>3. /\ IsFiniteSet(resident \ {s})
        /\ Cardinality(resident \ {s}) = Cardinality(resident) - 1
    BY <2>1, FS_RemoveElement
  <2>4. Cardinality(resident \ {s}) <= Limit
    BY <2>1, <2>2, <2>3, ScheduleAssumption
  <2>5. CASE resident' = resident
    BY <2>1, <2>5
  <2>6. CASE resident' = resident \ {s}
    BY <2>1, <2>3, <2>4, <2>6
  <2> QED BY <2>5, <2>6
<1>2. Shape(lane', resident) /\ \A l \in Lanes : Elements(lane'[l]) = Elements(lane[l]) \ {s}
  BY UnlinkedShape DEF IInv, Basics
<1>3. Shape(lane', resident')
  <2>1. ASSUME NEW l \in Lanes PROVE Elements(lane'[l]) \subseteq resident'
    <3>1. Elements(lane[l]) \subseteq resident
      BY Members DEF IInv, Basics
    <3> QED BY <1>2, <3>1
  <2> QED BY <1>2, <2>1, ShapeMembers
<1>4. LanesOwed'
  BY UnlinkOwed, SameMissing DEF IInv, Basics
<1>5. DataOwed' /\ data' \in {"open", "blocked"}
  BY SameMissing DEF IInv, Basics, DataOwed
<1> QED BY <1>1, <1>3, <1>4, <1>5 DEF Shape

\* Occupied::withdraw, Records::remove, Runtime::clear
LEMMA RemoveStep ==
    ASSUME IInv, (\E s \in Streams : Withdraw(s) \/ RemoveRecord(s)) \/ Clear
    PROVE  IInv'
<1>1. /\ drive.stage = "idle" /\ drive' = drive /\ carrier' = carrier /\ owed' = owed
      /\ prefer' \in {prefer, "Control"}
  BY DEF Withdraw, RemoveRecord, Clear
<1>2. HeadsReady' /\ PassOrder'
  BY <1>1, IdleKept
<1>3. CASE Clear
  <2>1. /\ resident' = {} /\ lane' = [l \in Lanes |-> <<>>] /\ data' = "open"
    BY <1>3 DEF Clear
  <2>2. IsFiniteSet({}) /\ Cardinality({}) = 0
    BY FS_EmptySet
  <2>3. \A l \in Lanes : Elements(lane'[l]) = {} /\ Distinct(lane'[l]) /\ lane'[l] \in Seq(resident')
    BY <2>1 DEF Elements, Distinct
  <2>4. Shape(lane, resident)'
    BY <2>1, <2>3 DEF Shape
  <2>5. LanesOwed' /\ DataOwed'
    BY <2>1, <2>3 DEF LanesOwed, DataOwed
  <2> QED BY <1>1, <1>2, <2>1, <2>2, <2>4, <2>5, ScheduleAssumption DEF IInv, Basics, DriveOK, Classes
<1>4. ASSUME NEW s \in Streams, Withdraw(s) \/ RemoveRecord(s) PROVE IInv'
  <2>1. s \in resident /\ lane' = Unlinked(s) /\ resident' \in {resident, resident \ {s}} /\ data' = data
    BY <1>4 DEF Withdraw, RemoveRecord
  <2>2. /\ resident' \subseteq Streams /\ IsFiniteSet(resident') /\ Cardinality(resident') <= Limit
        /\ Shape(lane, resident)' /\ LanesOwed' /\ DataOwed' /\ data' \in {"open", "blocked"}
    BY <1>1, <2>1, UnlinkKeeps
  <2> QED BY <1>1, <1>2, <2>2 DEF IInv, Basics, DriveOK, Classes
<1> QED BY <1>3, <1>4
\* The pair a lane is named by.
LEMMA ChoosePair ==
    ASSUME NEW moves, NEW a, NEW b, <<a, b>> \in moves, \A n \in moves : n[2] = b => n = <<a, b>>
    PROVE  (CHOOSE m \in moves : m[2] = b)[1] = a
<1>1. <<a, b>>[2] = b /\ <<a, b>>[1] = a
  OBVIOUS
<1>2. \E m \in moves : m[2] = b
  BY <1>1
<1>3. (CHOOSE m \in moves : m[2] = b) = <<a, b>>
  BY <1>2
<1> QED BY <1>1, <1>3

\* Runtime::wake, wake_egress: everybody a resource is replenished for leaves
\* its waiting lane, so nobody is left to be owed the wake that is collected.
LEMMA WakeStep ==
    ASSUME IInv, Resume
    PROVE  IInv'
<1> DEFINE con == <<"Connection", None>>
           egr == <<"Egress", None>>
<1>1. /\ drive.stage = "idle" /\ drive' = drive /\ carrier' = carrier
      /\ prefer' = prefer /\ resident' = resident
  BY DEF Resume, WakeConnection, WakeStream, WakeEgress
<1>2. HeadsReady' /\ PassOrder'
  BY <1>1, IdleKept
<1>3. ASSUME WakeConnection PROVE Shape(lane', resident) /\ LanesOwed' /\ DataOwed' /\ data' \in {"open", "blocked"}
  <2> DEFINE mid == Joined(lane, "ConnectionWait", "DataReady")
  <2>1. lane' = Joined(mid, "ControlConnectionWait", "ControlReady")
    <3>1. lane' = Moved(ConnectionMoves)
      BY <1>3 DEF WakeConnection
    <3>2. (CHOOSE m \in ConnectionMoves : m[2] = "DataReady")[1] = "ConnectionWait"
      <4> DEFINE a == "ConnectionWait"
                 b == "DataReady"
      <4>1. <<a, b>> \in ConnectionMoves /\ \A n \in ConnectionMoves : n[2] = b => n = <<a, b>>
        BY DEF ConnectionMoves
      <4> HIDE DEF a, b
      <4>2. (CHOOSE m \in ConnectionMoves : m[2] = b)[1] = a
        BY <4>1, ChoosePair
      <4> QED BY <4>2 DEF a, b
    <3>3. (CHOOSE m \in ConnectionMoves : m[2] = "ControlReady")[1] = "ControlConnectionWait"
      <4> DEFINE a == "ControlConnectionWait"
                 b == "ControlReady"
      <4>1. <<a, b>> \in ConnectionMoves /\ \A n \in ConnectionMoves : n[2] = b => n = <<a, b>>
        BY DEF ConnectionMoves
      <4> HIDE DEF a, b
      <4>2. (CHOOSE m \in ConnectionMoves : m[2] = b)[1] = a
        BY <4>1, ChoosePair
      <4> QED BY <4>2 DEF a, b
    <3>4. \A l : (\E m \in ConnectionMoves : m[1] = l) <=> l \in {"ConnectionWait", "ControlConnectionWait"}
      BY DEF ConnectionMoves
    <3>5. \A l : (\E m \in ConnectionMoves : m[2] = l) <=> l \in {"DataReady", "ControlReady"}
      BY DEF ConnectionMoves
    <3>6. {"ControlReady", "DataReady", "ConnectionWait", "ControlConnectionWait"} \subseteq Lanes
      BY DEF Lanes
    <3>7. mid["ControlReady"] = lane["ControlReady"] /\ mid["ControlConnectionWait"] = lane["ControlConnectionWait"]
      BY <3>6 DEF Joined
    <3>8. Moved(ConnectionMoves) = [l \in Lanes |->
             IF l \in {"ConnectionWait", "ControlConnectionWait"} THEN <<>>
             ELSE IF l = "DataReady" THEN lane[l] \o lane["ConnectionWait"]
             ELSE IF l = "ControlReady" THEN lane[l] \o lane["ControlConnectionWait"]
             ELSE lane[l]]
      <4> DEFINE from(l) == (CHOOSE m \in ConnectionMoves : m[2] = l)[1]
      <4>1. Moved(ConnectionMoves) = [l \in Lanes |->
               IF l \in {"ConnectionWait", "ControlConnectionWait"} THEN <<>>
               ELSE IF l \in {"DataReady", "ControlReady"} THEN lane[l] \o lane[from(l)] ELSE lane[l]]
        BY <3>4, <3>5 DEF Moved
      <4>2. from("DataReady") = "ConnectionWait" /\ from("ControlReady") = "ControlConnectionWait"
        BY <3>2, <3>3
      <4> HIDE DEF from
      <4> QED BY <4>1, <4>2
    <3> QED BY <3>1, <3>7, <3>8 DEF Joined
  <2>2. /\ Shape(mid, resident) /\ mid["ConnectionWait"] = <<>>
        /\ \A l \in Lanes \ {"ConnectionWait", "DataReady"} : mid[l] = lane[l]
    <3> DEFINE a == "ConnectionWait"
               b == "DataReady"
    <3>1. a \in Lanes /\ b \in Lanes /\ a # b /\ Shape(lane, resident) /\ mid = Joined(lane, a, b)
      BY DEF Lanes, IInv, Basics
    <3> HIDE DEF a, b, mid
    <3>2. Shape(mid, resident)
      BY <3>1, JoinedShape
    <3>4. mid[a] = <<>> /\ \A l \in Lanes : l \notin {a, b} => mid[l] = lane[l]
      BY <3>1 DEF Joined
    <3> QED BY <3>2, <3>4 DEF a, b
  <2> HIDE DEF mid
  <2>3. /\ Shape(lane', resident) /\ lane'["ControlConnectionWait"] = <<>>
        /\ \A l \in Lanes \ {"ControlConnectionWait", "ControlReady"} : lane'[l] = mid[l]
    <3> DEFINE a == "ControlConnectionWait"
               b == "ControlReady"
    <3>1. a \in Lanes /\ b \in Lanes /\ a # b /\ lane' = Joined(mid, a, b)
      BY <2>1 DEF Lanes
    <3> HIDE DEF a, b
    <3>2. Shape(mid, resident)
      BY <2>2
    <3>3. Shape(lane', resident)
      BY <3>1, <3>2, JoinedShape
    <3>4. lane'[a] = <<>> /\ \A l \in Lanes : l \notin {a, b} => lane'[l] = mid[l]
      BY <3>1 DEF Joined
    <3> QED BY <3>3, <3>4 DEF a, b
  <2>4. owed' = owed \ {con} /\ data' = data
    BY <1>3 DEF WakeConnection
  <2>5. \A w, t : w # "Connection" /\ Missing(w, t) => Missing(w, t)'
    BY <1>1, <2>4 DEF Missing, Resource
  <2>6. LanesOwed'
    <3> SUFFICES ASSUME NEW l \in Lanes, WaitOf(l) # "None", NEW t \in Elements(lane'[l])
                 PROVE  Missing(WaitOf(l), t)'
      BY DEF LanesOwed, WaitOf
    <3>1. l \notin {"ControlConnectionWait", "ConnectionWait", "ControlReady", "DataReady"}
      BY <2>2, <2>3 DEF WaitOf, Lanes, Elements
    <3>2. t \in Elements(lane[l])
      BY <2>2, <2>3, <3>1
    <3>3. Missing(WaitOf(l), t) /\ WaitOf(l) # "Connection"
      BY <3>1, <3>2 DEF IInv, LanesOwed, WaitOf
    <3> QED BY <2>5, <3>3
  <2>7. DataOwed' /\ data' \in {"open", "blocked"}
    BY <2>4, <2>5 DEF IInv, Basics, DataOwed
  <2> QED BY <2>3, <2>6, <2>7
<1>4. ASSUME WakeEgress PROVE Shape(lane', resident) /\ LanesOwed' /\ DataOwed' /\ data' \in {"open", "blocked"}
  <2>1. lane' = Joined(lane, "ControlEgressWait", "ControlReady")
    <3> DEFINE mv == {<<"ControlEgressWait", "ControlReady">>}
    <3>1. lane' = Moved(mv)
      BY <1>4 DEF WakeEgress
    <3>2. (CHOOSE m \in mv : m[2] = "ControlReady")[1] = "ControlEgressWait"
      <4> DEFINE a == "ControlEgressWait"
                 b == "ControlReady"
      <4>1. <<a, b>> \in mv /\ \A n \in mv : n[2] = b => n = <<a, b>>
        OBVIOUS
      <4> HIDE DEF a, b, mv
      <4>2. (CHOOSE m \in mv : m[2] = b)[1] = a
        BY <4>1, ChoosePair
      <4> QED BY <4>2 DEF a, b
    <3>3. \A l : (\E m \in mv : m[1] = l) <=> l = "ControlEgressWait"
      OBVIOUS
    <3>4. \A l : (\E m \in mv : m[2] = l) <=> l = "ControlReady"
      OBVIOUS
    <3> HIDE DEF mv
    <3>5. Moved(mv) = [l \in Lanes |->
             IF l = "ControlEgressWait" THEN <<>>
             ELSE IF l = "ControlReady" THEN lane[l] \o lane["ControlEgressWait"] ELSE lane[l]]
      BY <3>2, <3>3, <3>4 DEF Moved
    <3> QED BY <3>1, <3>5 DEF Joined
  <2>2. /\ Shape(lane', resident) /\ lane'["ControlEgressWait"] = <<>>
        /\ \A l \in Lanes \ {"ControlEgressWait", "ControlReady"} : lane'[l] = lane[l]
    <3> DEFINE a == "ControlEgressWait"
               b == "ControlReady"
    <3>1. a \in Lanes /\ b \in Lanes /\ a # b /\ Shape(lane, resident) /\ lane' = Joined(lane, a, b)
      BY <2>1 DEF Lanes, IInv, Basics
    <3> HIDE DEF a, b
    <3>2. Shape(lane', resident)
      BY <3>1, JoinedShape
    <3>4. lane'[a] = <<>> /\ \A l \in Lanes : l \notin {a, b} => lane'[l] = lane[l]
      BY <3>1 DEF Joined
    <3> QED BY <3>2, <3>4 DEF a, b
  <2>3. owed' = owed \ {egr} /\ data' = "open"
    BY <1>4 DEF WakeEgress, Reopened
  <2>4. \A w, t : w # "Egress" /\ Missing(w, t) => Missing(w, t)'
    BY <1>1, <2>3 DEF Missing, Resource
  <2>5. LanesOwed'
    <3> SUFFICES ASSUME NEW l \in Lanes, WaitOf(l) # "None", NEW t \in Elements(lane'[l])
                 PROVE  Missing(WaitOf(l), t)'
      BY DEF LanesOwed, WaitOf
    <3>1. l \notin {"ControlEgressWait", "ControlReady"}
      BY <2>2 DEF WaitOf, Elements
    <3>2. t \in Elements(lane[l])
      BY <2>2, <3>1
    <3>3. Missing(WaitOf(l), t) /\ WaitOf(l) # "Egress"
      BY <3>1, <3>2 DEF IInv, LanesOwed, WaitOf
    <3> QED BY <2>4, <3>3
  <2> QED BY <2>2, <2>3, <2>5 DEF DataOwed
<1>5. ASSUME NEW s \in Streams, WakeStream(s)
      PROVE  Shape(lane', resident) /\ LanesOwed' /\ DataOwed' /\ data' \in {"open", "blocked"}
  <2>1. owed' = owed \ {<<"Stream", s>>} /\ data' = data
    BY <1>5 DEF WakeStream
  <2>2. \A w, t : (w # "Stream" \/ t # s) /\ Missing(w, t) => Missing(w, t)'
    BY <1>1, <2>1 DEF Missing, Resource
  <2>3. DataOwed' /\ data' \in {"open", "blocked"}
    BY <2>1, <2>2 DEF IInv, Basics, DataOwed
  <2>4. Shape(lane, resident) /\ LanesOwed
    BY DEF IInv, Basics
  <2>5. CASE s \in Elements(lane["ControlStreamWait"]) \/ s \in Elements(lane["StreamWait"])
    <3> DEFINE to == IF s \in Elements(lane["ControlStreamWait"]) THEN "ControlReady" ELSE "DataReady"
    <3>1. lane' = MovedToBack(s, to) /\ s \in resident
      <4>1. \A l, m \in Lanes : s \in Elements(lane[l]) /\ s \in Elements(lane[m]) => l = m
        BY <2>4 DEF Shape
      <4>2. "ControlStreamWait" \in Lanes /\ "StreamWait" \in Lanes
        BY DEF Lanes
      <4>3. s \in Elements(lane["ControlStreamWait"]) => LaneOf(s) = {"ControlStreamWait"}
        BY <4>1, <4>2 DEF LaneOf
      <4>4. s \in Elements(lane["StreamWait"]) => LaneOf(s) = {"StreamWait"}
        BY <4>1, <4>2 DEF LaneOf
      <4>5. s \in resident
        BY <2>4, <2>5, <4>2, Members
      <4> QED BY <1>5, <2>5, <4>1, <4>2, <4>3, <4>4, <4>5 DEF WakeStream
    <3>2. to \in Lanes /\ WaitOf(to) = "None"
      BY DEF Lanes, WaitOf
    <3> HIDE DEF to
    <3>3. Shape(lane', resident) /\ \A l \in Lanes : Elements(lane'[l]) =
             IF l = to THEN Elements(lane[l]) \cup {s} ELSE Elements(lane[l]) \ {s}
      BY <2>4, <3>1, <3>2, MovedShape
    <3>4. LanesOwed'
      <4> SUFFICES ASSUME NEW l \in Lanes, WaitOf(l) # "None", NEW t \in Elements(lane'[l])
                   PROVE  Missing(WaitOf(l), t)'
        BY DEF LanesOwed, WaitOf
      <4>1. t # s /\ t \in Elements(lane[l])
        BY <3>2, <3>3
      <4>2. Missing(WaitOf(l), t)
        BY <2>4, <4>1 DEF LanesOwed
      <4> QED BY <2>2, <4>1, <4>2
    <3> QED BY <2>3, <3>3, <3>4
  <2>6. CASE ~(s \in Elements(lane["ControlStreamWait"]) \/ s \in Elements(lane["StreamWait"]))
    <3>1. lane' = lane
      BY <1>5, <2>6 DEF WakeStream, LaneOf
    <3>2. LanesOwed'
      <4> SUFFICES ASSUME NEW l \in Lanes, WaitOf(l) # "None", NEW t \in Elements(lane'[l])
                   PROVE  Missing(WaitOf(l), t)'
        BY DEF LanesOwed, WaitOf
      <4>1. Missing(WaitOf(l), t)
        BY <2>4, <3>1 DEF LanesOwed
      <4>2. WaitOf(l) # "Stream" \/ t # s
        BY <2>6, <3>1 DEF WaitOf
      <4> QED BY <2>2, <4>1, <4>2
    <3> QED BY <2>3, <2>4, <3>1, <3>2
  <2> QED BY <2>5, <2>6
<1>6. Shape(lane', resident) /\ LanesOwed' /\ DataOwed' /\ data' \in {"open", "blocked"} /\ owed' \subseteq Resources
  <2>1. owed' \subseteq owed
    BY DEF Resume, WakeConnection, WakeStream, WakeEgress
  <2> QED BY <1>3, <1>4, <1>5, <2>1 DEF Resume, IInv, Basics
<1> QED BY <1>1, <1>2, <1>6 DEF IInv, Basics, DriveOK, Shape

\* The carrier is replenished: its wake is owed from then on.
LEMMA ReplenishStep ==
    ASSUME IInv, NEW r \in Resources, Replenish(r)
    PROVE  IInv'
<1>1. /\ carrier' = [carrier EXCEPT ![r] = "open"] /\ owed' = owed \cup {r}
      /\ resident' = resident /\ lane' = lane /\ prefer' = prefer /\ data' = data /\ drive' = drive
  BY DEF Replenish
<1>2. \A w, t : Missing(w, t) => Missing(w, t)'
  <2> SUFFICES ASSUME NEW w, NEW t, Missing(w, t) PROVE Missing(w, t)'
    OBVIOUS
  <2>1. CASE Resource(w, t) = r
    BY <1>1, <2>1 DEF Missing, Resource
  <2>2. CASE Resource(w, t) # r
    <3>1. carrier'[Resource(w, t)] = carrier[Resource(w, t)] \/ Resource(w, t) \in owed
      BY <1>1, <2>2 DEF Missing, IInv, Basics
    <3> QED BY <1>1, <3>1 DEF Missing, Resource
  <2> QED BY <2>1, <2>2
<1>3. LanesOwed' /\ DataOwed'
  BY <1>1, <1>2 DEF IInv, LanesOwed, DataOwed, WaitOf
<1>4. carrier' \in [Resources -> {"open", "shut"}] /\ owed' \subseteq Resources
  BY <1>1 DEF IInv, Basics
<1> QED BY <1>1, <1>3, <1>4 DEF IInv, Basics, DriveOK, Shape, HeadsReady, PassOrder
-----------------------------------------------------------------------------
(* Steps of a drive. *)

\* Only the drive changes, or what the next round prefers.
LEMMA SameLanes ==
    ASSUME IInv, resident' = resident, lane' = lane, data' = data, carrier' = carrier, owed' = owed
    PROVE  /\ resident' \subseteq Streams /\ IsFiniteSet(resident') /\ Cardinality(resident') <= Limit
           /\ Shape(lane, resident)' /\ data' \in {"open", "blocked"}
           /\ carrier' \in [Resources -> {"open", "shut"}] /\ owed' \subseteq Resources
           /\ LanesOwed' /\ DataOwed'
<1>1. LanesOwed' /\ DataOwed'
  BY SameMissing DEF IInv, LanesOwed, DataOwed
<1> QED BY <1>1 DEF IInv, Basics, Shape

\* Drive::with, drive_data
LEMMA StartStep ==
    ASSUME IInv, NEW m \in Modes, NEW p \in Permits, StartDrive(m, p)
    PROVE  IInv'
<1>1. resident' = resident /\ lane' = lane /\ data' = data /\ carrier' = carrier /\ owed' = owed /\ prefer' = prefer
  BY DEF StartDrive
<1>2. drive' = [Idle EXCEPT !.stage = IF m = "data" THEN "data" ELSE "round", !.mode = m,
                            !.permits = p, !.budget = Cardinality(resident),
                            !.tail = IF m = "data" THEN "any" ELSE None]
  BY DEF StartDrive
<1>3. Cardinality(resident) \in Nat
  BY FS_CardinalityType DEF IInv, Basics
<1>4. /\ drive'.stage = (IF m = "data" THEN "data" ELSE "round") /\ drive'.mode = m
      /\ DriveOK'
  <2> DEFINE start(st, tl) ==
        [stage |-> st, budget |-> Cardinality(resident), permits |-> p, mode |-> m, round |-> "Single",
         control |-> "no", tail |-> tl, activity |-> "None", served |-> {}]
  <2>1. CASE m = "data"
    <3>1. drive' = start("data", "any")
      BY <1>2, <2>1 DEF Idle
    <3> QED BY <1>3, <2>1, <3>1, ScheduleAssumption DEF DriveOK, Stages
  <2>2. CASE m # "data"
    <3>1. drive' = start("round", None)
      BY <1>2, <2>2 DEF Idle
    <3> QED BY <1>3, <2>2, <3>1, ScheduleAssumption DEF DriveOK, Stages
  <2> QED BY <2>1, <2>2
<1>5. HeadsReady' /\ PassOrder'
  BY <1>4 DEF HeadsReady, PassOrder
<1> QED BY <1>1, <1>4, <1>5, SameLanes DEF IInv, Basics

\* The idle drive.
LEMMA IdleDrive ==
    ASSUME drive' = Idle
    PROVE  DriveOK' /\ HeadsReady' /\ PassOrder'
<1>1. DriveOK' /\ drive'.stage = "idle"
  BY DEF Idle, DriveOK, Stages, Classes
<1> QED BY <1>1 DEF HeadsReady, PassOrder

\* The head of the loop in Drive::run: the pass ends with the last of the data
\* lane, and nobody has had a turn.
LEMMA BeginStep ==
    ASSUME IInv, BeginRound
    PROVE  IInv'
<1>1. resident' = resident /\ lane' = lane /\ data' = data /\ carrier' = carrier /\ owed' = owed /\ prefer' = prefer
  BY DEF BeginRound
<1> DEFINE dl == lane["DataReady"]
           control == lane["ControlReady"] # <<>>
           mixed   == control /\ TailOf # None
           round   == IF ~mixed THEN "Single"
                      ELSE IF prefer = "Data" THEN "DataFirst" ELSE "ControlFirst"
           new == [drive EXCEPT !.stage = IF round = "DataFirst" THEN "first" ELSE "control",
                                !.round = round, !.tail = TailOf, !.served = {},
                                !.control = IF control THEN "yes" ELSE "no",
                                !.activity = "None"]
<1>2. drive' = Idle \/ drive' = new
  BY DEF BeginRound
<1>3. TailOf # None => data = "open" /\ dl # <<>> /\ TailOf = dl[Len(dl)]
  BY DEF TailOf, IInv, Basics
<1>4. dl \in Seq(Streams)
  BY DEF IInv, Basics, Shape, Lanes
<1>5. ASSUME drive' = new PROVE DriveOK' /\ HeadsReady' /\ PassOrder'
  <2>1. DriveOK
    BY DEF IInv, Basics
  <2>2. TailOf \in Streams \cup {None}
    BY <1>3, <1>4 DEF TailOf
  <2> HIDE DEF control, dl
  <2>3. /\ drive'.stage = (IF round = "DataFirst" THEN "first" ELSE "control")
        /\ drive'.tail = TailOf /\ drive'.served = {} /\ drive'.control = IF control THEN "yes" ELSE "no"
    BY <1>5, <2>1 DEF DriveOK
  <2>4. DriveOK'
    BY <1>5, <2>1, <2>2, ZenonT(40) DEF DriveOK, Stages, Classes
  <2>5. HeadsReady'
    BY <1>1, <1>3, <2>3 DEF HeadsReady, dl, control
  <2>6. PassOrder'
    <3> SUFFICES ASSUME TailOf # None
                 PROVE  \E p \in DOMAIN dl : dl[p] = TailOf /\ \A q \in 1 .. p : dl[q] \notin {}
      BY <1>1, <2>3 DEF PassOrder, dl
    <3>1. Len(dl) \in DOMAIN dl
      BY <1>3, <1>4
    <3> QED BY <1>3, <3>1
  <2> QED BY <2>4, <2>5, <2>6
<1>6. DriveOK' /\ HeadsReady' /\ PassOrder'
  BY <1>2, <1>5, IdleDrive
<1> QED BY <1>1, <1>6, SameLanes DEF IInv, Basics

\* A stage with no turn to give, and a permit that is refused.
LEMMA PassOnStep ==
    ASSUME IInv, Skip \/ NoPermit
    PROVE  IInv'
<1>1. resident' = resident /\ lane' = lane /\ data' = data /\ carrier' = carrier /\ owed' = owed
  BY DEF Skip, NoPermit, EndRound
<1>2. prefer' \in Classes
  BY DEF Skip, NoPermit, EndRound, Preferred, IInv, Basics, Classes
<1>3. \/ drive' = Idle \/ drive' = [drive EXCEPT !.stage = "round"]
      \/ drive.stage = "control" /\ drive' = [drive EXCEPT !.stage = "data"]
  BY DEF Skip, NoPermit, EndRound
<1>4. DriveOK
  BY DEF IInv, Basics
<1>5. CASE drive' = [drive EXCEPT !.stage = "round"]
  <2>1. DriveOK' /\ drive'.stage = "round"
    BY <1>4, <1>5 DEF DriveOK, Stages
  <2>2. HeadsReady' /\ PassOrder'
    BY <2>1 DEF HeadsReady, PassOrder
  <2> QED BY <1>1, <1>2, <2>1, <2>2, SameLanes DEF IInv, Basics
<1>6. CASE drive.stage = "control" /\ drive' = [drive EXCEPT !.stage = "data"]
  <2>1. /\ DriveOK' /\ drive'.stage = "data" /\ drive'.mode = drive.mode
        /\ drive'.tail = drive.tail /\ drive'.served = drive.served
    BY <1>4, <1>6 DEF DriveOK, Stages
  <2>2. HeadsReady' /\ PassOrder'
    BY <1>1, <1>6, <2>1 DEF HeadsReady, PassOrder, IInv
  <2> QED BY <1>1, <1>2, <2>1, <2>2, SameLanes DEF IInv, Basics
<1>7. CASE drive' = Idle
  BY <1>1, <1>2, <1>7, IdleDrive, SameLanes DEF IInv, Basics
<1> QED BY <1>3, <1>5, <1>6, <1>7
-----------------------------------------------------------------------------
(* Turns. *)

\* The stream at hand is the head of a ready lane, and its turn is its first.
LEMMA TurnHead ==
    ASSUME IInv, HasTurn
    PROVE  /\ Current \in resident
           /\ drive.mode # "data" => Current \notin drive.served
           /\ HasControl => /\ drive.stage = "control" /\ lane["ControlReady"] # <<>>
                            /\ Current = Head(lane["ControlReady"])
                            /\ Current \notin Elements(lane["DataReady"])
           /\ ~HasControl => /\ drive.stage \in {"first", "data"} /\ lane["DataReady"] # <<>>
                             /\ Current = Head(lane["DataReady"])
                             /\ Current \notin Elements(lane["ControlReady"])
<1> DEFINE cl == lane["ControlReady"]
           dl == lane["DataReady"]
<1>1. /\ cl \in Seq(resident) /\ dl \in Seq(resident)
      /\ Elements(cl) \cap Elements(dl) = {}
  BY DEF IInv, Basics, Shape, Lanes
<1>2. /\ cl # <<>> => Head(cl) \in Elements(cl) /\ Head(cl) \in resident
      /\ dl # <<>> => Head(dl) \in Elements(dl) /\ Head(dl) \in resident /\ Head(dl) = dl[1]
  BY <1>1 DEF Elements
<1>3. CASE HasControl
  <2>1. drive.stage = "control" /\ cl # <<>> /\ Current = Head(cl) /\ Current \notin drive.served
    BY <1>3 DEF HasControl, Current, IInv, HeadsReady
  <2> QED BY <1>1, <1>2, <1>3, <2>1
<1>4. CASE ~HasControl
  <2>1. drive.stage \in {"first", "data"} /\ dl # <<>> /\ Current = Head(dl)
    BY <1>4 DEF HasTurn, HasFirst, HasData, Current, IInv, HeadsReady
  <2>2. drive.mode # "data" => Current \notin drive.served
    <3>1. CASE HasFirst
      BY <3>1 DEF HasFirst, IInv, HeadsReady
    <3>2. CASE HasData /\ drive.mode # "data"
      <4>1. PICK p \in DOMAIN dl : \A q \in 1 .. p : dl[q] \notin drive.served
        BY <3>2 DEF HasData, IInv, PassOrder
      <4>2. 1 \in 1 .. p
        BY <1>1
      <4> QED BY <1>2, <2>1, <4>1, <4>2
    <3> QED BY <1>4, <3>1, <3>2 DEF HasTurn
  <2> QED BY <1>1, <1>2, <1>4, <2>1, <2>2
<1> QED BY <1>3, <1>4

\* The drive after a turn.
LEMMA TurnedFact ==
    ASSUME DriveOK, HasTurn, NEW s \in Streams, NEW a \in Classes, drive' = Turned(s, a)
    PROVE  /\ DriveOK'
           /\ drive'.mode = drive.mode /\ drive'.control = drive.control
           /\ drive'.served = drive.served \cup {s}
           /\ drive'.stage = (IF drive.stage = "first" THEN "control" ELSE "data")
           /\ ~HasControl /\ s = drive.tail => drive'.tail = None
           /\ HasControl \/ s # drive.tail => drive'.tail = drive.tail
<1> DEFINE tl == IF EndsPass(s) THEN None ELSE drive.tail
           st == IF HasFirst THEN "control" ELSE "data"
           ac == IF drive.activity = "None" THEN a ELSE drive.activity
<1>1. drive' = [stage |-> st, budget |-> drive.budget - 1, permits |-> drive.permits - 1, mode |-> drive.mode,
                round |-> drive.round, control |-> drive.control, tail |-> tl, activity |-> ac,
                served |-> drive.served \cup {s}]
  BY DEF Turned, DriveOK
<1>2. tl \in Streams \cup {None, "any"} /\ st \in Stages /\ ac \in Classes \cup {"None"}
  BY DEF DriveOK, Stages
<1>3. /\ ~HasControl /\ s = drive.tail => tl = None
      /\ HasControl \/ s # drive.tail => tl = drive.tail
      /\ st = IF drive.stage = "first" THEN "control" ELSE "data"
  BY DEF EndsPass, CurrentClass, HasFirst
<1> HIDE DEF tl, st, ac
<1>4. /\ drive'.mode = drive.mode /\ drive'.control = drive.control
      /\ drive'.served = drive.served \cup {s} /\ drive'.stage = st /\ drive'.tail = tl
      /\ DriveOK'
  BY <1>1, <1>2 DEF DriveOK
<1> QED BY <1>3, <1>4

\* Where a turn leaves the stream it was given: out of its place or at the back.
AtBack(old, new, s) == new = Unlink(old, s) \/ new = Append(Unlink(old, s), s)

\* The rest of a round after a turn: the control turn that was promised still has
\* its stream, and the pass still ends where it was to end.
LEMMA TurnOrder ==
    ASSUME IInv, HasTurn, NEW a \in Classes, drive' = Turned(Current, a),
           data' = "open" => data = "open",
           lane'["ControlReady"] = lane["ControlReady"] \/ AtBack(lane["ControlReady"], lane'["ControlReady"], Current),
           data' = "open" => AtBack(lane["DataReady"], lane'["DataReady"], Current)
    PROVE  DriveOK' /\ HeadsReady' /\ PassOrder'
<1> DEFINE cl == lane["ControlReady"]
           dl == lane["DataReady"]
           c == Current
<1>1. DriveOK /\ c \in Streams
  BY TurnHead DEF IInv, Basics
<1>2. /\ DriveOK'
      /\ drive'.mode = drive.mode /\ drive'.control = drive.control
      /\ drive'.served = drive.served \cup {c}
      /\ drive'.stage = (IF drive.stage = "first" THEN "control" ELSE "data")
      /\ ~HasControl /\ c = drive.tail => drive'.tail = None
      /\ HasControl \/ c # drive.tail => drive'.tail = drive.tail
  BY <1>1, TurnedFact
<1>3. /\ cl \in Seq(resident) /\ Distinct(cl) /\ dl \in Seq(resident) /\ Distinct(dl)
      /\ Elements(cl) \cap Elements(dl) = {}
  BY DEF IInv, Basics, Shape, Lanes
<1>4. c \in resident
  BY TurnHead
<1>5. HeadsReady'
  <2> SUFFICES ASSUME drive.stage = "first", drive.control = "yes"
               PROVE  lane'["ControlReady"] # <<>> /\ Head(lane'["ControlReady"]) \notin drive.served \cup {c}
    BY <1>2 DEF HeadsReady
  <2>1. ~HasControl
    BY DEF HasControl
  <2>2. c \notin Elements(cl)
    BY <2>1, TurnHead
  <2>3. cl # <<>> /\ Head(cl) \notin drive.served
    BY DEF IInv, HeadsReady
  <2>4. Unlink(cl, c) = cl
    BY <2>2 DEF Unlink
  <2>5. lane'["ControlReady"] = cl \/ lane'["ControlReady"] = Append(cl, c)
    BY <2>4 DEF AtBack
  <2>6. lane'["ControlReady"] # <<>> /\ Head(lane'["ControlReady"]) = Head(cl)
    BY <1>3, <1>4, <2>3, <2>5
  <2>7. Head(cl) # c
    BY <1>3, <2>2, <2>3 DEF Elements
  <2> QED BY <2>3, <2>6, <2>7
<1>6. PassOrder'
  <2> SUFFICES ASSUME drive.mode # "data", drive'.tail # None, data' = "open"
               PROVE  \E p \in DOMAIN lane'["DataReady"] :
                         /\ lane'["DataReady"][p] = drive'.tail
                         /\ \A q \in 1 .. p : lane'["DataReady"][q] \notin drive'.served
    BY <1>2 DEF PassOrder
  <2>1. drive'.tail = drive.tail /\ drive.tail # None
    BY <1>2
  <2>2. PICK p \in DOMAIN dl : dl[p] = drive.tail /\ \A q \in 1 .. p : dl[q] \notin drive.served
    <3>1. drive.stage \in {"first", "control", "data"}
      BY TurnHead
    <3> QED BY <2>1, <3>1 DEF IInv, PassOrder
  <2> DEFINE ul == Unlink(dl, c)
             nl == lane'["DataReady"]
  <2>3. nl = ul \/ nl = Append(ul, c)
    BY DEF AtBack
  <2>4. ul \in Seq(resident)
    BY <1>3, UnlinkFact
  <2> SUFFICES \E r \in DOMAIN ul : ul[r] = drive.tail /\ \A q \in 1 .. r : ul[q] \notin drive.served \cup {c}
    <3>1. PICK r \in DOMAIN ul : ul[r] = drive.tail /\ \A q \in 1 .. r : ul[q] \notin drive.served \cup {c}
      OBVIOUS
    <3> HIDE DEF ul, nl
    <3>2. r \in 1 .. Len(ul) /\ Len(ul) \in Nat
      BY <2>4
    <3>3. nl \in Seq(resident) /\ r \in DOMAIN nl /\ \A q \in 1 .. r : nl[q] = ul[q]
      BY <1>4, <2>3, <2>4, <3>2, SMTT(30)
    <3>4. nl[r] = drive'.tail /\ \A q \in 1 .. r : nl[q] \notin drive'.served
      BY <1>2, <2>1, <3>1, <3>2, <3>3
    <3> QED BY <3>3, <3>4 DEF nl
  <2>5. CASE HasControl
    <3>1. c \notin Elements(dl)
      BY <2>5, TurnHead
    <3>2. ul = dl
      BY <1>3, <3>1, UnlinkFact
    <3>3. \A q \in 1 .. p : dl[q] # c
      BY <1>3, <3>1 DEF Elements
    <3> QED BY <2>2, <3>2, <3>3
  <2>6. CASE ~HasControl
    <3>1. dl # <<>> /\ c = Head(dl) /\ c = dl[1]
      BY <1>3, <2>6, TurnHead
    <3>2. ul = Tail(dl)
      BY <1>3, <3>1, UnlinkFact
    <3>3. c # drive.tail
      BY <1>2, <2>1, <2>6
    <3>4. p \in 2 .. Len(dl) /\ Len(dl) \in Nat
      BY <1>3, <2>2, <3>1, <3>3
    <3>5. p - 1 \in DOMAIN ul /\ \A q \in 1 .. p - 1 : ul[q] = dl[q + 1]
      <4> HIDE DEF ul, dl, c
      <4>1. DOMAIN ul = 1 .. Len(dl) - 1 /\ \A i \in 1 .. Len(dl) - 1 : ul[i] = dl[i + 1]
        BY <1>3, <3>1, <3>2, TailFact
      <4> QED BY <3>4, <4>1
    <3>6. \A q \in 2 .. p : dl[q] # c
      BY <1>3, <3>1, <3>4 DEF Distinct
    <3>7. ul[p - 1] = drive.tail
      BY <2>2, <3>4, <3>5
    <3>8. ASSUME NEW q \in 1 .. p - 1 PROVE ul[q] \notin drive.served \cup {c}
      <4>1. q + 1 \in 2 .. p /\ q + 1 \in 1 .. p
        BY <3>4
      <4> QED BY <2>2, <3>5, <3>6, <4>1
    <3> QED BY <3>5, <3>7, <3>8
  <2> QED BY <2>5, <2>6
<1> QED BY <1>2, <1>5, <1>6
\* A turn that is given a place at the back of a lane, while nothing is missed less.
LEMMA TurnMoves ==
    ASSUME IInv, HasTurn, NEW c, c = Current, NEW to \in Lanes, lane' = MovedToBack(c, to),
           \A w \in Waits, t \in resident : Missing(w, t) => Missing(w, t)',
           WaitOf(to) = "None" \/ Missing(WaitOf(to), c)'
    PROVE  /\ Shape(lane', resident) /\ LanesOwed'
           /\ AtBack(lane["ControlReady"], lane'["ControlReady"], c)
           /\ AtBack(lane["DataReady"], lane'["DataReady"], c)
<1>1. c \in resident /\ Shape(lane, resident) /\ LanesOwed
  BY TurnHead DEF IInv, Basics
<1>2. LanesOwed'
  BY <1>1, MoveOwed
<1>3. /\ Shape(lane', resident)
      /\ \A l \in Lanes : lane'[l] = IF l = to THEN Append(Unlink(lane[l], c), c) ELSE Unlink(lane[l], c)
  BY <1>1, MovedShape
<1> QED BY <1>2, <1>3 DEF AtBack, Lanes

\* Step::Progress
LEMMA ProgressStep ==
    ASSUME IInv, NEW cl \in Classes, NEW a \in Classes, NEW u \in SUBSET Resources, Progress(cl, a, u)
    PROVE  IInv'
<1>1. /\ HasTurn /\ lane' = MovedToBack(Current, ReadyLane(cl)) /\ Exhaust(Current, u)
      /\ drive' = Turned(Current, a)
      /\ resident' = resident /\ prefer' = prefer /\ data' = data /\ owed' = owed
  BY DEF Progress
<1>2. carrier' = [r \in Resources |-> IF r \in u THEN "shut" ELSE carrier[r]]
  BY <1>1 DEF Exhaust
<1>3. carrier' \in [Resources -> {"open", "shut"}]
  BY <1>2 DEF IInv, Basics
<1>4. ASSUME NEW w \in Waits, NEW t, w # "Stream" \/ t \in resident, Missing(w, t)
      PROVE  Missing(w, t)'
  <2>1. PICK s \in Streams : s = Current
    BY <1>1, TurnHead DEF IInv, Basics
  <2>2. Resource(w, t) \in Resources
    <3>1. CASE w = "Stream"
      BY <1>4, <3>1 DEF Resources, IInv, Basics
    <3>2. CASE w # "Stream"
      <4>1. Resource(w, t) = Resource(w, s)
        BY <3>2 DEF Resource
      <4> QED BY <4>1 DEF Resources
    <3> QED BY <3>1, <3>2
  <2> QED BY <1>1, <1>2, <1>4, <2>2 DEF Missing, Resource
<1>5. PICK c \in resident : c = Current
  BY <1>1, TurnHead
<1>6. ReadyLane(cl) \in Lanes /\ WaitOf(ReadyLane(cl)) = "None"
  BY DEF ReadyLane, Lanes, WaitOf, Classes
<1>7. /\ Shape(lane', resident) /\ LanesOwed'
      /\ AtBack(lane["ControlReady"], lane'["ControlReady"], Current)
      /\ AtBack(lane["DataReady"], lane'["DataReady"], Current)
  <2>1. lane' = MovedToBack(c, ReadyLane(cl))
    BY <1>1, <1>5
  <2> QED BY <1>1, <1>4, <1>5, <1>6, <2>1, TurnMoves
<1>8. DataOwed'
  BY <1>1, <1>4 DEF DataOwed, IInv, Waits
<1>9. DriveOK' /\ HeadsReady' /\ PassOrder'
  BY <1>1, <1>7, TurnOrder
<1> QED BY <1>1, <1>3, <1>7, <1>8, <1>9 DEF IInv, Basics, Shape

\* Step::Blocked
LEMMA BlockedStep ==
    ASSUME IInv, NEW cl \in Classes, NEW w \in Waits, NEW a \in Classes, Blocked(cl, w, a)
    PROVE  IInv'
<1>1. /\ HasTurn /\ Reportable(w, Current)
      /\ drive' = Turned(Current, a)
      /\ resident' = resident /\ prefer' = prefer /\ carrier' = carrier /\ owed' = owed
      /\ data' = IF Blocks(cl, w) THEN "blocked" ELSE data
  BY DEF Blocked
<1>2. \/ lane' = lane /\ data' = "blocked"
      \/ lane' = MovedToBack(Current, BlockedLane(cl, w))
  BY DEF Blocked, Blocks
<1>3. DataOwed' /\ data' \in {"open", "blocked"} /\ (data' = "open" => data = "open")
  BY <1>1, ReportMissing, SameMissing DEF IInv, Basics, DataOwed
<1>4. Shape(lane', resident) /\ LanesOwed' /\ DriveOK' /\ HeadsReady' /\ PassOrder'
  <2>1. CASE lane' = lane /\ data' = "blocked"
    <3>1. LanesOwed'
      BY <1>1, <2>1, SameMissing DEF IInv, LanesOwed
    <3>2. DriveOK' /\ HeadsReady' /\ PassOrder'
      BY <1>1, <2>1, TurnOrder
    <3> QED BY <2>1, <3>1, <3>2 DEF IInv, Basics
  <2>2. CASE lane' = MovedToBack(Current, BlockedLane(cl, w))
    <3>1. BlockedLane(cl, w) \in Lanes
      BY BlockedLaneFact
    <3> PICK c \in resident : c = Current
      BY <1>1, TurnHead
    <3>2. WaitOf(BlockedLane(cl, w)) = "None" \/ Missing(WaitOf(BlockedLane(cl, w)), c)'
      <4>1. WaitOf(BlockedLane(cl, w)) = "None" \/ Missing(WaitOf(BlockedLane(cl, w)), c)
        BY <1>1, ReportMissing
      <4> QED BY <1>1, <4>1, SameMissing
    <3>3. \A v \in Waits, t \in resident : Missing(v, t) => Missing(v, t)'
      BY <1>1, SameMissing
    <3>4. /\ Shape(lane', resident) /\ LanesOwed'
          /\ AtBack(lane["ControlReady"], lane'["ControlReady"], Current)
          /\ AtBack(lane["DataReady"], lane'["DataReady"], Current)
      <4>1. lane' = MovedToBack(c, BlockedLane(cl, w))
        BY <2>2
      <4> QED BY <1>1, <3>1, <3>2, <3>3, <4>1, TurnMoves
    <3>5. DriveOK' /\ HeadsReady' /\ PassOrder'
      BY <1>1, <1>3, <3>4, TurnOrder
    <3> QED BY <3>4, <3>5
  <2> QED BY <1>2, <2>1, <2>2
<1> QED BY <1>1, <1>3, <1>4 DEF IInv, Basics, Shape

\* settle
LEMMA SettleStep ==
    ASSUME IInv, NEW k, NEW a \in Classes, Settle(k, a)
    PROVE  IInv'
<1>1. /\ HasTurn /\ lane' = Unlinked(Current) /\ drive' = Turned(Current, a)
      /\ resident' \in {resident, resident \ {Current}}
      /\ prefer' = prefer /\ data' = data /\ carrier' = carrier /\ owed' = owed
  BY DEF Settle
<1>2. Current \in resident
  BY <1>1, TurnHead
<1>3. /\ resident' \subseteq Streams /\ IsFiniteSet(resident') /\ Cardinality(resident') <= Limit
      /\ Shape(lane, resident)' /\ LanesOwed' /\ DataOwed' /\ data' \in {"open", "blocked"}
  BY <1>1, <1>2, UnlinkKeeps
<1>4. /\ AtBack(lane["ControlReady"], lane'["ControlReady"], Current)
      /\ AtBack(lane["DataReady"], lane'["DataReady"], Current)
  BY <1>1 DEF Unlinked, AtBack, Lanes
<1>5. DriveOK' /\ HeadsReady' /\ PassOrder'
  BY <1>1, <1>4, TurnOrder
<1> QED BY <1>1, <1>3, <1>5 DEF IInv, Basics

-----------------------------------------------------------------------------
(* The scheduler. *)

\* An empty scheduler.
LEMMA InitIInv == Init => IInv
<1> SUFFICES ASSUME Init PROVE IInv
  OBVIOUS
<1>1. IsFiniteSet({}) /\ Cardinality({}) = 0
  BY FS_EmptySet
<1>3. \A l \in Lanes : Elements(lane[l]) = {} /\ Distinct(lane[l]) /\ lane[l] \in Seq(resident)
  BY DEF Init, Elements, Distinct
<1>4. Shape(lane, resident)
  BY <1>3 DEF Shape, Init
<1>5. DriveOK /\ drive.stage = "idle"
  BY DEF Init, Idle, DriveOK, Stages, Classes
<1>6. LanesOwed /\ DataOwed /\ HeadsReady /\ PassOrder
  BY <1>3, <1>5 DEF Init, LanesOwed, DataOwed, HeadsReady, PassOrder
<1> QED BY <1>1, <1>4, <1>5, <1>6, ScheduleAssumption DEF IInv, Basics, Init, Classes

\* No operation of the scheduler, and no step of the carrier, breaks it.
LEMMA NextIInv == IInv /\ [Next]_vars => IInv'
<1> SUFFICES ASSUME IInv, [Next]_vars PROVE IInv'
  OBVIOUS
<1>1. CASE Outside
  BY <1>1, AdmitStep, RemoveStep DEF Outside
<1>2. CASE Requeue
  BY <1>2, RequeueStep, RemoveStep DEF Requeue
<1>3. ASSUME NEW m \in Modes, NEW p \in Permits, StartDrive(m, p) PROVE IInv'
  BY <1>3, StartStep
<1>4. ASSUME NEW r \in Resources, Replenish(r) PROVE IInv'
  BY <1>4, ReplenishStep
<1>5. CASE Resume
  BY <1>5, WakeStep
<1>6. CASE BeginRound \/ Skip \/ NoPermit
  BY <1>6, BeginStep, PassOnStep
<1>7. CASE Turn
  BY <1>7, ProgressStep, BlockedStep, SettleStep DEF Turn
<1>8. CASE UNCHANGED vars
  <2>1. drive' = drive /\ prefer' = prefer /\ lane' = lane /\ data' = data
    BY <1>8 DEF vars
  <2>2. DriveOK' /\ HeadsReady' /\ PassOrder'
    BY <2>1 DEF IInv, Basics, DriveOK, HeadsReady, PassOrder
  <2> QED BY <1>8, <2>1, <2>2, SameLanes DEF vars, IInv, Basics
<1> QED BY <1>1, <1>2, <1>3, <1>4, <1>5, <1>6, <1>7, <1>8 DEF Next, Driven, Drive

\* The scheduler's invariant, for any number of streams and any driver.
THEOREM ScheduleInvariant == Spec => []IInv
  BY InitIInv, NextIInv, PTL DEF Spec

\* Every record has one canonical place, and no stream waits for a resource that is
\* there and whose wake has been collected (Runtime::wake, wake_egress).
THEOREM NobodyWaitsInVain == Spec => []WaitersOwed
<1>1. IInv => WaitersOwed
  <2> SUFFICES ASSUME IInv PROVE WaitersOwed
    OBVIOUS
  <2>1. TypeOK
    BY ShapeMeans DEF IInv, Basics, TypeOK
  <2>2. ASSUME NEW l \in Lanes, WaitOf(l) # "None", NEW s \in Streams, l \in LaneOf(s)
        PROVE  carrier[Resource(WaitOf(l), s)] = "shut" \/ Resource(WaitOf(l), s) \in owed
    BY <2>2 DEF IInv, LanesOwed, LaneOf, Missing
  <2>3. \A s : LaneOf(s) \subseteq Lanes
    BY DEF LaneOf
  <2>4. data = "blocked" => carrier[Resource("Egress", None)] = "shut" \/ Resource("Egress", None) \in owed
    BY DEF IInv, DataOwed, Missing
  <2> QED BY <2>1, <2>2, <2>3, <2>4 DEF WaitersOwed, WaitOf
<1> QED BY <1>1, ScheduleInvariant, PTL

\* No stream gets a second turn in a round, whatever its turns do to the lanes the
\* round is walking (the tail Drive::run remembers).
THEOREM NoSecondTurn == Spec => []OneTurnPerRound
<1>1. IInv => OneTurnPerRound
  BY TurnHead DEF OneTurnPerRound
<1> QED BY <1>1, ScheduleInvariant, PTL
=============================================================================
