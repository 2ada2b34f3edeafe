---------------------------- MODULE CoreSchedule ----------------------------
(***************************************************************************)
(* The scheduler every multiplexed protocol of sark drives its streams     *)
(* with (core/src/manifold/schedule).  A resident stream is in at most one *)
(* of seven lanes: two ready lanes, control and data, and five that wait   *)
(* for connection credit, stream credit or egress room.  Data that waits   *)
(* for egress keeps its place in its ready lane; a policy bit stops the    *)
(* whole lane instead.                                                     *)
(*                                                                         *)
(* A drive runs rounds: one control turn and one pass over the data lane,  *)
(* in alternating order, until its budget of one turn per resident, its    *)
(* permits or the work run out.  What a turn does is the driver's: here it *)
(* may report a block only for a resource that is exhausted, and may       *)
(* exhaust any.  The carrier (external) replenishes a resource and then    *)
(* owes a wake, which the next Runtime::resume collects.                   *)
(***************************************************************************)
EXTENDS Queues, FiniteSets

CONSTANTS Streams,     \* stream keys
          None,        \* no stream
          Limit,       \* Records::limit
          Permits,     \* permits a drive may find
          Modes,       \* how it is driven: "drive", "one" round, or "data" alone
          Scarce       \* resources the carrier can run out of

Waits == {"Connection", "Stream", "Egress"}

\* What a stream may wait for, and who is told when it comes.
Resource(wait, s) == IF wait = "Stream" THEN <<wait, s>> ELSE <<wait, None>>

Resources == {Resource(w, s) : w \in Waits, s \in Streams}

ASSUME ScheduleAssumption ==
    /\ Limit \in Nat /\ Permits \subseteq Nat
    /\ Modes \subseteq {"drive", "one", "data"}
    /\ None \notin Streams
    /\ Scarce \subseteq Resources

Classes == {"Control", "Data"}

Lanes == {"ControlReady", "DataReady", "ConnectionWait", "StreamWait",
          "ControlEgressWait", "ControlConnectionWait", "ControlStreamWait"}

VARIABLES
    resident,  \* streams that have a record
    lane,      \* the streams of each lane, front first
    prefer,    \* Policy::PREFER_DATA: the class the next mixed round starts with
    data,      \* Policy::DATA_BLOCKED: "open" or "blocked"
    drive,     \* the drive in progress
    carrier,   \* resources: "open" or "shut"
    owed       \* wakes the carrier owes

vars == <<resident, lane, prefer, data, drive, carrier, owed>>

Idle == [stage |-> "idle", budget |-> 0, permits |-> 0, mode |-> "drive",
         round |-> "Single", control |-> "no", tail |-> None, activity |-> "None",
         served |-> {}]

Init ==
    /\ resident = {}
    /\ lane = [l \in Lanes |-> <<>>]
    /\ prefer = "Control" /\ data = "open"
    /\ drive = Idle
    /\ carrier = [r \in Resources |-> "open"]
    /\ owed = {}

-----------------------------------------------------------------------------
(* Lanes (o3's lanes::Table is external).                                  *)

Unlinked(s) == [l \in Lanes |-> Unlink(lane[l], s)]

MovedToBack(s, to) == [Unlinked(s) EXCEPT ![to] = Append(@, s)]

LaneOf(s) == {l \in Lanes : s \in Elements(lane[l])}

ReadyLane(class) == IF class = "Control" THEN "ControlReady" ELSE "DataReady"

\* WorkClass::blocked_lane
BlockedLane(class, wait) ==
    CASE wait = "None"       -> ReadyLane(class)
      [] wait = "Egress"     -> IF class = "Control" THEN "ControlEgressWait" ELSE "DataReady"
      [] wait = "Connection" -> IF class = "Control" THEN "ControlConnectionWait" ELSE "ConnectionWait"
      [] wait = "Stream"     -> IF class = "Control" THEN "ControlStreamWait" ELSE "StreamWait"

\* Policy::block_data, when data meets an egress that is full.
Blocks(class, wait) == class = "Data" /\ wait = "Egress"

\* A block the driver may report now.
Reportable(wait, s) ==
    wait # "None" => Resource(wait, s) \in Scarce /\ carrier[Resource(wait, s)] = "shut"

-----------------------------------------------------------------------------
(* Between drives.                                                         *)

\* Records::try_vacant
Admits(s) == s \notin resident /\ Cardinality(resident) < Limit

\* place::insert
Place(s, class, wait) ==
    /\ lane' = MovedToBack(s, BlockedLane(class, wait))
    /\ data' = IF Blocks(class, wait) THEN "blocked" ELSE data

\* Runtime::try_store, Vacant::store: a record that waits for outside input.
Store(s) ==
    /\ drive.stage = "idle"
    /\ Admits(s)
    /\ resident' = resident \cup {s}
    /\ UNCHANGED <<lane, prefer, data, drive, carrier, owed>>

\* Runtime::try_insert, Vacant::insert
Insert(s, class, wait) ==
    /\ drive.stage = "idle"
    /\ Admits(s)
    /\ Reportable(wait, s)
    /\ resident' = resident \cup {s}
    /\ Place(s, class, wait)
    /\ UNCHANGED <<prefer, drive, carrier, owed>>

\* Runtime::try_apply, Occupied::try_control and activate: a record that is in
\* the right lane already keeps its place there.
Activate(s, class, wait) ==
    /\ drive.stage = "idle" /\ s \in resident
    /\ Reportable(wait, s)
    /\ lane' = IF BlockedLane(class, wait) \in LaneOf(s)
               THEN lane ELSE MovedToBack(s, BlockedLane(class, wait))
    /\ data' = IF Blocks(class, wait) THEN "blocked" ELSE data
    /\ UNCHANGED <<resident, prefer, drive, carrier, owed>>

\* typed::Occupied::transition: the successor goes to the back, or idles.
Transition(s, class, wait) ==
    /\ drive.stage = "idle" /\ s \in resident
    /\ Reportable(wait, s)
    /\ Place(s, class, wait)
    /\ UNCHANGED <<resident, prefer, drive, carrier, owed>>

Withdraw(s) ==
    /\ drive.stage = "idle" /\ s \in resident
    /\ lane' = Unlinked(s)
    /\ UNCHANGED <<resident, prefer, data, drive, carrier, owed>>

\* Records::remove
RemoveRecord(s) ==
    /\ drive.stage = "idle" /\ s \in resident
    /\ lane' = Unlinked(s)
    /\ resident' = resident \ {s}
    /\ UNCHANGED <<prefer, data, drive, carrier, owed>>

\* Runtime::clear
Clear ==
    /\ drive.stage = "idle" /\ resident # {}
    /\ resident' = {}
    /\ lane' = [l \in Lanes |-> <<>>]
    /\ prefer' = "Control" /\ data' = "open"
    /\ UNCHANGED <<drive, carrier, owed>>

-----------------------------------------------------------------------------
(* Wakes.                                                                  *)

\* move_all, for every pair of lanes in moves.
Moved(moves) ==
    [l \in Lanes |->
        IF \E m \in moves : m[1] = l THEN <<>>
        ELSE IF \E m \in moves : m[2] = l
             THEN lane[l] \o lane[(CHOOSE m \in moves : m[2] = l)[1]]
             ELSE lane[l]]

\* Defect: a connection's wake reaches the data lane only.
ConnectionMoves_DataOnly == {<<"ConnectionWait", "DataReady">>}

ConnectionMoves == {<<"ControlConnectionWait", "ControlReady">>, <<"ConnectionWait", "DataReady">>}

\* Runtime::resume collects what the carrier owes, one Runtime::wake each.
WakeConnection ==
    /\ drive.stage = "idle" /\ <<"Connection", None>> \in owed
    /\ lane' = Moved(ConnectionMoves)
    /\ owed' = owed \ {<<"Connection", None>>}
    /\ UNCHANGED <<resident, prefer, data, drive, carrier>>

WakeStream(s) ==
    /\ drive.stage = "idle" /\ <<"Stream", s>> \in owed
    /\ lane' = IF LaneOf(s) = {"ControlStreamWait"} THEN MovedToBack(s, "ControlReady")
               ELSE IF LaneOf(s) = {"StreamWait"} THEN MovedToBack(s, "DataReady")
               ELSE lane
    /\ owed' = owed \ {<<"Stream", s>>}
    /\ UNCHANGED <<resident, prefer, data, drive, carrier>>

\* Defect: egress room reopens the data lane only while it holds streams.
Reopened_IfAny == IF lane["DataReady"] = <<>> THEN data ELSE "open"

\* Policy::release_data
Reopened == "open"

\* Runtime::wake_egress
WakeEgress ==
    /\ drive.stage = "idle" /\ <<"Egress", None>> \in owed
    /\ lane' = Moved({<<"ControlEgressWait", "ControlReady">>})
    /\ data' = Reopened
    /\ owed' = owed \ {<<"Egress", None>>}
    /\ UNCHANGED <<resident, prefer, drive, carrier>>

\* The carrier gains credit or room where it had none (apply_window, add_send,
\* cancel_flow; a transport that has sent).
Replenish(r) ==
    /\ carrier[r] = "shut"
    /\ carrier' = [carrier EXCEPT ![r] = "open"]
    /\ owed' = owed \cup {r}
    /\ UNCHANGED <<resident, lane, prefer, data, drive>>

-----------------------------------------------------------------------------
(* A drive.                                                                *)

\* Drive::with; drive_data runs over the data lane alone.
StartDrive(mode, permits) ==
    /\ drive.stage = "idle" /\ resident # {}
    /\ drive' = [Idle EXCEPT !.stage = IF mode = "data" THEN "data" ELSE "round", !.mode = mode,
                             !.permits = permits, !.budget = Cardinality(resident),
                             !.tail = IF mode = "data" THEN "any" ELSE None]
    /\ UNCHANGED <<resident, lane, prefer, data, carrier, owed>>

\* Where the round's data pass ends.
TailOf == IF data = "blocked" \/ lane["DataReady"] = <<>> THEN None
          ELSE lane["DataReady"][Len(lane["DataReady"])]

\* The head of the loop in Drive::run.
BeginRound ==
    LET control == lane["ControlReady"] # <<>>
        mixed   == control /\ TailOf # None
        round   == IF ~mixed THEN "Single"
                   ELSE IF prefer = "Data" THEN "DataFirst" ELSE "ControlFirst"
    IN  /\ drive.stage = "round"
        /\ drive' = IF drive.budget = 0 \/ (~control /\ TailOf = None) THEN Idle
                    ELSE [drive EXCEPT !.stage = IF round = "DataFirst" THEN "first" ELSE "control",
                                       !.round = round, !.tail = TailOf, !.served = {},
                                       !.control = IF control THEN "yes" ELSE "no",
                                       !.activity = "None"]
        /\ UNCHANGED <<resident, lane, prefer, data, carrier, owed>>

\* Defect: a round of both classes leaves the preference as it was.
Preferred_Kept(round, activity) ==
    IF round = "Single" THEN (IF activity = "Data" THEN "Control" ELSE "Data") ELSE prefer

\* Policy::finish_round
Preferred(round, activity) ==
    IF round = "DataFirst" \/ (round = "Single" /\ activity = "Data") THEN "Control" ELSE "Data"

\* The rest of the loop; stop is a permit that was refused, or ONE_ROUND.
EndRound(stop) ==
    /\ prefer' = IF drive.activity = "None" THEN prefer ELSE Preferred(drive.round, drive.activity)
    /\ drive' = IF stop \/ drive.mode = "one" THEN Idle ELSE [drive EXCEPT !.stage = "round"]
    /\ UNCHANGED <<resident, lane, data, carrier, owed>>

\* Whether the stage at hand still has a turn to give.
HasControl == drive.stage = "control" /\ drive.control = "yes" /\ drive.budget # 0
HasFirst   == drive.stage = "first"
HasData    == /\ drive.stage = "data" /\ drive.tail # None /\ drive.budget # 0
              /\ data = "open" /\ lane["DataReady"] # <<>>

HasTurn == HasControl \/ HasFirst \/ HasData

Skip ==
    /\ drive.stage \in {"control", "data"} /\ ~HasTurn
    /\ IF drive.stage = "control"
       THEN /\ drive' = [drive EXCEPT !.stage = "data"]
            /\ UNCHANGED <<resident, lane, prefer, data, carrier, owed>>
       ELSE IF drive.mode = "data"
            THEN drive' = Idle /\ UNCHANGED <<resident, lane, prefer, data, carrier, owed>>
            ELSE EndRound(FALSE)

\* Driver::permit refuses: the round stops.
NoPermit ==
    /\ HasTurn /\ drive.permits = 0
    /\ IF drive.mode = "data"
       THEN drive' = Idle /\ UNCHANGED <<resident, lane, prefer, data, carrier, owed>>
       ELSE EndRound(TRUE)

Current == IF HasControl THEN Head(lane["ControlReady"]) ELSE Head(lane["DataReady"])

CurrentClass == IF HasControl THEN "Control" ELSE "Data"

\* Defect: the pass does not end with the stream that was last when it began.
EndsPass_Never(s) == FALSE

\* outcome.stream == tail
EndsPass(s) == CurrentClass = "Data" /\ s = drive.tail

\* The drive after a turn of s.
Turned(s, activity) ==
    [drive EXCEPT
        !.permits = @ - 1,
        !.budget = @ - 1,
        !.served = @ \cup {s},
        !.activity = IF @ = "None" THEN activity ELSE @,
        !.tail = IF EndsPass(s) THEN None ELSE @,
        !.stage = IF HasFirst THEN "control" ELSE "data"]

\* A turn may use up what the carrier has.
Exhaust(s, used) ==
    /\ used \subseteq {Resource(w, s) : w \in Waits} \cap Scarce
    /\ carrier' = [r \in Resources |-> IF r \in used THEN "shut" ELSE carrier[r]]

\* A control turn leaves a record in a class; it counts as data when a data turn
\* was fused into it.
Activities(class) ==
    IF HasControl
    THEN (IF class = "Data" THEN {"Control", "Data"} ELSE {"Control"})
    ELSE {"Data"}

\* Step::Progress
Progress(class, activity, used) ==
    /\ HasTurn /\ drive.permits > 0
    /\ activity \in (IF HasControl THEN Classes ELSE {"Data"})
    /\ drive.mode = "data" => class = "Data"
    /\ lane' = MovedToBack(Current, ReadyLane(class))
    /\ Exhaust(Current, used)
    /\ drive' = Turned(Current, activity)
    /\ UNCHANGED <<resident, prefer, data, owed>>

\* Step::Blocked: data that egress blocks keeps its place.
Blocked(class, wait, activity) ==
    /\ HasTurn /\ drive.permits > 0
    /\ wait # "None" /\ Reportable(wait, Current)
    /\ activity \in Activities(class)
    /\ CurrentClass = "Data" => class = "Data"
    /\ lane' = IF CurrentClass = "Data" /\ wait = "Egress" THEN lane
               ELSE MovedToBack(Current, BlockedLane(class, wait))
    /\ data' = IF Blocks(class, wait) THEN "blocked" ELSE data
    /\ drive' = Turned(Current, activity)
    /\ UNCHANGED <<resident, prefer, carrier, owed>>

\* settle: the record is finished or failed; the owner keeps it, out of every
\* lane, or removes it.
Settle(kept, activity) ==
    /\ HasTurn /\ drive.permits > 0
    /\ activity \in (IF HasControl THEN Classes ELSE {"Data"})
    /\ lane' = Unlinked(Current)
    /\ resident' = IF kept = "Keep" THEN resident ELSE resident \ {Current}
    /\ drive' = Turned(Current, activity)
    /\ UNCHANGED <<prefer, data, carrier, owed>>

-----------------------------------------------------------------------------
Turn ==
    \/ \E c, a \in Classes :
          \/ \E u \in SUBSET Resources : Progress(c, a, u)
          \/ \E w \in Waits : Blocked(c, w, a)
    \/ \E k \in {"Keep", "Remove"}, a \in Classes : Settle(k, a)

\* What the application, the carrier and the driver do.
Outside ==
    \/ \E s \in Streams : Store(s) \/ RemoveRecord(s)
    \/ \E s \in Streams, c \in Classes, w \in Waits \cup {"None"} : Insert(s, c, w)
    \/ Clear

\* A record is requeued or withdrawn for an input of its own.
Requeue ==
    \E s \in Streams :
        Withdraw(s) \/ \E c \in Classes, w \in Waits \cup {"None"} : Activate(s, c, w) \/ Transition(s, c, w)

Resume == WakeConnection \/ WakeEgress \/ \E s \in Streams : WakeStream(s)

Drive == BeginRound \/ Skip \/ NoPermit \/ Turn

Driven ==
    \/ \E m \in Modes, p \in Permits : StartDrive(m, p)
    \/ \E r \in Resources : Replenish(r)
    \/ Resume \/ Drive

Next == Outside \/ Requeue \/ Driven

Spec == Init /\ [][Next]_vars

\* The event loop drives a connection that has runnable streams, finishes what it
\* starts and collects the wakes; the carrier is replenished.  An application that
\* requeues a stream over and over delays that stream itself and is left out.
FairSpec ==
    /\ Init /\ [][Outside \/ Driven]_vars
    /\ WF_vars(\E m \in Modes, p \in Permits : StartDrive(m, p))
    /\ WF_vars(Drive) /\ SF_vars(WakeConnection) /\ SF_vars(WakeEgress)
    /\ \A s \in Streams : SF_vars(WakeStream(s))
    /\ \A r \in Resources : WF_vars(Replenish(r))

-----------------------------------------------------------------------------
\* Every variable has the shape of the field it models, and a record has one
\* canonical place: in one lane, once, or in none.
TypeOK ==
    /\ resident \subseteq Streams /\ Cardinality(resident) <= Limit
    /\ lane \in [Lanes -> Seq(resident)]
    /\ \A l, m \in Lanes : \A i \in DOMAIN lane[l], j \in DOMAIN lane[m] :
          lane[l][i] = lane[m][j] => l = m /\ i = j
    /\ prefer \in Classes /\ data \in {"open", "blocked"}
    /\ carrier \in [Resources -> {"open", "shut"}] /\ owed \subseteq Resources

\* Every stream has its one place, and nobody waits for what is there: a stream in a waiting lane, and data stopped for
\* egress, wait for a resource that is exhausted or whose wake is still owed
\* (Runtime::wake, wake_egress, Policy::DATA_BLOCKED).
WaitersOwed ==
    LET missing(w, s) == carrier[Resource(w, s)] = "shut" \/ Resource(w, s) \in owed
        waiting(lanes) == {s \in Streams : LaneOf(s) \cap lanes # {}}
    IN  /\ TypeOK
        /\ \A s \in waiting({"ConnectionWait", "ControlConnectionWait"}) : missing("Connection", s)
        /\ \A s \in waiting({"StreamWait", "ControlStreamWait"}) : missing("Stream", s)
        /\ \A s \in waiting({"ControlEgressWait"}) : missing("Egress", s)
        /\ data = "blocked" => missing("Egress", None)

\* In one round no stream gets a second turn, however turns move streams between
\* the lanes the round is walking (the tail Drive::run remembers).
OneTurnPerRound == HasTurn /\ drive.mode # "data" => Current \notin drive.served

Ready(s)   == LaneOf(s) \cap {"ControlReady", "DataReady"} # {}
Waiting(s) == LaneOf(s) \ {"ControlReady", "DataReady"} # {}

\* Neither class starves: while there is egress a stream in a ready lane gets its
\* turn, even when every drive has a single permit (the alternation of
\* Policy::finish_round).
EveryTurnComes ==
    \A s \in Streams :
        Ready(s) ~> (s \in drive.served \/ ~Ready(s) \/ carrier[Resource("Egress", s)] = "shut")

\* A stream that waits for the carrier does not wait for ever (Runtime::resume).
EveryWaitEnds == \A s \in Streams : Waiting(s) ~> ~Waiting(s)
=============================================================================
