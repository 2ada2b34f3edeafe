------------------------------ MODULE H2Stream ------------------------------
(***************************************************************************)
(* The lifecycle of one HTTP/2 stream: State, Event, Sending and           *)
(* Lifecycle of h2/src/stream/mod.rs.  A transition is a function of the   *)
(* current state, the frame kind and whether the frame carries END_STREAM; *)
(* an error is one of the two results that are not states.                 *)
(***************************************************************************)
EXTENDS Naturals

States == {"Idle", "ReservedLocal", "ReservedRemote", "Open",
           "HalfClosedLocal", "HalfClosedRemote", "Closed"}

Frames == {"Headers", "Data"}

Boundaries == {"More", "End"}

Errors == {"ErrorProtocol", "ErrorStreamClosed"}

\* State::directional, for the side whose reservation is `reserved`, whose own
\* end leads to `ended`, and which still runs alone in `active`.
Directional(state, frame, boundary, reserved, ended, active) ==
    IF state = "Open" \/ (state = "Idle" /\ frame = "Headers")
    THEN IF boundary = "More" THEN "Open" ELSE ended
    ELSE IF state = active \/ (state = reserved /\ frame = "Headers")
    THEN IF boundary = "More" THEN active ELSE "Closed"
    ELSE IF state = ended \/ state = "Closed"
    THEN "ErrorStreamClosed"
    ELSE "ErrorProtocol"

\* Defect: sending END_STREAM always leaves the stream half closed.
Send_NeverCloses(state, frame, boundary) ==
    IF boundary = "End" /\ state = "HalfClosedRemote"
    THEN "HalfClosedLocal"
    ELSE Directional(state, frame, boundary, "ReservedLocal", "HalfClosedLocal", "HalfClosedRemote")

Send(state, frame, boundary) ==
    Directional(state, frame, boundary, "ReservedLocal", "HalfClosedLocal", "HalfClosedRemote")

Recv(state, frame, boundary) ==
    Directional(state, frame, boundary, "ReservedRemote", "HalfClosedRemote", "HalfClosedLocal")

\* Defect: the retained head forgets that the peer has ended meanwhile.
Apply_Forgets(boundary, current) ==
    IF boundary = "More"
    THEN IF current = "Idle" THEN "Open"
         ELSE IF current = "ReservedLocal" THEN "HalfClosedRemote"
         ELSE current
    ELSE IF current \in {"ReservedLocal", "Closed"} THEN "Closed" ELSE "HalfClosedLocal"

\* Sending::apply: a HEADERS admitted earlier takes effect on the current state.
Apply(boundary, current) ==
    IF boundary = "More"
    THEN IF current = "Idle" THEN "Open"
         ELSE IF current = "ReservedLocal" THEN "HalfClosedRemote"
         ELSE current
    ELSE IF current \in {"ReservedLocal", "HalfClosedRemote", "Closed"}
         THEN "Closed" ELSE "HalfClosedLocal"

\* Lifecycle::open_remote: a complete request head opens the stream.
OpenRemote(boundary) == IF boundary = "End" THEN "HalfClosedRemote" ELSE "Open"
=============================================================================
