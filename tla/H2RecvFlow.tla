----------------------------- MODULE H2RecvFlow -----------------------------
(***************************************************************************)
(* Receive-side flow control of one HTTP/2 connection, end to end: the     *)
(* server's receive windows (h2/src/flow.rs, driven by the DATA path of    *)
(* h2/src/conn/machine/decoder/data.rs) against the windows the peer       *)
(* believes it has, with DATA and WINDOW_UPDATE frames in flight between   *)
(* them.                                                                   *)
(*                                                                         *)
(* Frames on the wire are abstracted to the credit they carry: flight and  *)
(* connFlight count the DATA bytes sent and not yet decoded, updates and   *)
(* connUpdates the credit of WINDOW_UPDATEs not yet delivered.  A DATA     *)
(* frame the decoder cannot answer because the output is full is simply    *)
(* decoded later: the code consumes nothing before the answer is admitted. *)
(***************************************************************************)
EXTENDS H2Flow

CONSTANTS Streams,      \* streams the peer may open
          ConnTarget,   \* Config.recv_window_target
          StreamInit,   \* local SETTINGS_INITIAL_WINDOW_SIZE
          Overshoot     \* bytes by which the peer may exceed its windows

ASSUME RecvAssumption ==
    /\ ConnTarget \in Targets
    /\ StreamInit \in Targets
    /\ Overshoot \in Nat

VARIABLES
    state,        \* receive view of each stream's lifecycle
    win,          \* record.recv_window, per stream
    held,         \* record.pending_release, per stream
    connWin,      \* flow.recv_window
    connHeld,     \* flow.pending_release
    phase,        \* "failed" once a connection error has been returned
    stalled,      \* streams reset for exceeding their window
    settings,     \* "applied" once the peer has seen our SETTINGS
    peerWin,      \* the peer's send window, per stream
    peerConn,     \* the peer's connection send window
    peerEnded,    \* streams on which the peer has sent END_STREAM
    conduct,      \* "overran" once the peer has broken a rule of the protocol
    ending,       \* streams whose END_STREAM is still in flight
    flight, connFlight, updates, connUpdates

recvVars  == <<state, win, held, connWin, connHeld, phase, stalled>>
peerVars  == <<settings, peerWin, peerConn, peerEnded, conduct>>
wireVars  == <<ending, flight, connFlight, updates, connUpdates>>
vars      == <<recvVars, peerVars, wireVars>>

Boundary == {"More", "End"}

Lifecycles == {"idle", "open", "halfClosedLocal", "halfClosedRemote", "gone"}

ConnStart == ForTarget(ConnTarget)
ConnLow   == Low(ConnTarget)
StreamLow == Low(StreamInit)

\* The first flight carries SETTINGS and, above the default, the connection's
\* WINDOW_UPDATE; the peer starts from the protocol defaults.
Init ==
    /\ state = [s \in Streams |-> "idle"]
    /\ win = [s \in Streams |-> StreamInit]
    /\ held = [s \in Streams |-> 0]
    /\ connWin = ConnStart
    /\ connHeld = 0
    /\ phase = "open"
    /\ stalled = {}
    /\ settings = "inFlight"
    /\ peerWin = [s \in Streams |-> Initial]
    /\ peerConn = Initial
    /\ peerEnded = {}
    /\ conduct = "conforms"
    /\ ending = {}
    /\ flight = [s \in Streams |-> 0]
    /\ connFlight = 0
    /\ updates = [s \in Streams |-> 0]
    /\ connUpdates = FirstIncrement(ConnTarget)

-----------------------------------------------------------------------------
(* The peer (environment).                                                 *)

\* The peer applies our SETTINGS: its stream windows shift by the difference.
PeerSettings ==
    /\ settings = "inFlight"
    /\ settings' = "applied"
    /\ peerWin' = [s \in Streams |-> peerWin[s] + StreamInit - Initial]
    /\ UNCHANGED <<peerConn, peerEnded, conduct, recvVars, wireVars>>

\* A conforming peer sends on a stream it has opened and not ended, inside both
\* windows.
Conforms(s, n) ==
    /\ state[s] # "idle"
    /\ s \notin peerEnded
    /\ n > 0 => n <= Least(peerConn, peerWin[s])

\* DATA of n bytes, possibly the last of the stream.
PeerSend(s, n, boundary) ==
    /\ phase = "open"
    /\ n > 0 \/ boundary = "End"
    /\ Overshoot = 0 => Conforms(s, n)
    /\ n > 0 => n <= Least(peerConn, peerWin[s]) + Overshoot
    /\ conduct' = IF Conforms(s, n) THEN conduct ELSE "overran"
    /\ s \notin ending
    /\ peerWin' = [peerWin EXCEPT ![s] = @ - n]
    /\ peerConn' = peerConn - n
    /\ peerEnded' = IF boundary = "End" THEN peerEnded \cup {s} ELSE peerEnded
    /\ ending' = IF boundary = "End" THEN ending \cup {s} ELSE ending
    /\ flight' = [flight EXCEPT ![s] = @ + n]
    /\ connFlight' = connFlight + n
    /\ UNCHANGED <<settings, recvVars, updates, connUpdates>>

\* The peer receives the WINDOW_UPDATEs addressed to the connection.
PeerConnUpdate ==
    /\ connUpdates > 0
    /\ peerConn' = peerConn + connUpdates
    /\ connUpdates' = 0
    /\ UNCHANGED <<settings, peerWin, peerEnded, conduct, recvVars, ending, flight, connFlight, updates>>

PeerStreamUpdate(s) ==
    /\ updates[s] > 0
    /\ peerWin' = [peerWin EXCEPT ![s] = @ + updates[s]]
    /\ updates' = [updates EXCEPT ![s] = 0]
    /\ UNCHANGED <<settings, peerConn, peerEnded, conduct, recvVars, ending, flight, connFlight, connUpdates>>

-----------------------------------------------------------------------------
(* The server.                                                             *)

\* HEADERS from the peer opens a stream with the advertised initial window.
Open(s) ==
    /\ phase = "open"
    /\ state[s] = "idle"
    /\ flight[s] = 0 /\ s \notin ending
    /\ state' = [state EXCEPT ![s] = "open"]
    /\ win' = [win EXCEPT ![s] = StreamInit]
    /\ held' = [held EXCEPT ![s] = 0]
    /\ UNCHANGED <<connWin, connHeld, phase, stalled, peerVars, wireVars>>

\* The response's END_STREAM leaves.
LocalEnd(s) ==
    /\ phase = "open"
    /\ \/ state[s] = "open" /\ state' = [state EXCEPT ![s] = "halfClosedLocal"]
       \/ state[s] = "halfClosedRemote" /\ state' = [state EXCEPT ![s] = "gone"]
    /\ UNCHANGED <<win, held, connWin, connHeld, phase, stalled, peerVars, wireVars>>

\* The application cancels the stream while DATA for it may be in flight.
LocalReset(s) ==
    /\ phase = "open"
    /\ state[s] \in {"open", "halfClosedLocal", "halfClosedRemote"}
    /\ state' = [state EXCEPT ![s] = "gone"]
    /\ UNCHANGED <<win, held, connWin, connHeld, phase, stalled, peerVars, wireVars>>

\* One DATA frame leaves the wire.  connFlight is the sum of flight, so its
\* bound only repeats the stream's.
Decode(s, n, boundary) ==
    /\ phase = "open"
    /\ n <= flight[s] /\ n <= connFlight
    /\ n > 0 \/ boundary = "End"
    /\ boundary = "End" => s \in ending /\ n = flight[s]
    /\ ending' = IF boundary = "End" THEN ending \ {s} ELSE ending
    /\ flight' = [flight EXCEPT ![s] = @ - n]
    /\ connFlight' = connFlight - n

\* Defect: only DATA that is delivered gives credit back to the connection.
ConnCredit_Leaks(n) ==
    /\ connWin' = connWin - n
    /\ UNCHANGED <<connHeld, connUpdates>>

\* The connection window settles n bytes and may announce a WINDOW_UPDATE.
ConnCredit(n) ==
    LET e == Endpoint(connWin, connHeld, ConnLow, n, TRUE)
    IN  /\ connWin' = e.next
        /\ connHeld' = e.held
        /\ connUpdates' = connUpdates + e.bump

\* DATA on a stream that was never opened: a connection error.
DataIdle(s, n, boundary) ==
    /\ Decode(s, n, boundary)
    /\ state[s] = "idle"
    /\ phase' = "failed"
    /\ UNCHANGED <<state, win, held, connWin, connHeld, stalled, peerVars, updates, connUpdates>>

\* The connection window is exceeded: a connection error, nothing is accounted.
DataConnStall(s, n, boundary) ==
    /\ Decode(s, n, boundary)
    /\ state[s] # "idle"
    /\ Stalls(connWin, n)
    /\ phase' = "failed"
    /\ UNCHANGED <<state, win, held, connWin, connHeld, stalled, peerVars, updates, connUpdates>>

\* DATA for a stream that has left the registry: the connection is credited
\* and the peer told STREAM_CLOSED.
DataPast(s, n, boundary) ==
    /\ Decode(s, n, boundary)
    /\ ~Stalls(connWin, n)
    /\ state[s] = "gone"
    /\ ConnCredit(n)
    /\ UNCHANGED <<state, win, held, phase, stalled, peerVars, updates>>

\* DATA the stream may not receive (after END_STREAM, before its head, beyond
\* its content-length): the connection is credited, the stream is reset.
DataRefused(s, n, boundary) ==
    /\ Decode(s, n, boundary)
    /\ ~Stalls(connWin, n)
    /\ state[s] \in {"open", "halfClosedLocal", "halfClosedRemote"}
    /\ ConnCredit(n)
    /\ state' = [state EXCEPT ![s] = "gone"]
    /\ UNCHANGED <<win, held, phase, stalled, peerVars, updates>>

\* DATA beyond the stream's window: the same, with FLOW_CONTROL_ERROR.
DataStreamStall(s, n, boundary) ==
    /\ Decode(s, n, boundary)
    /\ ~Stalls(connWin, n)
    /\ state[s] \in {"open", "halfClosedLocal"}
    /\ Stalls(win[s], n)
    /\ ConnCredit(n)
    /\ state' = [state EXCEPT ![s] = "gone"]
    /\ stalled' = stalled \cup {s}
    /\ UNCHANGED <<win, held, phase, peerVars, updates>>

\* DATA delivered to the application.
DataAccepted(s, n, boundary) ==
    /\ Decode(s, n, boundary)
    /\ ~Stalls(connWin, n)
    /\ state[s] \in {"open", "halfClosedLocal"}
    /\ ~Stalls(win[s], n)
    /\ ConnCredit(n)
    /\ LET e == Endpoint(win[s], held[s], StreamLow, n, boundary = "More")
       IN  /\ win' = [win EXCEPT ![s] = e.next]
           /\ held' = [held EXCEPT ![s] = e.held]
           /\ updates' = [updates EXCEPT ![s] = @ + e.bump]
    /\ state' = [state EXCEPT ![s] =
                    IF boundary = "More" THEN @
                    ELSE IF @ = "open" THEN "halfClosedRemote" ELSE "gone"]
    /\ UNCHANGED <<phase, stalled, peerVars>>

-----------------------------------------------------------------------------
PeerNext ==
    \/ PeerSettings
    \/ PeerConnUpdate
    \/ \E s \in Streams : PeerStreamUpdate(s)
    \/ \E s \in Streams, n \in 0 .. MaxWindow, boundary \in Boundary : PeerSend(s, n, boundary)

DataStep(s, n, boundary) ==
    \/ DataIdle(s, n, boundary)
    \/ DataConnStall(s, n, boundary)
    \/ DataPast(s, n, boundary)
    \/ DataRefused(s, n, boundary)
    \/ DataStreamStall(s, n, boundary)
    \/ DataAccepted(s, n, boundary)

DataNext ==
    \E s \in Streams : \E n \in 0 .. flight[s] : \E boundary \in Boundary : DataStep(s, n, boundary)

Next ==
    \/ PeerNext
    \/ DataNext
    \/ \E s \in Streams : Open(s) \/ LocalEnd(s) \/ LocalReset(s)

Spec == Init /\ [][Next]_vars

\* The driver decodes what has arrived and the transport delivers: the event
\* loop resumes a connection whose input or output became ready.
Fairness ==
    /\ WF_vars(PeerSettings)
    /\ WF_vars(PeerConnUpdate)
    /\ \A s \in Streams :
        /\ WF_vars(PeerStreamUpdate(s))
        /\ WF_vars(\E n \in 0 .. flight[s], boundary \in Boundary : DataStep(s, n, boundary))

FairSpec == Spec /\ Fairness

-----------------------------------------------------------------------------
\* Every window and every pending release stays in the positive i32 range: the
\* unchecked additions and subtractions of Endpoint::new never wrap.
TypeOK ==
    /\ state \in [Streams -> Lifecycles]
    /\ win \in [Streams -> 0 .. MaxWindow]
    /\ held \in [Streams -> 0 .. MaxWindow]
    /\ connWin \in 0 .. MaxWindow
    /\ connHeld \in 0 .. MaxWindow
    /\ phase \in {"open", "failed"}
    /\ stalled \subseteq Streams
    /\ settings \in {"inFlight", "applied"}
    /\ peerWin \in [Streams -> Int]
    /\ peerConn \in Int
    /\ peerEnded \subseteq Streams
    /\ conduct \in {"conforms", "overran"}
    /\ ending \subseteq Streams
    /\ flight \in [Streams -> Nat]
    /\ connFlight \in Nat
    /\ updates \in [Streams -> Nat]
    /\ connUpdates \in Nat

Receiving(s) == state[s] \in {"open", "halfClosedLocal"}

\* flow.rs: "Receive windows conserve value + pending from the admitted initial
\* limit."  The connection's credit survives every outcome of a DATA frame
\* (delivered, refused, for a stream long gone), and what is held back from the
\* peer never reaches the refill threshold while more DATA may come.
CreditConserved ==
    /\ connWin + connHeld = ConnStart
    /\ connHeld < ConnLow
    /\ \A s \in Streams : Receiving(s) =>
          /\ win[s] + held[s] = StreamInit
          /\ held[s] < StreamLow

\* The server's window is the peer's plus what is in flight, so neither side
\* ever over- or under-counts the other, whatever the interleaving.
ViewsAgree ==
    phase = "open" =>
        /\ connWin = peerConn + connFlight + connUpdates
        /\ \A s \in Streams : Receiving(s) =>
              win[s] = peerWin[s] + flight[s] + updates[s]
                         + (IF settings = "applied" THEN 0 ELSE StreamInit - Initial)

\* A peer that has so far stayed inside the windows it was given is never answered with a
\* connection error or a FLOW_CONTROL_ERROR reset, provided the advertised
\* stream window is not below the default it may use before it sees SETTINGS.
ConformingPeerAccepted ==
    conduct = "conforms" /\ StreamInit >= Initial => phase = "open" /\ stalled = {}

\* Once nothing is in flight the peer can send: the half-window refill never
\* holds back so much that both sides wait for each other.
NeverWedged ==
    \A s \in Streams :
        /\ phase = "open" /\ settings = "applied" /\ Receiving(s) /\ StreamInit > 0
        /\ flight[s] = 0 /\ connFlight = 0 /\ updates[s] = 0 /\ connUpdates = 0
        => peerConn > 0 /\ peerWin[s] > 0

\* A stream that stays open regains credit at a conforming peer again and again,
\* whatever the other streams send.
CreditReturns ==
    \A s \in Streams :
        Receiving(s) ~> (conduct = "overran" \/ ~Receiving(s) \/ (peerConn > 0 /\ peerWin[s] > 0))
=============================================================================
