-------------------------- MODULE H2RecvFlowProof ---------------------------
(***************************************************************************)
(* Receive-side flow control for every window size, every set of streams   *)
(* and every peer: credit is conserved, both ends agree on it, a           *)
(* conforming peer is never punished and never wedged.                     *)
(***************************************************************************)
EXTENDS H2RecvFlow, TLAPS

\* Streams whose windows still follow the advertised limit.
Fresh(s) == state[s] = "idle" \/ Receiving(s)

\* The strengthening: windows of streams not yet opened are the advertised
\* ones, so that a stream enters ViewsAgree when it is opened.
View(s) ==
    Fresh(s) =>
        /\ win[s] + held[s] = StreamInit
        /\ held[s] < StreamLow
        /\ state[s] = "idle" => held[s] = 0
        /\ phase = "open" => win[s] = peerWin[s] + flight[s] + updates[s]
                               + (IF settings = "applied" THEN 0 ELSE StreamInit - Initial)

StreamViews == \A s \in Streams : View(s)

ConnView ==
    /\ connWin + connHeld = ConnStart
    /\ connHeld < ConnLow
    /\ phase = "open" => connWin = peerConn + connFlight + connUpdates

\* What a conforming peer keeps to itself.
PeerConforms ==
    conduct = "conforms" /\ StreamInit >= Initial =>
        /\ phase = "open"
        /\ stalled = {}
        /\ peerConn >= 0
        /\ \A s \in Streams :
              /\ peerWin[s] >= 0
              /\ state[s] = "idle" => flight[s] = 0 /\ s \notin ending

IInv == TypeOK /\ ConnView /\ StreamViews /\ PeerConforms

-----------------------------------------------------------------------------
\* The bounds the assumptions give for targets and thresholds (Target::low).
LEMMA Constants ==
    /\ ConnStart \in Nat /\ ConnStart <= MaxWindow
    /\ ConnLow \in Nat /\ 1 <= ConnLow /\ ConnLow <= ConnStart
    /\ StreamLow \in Nat /\ 1 <= StreamLow
    /\ StreamInit \in Nat /\ StreamInit <= MaxWindow
    /\ StreamInit > 0 => StreamLow <= StreamInit
    /\ ConnStart = Initial + FirstIncrement(ConnTarget)
    /\ FirstIncrement(ConnTarget) \in Nat
    /\ Initial \in Nat /\ MaxWindow \in Nat /\ Overshoot \in Nat
  BY FlowAssumption, RecvAssumption
     DEF ConnStart, ConnLow, StreamLow, ForTarget, Low, FirstIncrement, Most, Targets

\* A receive stalls exactly when the frame exceeds the window.
LEMMA StallFacts ==
    ASSUME NEW v \in Nat, NEW n \in Nat
    PROVE  Stalls(v, n) <=> n > v
  BY DEF Stalls, Most

\* The connection starts in the invariant.
LEMMA InitIInv == Init => IInv
<1> SUFFICES ASSUME Init PROVE IInv
  OBVIOUS
<1>1. TypeOK
  BY Constants DEF Init, TypeOK, Lifecycles
<1>2. ConnView
  BY Constants DEF Init, ConnView
<1>3. StreamViews
  BY Constants DEF Init, StreamViews, View, Fresh
<1>4. PeerConforms
  BY Constants DEF Init, PeerConforms
<1> QED BY <1>1, <1>2, <1>3, <1>4 DEF IInv

-----------------------------------------------------------------------------
\* Each action, in the order of Next.
LEMMA StepIInv == IInv /\ [Next]_vars => IInv'
<1> SUFFICES ASSUME IInv, [Next]_vars PROVE IInv'
  OBVIOUS
<1> USE Constants DEF IInv
<1>1. CASE PeerSettings
  BY <1>1 DEF PeerSettings, TypeOK, ConnView, StreamViews, View, PeerConforms, Fresh, Receiving,
              recvVars, wireVars
<1>2. CASE PeerConnUpdate
  BY <1>2 DEF PeerConnUpdate, TypeOK, ConnView, StreamViews, View, PeerConforms, Fresh, Receiving,
              recvVars
<1>3. ASSUME NEW s \in Streams, PeerStreamUpdate(s) PROVE IInv'
  BY <1>3 DEF PeerStreamUpdate, TypeOK, ConnView, StreamViews, View, PeerConforms, Fresh, Receiving,
              recvVars
<1>4. ASSUME NEW s \in Streams, NEW n \in 0 .. MaxWindow, NEW boundary \in Boundary,
             PeerSend(s, n, boundary)
      PROVE IInv'
  <2>1. TypeOK'
    BY <1>4 DEF PeerSend, TypeOK, recvVars
  <2>2. ConnView'
    BY <1>4 DEF PeerSend, TypeOK, ConnView, recvVars
  <2>4. ASSUME NEW t \in Streams PROVE View(t)'
    <3>1. View(t)
      BY DEF StreamViews
    <3>2. CASE t = s
      BY <1>4, <3>1, <3>2 DEF PeerSend, TypeOK, View, Fresh, Receiving, recvVars
    <3>3. CASE t # s
      BY <1>4, <3>1, <3>3 DEF PeerSend, TypeOK, View, Fresh, Receiving, recvVars
    <3> QED BY <3>2, <3>3
  <2>3. PeerConforms'
    BY <1>4 DEF PeerSend, Conforms, TypeOK, PeerConforms, recvVars, Least
  <2> QED BY <2>1, <2>2, <2>3, <2>4 DEF StreamViews
<1>5. ASSUME NEW s \in Streams, Open(s) \/ LocalEnd(s) \/ LocalReset(s) PROVE IInv'
  <2>1. CASE Open(s)
    <3>1. TypeOK' /\ ConnView' /\ PeerConforms'
      BY <2>1 DEF Open, TypeOK, Lifecycles, ConnView, PeerConforms, peerVars, wireVars
    <3>2. View(s)'
      <4>1. View(s) /\ win[s] \in Nat /\ held[s] \in Nat
        BY DEF StreamViews, TypeOK
      <4>2. state[s] = "idle" /\ win'[s] = StreamInit /\ held'[s] = 0
        BY <2>1 DEF Open, TypeOK
      <4>3. /\ peerWin' = peerWin /\ flight' = flight /\ updates' = updates
            /\ settings' = settings /\ phase' = phase
        BY <2>1 DEF Open, peerVars, wireVars
      <4>4. state'[s] = "open"
        BY <2>1 DEF Open, TypeOK
      <4> QED BY <4>1, <4>2, <4>3, <4>4 DEF View, Fresh
    <3>3. ASSUME NEW t \in Streams, t # s PROVE View(t)'
      BY <2>1, <3>3 DEF Open, TypeOK, StreamViews, View, Fresh, Receiving, peerVars, wireVars
    <3> QED BY <3>1, <3>2, <3>3 DEF StreamViews
  <2>2. CASE LocalEnd(s)
    BY <2>2 DEF LocalEnd, TypeOK, Lifecycles, ConnView, StreamViews, View, PeerConforms, Fresh,
                Receiving, peerVars, wireVars
  <2>3. CASE LocalReset(s)
    BY <2>3 DEF LocalReset, TypeOK, Lifecycles, ConnView, StreamViews, View, PeerConforms, Fresh,
                Receiving, peerVars, wireVars
  <2> QED BY <1>5, <2>1, <2>2, <2>3
<1>6. ASSUME NEW s \in Streams, NEW n \in 0 .. flight[s], NEW boundary \in Boundary,
             DataStep(s, n, boundary)
      PROVE IInv'
  <2>0. n \in Nat /\ flight[s] \in Nat /\ connWin \in Nat /\ win[s] \in Nat /\ held[s] \in Nat
    BY DEF TypeOK
  <2> DEFINE c == Endpoint(connWin, connHeld, ConnLow, n, TRUE)
  <2>c. ASSUME ~Stalls(connWin, n)
        PROVE  /\ c.next \in Nat /\ c.held \in Nat /\ c.bump \in Nat
               /\ c.next + c.held = ConnStart
               /\ c.next = connWin - n + c.bump
               /\ c.held < ConnLow
    <3>1. n <= connWin
      BY <2>c, <2>0, StallFacts
    <3> QED BY <3>1, <2>0 DEF TypeOK, ConnView, Endpoint, c
  <2> HIDE DEF c
  <2>1. CASE DataIdle(s, n, boundary)
    <3>1. TypeOK' /\ ConnView'
      BY <2>0, <2>1 DEF DataIdle, Decode, TypeOK, ConnView, peerVars
    <3>2. ASSUME NEW t \in Streams PROVE View(t)'
      BY <2>1 DEF DataIdle, StreamViews, View, Fresh, Receiving
    <3>3. PeerConforms'
      BY <2>0, <2>1 DEF DataIdle, Decode, TypeOK, PeerConforms, peerVars
    <3> QED BY <3>1, <3>2, <3>3 DEF StreamViews
  <2>2. CASE DataConnStall(s, n, boundary)
    <3>1. n > connWin
      BY <2>0, <2>2, StallFacts DEF DataConnStall
    <3>2. TypeOK' /\ ConnView'
      BY <2>0, <2>2 DEF DataConnStall, Decode, TypeOK, ConnView, peerVars
    <3>3. ASSUME NEW t \in Streams PROVE View(t)'
      BY <2>2 DEF DataConnStall, StreamViews, View, Fresh, Receiving
    <3>4. PeerConforms'
      BY <2>0, <2>2, <3>1 DEF DataConnStall, Decode, TypeOK, ConnView, PeerConforms, peerVars
    <3> QED BY <3>2, <3>3, <3>4 DEF StreamViews
  <2>3. CASE DataPast(s, n, boundary)
    <3>1. connWin' = c.next /\ connHeld' = c.held /\ connUpdates' = connUpdates + c.bump
      BY <2>3 DEF DataPast, ConnCredit, c
    <3>2. TypeOK' /\ ConnView'
      BY <2>0, <2>3, <2>c, <3>1 DEF DataPast, Decode, TypeOK, Lifecycles, ConnView, peerVars
    <3>3. ASSUME NEW t \in Streams, t # s PROVE View(t)'
      BY <2>3, <3>3 DEF DataPast, Decode, TypeOK, StreamViews, View, Fresh, Receiving, peerVars
    <3>4. View(s)'
      BY <2>3 DEF DataPast, TypeOK, View, Fresh, Receiving
    <3>5. PeerConforms'
      BY <2>0, <2>3 DEF DataPast, Decode, TypeOK, PeerConforms, peerVars
    <3> QED BY <3>2, <3>3, <3>4, <3>5 DEF StreamViews
  <2>4. CASE DataRefused(s, n, boundary)
    <3>1. connWin' = c.next /\ connHeld' = c.held /\ connUpdates' = connUpdates + c.bump
      BY <2>4 DEF DataRefused, ConnCredit, c
    <3>2. TypeOK' /\ ConnView'
      BY <2>0, <2>4, <2>c, <3>1 DEF DataRefused, Decode, TypeOK, Lifecycles, ConnView, peerVars
    <3>3. ASSUME NEW t \in Streams, t # s PROVE View(t)'
      BY <2>4, <3>3 DEF DataRefused, Decode, TypeOK, StreamViews, View, Fresh, Receiving, peerVars
    <3>4. View(s)'
      BY <2>4 DEF DataRefused, TypeOK, View, Fresh, Receiving
    <3>5. PeerConforms'
      BY <2>0, <2>4 DEF DataRefused, Decode, TypeOK, PeerConforms, peerVars
    <3> QED BY <3>2, <3>3, <3>4, <3>5 DEF StreamViews
  <2>5. CASE DataStreamStall(s, n, boundary)
    <3>1. connWin' = c.next /\ connHeld' = c.held /\ connUpdates' = connUpdates + c.bump
      BY <2>5 DEF DataStreamStall, ConnCredit, c
    <3>2. TypeOK' /\ ConnView'
      BY <2>0, <2>5, <2>c, <3>1 DEF DataStreamStall, Decode, TypeOK, Lifecycles, ConnView, peerVars
    <3>3. ASSUME NEW t \in Streams, t # s PROVE View(t)'
      BY <2>5, <3>3 DEF DataStreamStall, Decode, TypeOK, StreamViews, View, Fresh, Receiving, peerVars
    <3>4. View(s)'
      BY <2>5 DEF DataStreamStall, TypeOK, View, Fresh, Receiving
    <3>5. PeerConforms'
      <4>1. n > win[s]
        BY <2>0, <2>5, StallFacts DEF DataStreamStall
      <4>2. View(s) /\ Fresh(s)
        BY <2>5 DEF DataStreamStall, StreamViews, Fresh, Receiving
      <4> QED BY <2>0, <2>5, <4>1, <4>2
          DEF DataStreamStall, Decode, TypeOK, View, PeerConforms, peerVars
    <3> QED BY <3>2, <3>3, <3>4, <3>5 DEF StreamViews
  <2>6. CASE DataAccepted(s, n, boundary)
    <3> DEFINE e == Endpoint(win[s], held[s], StreamLow, n, boundary = "More")
    <3>1. connWin' = c.next /\ connHeld' = c.held /\ connUpdates' = connUpdates + c.bump
      BY <2>6 DEF DataAccepted, ConnCredit, c
    <3>2. /\ e.next \in Nat /\ e.held \in Nat /\ e.bump \in Nat
          /\ e.next + e.held = win[s] + held[s]
          /\ e.next = win[s] - n + e.bump
          /\ boundary = "More" /\ held[s] < StreamLow => e.held < StreamLow
      <4>1. n <= win[s]
        BY <2>0, <2>6, StallFacts DEF DataAccepted
      <4> QED BY <4>1, <2>0 DEF Endpoint, e
    <3>3. /\ win' = [win EXCEPT ![s] = e.next]
          /\ held' = [held EXCEPT ![s] = e.held]
          /\ updates' = [updates EXCEPT ![s] = @ + e.bump]
      BY <2>6 DEF DataAccepted
    <3>4. View(s) /\ Receiving(s) /\ Fresh(s)
      BY <2>6 DEF DataAccepted, StreamViews, Fresh, Receiving
    <3>5. win[s] + held[s] = StreamInit /\ held[s] < StreamLow
      BY <3>4 DEF View
    <3> HIDE DEF e
    <3>6. TypeOK'
      <4>1. state' \in [Streams -> Lifecycles]
        BY <2>6 DEF DataAccepted, TypeOK, Lifecycles
      <4>2. e.next \in 0 .. MaxWindow /\ e.held \in 0 .. MaxWindow
        BY <2>0, <3>2, <3>5
      <4>3. c.next \in 0 .. MaxWindow /\ c.held \in 0 .. MaxWindow /\ c.bump \in Nat
        BY <2>6, <2>c DEF DataAccepted
      <4> QED BY <2>0, <2>6, <3>1, <3>2, <3>3, <4>1, <4>2, <4>3
          DEF DataAccepted, Decode, TypeOK, peerVars
    <3>7. ConnView'
      BY <2>0, <2>6, <2>c, <3>1 DEF DataAccepted, Decode, TypeOK, ConnView, peerVars
    <3>8. ASSUME NEW t \in Streams, t # s PROVE View(t)'
      BY <2>6, <3>3, <3>8 DEF DataAccepted, Decode, TypeOK, StreamViews, View, Fresh, Receiving,
                              peerVars
    <3>9. View(s)'
      <4>1. CASE boundary = "More"
        <5>1. win'[s] = e.next /\ held'[s] = e.held /\ updates'[s] = updates[s] + e.bump
          BY <3>3 DEF TypeOK
        <5>2. flight'[s] = flight[s] - n /\ flight[s] \in Nat /\ updates[s] \in Nat
          BY <2>6 DEF DataAccepted, Decode, TypeOK
        <5>3. peerWin[s] \in Int /\ peerWin' = peerWin /\ settings' = settings /\ phase' = phase
          BY <2>6 DEF DataAccepted, TypeOK, peerVars
        <5>4. state'[s] = state[s] /\ state[s] # "idle"
          BY <2>6, <3>4, <4>1 DEF DataAccepted, TypeOK, Receiving
        <5> DEFINE gap == IF settings = "applied" THEN 0 ELSE StreamInit - Initial
        <5>5. gap \in Int /\ n \in Nat /\ win[s] \in Nat
          BY <2>0, <5>2
        <5>6. phase = "open" => win[s] = peerWin[s] + flight[s] + updates[s] + gap
          BY <3>4 DEF View
        <5> HIDE DEF gap
        <5>7. phase = "open" => win'[s] = peerWin[s] + flight'[s] + updates'[s] + gap
          BY <3>2, <5>1, <5>2, <5>3, <5>5, <5>6
        <5>8. win'[s] + held'[s] = StreamInit /\ held'[s] < StreamLow
          BY <3>2, <3>5, <4>1, <5>1
        <5> QED BY <5>3, <5>4, <5>7, <5>8 DEF View, gap
      <4>2. CASE boundary # "More"
        <5>1. state'[s] \in {"halfClosedRemote", "gone"}
          BY <2>6, <4>2 DEF DataAccepted, TypeOK, Boundary
        <5> QED BY <5>1 DEF View, Fresh, Receiving
      <4> QED BY <4>1, <4>2
    <3>10. PeerConforms'
      <4>1. \A t \in Streams : state'[t] = "idle" => state[t] = "idle" /\ t # s
        BY <2>6, <3>4 DEF DataAccepted, TypeOK, Receiving
      <4> QED BY <2>0, <2>6, <4>1 DEF DataAccepted, Decode, TypeOK, PeerConforms, peerVars
    <3> QED BY <3>6, <3>7, <3>8, <3>9, <3>10 DEF StreamViews
  <2> QED BY <1>6, <2>1, <2>2, <2>3, <2>4, <2>5, <2>6 DEF DataStep
<1>7. CASE UNCHANGED vars
  BY <1>7 DEF vars, recvVars, peerVars, wireVars, TypeOK, ConnView, StreamViews, View, PeerConforms,
              Fresh, Receiving
<1> QED BY <1>1, <1>2, <1>3, <1>4, <1>5, <1>6, <1>7 DEF Next, PeerNext, DataNext

\* The inductive invariant holds in every reachable state.
THEOREM Inductive == Spec => []IInv
  BY InitIInv, StepIInv, PTL DEF Spec

\* Window::receive_data and Pair::receive_data conserve the advertised credit
\* (the comment in Endpoint::new) for every target, stream set and peer.
THEOREM Conservation == Spec => []CreditConserved
<1>1. IInv => CreditConserved
  BY DEF IInv, ConnView, StreamViews, View, CreditConserved, Fresh
<1> QED BY <1>1, Inductive, PTL

\* The server's windows equal the peer's plus what is in flight.
THEOREM Agreement == Spec => []ViewsAgree
<1>1. IInv => ViewsAgree
  BY DEF IInv, ConnView, StreamViews, View, ViewsAgree, Fresh
<1> QED BY <1>1, Inductive, PTL

\* A peer inside its windows never draws an error from the DATA path.
THEOREM Accepted == Spec => []ConformingPeerAccepted
<1>1. IInv => ConformingPeerAccepted
  BY DEF IInv, PeerConforms, ConformingPeerAccepted
<1> QED BY <1>1, Inductive, PTL

\* With nothing in flight an open stream has credit at the peer.
THEOREM Unwedged == Spec => []NeverWedged
<1>1. IInv => NeverWedged
  BY Constants DEF IInv, TypeOK, ConnView, StreamViews, View, NeverWedged, Fresh, Receiving
<1> QED BY <1>1, Inductive, PTL

\* The type invariant.
THEOREM Typed == Spec => []TypeOK
<1>1. IInv => TypeOK
  BY DEF IInv
<1> QED BY <1>1, Inductive, PTL
=============================================================================
