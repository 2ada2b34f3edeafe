---------------------------- MODULE MCH2RecvFlow ----------------------------
(***************************************************************************)
(* An instance of H2RecvFlow for TLC: refill thresholds of two bytes, so   *)
(* that credit is held back on the connection and on its streams.          *)
(***************************************************************************)
EXTENDS H2RecvFlow

\* -MaxWindow - 1 for the windows of the configuration.
MCMinWindow == -MaxWindow - 1

\* The search is cut behind a peer that broke a rule: what it had in flight is still decoded,
\* with the settings applied and no credit on its way to it.
BreachIsLast ==
    conduct = "overran" =>
        /\ connFlight > 0 /\ settings = "applied"
        /\ connUpdates = 0 /\ \A s \in Streams : updates[s] = 0
=============================================================================
