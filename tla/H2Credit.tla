------------------------------ MODULE H2Credit ------------------------------
(***************************************************************************)
(* What a flow controlled HTTP/2 sender promises, as its peer sees it: one *)
(* window for the connection and one per stream, which the peer widens by  *)
(* WINDOW_UPDATE and moves by an acknowledged SETTINGS, and which every    *)
(* DATA frame that reaches the peer fits.                                  *)
(***************************************************************************)
EXTENDS Integers

CONSTANTS Streams,   \* stream ids
          Initial    \* the connection window both sides start from

VARIABLES conn,      \* bytes the peer still accepts on the connection
          stream     \* bytes it still accepts on each stream

vars == <<conn, stream>>

Init == conn = Initial /\ stream = [s \in Streams |-> 0]

Only(s) == \A t \in Streams \ {s} : stream'[t] = stream[t]

\* HEADERS gives a stream its first window.
Open(s) == Only(s) /\ stream'[s] \in Nat /\ conn' = conn

\* WINDOW_UPDATE of the connection, of a stream.
Widen == conn' - conn \in Nat /\ stream' = stream

WidenStream(s) == Only(s) /\ stream'[s] - stream[s] \in Nat /\ conn' = conn

\* A new SETTINGS_INITIAL_WINDOW_SIZE moves the windows it concerns alike.
Adjust ==
    /\ conn' = conn
    /\ \E moved \in SUBSET Streams :
        /\ \A s \in Streams \ moved : stream'[s] = stream[s]
        /\ \A s, t \in moved : stream'[s] - stream[s] = stream'[t] - stream[t]

\* DATA arrives, and fits both windows.
Deliver(s) ==
    \E n \in 1 .. conn :
        /\ n <= stream[s]
        /\ conn' = conn - n
        /\ stream' = [stream EXCEPT ![s] = @ - n]

Next == Widen \/ Adjust \/ \E s \in Streams : Open(s) \/ WidenStream(s) \/ Deliver(s)

Spec == Init /\ [][Next]_vars
=============================================================================
