---------------------------- MODULE MCH2Outbound ----------------------------
(* Instances of H2Outbound for TLC.                                        *)
EXTENDS H2Outbound

\* copied frames shorter and longer than a write's prefix; an empty retained
\* body; prefixes that end before, at and behind a frame header
ShortLens   == {1, 2}
ShortBodies == {0, 1}
ShortRooms  == {1, 2, 3}

=============================================================================
