----------------------------- MODULE MCH3Qpack -----------------------------
(* H3Qpack on a table of two or three entries: insertion counts wrap. *)
EXTENDS H3Qpack, TLC

CONSTANTS a, b, c

ThreeStreams == 1..3

\* c shares its name with a and is larger.
ThreeFields == {a, b, c}
Names == (a :> "x" @@ b :> "y" @@ c :> "x")
Sizes == (a :> 4 @@ b :> 4 @@ c :> 5)

\* A new connection, and one in which three entries have been inserted.
NewOrUsed == {EmptyTable, [entries |-> <<b>>, evicted |-> 2]}

Lists == {<<a, a>>, <<b, c>>}
=============================================================================
