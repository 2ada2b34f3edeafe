---------------------------- MODULE MCH2SendFlow ----------------------------
(* Instances of H2SendFlow for TLC.                                        *)
EXTENDS H2SendFlow, TLC

\* streams are interchangeable
Symmetric == Permutations(Streams)

\* i32 cut down to three bits: -4 .. 3
SmallMin == -4

\* a size below and one above the first
SmallSizes == {0, 3}
=============================================================================
