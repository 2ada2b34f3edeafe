-------------------------- MODULE MCCoreDeadline --------------------------
(* Instances of CoreDeadline for TLC.                                      *)
EXTENDS CoreDeadline

\* every phase has a window, and windows of different phases coincide
Windows ==
    [p \in Phases |-> IF p = "Total" THEN 2 ELSE IF p = "BodyIdle" THEN 2 ELSE 1]

Soon == {1}
=============================================================================
