-------------------------- MODULE MCCoreSchedule --------------------------
(***************************************************************************)
(* An instance of CoreSchedule for TLC.                                    *)
(***************************************************************************)
EXTENDS CoreSchedule

\* every drive runs out of permits after one turn
One == {1}

\* a server drives both classes, round after round
Rounds == {"drive"}

\* the carrier can run out of all it has, and of one stream's credit
OneStreamsToo ==
    {Resource("Connection", None), Resource("Egress", None),
     Resource("Stream", CHOOSE s \in Streams : TRUE)}
=============================================================================
