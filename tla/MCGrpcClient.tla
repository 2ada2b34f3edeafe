---------------------------- MODULE MCGrpcClient ----------------------------
(* GrpcClient for TLC: two calls and every queue at its smallest, so that a reply that is not
   polled holds up the other, and a stream's slot is taken again while the events of its last
   call still wait. *)
EXTENDS GrpcClient

TwoSlots == 1..2

\* Both kinds of reply in both places, each once with an open request and once without.
EachShape ==
    <<{<<"Unary", TRUE>>, <<"Streaming", FALSE>>}, {<<"Unary", FALSE>>, <<"Streaming", TRUE>>}>>
=============================================================================
