----------------------------- MODULE MCWsServer -----------------------------
(* WsServer: short streams of the frames that tell the paths of admission apart. *)
EXTENDS WsServer

Frame(op, fin, data) == [op |-> op, fin |-> fin, masked |-> TRUE, data |-> data]

\* Three frames that come and go between fragments of a message.
Mixed ==
    {Frame("text", FALSE, <<"l">>), Frame("cont", TRUE, <<"t">>), Frame("cont", FALSE, <<>>),
     Frame("ping", TRUE, <<"p", "p">>), Frame("text", TRUE, <<"a">>), Frame("binary", TRUE, <<"a", "a">>)}

\* Two frames of which one ends the connection.
Ending ==
    {Frame("text", TRUE, <<"q">>), Frame("text", TRUE, <<>>), Frame("pong", TRUE, <<>>),
     Frame("cont", TRUE, <<"t", "a">>), Frame("cont", TRUE, <<"t", "t">>), Frame("close", TRUE, <<"c">>),
     Frame("close", TRUE, <<"c", "l">>), Frame("close", TRUE, <<"b">>),
     Frame("binary", TRUE, <<"a", "a", "a", "a">>), [Frame("ping", TRUE, <<>>) EXCEPT !.masked = FALSE]}

Stream(kind, len, frames) == [opening |-> [kind |-> kind, len |-> len], frames |-> frames]

StreamSet ==
    {Stream("good", 2, s) : s \in [1..3 -> Mixed]}
      \cup {Stream("good", 2, <<f, g>>) : f \in Mixed, g \in Ending}
      \cup {Stream("good", 2, <<f, g>>) : f \in Ending, g \in Mixed}
      \cup {Stream(kind, len, <<Frame("text", TRUE, <<"a">>)>>) : kind \in {"good", "forbidden", "bad"}, len \in {2, 4}}

SmallOrLarge == {3, 5}
=============================================================================
