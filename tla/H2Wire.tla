------------------------------- MODULE H2Wire -------------------------------
(***************************************************************************)
(* What the output of a connection promises: frames reach the transport in *)
(* the order they were queued and whole, except frames that are withdrawn  *)
(* while all of them is still here.  A unit [id, pos] is one byte of a     *)
(* frame.                                                                  *)
(***************************************************************************)
EXTENDS Queues

VARIABLES queue,   \* units queued, in wire order
          last     \* units the latest step handed to the transport

vars == <<queue, last>>

Init == queue = <<>> /\ last = <<>>

Queued(id) == \E i \in DOMAIN queue : queue[i].id = id

\* A new frame goes to the end.
Put ==
    LET old == Len(queue)
        new == SubSeq(queue', old + 1, Len(queue'))
    IN  /\ new # <<>> /\ queue' = queue \o new
        /\ ~Queued(new[1].id)
        /\ \A i \in DOMAIN new : new[i] = [id |-> new[1].id, pos |-> i]
        /\ last' = <<>>

\* A withdrawn frame goes with all its units: none of them has left yet.
Withdraw ==
    \E ids \in SUBSET {queue[i].id : i \in DOMAIN queue} :
        /\ \A id \in ids : \E i \in DOMAIN queue : queue[i] = [id |-> id, pos |-> 1]
        /\ queue' = Drop(queue, {u \in Elements(queue) : u.id \in ids})
        /\ last' = <<>>

\* The transport takes the oldest units.
Emit ==
    \E n \in 1 .. Len(queue) :
        /\ last' = SubSeq(queue, 1, n)
        /\ queue' = SubSeq(queue, n + 1, Len(queue))

Next == Put \/ Withdraw \/ Emit

Spec == Init /\ [][Next]_vars
=============================================================================
