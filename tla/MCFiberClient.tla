--------------------------- MODULE MCFiberClient ---------------------------
(* FiberClient: a call that may be replayed and one that may not. *)
EXTENDS FiberClient

CONSTANTS get, post, c1

TwoCalls == {get, post}
OneIdempotent == {get}
OneFollowing == {post}
OneConn == {c1}

\* No reuse, and a lease of two ticks; a peer that announces two ticks or nothing.
NoneOrTwo == {0, 2}
Announced == {NoHint, 2}
=============================================================================
