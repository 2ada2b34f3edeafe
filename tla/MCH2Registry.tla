---------------------------- MODULE MCH2Registry ----------------------------
(***************************************************************************)
(* An instance of H2Registry for TLC: streams in turn over one slot.       *)
(***************************************************************************)
EXTENDS H2Registry

\* one slab position: each stream reuses what the one before it left
OneSlot == {0}

\* The search is cut where the questions do not lead: a stream that stalls for credit has a plain
\* body, no session, and meets no GOAWAY.
NeverStalls    == \A s \in Slots : rec[s].credit = "Open"
PlainExchanges == \A i \in Ids : app[i] \notin {"duplexHead", "duplex", "cancelled"}
PlainStalls    == NeverStalls \/ (PlainExchanges /\ phase = "Open")
=============================================================================
