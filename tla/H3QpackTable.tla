---------------------------- MODULE H3QpackTable ----------------------------
(***************************************************************************)
(* The dynamic field table of HTTP/3 and what refers to it: how the        *)
(* encoder drafts a field section against its table, how the required      *)
(* insertion count and the base of a section are written in its prefix,    *)
(* and how the decoder reads them back and finds the entries.              *)
(*                                                                         *)
(* A table is the sequence of its entries, oldest first, with the number   *)
(* of entries evicted before them; entry j has the absolute index          *)
(* evicted + j - 1.  A field is abstracted to its identity, its name and   *)
(* its size.  Static and never-indexed fields do not touch the table and   *)
(* are left out of a section.                                              *)
(***************************************************************************)
EXTENDS Integers, Sequences, FiniteSets, FiniteSetsExt, SequencesExt

CONSTANTS
    Fields,     \* the fields sections are made of
    Name,       \* [Fields -> names]
    Size,       \* [Fields -> Nat], entry_size: above Overhead
    Overhead,   \* dynamic::ENTRY_OVERHEAD (32)
    Maximum     \* SETTINGS_QPACK_MAX_TABLE_CAPACITY of the decoder, in bytes

ASSUME TableAssumption ==
    /\ IsFiniteSet(Fields)
    /\ Size \in [Fields -> Nat]
    /\ Overhead \in Nat \ {0}
    /\ \A f \in Fields : Size[f] > Overhead
    /\ Maximum \in Nat

Tables == [entries: Seq(Fields), evicted: Nat]

EmptyTable == [entries |-> <<>>, evicted |-> 0]

\* View::insert_count.
InsertCount(t) == t.evicted + Len(t.entries)

\* View::max_entries.
MaxEntries == Maximum \div Overhead

Bytes(entries) == FoldLeft(LAMBDA sum, f : sum + Size[f], 0, entries)

\* The entries to give up, oldest first, until a new one of that size fits: as few as
\* possible (Evictions::try_evict, and the decoder's insertion).
Evictions(t, size, capacity) ==
    Min({n \in 0..Len(t.entries) :
            Bytes(SubSeq(t.entries, n + 1, Len(t.entries))) <= capacity - size})

\* The table after an insertion that gives up its n oldest entries.
Inserted(t, f, n) ==
    [entries |-> Append(SubSeq(t.entries, n + 1, Len(t.entries)), f), evicted |-> t.evicted + n]

-----------------------------------------------------------------------------
(* The encoder's draft of one section (encoder/section.rs, encoder/delta). *)

\* A draft: the prospective table, the lowest protected index, the insertions made, the
\* absolute indices referred to (in order) and the entries they stand for.
NewDraft(t, floor) ==
    [table |-> t, floor |-> floor, inserts |-> <<>>, refs |-> <<>>, meant |-> <<>>]

\* The newest entry that is one of the wanted fields and has an index the admission
\* accepts, as a set of at most one absolute index (Query::exact, Query::name).
Newest(d, wanted, accepted) ==
    LET found == {j \in DOMAIN d.table.entries :
                     d.table.entries[j] \in wanted /\ d.table.evicted + j - 1 \in accepted}
    IN  IF found = {} THEN {} ELSE {d.table.evicted + Max(found) - 1}

\* Query::protect, after Admission::select.
Refer(d, absolute) ==
    [d EXCEPT !.floor = IF absolute < @ THEN absolute ELSE @,
              !.refs = Append(@, absolute),
              !.meant = Append(@, d.table.entries[absolute - d.table.evicted + 1])]

\* Query::try_insert: a literal also enters the table when that evicts only entries
\* below the floor.
Insert(d, f) ==
    LET n == Evictions(d.table, Size[f], Maximum)
    IN  IF Size[f] <= Maximum /\ (n = 0 \/ d.table.evicted + n <= d.floor)
        THEN [d EXCEPT !.table = Inserted(@, f, n), !.inserts = Append(@, f)]
        ELSE d

\* Section::try_encode, for a field outside the static table.
Encoded(d, f, accepted) ==
    LET exact == Newest(d, {f}, accepted)
        named == Newest(d, {e \in Fields : Name[e] = Name[f]}, accepted)
    IN  CASE exact # {} -> Refer(d, Max(exact))
          [] exact = {} /\ named # {} -> Refer(d, Max(named))
          [] OTHER -> Insert(d, f)

\* Section::new and one try_encode per field.
Draft(t, floor, fields, accepted) ==
    FoldLeft(LAMBDA d, f : Encoded(d, f, accepted), NewDraft(t, floor), fields)

\* Admission::required: 0 for a section without references.
Required(d) == IF d.refs = <<>> THEN 0 ELSE Max(ToSet(d.refs)) + 1

\* Range::minimum.
Minimum(d) == Min(ToSet(d.refs))

-----------------------------------------------------------------------------
(* The section prefix and the references, as written and as read. *)

\* Delta::encode_count.
EncodeCount(required) == IF required = 0 THEN 0 ELSE (required % (2 * MaxEntries)) + 1

\* qpack::Section::new, Output::use_dynamic and copy_dynamic: what the peer gets.
WireSection(d, base) ==
    LET required == Required(d)
    IN  [count |-> EncodeCount(required),
         sign  |-> base < required,
         delta |-> IF base >= required THEN base - required ELSE required - base - 1,
         lines |-> [i \in DOMAIN d.refs |->
                       [post |-> d.refs[i] >= base,
                        index |-> IF d.refs[i] >= base THEN d.refs[i] - base
                                                       ELSE base - d.refs[i] - 1]],
         meant |-> d.meant,
         required |-> required]

\* Defect: the wrapped count is not brought below the upper bound.
DecodeCount_NoWrap(encoded, inserts) ==
    LET range == 2 * MaxEntries
    IN  IF encoded = 0 THEN 0 ELSE ((inserts + MaxEntries) \div range) * range + encoded - 1

\* Prepared::required: 0 for a static section, -1 when the encoding is rejected.
DecodeCount(encoded, inserts) ==
    LET range == 2 * MaxEntries
        upper == inserts + MaxEntries
        first == (upper \div range) * range + encoded - 1
        required == IF first > upper THEN first - range ELSE first
    IN  IF encoded = 0 THEN 0
        ELSE IF encoded > range \/ (first > upper /\ first <= range) \/ required = 0 THEN -1
        ELSE required

\* Prepared::base.
DecodeBase(x, required) == IF x.sign THEN required - x.delta - 1 ELSE required + x.delta

\* View::pre_base, post_base and resolve: the entry of one line, as a set of at most one.
Resolve(t, x, required, line) ==
    LET base == DecodeBase(x, required)
        absolute == IF line.post THEN base + line.index ELSE base - line.index - 1
    IN  IF absolute >= t.evicted /\ absolute < required /\ absolute < InsertCount(t)
        THEN {t.entries[absolute - t.evicted + 1]}
        ELSE {}

=============================================================================
