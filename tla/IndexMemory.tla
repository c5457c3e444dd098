------------------------------- MODULE IndexMemory ------------------------------
(***************************************************************************)
(* The index memories of the frontend (dev/types/memory.h): a vector of    *)
(* vectors and a count beside it.  An entry is one vector of a             *)
(* FlatIndexMemory, a minimum and a maximum of a MinMaxIndexMemory, or the *)
(* vectors of a segment of an HMTEmbeddingMemory.                          *)
(*                                                                         *)
(* An access behind the end of the vector is undefined in C++; the model   *)
(* sets `undefined' and stops.                                             *)
(***************************************************************************)
EXTENDS Naturals, Sequences, SequencesExt

CONSTANTS
    MemoryKinds,     \* which of "flat", "minmax" and "hmt" there are
    Names,           \* of entries
    SegmentEntries,  \* num_entries_per_segment_
    PageSize,        \* phy_page_size_
    MaxEntries       \* bound: entries inserted

IndexAssumption ==
    /\ MemoryKinds \subseteq {"flat", "minmax", "hmt"}
    /\ SegmentEntries \in Nat \ {0} /\ PageSize \in Nat \ {0} /\ MaxEntries \in Nat

VARIABLES
    kind, data, num_entries,
    sized,       \* memory_size_ > 0: there was an entry to take it from
    result,      \* of the last call
    undefined

memory_vars == <<kind, data, num_entries, sized, result, undefined>>

(* Vectors of an entry *)
Group == CASE kind = "flat" -> 1 [] kind = "minmax" -> 2 [] kind = "hmt" -> SegmentEntries

(* The i-th vector of an entry is told from the others. *)
NewEntry(name) == [i \in 1 .. Group |-> <<name, i>>]

(* The entries there may be, and those that the data hold *)
AnyEntry == {[i \in 1 .. n |-> <<name, i>>] : name \in Names, n \in {1, 2, SegmentEntries}}
EntriesOf(d) == [i \in 1 .. Len(d) \div Group |-> SubSeq(d, (i - 1) * Group + 1, i * Group)]
Listed == EntriesOf(data)

List == INSTANCE EntryList WITH Entries <- AnyEntry, entries <- Listed

(* The constructors, on whole entries *)
MemoryInit ==
    /\ kind \in MemoryKinds
    /\ data \in {FlattenSeq([i \in 1 .. n |-> NewEntry(name)]) : n \in 0 .. 1, name \in Names}
    /\ num_entries = Len(data) /\ sized = (data # <<>>)
    /\ result = List!Done /\ undefined = FALSE

Throws == result' = List!Thrown /\ UNCHANGED <<data, num_entries, undefined>>

--------------------------------------------------------------------------------
(* A memory made without entries has size 0, and takes none. *)
insert_memory(name) ==
    IF ~sized THEN Throws
    ELSE /\ Len(data) < MaxEntries * Group
         /\ data' = data \o NewEntry(name) /\ num_entries' = num_entries + Group
         /\ result' = List!Done /\ UNCHANGED undefined

(* A vector of another size: a pair is looked at before it is taken.  A    *)
(* segment is taken vector by vector, so the vectors before the one that   *)
(* is refused stay behind: callers hand over segments that are refused at  *)
(* the first, or not at all.                                               *)
InsertRagged == Throws

Cut(n) == SubSeq(data, 1, Len(data) - n)

PopOne ==
    IF num_entries < (IF kind = "hmt" THEN Group ELSE 1) THEN Throws
    ELSE /\ data' = Cut(1) /\ num_entries' = num_entries - 1
         /\ result' = List!Done /\ UNCHANGED undefined

pop_last_memory ==
    IF num_entries < (IF kind = "hmt" THEN Group ELSE 1) THEN Throws
    ELSE /\ data' = Cut(Group) /\ num_entries' = num_entries - Group
         /\ result' = List!Done /\ UNCHANGED undefined

(* What delete_memory and get_memory take for the number of entries *)
Deletable == IF kind = "minmax" THEN num_entries ELSE num_entries \div Group
Gettable == num_entries \div Group

(* The vectors of entry idx, counted from 0 *)
EntryAt(idx) == SubSeq(data, idx * Group + 1, (idx + 1) * Group)
Without(idx) == SubSeq(data, 1, idx * Group) \o SubSeq(data, (idx + 1) * Group + 1, Len(data))

delete_memory(idx) ==
    IF idx >= Deletable THEN Throws
    ELSE IF (idx + 1) * Group > Len(data)
    THEN undefined' = TRUE /\ UNCHANGED <<data, num_entries, result>>
    ELSE /\ data' = Without(idx) /\ num_entries' = num_entries - Group
         /\ result' = List!Done /\ UNCHANGED undefined

get_memory(idx) ==
    IF idx >= Gettable THEN Throws
    ELSE result' = List!Returned(EntryAt(idx)) /\ UNCHANGED <<data, num_entries, undefined>>

(* get_page: the vectors of PageSize pairs *)
get_page(page_idx) ==
    LET first == page_idx * PageSize * 2
    IN  /\ kind = "minmax"
        /\ IF page_idx >= num_entries \div (2 * PageSize) THEN Throws
           ELSE /\ result' = List!Returned(SubSeq(data, first + 1, first + PageSize * 2))
                /\ UNCHANGED <<data, num_entries, undefined>>

MemoryNext ==
    /\ ~undefined
    /\ UNCHANGED <<kind, sized>>
    /\ \/ pop_last_memory \/ InsertRagged
       \/ \E name \in Names : insert_memory(name)
       \/ \E idx \in 0 .. 2 * MaxEntries : delete_memory(idx) \/ get_memory(idx) \/ get_page(idx)

MemorySpec == MemoryInit /\ [][MemoryNext]_memory_vars

--------------------------------------------------------------------------------
(* An index memory is a list of entries, whose vectors stay together, as   *)
(* long as what is done is defined.                                        *)
ListSpec == List!Spec
================================================================================
