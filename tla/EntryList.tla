-------------------------------- MODULE EntryList -------------------------------
(***************************************************************************)
(* What an index memory promises its callers: a list of entries, and calls *)
(* that throw when there is no such entry and then change nothing.         *)
(***************************************************************************)
EXTENDS Naturals, Sequences, SequencesExt

CONSTANT Entries

VARIABLES
    entries,
    result       \* of the last call

vars == <<entries, result>>

Done == <<"done">>
Thrown == <<"thrown">>
Returned(e) == <<"returned", e>>

Init == entries \in Seq(Entries) /\ result = Done

Insert(e) == entries' = Append(entries, e) /\ result' = Done

Pop == entries # <<>> /\ entries' = Front(entries) /\ result' = Done

Delete(i) ==
    /\ i \in 1 .. Len(entries)
    /\ entries' = RemoveAt(entries, i) /\ result' = Done

Get(i) ==
    /\ i \in 1 .. Len(entries)
    /\ result' = Returned(entries[i]) /\ UNCHANGED entries

(* Neighbouring entries, the first at a multiple of n *)
GetPage(i, n) ==
    /\ i * n \in n .. Len(entries)
    /\ result' = Returned(FlattenSeq(SubSeq(entries, (i - 1) * n + 1, i * n)))
    /\ UNCHANGED entries

Throw == result' = Thrown /\ UNCHANGED entries

Next ==
    \/ Pop \/ Throw
    \/ \E e \in Entries : Insert(e)
    \/ \E i \in 1 .. Len(entries) : Delete(i) \/ Get(i) \/ \E n \in 1 .. Len(entries) : GetPage(i, n)

Spec == Init /\ [][Next]_vars
================================================================================
