----------------------------- MODULE MinHeapSelect -----------------------------
(***************************************************************************)
(* topk_minheap of the DSA indexers (kernels/dsa_indexer/indexer_vanilla.h *)
(* and, the same, indexer_lut.h): the other top-k, which keeps TOP_K nodes *)
(* in a binary min-heap.  A score is pushed while there is room, and takes *)
(* the root's place when it beats the root.  The kernels of this commit    *)
(* invoke topk_parallel_cmp instead (TopKSelect).                          *)
(***************************************************************************)
EXTENDS Integers

CONSTANTS
    HeapK,        \* TOP_K
    HeapN,        \* L, scores of the stream
    HeapScores,   \* the scores there are
    HeapHuge      \* 1e15, the value of a child that is not there

HeapAssumption ==
    /\ HeapK \in Nat \ {0} /\ HeapN \in Nat /\ HeapK <= HeapN
    /\ HeapScores \subseteq Int /\ HeapHuge \in Int /\ \A s \in HeapScores : s < HeapHuge

HeapNodes     == 0 .. HeapK - 1
HeapPositions == 0 .. HeapN - 1

VARIABLES
    heap_score,   \* the stream
    heap_pos,     \* r * 16 + i
    heap_node,    \* topk_node
    heap_pc,      \* "next", "up", "down" (the two while loops), "done"
    heap_c,       \* the node being moved
    heap_out,     \* the ids written
    heap_tied     \* history: did a node stay above two equal, lower children?

heap_vars == <<heap_score, heap_pos, heap_node, heap_pc, heap_c, heap_out, heap_tied>>

HeapInit ==
    /\ heap_score \in [HeapPositions -> HeapScores]
    /\ heap_pos = 0 /\ heap_pc = "next" /\ heap_c = 0 /\ heap_out = <<>> /\ heap_tied = FALSE
    /\ heap_node = [j \in HeapNodes |-> [id |-> 0, score |-> HeapHuge]]

HeapEntry(p) == [id |-> p, score |-> heap_score[p]]
Parent(j)    == (j - 1) \div 2
Swap(i, j)   == [heap_node EXCEPT ![i] = heap_node[j], ![j] = heap_node[i]]
Taken        == heap_pc' = "next" /\ heap_pos' = heap_pos + 1 /\ heap_c' = 0

(* "directly push to heap" *)
Push ==
    /\ heap_pc = "next" /\ heap_pos < HeapK
    /\ heap_node' = [heap_node EXCEPT ![heap_pos] = HeapEntry(heap_pos)]
    /\ heap_pc' = "up" /\ heap_c' = heap_pos
    /\ UNCHANGED <<heap_score, heap_pos, heap_out, heap_tied>>

(* An iteration of the loop that moves the new node up. *)
SiftUp ==
    /\ heap_pc = "up"
    /\ IF heap_c > 0 /\ heap_node[heap_c].score < heap_node[Parent(heap_c)].score
       THEN /\ heap_node' = Swap(heap_c, Parent(heap_c)) /\ heap_c' = Parent(heap_c)
            /\ UNCHANGED <<heap_pos, heap_pc>>
       ELSE Taken /\ UNCHANGED heap_node
    /\ UNCHANGED <<heap_score, heap_out, heap_tied>>

BeatsRoot == heap_score[heap_pos] > heap_node[0].score

(* "replace root and heapify down", or go on. *)
OfferScore ==
    /\ heap_pc = "next" /\ HeapK <= heap_pos /\ heap_pos < HeapN
    /\ IF BeatsRoot
       THEN /\ heap_node' = [heap_node EXCEPT ![0] = HeapEntry(heap_pos)]
            /\ heap_pc' = "down" /\ heap_c' = 0 /\ UNCHANGED heap_pos
       ELSE Taken /\ UNCHANGED heap_node
    /\ UNCHANGED <<heap_score, heap_out, heap_tied>>

Value(j) == IF j < HeapK THEN heap_node[j].score ELSE HeapHuge

LowerChildRightFirst(j) ==
    LET l == 2 * j + 1
        r == 2 * j + 2
    IN  IF Value(r) < Value(j) THEN r ELSE IF Value(l) < Value(j) THEN l ELSE j

(* Where the node at j goes: to a child that is below it and below the     *)
(* other child, or nowhere.                                                *)
LowerChild(j) ==
    LET l == 2 * j + 1
        r == 2 * j + 2
    IN  IF Value(l) < Value(j) /\ Value(l) < Value(r) THEN l
        ELSE IF Value(r) < Value(j) /\ Value(r) < Value(l) THEN r ELSE j

(* Both children are below it, and neither below the other. *)
EqualBelow(j) == Value(2 * j + 1) = Value(2 * j + 2) /\ Value(2 * j + 1) < Value(j)

(* An iteration of the loop that moves it down; it ends when c stays. *)
SiftDown ==
    /\ heap_pc = "down"
    /\ IF LowerChild(heap_c) # heap_c
       THEN /\ heap_node' = Swap(heap_c, LowerChild(heap_c)) /\ heap_c' = LowerChild(heap_c)
            /\ UNCHANGED <<heap_pos, heap_pc, heap_tied>>
       ELSE /\ Taken /\ UNCHANGED heap_node
            /\ heap_tied' = (heap_tied \/ EqualBelow(heap_c))
    /\ UNCHANGED <<heap_score, heap_out>>

WriteHeapIds ==
    /\ heap_pc = "next" /\ heap_pos = HeapN
    /\ heap_out' = [j \in HeapNodes |-> heap_node[j].id] /\ heap_pc' = "done"
    /\ UNCHANGED <<heap_score, heap_pos, heap_node, heap_c, heap_tied>>

HeapNext == Push \/ SiftUp \/ OfferScore \/ SiftDown \/ WriteHeapIds

HeapSpec == HeapInit /\ [][HeapNext]_heap_vars

--------------------------------------------------------------------------------
(* topk_minheap writes TOP_K different positions, a best one among them,   *)
(* and leaves out none whose score is above one of theirs, equal scores in *)
(* any places included; but for a sift-down that ended above two equal     *)
(* children, after which the root is not the least and only the first two  *)
(* hold.                                                                   *)
HeapTopK ==
    heap_pc = "done" =>
        /\ \A i, j \in HeapNodes : i # j => heap_out[i] # heap_out[j]
        /\ \A p \in HeapPositions : \E j \in HeapNodes : heap_score[p] <= heap_score[heap_out[j]]
        /\ ~heap_tied => \A p \in HeapPositions : \A j \in HeapNodes :
              (\A i \in HeapNodes : heap_out[i] # p) => heap_score[p] <= heap_score[heap_out[j]]

(* "replace root and heapify down": before a score is compared with the    *)
(* root of the full heap, no node is below the root.                       *)
RootIsLeast ==
    heap_pc = "next" /\ heap_pos >= HeapK =>
        \A j \in HeapNodes : heap_node[0].score <= heap_node[j].score
================================================================================
