------------------------------- MODULE TopKSelect ------------------------------
(***************************************************************************)
(* topk_parallel_cmp of the indexer kernels (bm25, dsa_indexer, lserve,    *)
(* seerattention): scores arrive in packs of 16; the first TOP_K fill the  *)
(* nodes, and from then on a score that beats the smallest one held takes  *)
(* its place.  The lines named are those of kernels/bm25/indexer_bm25.h.   *)
(*                                                                         *)
(* The comparator trees are modelled by what they find, an index of a      *)
(* smallest score: the kernels break ties in different ways, so here any   *)
(* such index may come out.  Scores are totally ordered (no NaN).          *)
(***************************************************************************)
EXTENDS Integers

CONSTANTS
    PackLanes, \* scores of a pack
    KPacks,    \* TOP_K / PackLanes
    Packs,     \* packs of a query: the values L allows
    Scores,    \* the scores there are
    Huge,      \* 1e15, what min_score starts from
    NumQuery   \* NUM_QUERY

ASSUME SelectAssumption ==
    /\ PackLanes \in Nat \ {0} /\ KPacks \in Nat \ {0} /\ NumQuery \in Nat \ {0}
    /\ Packs # {} /\ \A n \in Packs : n \in Nat /\ n >= KPacks
    /\ Scores # {} /\ Scores \subseteq Int /\ Huge \in Int
    /\ \A s \in Scores : s < Huge

K     == KPacks * PackLanes   \* TOP_K
Nodes == 0 .. K - 1
PackLane == 0 .. PackLanes - 1
Positions(n) == 0 .. n * PackLanes - 1

VARIABLES
    query,      \* q
    packs,      \* packs of this query
    score,      \* the scores of this query, by position in the stream
    pc,         \* "fill", "rest", "scan" (inside fast_check) or "done"
    taken,      \* packs gone through
    lane,       \* i of the scan
    node,       \* topk_node
    min_idx, min_score,
    out         \* the ids written for the query

vars == <<query, packs, score, pc, taken, lane, node, min_idx, min_score, out>>

Input == \E n \in Packs : packs' = n /\ score' \in [Positions(n) -> Scores]

Init ==
    /\ query = 0
    /\ packs \in Packs /\ score \in [Positions(packs) -> Scores]
    /\ pc = "fill" /\ taken = 0 /\ lane = 0
    /\ node = [j \in Nodes |-> [id |-> 0, score |-> Huge]]
    /\ min_idx = 0 /\ min_score = Huge
    /\ out = <<>>

(* A score of the pack being read, as a node. *)
Entry(p) == [id |-> p, score |-> score[p]]
At(i) == taken * PackLanes + i

(* The least of f over I. *)
MinAt(f, I) == {m \in I : \A j \in I : f[m].score <= f[j].score}

(* A pack goes to the nodes of its positions, and its own least score is   *)
(* compared with the least so far.                                         *)
FillPack ==
    /\ pc = "fill"
    /\ node' = [j \in Nodes |-> IF j \in At(0) .. At(PackLanes - 1) THEN Entry(j) ELSE node[j]]
    /\ \E m \in MinAt(node', At(0) .. At(PackLanes - 1)) :
          IF min_score > node'[m].score
          THEN min_score' = node'[m].score /\ min_idx' = m
          ELSE UNCHANGED <<min_score, min_idx>>
    /\ taken' = taken + 1
    /\ pc' = IF taken + 1 = KPacks THEN "rest" ELSE "fill"
    /\ UNCHANGED <<query, packs, score, lane, out>>

Beats(p) == score[p] > min_score

(* fast_check passes over a pack none of whose scores beats the minimum. *)
ReadPack ==
    /\ pc = "rest" /\ taken < packs
    /\ IF \E i \in PackLane : Beats(At(i))
       THEN pc' = "scan" /\ lane' = 0 /\ UNCHANGED taken
       ELSE taken' = taken + 1 /\ UNCHANGED <<pc, lane>>
    /\ UNCHANGED <<query, packs, score, node, min_idx, min_score, out>>

(* The nodes after position p took the place of the smallest. *)
Replaced(p) == [node EXCEPT ![min_idx] = Entry(p)]

SearchFirstPack == 0 .. PackLanes - 1

(* The nodes the comparator tree looks at. *)
Search == Nodes

(* The loop over the pack has another element to come. *)
MoreLanes == lane + 1 < PackLanes

(* One element of the scan: replace, and search for the minimum again.     *)
Compare ==
    /\ pc = "scan"
    /\ IF Beats(At(lane))
       THEN /\ node' = Replaced(At(lane))
            /\ \E m \in MinAt(node', Search) :
                  min_idx' = m /\ min_score' = node'[m].score
       ELSE UNCHANGED <<node, min_idx, min_score>>
    /\ IF MoreLanes
       THEN lane' = lane + 1 /\ UNCHANGED <<pc, taken>>
       ELSE pc' = "rest" /\ taken' = taken + 1 /\ lane' = 0
    /\ UNCHANGED <<query, packs, score, out>>

WriteIds ==
    /\ pc = "rest" /\ taken = packs
    /\ out' = [j \in Nodes |-> node[j].id]
    /\ pc' = "done"
    /\ UNCHANGED <<query, packs, score, taken, lane, node, min_idx, min_score>>

(* min_score at the start of a query. *)
MinReset == Huge

(* The next query; the nodes keep what they held. *)
NextQuery ==
    /\ pc = "done" /\ query + 1 < NumQuery
    /\ query' = query + 1 /\ Input
    /\ pc' = "fill" /\ taken' = 0 /\ lane' = 0
    /\ min_idx' = 0 /\ min_score' = MinReset
    /\ out' = <<>>
    /\ UNCHANGED node

Next == FillPack \/ ReadPack \/ Compare \/ WriteIds \/ NextQuery

Spec == Init /\ [][Next]_vars

--------------------------------------------------------------------------------
(* Types of every variable. *)
TypeOK ==
    /\ query \in 0 .. NumQuery - 1
    /\ packs \in Packs /\ score \in [Positions(packs) -> Scores]
    /\ pc \in {"fill", "rest", "scan", "done"}
    /\ taken \in 0 .. packs /\ lane \in PackLane
    /\ node \in [Nodes -> [id : Int, score : Scores \cup {Huge}]]
    /\ min_idx \in Nodes /\ min_score \in Scores \cup {Huge}

(* What topk_parallel_cmp writes are TOP_K different positions of the      *)
(* query's stream, and no position left out has a higher score than one of *)
(* them: whatever the order of the scores, the ties and the packs that     *)
(* fast_check skipped, and whatever the query before left behind.          *)
TopK ==
    pc = "done" =>
        /\ \A j \in Nodes : out[j] \in Positions(packs)
        /\ \A i, j \in Nodes : i # j => out[i] # out[j]
        /\ \A p \in Positions(packs) : \A j \in Nodes :
              (\A i \in Nodes : out[i] # p) => score[p] <= score[out[j]]

(* The scores gone through, and the nodes that hold some of them. *)
Seen == IF pc = "scan" THEN At(lane) ELSE At(0)
Held == IF pc = "fill" THEN 0 .. At(0) - 1 ELSE Nodes

(* The loop invariant: the nodes hold different positions gone through     *)
(* with their scores, min_idx is where the least of them is, and nothing   *)
(* that was dropped or passed over is above it.                            *)
Selected ==
    /\ pc = "fill" => taken < KPacks
    /\ pc # "fill" => taken >= KPacks
    /\ pc = "scan" => taken < packs
    /\ Held # {} => /\ min_idx \in Held /\ min_score = node[min_idx].score
                    /\ \A j \in Held : min_score <= node[j].score
    /\ Held = {} => min_score = Huge
    /\ \A j \in Held : /\ node[j].id \in 0 .. Seen - 1
                       /\ node[j].score = score[node[j].id]
                       /\ pc = "fill" => node[j].id = j
    /\ \A i, j \in Held : i # j => node[i].id # node[j].id
    /\ \A p \in 0 .. Seen - 1 :
          (\A j \in Held : node[j].id # p) => score[p] <= min_score
================================================================================
