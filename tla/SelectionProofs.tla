----------------------------- MODULE SelectionProofs -----------------------------
(***************************************************************************)
(* The selections.  TopKSelect, for every width of a pack, TOP_K, length   *)
(* of the stream, scores and number of queries: what is written are the    *)
(* best.  MoeGate, for any number of experts and any scores: the gate's    *)
(* choice and its weights.  MinHeapSelect, for a heap of any size and      *)
(* any scores, equal ones too.  Assignment, for any kernels, their         *)
(* inputs and outputs, profiles and transfer rates: the best devices.      *)
(***************************************************************************)
EXTENDS TopKSelect, MoeGate, MinHeapSelect, Assignment, FoldTheorems

--------------------------------------------------------------------------------
(* TopKSelect. *)

(* What was written is what the nodes held when the stream was through. *)
WrittenIds == pc = "done" => taken = packs /\ out = [j \in Nodes |-> node[j].id]

SelInv == TypeOK /\ Selected /\ WrittenIds

--------------------------------------------------------------------------------
(* Arithmetic of packs. *)

LEMMA PackStep ==
    ASSUME NEW t \in Nat, NEW L \in Nat
    PROVE  (t + 1) * L = t * L + L /\ t * L \in Nat
  OBVIOUS

LEMMA PackLess ==
    ASSUME NEW t \in Nat, NEW u \in Nat, NEW L \in Nat, t <= u
    PROVE  t * L <= u * L
<1>1. PICK d \in Nat : u = t + d
  <2>1. u - t \in Nat /\ u = t + (u - t)
    OBVIOUS
  <2>2. QED
    BY <2>1
<1>2. u * L = t * L + d * L /\ d * L \in Nat /\ t * L \in Nat
  BY <1>1
<1>3. QED
  BY <1>2

LEMMA Sizes == K \in Nat /\ K >= 1 /\ PackLanes \in Nat \ {0} /\ KPacks \in Nat \ {0}
<1>1. PackLanes \in Nat \ {0} /\ KPacks \in Nat \ {0}
  BY SelectAssumption
<1>2. 1 * PackLanes <= KPacks * PackLanes
  BY <1>1, PackLess
<1>3. QED
  BY <1>1, <1>2 DEF K

LEMMA SplitAt ==
    ASSUME NEW n \in Int, NEW m \in Nat
    PROVE  \A p \in 0 .. n - 1 : p \in 0 .. m - 1 \/ p \in m .. n - 1
  OBVIOUS

(* The pack being read, when another one is due. *)
LEMMA PackFits ==
    ASSUME NEW t \in Nat, NEW u \in Nat, t < u
    PROVE  t * PackLanes \in Nat /\ t * PackLanes + PackLanes <= u * PackLanes
<1>1. PackLanes \in Nat
  BY Sizes
<1>2. (t + 1) * PackLanes <= u * PackLanes
  BY <1>1, PackLess
<1>3. QED
  BY <1>1, <1>2, PackStep

LEMMA PacksNat == TypeOK => packs \in Nat /\ packs >= KPacks /\ taken \in Nat
  BY SelectAssumption DEF TypeOK

LEMMA HeldIn == TypeOK /\ Selected => Held \subseteq Nodes
<1> SUFFICES ASSUME TypeOK, Selected, pc = "fill" PROVE Held \subseteq Nodes
  BY DEF Held
<1>1. taken \in Nat /\ taken < KPacks
  BY PacksNat DEF Selected
<1>2. taken * PackLanes + PackLanes <= K /\ taken * PackLanes \in Nat
  BY <1>1, Sizes, PackFits DEF K
<1>3. QED
  BY <1>2, Sizes DEF Held, At, Nodes

LEMMA InitSel == Init => SelInv
<1> SUFFICES ASSUME Init PROVE SelInv
  OBVIOUS
<1>1. K >= 1 /\ K \in Nat /\ PackLanes >= 1 /\ PackLanes \in Nat /\ NumQuery \in Nat \ {0}
  BY Sizes, SelectAssumption
<1>2. packs \in Nat
  BY SelectAssumption DEF Init
<1>3. TypeOK
  <2>1. node \in [Nodes -> [id : Int, score : Scores \cup {Huge}]]
    BY DEF Init
  <2>2. 0 \in Nodes /\ 0 \in PackLane /\ 0 \in 0 .. packs /\ 0 \in 0 .. NumQuery - 1
    BY <1>1, <1>2 DEF Nodes, PackLane
  <2>3. QED
    BY <2>1, <2>2 DEF Init, TypeOK
<1>4. Held = {} /\ Seen = 0
  BY <1>1 DEF Init, Held, Seen, At
<1>5. 0 < KPacks
  BY SelectAssumption
<1>6. Selected
  BY <1>4, <1>5 DEF Init, Selected
<1>7. QED
  BY <1>3, <1>6 DEF SelInv, WrittenIds, Init

--------------------------------------------------------------------------------
(* One lemma per step. *)

LEMMA FillPackSel == SelInv /\ FillPack => SelInv'
<1> SUFFICES ASSUME SelInv, FillPack PROVE SelInv'
  OBVIOUS
<1> DEFINE b == taken * PackLanes
           New == b .. b + PackLanes - 1
<1>1. /\ PackLanes \in Nat \ {0} /\ KPacks \in Nat \ {0} /\ K \in Nat
      /\ taken \in Nat /\ packs \in Nat /\ packs >= KPacks
  BY Sizes, PacksNat DEF SelInv
<1>2. pc = "fill" /\ taken < KPacks
  BY DEF FillPack, SelInv, Selected
<1>3. b \in Nat /\ b + PackLanes <= K /\ b + PackLanes <= packs * PackLanes
  BY <1>1, <1>2, PackFits DEF K
<1>4. At(0) = b /\ At(PackLanes - 1) = b + PackLanes - 1 /\ Seen = b /\ Held = 0 .. b - 1
  BY <1>1, <1>2, <1>3 DEF At, Seen, Held
<1>5. /\ taken' = taken + 1 /\ UNCHANGED <<query, packs, score, lane, out>>
      /\ pc' = IF taken + 1 = KPacks THEN "rest" ELSE "fill"
      /\ node' = [j \in Nodes |-> IF j \in New THEN Entry(j) ELSE node[j]]
  BY <1>4 DEF FillPack
<1>6. PICK m \in MinAt(node', New) :
          IF min_score > node'[m].score
          THEN min_score' = node'[m].score /\ min_idx' = m
          ELSE UNCHANGED <<min_score, min_idx>>
  BY <1>4 DEF FillPack
<1>7. (taken + 1) * PackLanes = b + PackLanes
  BY <1>1, PackStep
<1>8. Seen' = b + PackLanes
  BY <1>1, <1>3, <1>5, <1>7 DEF Seen, At
<1>9. Held' = 0 .. b + PackLanes - 1
  <2>1. CASE taken + 1 = KPacks
    <3>1. K = b + PackLanes
      BY <1>7, <2>1 DEF K
    <3>2. Held' = Nodes
      BY <1>5, <2>1 DEF Held
    <3>3. b + PackLanes - 1 = K - 1
      BY <1>1, <1>3, <3>1
    <3>4. QED
      BY <3>2, <3>3 DEF Nodes
  <2>2. CASE taken + 1 # KPacks
    <3>1. pc' = "fill" /\ taken' * PackLanes = b + PackLanes
      BY <1>5, <1>7, <2>2
    <3>2. QED
      BY <1>1, <1>3, <3>1 DEF Held, At
  <2>3. QED
    BY <2>1, <2>2
<1>10. /\ node \in [Nodes -> [id : Int, score : Scores \cup {Huge}]]
       /\ score \in [Positions(packs) -> Scores] /\ min_idx \in Nodes
       /\ min_score \in Scores \cup {Huge}
  BY DEF SelInv, TypeOK
<1>11. New \subseteq Nodes /\ New \subseteq Positions(packs)
  BY <1>1, <1>3 DEF Nodes, Positions
<1>12. \A j \in New : node'[j].id = j /\ node'[j].score = score[j] /\ score[j] \in Scores
  BY <1>5, <1>10, <1>11 DEF Entry
<1>13. \A j \in Held : node'[j] = node[j]
  <2>1. \A j \in Held : j \in Nodes /\ j \notin New
    BY <1>1, <1>3, <1>4 DEF Nodes
  <2>2. QED
    BY <1>5, <2>1
<1>14. /\ m \in New /\ node'[m].score \in Scores
       /\ \A j \in New : node'[m].score <= node'[j].score
  BY <1>6, <1>12 DEF MinAt
<1>15. \A s \in Scores \cup {Huge} : s \in Int
  BY SelectAssumption
<1>16. TypeOK'
  <2>1. node' \in [Nodes -> [id : Int, score : Scores \cup {Huge}]]
    <3>1. \A j \in New : j \in Int /\ score[j] \in Scores
      BY <1>3, <1>12
    <3>2. \A j \in New : Entry(j) \in [id : Int, score : Scores \cup {Huge}]
      BY <3>1 DEF Entry
    <3>3. QED
      BY <1>5, <1>10, <3>2
  <2>2. min_idx' \in Nodes /\ min_score' \in Scores \cup {Huge}
    BY <1>6, <1>10, <1>11, <1>14
  <2>3. taken' \in 0 .. packs' /\ pc' \in {"rest", "fill"}
    BY <1>1, <1>2, <1>5
  <2>4. query' \in 0 .. NumQuery - 1 /\ packs' \in Packs /\ lane' \in PackLane
        /\ score' \in [Positions(packs') -> Scores]
    BY <1>5 DEF SelInv, TypeOK
  <2>5. QED
    BY <2>1, <2>2, <2>3, <2>4 DEF TypeOK
<1>17. \A j \in Held : /\ node[j].id = j /\ node[j].score = score[j]
                       /\ node[j].score \in Scores
  <2>1. \A j \in Held : node[j].id = j /\ node[j].score = score[j]
    BY <1>2 DEF SelInv, Selected
  <2>2. Held \subseteq Positions(packs)
    BY <1>1, <1>3, <1>4 DEF Positions
  <2>3. QED
    BY <1>10, <2>1, <2>2
<1>18. \A j \in Held' : j \in Held \/ j \in New
  BY <1>1, <1>3, <1>4, <1>9
<1>19. \A j \in Held' : node'[j].id = j /\ node'[j].score = score[j] /\ score[j] \in Scores
  BY <1>12, <1>13, <1>17, <1>18
<1>20. /\ min_idx' \in Held' /\ min_score' = node'[min_idx'].score
       /\ \A j \in Held' : min_score' <= node'[j].score
  <2>1. m \in Held'
    BY <1>3, <1>9, <1>14
  <2>2. Held \subseteq Held'
    BY <1>1, <1>3, <1>4, <1>9
  <2>3. CASE Held = {}
    <3>1. min_score = Huge
      BY <2>3 DEF SelInv, Selected
    <3>2. Huge > node'[m].score
      BY <1>14, SelectAssumption
    <3>3. min_score' = node'[m].score /\ min_idx' = m
      BY <1>6, <3>1, <3>2
    <3>4. QED
      BY <1>14, <1>18, <2>1, <2>3, <3>3
  <2>4. CASE Held # {}
    <3>1. /\ min_idx \in Held /\ min_score = node[min_idx].score
          /\ \A j \in Held : min_score <= node[j].score
      BY <2>4 DEF SelInv, Selected
    <3>2. \A j \in Held : min_score <= node'[j].score /\ node'[j].score \in Scores
      BY <1>13, <1>17, <3>1
    <3>3. min_score = node'[min_idx].score /\ min_score \in Scores
      BY <1>13, <1>17, <3>1
    <3>4. CASE min_score > node'[m].score
      <4>1. min_score' = node'[m].score /\ min_idx' = m
        BY <1>6, <3>4
      <4>2. \A j \in Held : min_score' <= node'[j].score
        BY <1>14, <1>15, <3>2, <3>3, <3>4, <4>1
      <4>3. QED
        BY <1>14, <1>18, <2>1, <4>1, <4>2
    <3>5. CASE ~(min_score > node'[m].score)
      <4>1. min_score' = min_score /\ min_idx' = min_idx
        BY <1>6, <3>5
      <4>2. \A j \in New : node'[j].score \in Scores
        BY <1>12
      <4>3. \A j \in New : min_score' <= node'[j].score
        BY <1>14, <1>15, <3>3, <3>5, <4>1, <4>2
      <4>4. QED
        BY <1>18, <2>2, <3>1, <3>2, <3>3, <4>1, <4>3
    <3>6. QED
      BY <3>4, <3>5
  <2>5. QED
    BY <2>3, <2>4
<1>21. Selected'
  <2>1. pc' = "fill" => taken' < KPacks
    BY <1>1, <1>2, <1>5
  <2>2. pc' # "fill" => taken' >= KPacks
    BY <1>1, <1>2, <1>5
  <2>3. pc' # "scan"
    BY <1>5
  <2>4. Held' = 0 .. Seen' - 1 /\ Held' # {}
    BY <1>1, <1>3, <1>8, <1>9
  <2>5. \A j \in Held' : /\ node'[j].id \in 0 .. Seen' - 1
                         /\ node'[j].score = score'[node'[j].id]
                         /\ node'[j].id = j
    BY <1>5, <1>19, <2>4
  <2>6. \A i, j \in Held' : i # j => node'[i].id # node'[j].id
    BY <2>5
  <2>7. \A p \in 0 .. Seen' - 1 : \E j \in Held' : node'[j].id = p
    BY <2>4, <2>5
  <2>8. QED
    BY <1>20, <2>1, <2>2, <2>3, <2>4, <2>5, <2>6, <2>7 DEF Selected
<1>22. WrittenIds'
  BY <1>5 DEF WrittenIds
<1>23. QED
  BY <1>16, <1>21, <1>22 DEF SelInv

LEMMA ReadPackSel == SelInv /\ ReadPack => SelInv'
<1> SUFFICES ASSUME SelInv, ReadPack PROVE SelInv'
  OBVIOUS
<1> DEFINE b == taken * PackLanes
<1>1. /\ PackLanes \in Nat \ {0} /\ KPacks \in Nat \ {0} /\ K \in Nat
      /\ taken \in Nat /\ packs \in Nat /\ taken < packs /\ b \in Nat
  BY Sizes, PacksNat, PackStep DEF SelInv, ReadPack
<1>2. /\ UNCHANGED <<query, packs, score, node, min_idx, min_score, out>>
      /\ pc = "rest" /\ taken >= KPacks
  BY DEF ReadPack, SelInv, Selected
<1>3. Held = Nodes /\ Seen = b
  BY <1>1, <1>2 DEF Held, Seen, At
<1>4. /\ \/ pc' = "scan" /\ lane' = 0 /\ taken' = taken
         \/ /\ taken' = taken + 1 /\ pc' = pc /\ lane' = lane
            /\ \A i \in PackLane : ~Beats(At(i))
  BY DEF ReadPack
<1>5. Held' = Nodes /\ pc' \in {"rest", "scan"}
  BY <1>2, <1>4 DEF Held
<1>6. /\ node \in [Nodes -> [id : Int, score : Scores \cup {Huge}]]
      /\ score \in [Positions(packs) -> Scores] /\ lane \in PackLane
      /\ query \in 0 .. NumQuery - 1 /\ packs \in Packs
      /\ min_idx \in Nodes /\ min_score \in Scores \cup {Huge} /\ min_score \in Int
  BY SelectAssumption DEF SelInv, TypeOK
<1>7. b + PackLanes <= packs * PackLanes
  BY <1>1, PackFits
<1>8. TypeOK'
  <2>1. taken' \in 0 .. packs' /\ lane' \in PackLane
    BY <1>1, <1>2, <1>4, <1>6 DEF PackLane
  <2>2. QED
    BY <1>2, <1>5, <1>6, <2>1 DEF TypeOK
<1>9. /\ Seen' \in Int /\ Seen' >= b
      /\ \A p \in b .. Seen' - 1 : score[p] <= min_score
  <2>1. CASE pc' = "scan" /\ lane' = 0 /\ taken' = taken
    <3>1. Seen' = b
      BY <1>1, <2>1 DEF Seen, At
    <3>2. QED
      BY <1>1, <3>1
  <2>2. CASE /\ taken' = taken + 1 /\ pc' = pc /\ lane' = lane
             /\ \A i \in PackLane : ~Beats(At(i))
    <3>1. Seen' = b + PackLanes
      <4>1. (taken + 1) * PackLanes = b + PackLanes
        BY <1>1, PackStep
      <4>2. QED
        BY <1>1, <1>2, <2>2, <4>1 DEF Seen, At
    <3>2. ASSUME NEW p \in b .. b + PackLanes - 1
          PROVE  score[p] <= min_score
      <4>1. p - b \in PackLane /\ At(p - b) = p
        BY <1>1 DEF PackLane, At
      <4>2. ~(score[p] > min_score)
        BY <2>2, <4>1 DEF Beats
      <4>3. p \in Positions(packs)
        BY <1>1, <1>7 DEF Positions
      <4>4. score[p] \in Int
        BY <1>6, <4>3, SelectAssumption
      <4>5. QED
        BY <1>6, <4>2, <4>4
    <3>3. QED
      BY <1>1, <3>1, <3>2
  <2>3. QED
    BY <1>4, <2>1, <2>2
<1>10. Selected'
  <2>1. pc' # "fill" /\ taken' >= KPacks /\ (pc' = "scan" => taken' < packs')
    BY <1>1, <1>2, <1>4
  <2>2. Nodes # {}
    BY Sizes DEF Nodes
  <2>3. /\ min_score' = node'[min_idx'].score /\ min_idx' \in Nodes
        /\ \A j \in Nodes : min_score' <= node'[j].score
        /\ \A i, j \in Nodes : i # j => node'[i].id # node'[j].id
    BY <1>2, <1>3, <2>2 DEF SelInv, Selected
  <2>4. \A j \in Nodes : /\ node'[j].id \in 0 .. Seen' - 1
                         /\ node'[j].score = score'[node'[j].id]
    <3>1. \A j \in Nodes : node[j].id \in 0 .. b - 1 /\ node[j].score = score[node[j].id]
      BY <1>3 DEF SelInv, Selected
    <3>2. QED
      BY <1>1, <1>2, <1>9, <3>1
  <2>5. \A p \in 0 .. Seen' - 1 :
           (\A j \in Nodes : node'[j].id # p) => score'[p] <= min_score'
    <3>1. \A p \in 0 .. b - 1 : (\A j \in Nodes : node[j].id # p) => score[p] <= min_score
      BY <1>3 DEF SelInv, Selected
    <3>2. \A p \in 0 .. Seen' - 1 : p \in 0 .. b - 1 \/ p \in b .. Seen' - 1
      <4>1. Seen' \in Int /\ b \in Nat
        BY <1>1, <1>9
      <4>2. QED
        BY <4>1, SplitAt
    <3>3. QED
      BY <1>2, <1>9, <3>1, <3>2
  <2>6. QED
    BY <1>5, <2>1, <2>2, <2>3, <2>4, <2>5 DEF Selected
<1>11. WrittenIds'
  BY <1>5 DEF WrittenIds
<1>12. QED
  BY <1>8, <1>10, <1>11 DEF SelInv

LEMMA CompareSel == SelInv /\ Compare => SelInv'
<1> SUFFICES ASSUME SelInv, Compare PROVE SelInv'
  OBVIOUS
<1> DEFINE p == taken * PackLanes + lane
<1>1. /\ PackLanes \in Nat \ {0} /\ KPacks \in Nat \ {0} /\ K \in Nat
      /\ taken \in Nat /\ packs \in Nat /\ taken < packs /\ taken * PackLanes \in Nat
      /\ lane \in PackLane /\ lane \in Nat /\ lane < PackLanes /\ taken >= KPacks /\ pc = "scan"
  BY Sizes, PacksNat, PackStep DEF SelInv, Selected, TypeOK, Compare, PackLane
<1>2. UNCHANGED <<query, packs, score, out>>
  BY DEF Compare
<1>3. Held = Nodes /\ Seen = p /\ At(lane) = p /\ p \in Nat
  BY <1>1 DEF Held, Seen, At
<1>4. \/ lane + 1 < PackLanes /\ lane' = lane + 1 /\ pc' = pc /\ taken' = taken
      \/ lane + 1 = PackLanes /\ pc' = "rest" /\ taken' = taken + 1 /\ lane' = 0
  BY <1>1 DEF Compare, MoreLanes
<1>5. Held' = Nodes /\ Seen' = p + 1 /\ pc' \in {"rest", "scan"} /\ taken' >= KPacks
      /\ (pc' = "scan" => taken' < packs') /\ taken' \in 0 .. packs' /\ lane' \in PackLane
  <2>1. (taken + 1) * PackLanes = taken * PackLanes + PackLanes
    BY <1>1, PackStep
  <2>2. CASE lane + 1 < PackLanes /\ lane' = lane + 1 /\ pc' = pc /\ taken' = taken
    <3>1. lane' \in PackLane
      BY <1>1, <2>2 DEF PackLane
    <3>2. QED
      BY <1>1, <1>2, <2>2, <3>1 DEF Held, Seen, At
  <2>3. CASE lane + 1 = PackLanes /\ pc' = "rest" /\ taken' = taken + 1 /\ lane' = 0
    <3>1. lane' \in PackLane
      BY <1>1, <2>3 DEF PackLane
    <3>2. QED
      BY <1>1, <1>2, <2>1, <2>3, <3>1 DEF Held, Seen, At
  <2>4. QED
    BY <1>4, <2>2, <2>3
<1>6. /\ node \in [Nodes -> [id : Int, score : Scores \cup {Huge}]]
      /\ score \in [Positions(packs) -> Scores]
      /\ query \in 0 .. NumQuery - 1 /\ packs \in Packs
      /\ min_idx \in Nodes /\ min_score \in Scores \cup {Huge} /\ min_score \in Int
  BY SelectAssumption DEF SelInv, TypeOK
<1>7. p \in Positions(packs) /\ score[p] \in Scores /\ score[p] \in Int
  <2>1. p \in Positions(packs)
    BY <1>1, PackFits DEF Positions
  <2>2. QED
    BY <1>6, <2>1, SelectAssumption
<1>8. /\ min_score = node[min_idx].score /\ \A j \in Nodes : min_score <= node[j].score
      /\ \A i, j \in Nodes : i # j => node[i].id # node[j].id
      /\ \A j \in Nodes : node[j].id \in 0 .. p - 1 /\ node[j].score = score[node[j].id]
      /\ \A q \in 0 .. p - 1 : (\A j \in Nodes : node[j].id # q) => score[q] <= min_score
  BY <1>1, <1>3, <1>6 DEF SelInv, Selected
<1>9. Nodes # {} /\ \A q \in 0 .. p : q = p \/ q \in 0 .. p - 1
  BY <1>3, <1>6
<1>10. CASE ~Beats(p)
  <2>1. node' = node /\ min_idx' = min_idx /\ min_score' = min_score
    BY <1>3, <1>10 DEF Compare
  <2>2. score[p] <= min_score
    BY <1>6, <1>7, <1>10 DEF Beats
  <2>3. TypeOK'
    BY <1>2, <1>5, <1>6, <2>1 DEF TypeOK
  <2>4. \A q \in 0 .. Seen' - 1 :
           (\A j \in Nodes : node'[j].id # q) => score'[q] <= min_score'
    BY <1>2, <1>3, <1>5, <1>8, <1>9, <2>1, <2>2
  <2>5. \A j \in Nodes : node'[j].id \in 0 .. Seen' - 1
    BY <1>3, <1>5, <1>8, <2>1
  <2>6. Selected'
    BY <1>2, <1>5, <1>6, <1>8, <2>1, <2>4, <2>5 DEF Selected
  <2>7. QED
    BY <1>5, <2>3, <2>6 DEF SelInv, WrittenIds
<1>11. CASE Beats(p)
  <2>1. node' = [node EXCEPT ![min_idx] = Entry(p)]
    BY <1>3, <1>11 DEF Compare, Replaced
  <2>2. PICK m \in MinAt(node', Nodes) : min_idx' = m /\ min_score' = node'[m].score
    BY <1>3, <1>11 DEF Compare, Search
  <2>3. score[p] > min_score
    BY <1>11 DEF Beats
  <2>4. /\ node'[min_idx].id = p /\ node'[min_idx].score = score[p]
        /\ \A j \in Nodes \ {min_idx} : node'[j] = node[j]
    BY <1>6, <2>1 DEF Entry
  <2>5. node' \in [Nodes -> [id : Int, score : Scores \cup {Huge}]]
    <3>1. Entry(p) \in [id : Int, score : Scores \cup {Huge}]
      BY <1>3, <1>7 DEF Entry
    <3>2. QED
      BY <1>6, <2>1, <3>1
  <2>6. /\ m \in Nodes /\ \A j \in Nodes : node'[m].score <= node'[j].score
        /\ node'[m].score \in Scores \cup {Huge}
    BY <2>2, <2>5 DEF MinAt
  <2>7. TypeOK'
    BY <1>2, <1>5, <1>6, <2>2, <2>5, <2>6 DEF TypeOK
  <2>8. \A j \in Nodes : /\ node'[j].id \in 0 .. Seen' - 1
                         /\ node'[j].score = score'[node'[j].id]
    BY <1>2, <1>3, <1>5, <1>8, <2>4
  <2>9. \A i, j \in Nodes : i # j => node'[i].id # node'[j].id
    <3>1. \A j \in Nodes \ {min_idx} : node'[j].id # p /\ node'[j].id = node[j].id
      BY <1>3, <1>8, <2>4
    <3>2. QED
      BY <1>8, <2>4, <3>1
  <2>10. min_score <= min_score'
    <3>1. node'[m].score \in Int
      BY <2>6, SelectAssumption
    <3>2. CASE m = min_idx
      BY <1>6, <1>7, <2>2, <2>3, <2>4, <3>2
    <3>3. CASE m # min_idx
      BY <1>8, <2>2, <2>4, <2>6, <3>3
    <3>4. QED
      BY <3>2, <3>3
  <2>11. ASSUME NEW q \in 0 .. p, \A j \in Nodes : node'[j].id # q
         PROVE  score[q] <= min_score'
    <3>1. q # p /\ q \in 0 .. p - 1
      BY <1>6, <1>9, <2>4, <2>11
    <3>2. q \in Positions(packs)
      <4>1. p < packs * PackLanes /\ packs * PackLanes \in Nat
        BY <1>1, <1>7, PackStep DEF Positions
      <4>2. QED
        BY <1>3, <3>1, <4>1 DEF Positions
    <3>3. score[q] \in Int /\ min_score' \in Int
      BY <1>6, <2>2, <2>6, <3>2, SelectAssumption
    <3>4. score[q] <= min_score
      <4>1. CASE node[min_idx].id = q
        BY <1>6, <1>8, <3>3, <4>1
      <4>2. CASE node[min_idx].id # q
        <5>1. \A j \in Nodes : node[j].id # q
          BY <2>4, <2>11, <4>2
        <5>2. QED
          BY <1>8, <3>1, <5>1
      <4>3. QED
        BY <4>1, <4>2
    <3>5. QED
      BY <1>6, <2>10, <3>3, <3>4
  <2>12. \A q \in 0 .. Seen' - 1 :
            (\A j \in Nodes : node'[j].id # q) => score'[q] <= min_score'
    BY <1>2, <1>3, <1>5, <2>11
  <2>13. Selected'
    BY <1>5, <1>9, <2>2, <2>6, <2>8, <2>9, <2>12 DEF Selected
  <2>14. QED
    BY <1>5, <2>7, <2>13 DEF SelInv, WrittenIds
<1>12. QED
  BY <1>10, <1>11

LEMMA WriteIdsSel == SelInv /\ WriteIds => SelInv'
<1> SUFFICES ASSUME SelInv, WriteIds PROVE SelInv'
  OBVIOUS
<1>1. /\ UNCHANGED <<query, packs, score, taken, lane, node, min_idx, min_score>>
      /\ pc = "rest" /\ pc' = "done" /\ taken = packs /\ out' = [j \in Nodes |-> node[j].id]
  BY DEF WriteIds
<1>2. Held' = Held /\ Seen' = Seen
  BY <1>1 DEF Held, Seen, At
<1>3. TypeOK'
  BY <1>1 DEF SelInv, TypeOK
<1>4. Selected'
  BY <1>1, <1>2 DEF SelInv, Selected
<1>5. WrittenIds'
  BY <1>1 DEF WrittenIds
<1>6. QED
  BY <1>3, <1>4, <1>5 DEF SelInv

LEMMA NextQuerySel == SelInv /\ NextQuery => SelInv'
<1> SUFFICES ASSUME SelInv, NextQuery PROVE SelInv'
  OBVIOUS
<1>1. /\ query' = query + 1 /\ query + 1 < NumQuery
      /\ pc' = "fill" /\ taken' = 0 /\ lane' = 0 /\ node' = node
      /\ min_idx' = 0 /\ min_score' = Huge
      /\ packs' \in Packs /\ score' \in [Positions(packs') -> Scores]
  BY DEF NextQuery, Input, MinReset
<1>2. K >= 1 /\ K \in Nat /\ PackLanes >= 1 /\ PackLanes \in Nat /\ 0 < KPacks
      /\ packs' \in Nat /\ NumQuery \in Nat
  BY <1>1, Sizes, SelectAssumption
<1>3. TypeOK'
  <2>1. query \in 0 .. NumQuery - 1 /\ node \in [Nodes -> [id : Int, score : Scores \cup {Huge}]]
    BY DEF SelInv, TypeOK
  <2>2. 0 \in Nodes /\ 0 \in PackLane /\ 0 \in 0 .. packs' /\ query + 1 \in 0 .. NumQuery - 1
    BY <1>1, <1>2, <2>1 DEF Nodes, PackLane
  <2>3. QED
    BY <1>1, <2>1, <2>2 DEF TypeOK
<1>4. Held' = {} /\ Seen' = 0
  BY <1>1, <1>2 DEF Held, Seen, At
<1>5. Selected'
  BY <1>1, <1>2, <1>4 DEF Selected
<1>6. WrittenIds'
  BY <1>1 DEF WrittenIds
<1>7. QED
  BY <1>3, <1>5, <1>6 DEF SelInv

LEMMA StepSel == SelInv /\ [Next]_vars => SelInv'
<1> SUFFICES ASSUME SelInv, [Next]_vars PROVE SelInv'
  OBVIOUS
<1>1. CASE FillPack
  BY <1>1, FillPackSel
<1>2. CASE ReadPack
  BY <1>2, ReadPackSel
<1>3. CASE Compare
  BY <1>3, CompareSel
<1>4. CASE WriteIds
  BY <1>4, WriteIdsSel
<1>5. CASE NextQuery
  BY <1>5, NextQuerySel
<1>6. CASE UNCHANGED vars
  <2>1. Held' = Held /\ Seen' = Seen
    BY <1>6 DEF vars, Held, Seen, At
  <2>2. TypeOK' /\ WrittenIds'
    BY <1>6 DEF vars, SelInv, TypeOK, WrittenIds
  <2>3. Selected'
    BY <1>6, <2>1 DEF vars, SelInv, Selected
  <2>4. QED
    BY <2>2, <2>3 DEF SelInv
<1>7. QED
  BY <1>1, <1>2, <1>3, <1>4, <1>5, <1>6 DEF Next

LEMMA SelInvTopK == SelInv => TopK
<1> SUFFICES ASSUME SelInv, pc = "done" PROVE TopK
  BY DEF TopK
<1>1. /\ taken = packs /\ out = [j \in Nodes |-> node[j].id]
      /\ packs * PackLanes \in Nat
  BY Sizes, PacksNat, PackStep DEF SelInv, WrittenIds
<1>2. Held = Nodes /\ Seen = packs * PackLanes /\ 0 .. Seen - 1 = Positions(packs)
  BY <1>1 DEF Held, Seen, At, Positions
<1>3. /\ \A j \in Nodes : min_score <= node[j].score
      /\ \A i, j \in Nodes : i # j => node[i].id # node[j].id
      /\ \A j \in Nodes : node[j].id \in Positions(packs) /\ node[j].score = score[node[j].id]
      /\ \A p \in Positions(packs) :
            (\A j \in Nodes : node[j].id # p) => score[p] <= min_score
  BY <1>2 DEF SelInv, Selected
<1>4. \A j \in Nodes : out[j] = node[j].id
  BY <1>1
<1>5. ASSUME NEW p \in Positions(packs), NEW j \in Nodes, \A i \in Nodes : out[i] # p
      PROVE  score[p] <= score[out[j]]
  <2>1. score[p] <= min_score /\ min_score <= score[out[j]]
    BY <1>3, <1>4, <1>5
  <2>2. score[p] \in Int /\ score[out[j]] \in Int /\ min_score \in Int
    BY <1>3, <1>4, SelectAssumption DEF SelInv, TypeOK
  <2>3. QED
    BY <2>1, <2>2
<1>6. QED
  BY <1>3, <1>4, <1>5 DEF TopK

(* topk_parallel_cmp writes the TOP_K best positions of every query, for   *)
(* every TOP_K and length that are whole packs and every order of scores;  *)
(* at any moment the nodes hold the best positions seen so far.            *)
THEOREM BestSelected == Spec => [](TypeOK /\ Selected /\ TopK)
<1>1. SelInv => TypeOK /\ Selected /\ TopK
  BY SelInvTopK DEF SelInv
<1>2. QED
  BY InitSel, StepSel, <1>1, PTL DEF Spec

--------------------------------------------------------------------------------
(* MoeGate. *)

Ids(h, n) == h .. h + n - 1

(* What a half holds when n of its experts have been looked at. *)
Holds(held, h, n) ==
    /\ held = [ids |-> held.ids, min |-> held.min]
    /\ held.ids \in [Places -> Ids(h, n)] /\ held.min \in Places
    /\ \A i, j \in Places : i # j => held.ids[i] # held.ids[j]

(* ... and that they are the best of them. *)
Best(held, h, n) ==
    /\ Holds(held, h, n)
    /\ \A i \in Places : scores[held.ids[held.min]] <= scores[held.ids[i]]
    /\ \A e \in Ids(h, n) :
          (\A i \in Places : held.ids[i] # e) => scores[e] <= scores[held.ids[held.min]]

Rounds == LocalExperts \div LocalK

GInv ==
    /\ scores \in [Experts -> Int] /\ local_expert_base \in Halves
    /\ r \in 0 .. Rounds + 1
    /\ DOMAIN top = Halves
    /\ r = 0 => \A h \in Halves : Holds(top[h], h, LocalK)
    /\ r \in 1 .. Rounds => \A h \in Halves : Best(top[h], h, r * LocalK)
    /\ r > Rounds => \A h \in Halves : Best(top[h], h, LocalExperts)
    /\ r <= Rounds => pkt = None
    /\ r > Rounds =>
          /\ pkt.ids = [i \in 1 .. LocalK |-> top[local_expert_base].ids[i - 1]]
          /\ pkt.weights = [i \in 1 .. LocalK |->
                IF Wsum > 0 THEN <<scores[pkt.ids[i]], Wsum>> ELSE <<0, 1>>]

LEMMA GateSizes ==
    ASSUME GateAssumption
    PROVE  /\ LocalExperts \in Nat /\ Rounds \in Nat /\ Rounds > 0
           /\ LocalExperts = Rounds * LocalK
           /\ Places = {0, 1, 2, 3} /\ LocalK = 4
           /\ \A h \in Halves : h \in Nat /\ Ids(h, LocalExperts) \subseteq Experts
<1>1. LocalExperts \in Nat \ {0} /\ LocalExperts % 4 = 0
  BY DEF GateAssumption, LocalK
<1>2. LocalExperts \div 4 \in Nat /\ LocalExperts = (LocalExperts \div 4) * 4
  BY <1>1
<1>3. LocalExperts \div 4 > 0
  BY <1>1, <1>2
<1>4. Places = {0, 1, 2, 3}
  BY DEF Places, LocalK
<1>5. QED
  BY <1>1, <1>2, <1>3, <1>4 DEF Rounds, LocalK, Halves, Experts, Ids

(* The comparator tree finds a least score. *)
LEMMA MinPlaceIs ==
    ASSUME GateAssumption, NEW ids, \A i \in Places : scores[ids[i]] \in Int
    PROVE  /\ MinPlace(ids) \in Places
           /\ \A i \in Places : scores[ids[MinPlace(ids)]] <= scores[ids[i]]
<1>1. Places = {0, 1, 2, 3}
  BY GateSizes
<1>2. \A i, j \in Places :
          /\ Lower(ids, i, j) \in {i, j}
          /\ scores[ids[Lower(ids, i, j)]] <= scores[ids[i]]
          /\ scores[ids[Lower(ids, i, j)]] <= scores[ids[j]]
  BY DEF Lower
<1> DEFINE a == Lower(ids, 0, 1)
           b == Lower(ids, 2, 3)
<1>3. /\ a \in {0, 1} /\ scores[ids[a]] <= scores[ids[0]] /\ scores[ids[a]] <= scores[ids[1]]
      /\ b \in {2, 3} /\ scores[ids[b]] <= scores[ids[2]] /\ scores[ids[b]] <= scores[ids[3]]
  BY <1>1, <1>2
<1> HIDE DEF a, b
<1>4. /\ Lower(ids, a, b) \in {a, b}
      /\ scores[ids[Lower(ids, a, b)]] <= scores[ids[a]]
      /\ scores[ids[Lower(ids, a, b)]] <= scores[ids[b]]
  BY <1>1, <1>2, <1>3
<1>5. MinPlace(ids) = Lower(ids, a, b)
  BY DEF MinPlace, a, b
<1>6. QED
  BY <1>1, <1>3, <1>4, <1>5

(* One more candidate. *)
LEMMA OfferBest ==
    ASSUME GateAssumption, NEW h \in Nat, NEW n \in Nat, NEW held, Best(held, h, n),
           \A e \in Ids(h, n + 1) : scores[e] \in Int
    PROVE  Best(Offer(held, h + n), h, n + 1)
<1> DEFINE e == h + n
<1>1. /\ held = [ids |-> held.ids, min |-> held.min]
      /\ held.ids \in [Places -> Ids(h, n)] /\ held.min \in Places
      /\ \A i, j \in Places : i # j => held.ids[i] # held.ids[j]
      /\ \A i \in Places : scores[held.ids[held.min]] <= scores[held.ids[i]]
      /\ \A d \in Ids(h, n) :
            (\A i \in Places : held.ids[i] # d) => scores[d] <= scores[held.ids[held.min]]
  BY DEF Best, Holds
<1>2. /\ Ids(h, n + 1) = Ids(h, n) \cup {e} /\ e \notin Ids(h, n)
  BY DEF Ids
<1> HIDE DEF e
<1>3. held.ids \in [Places -> Ids(h, n + 1)]
  BY <1>1, <1>2
<1>4. CASE ~BeatsLeast(held, e)
  <2>1. scores[e] <= scores[held.ids[held.min]]
    BY <1>1, <1>2, <1>3, <1>4 DEF BeatsLeast
  <2>2. Best(held, h, n + 1)
    BY <1>1, <1>2, <1>3, <2>1 DEF Best, Holds
  <2>3. QED
    BY <1>4, <2>2 DEF Offer, e
<1>5. CASE BeatsLeast(held, e)
  <2> DEFINE ids == [held.ids EXCEPT ![held.min] = e]
             new == [ids |-> ids, min |-> MinPlace(ids)]
  <2>1. /\ ids \in [Places -> Ids(h, n + 1)]
        /\ \A i \in Places : ids[i] = IF i = held.min THEN e ELSE held.ids[i]
    BY <1>1, <1>2, <1>3
  <2> HIDE DEF ids
  <2>2. \A i \in Places : scores[ids[i]] \in Int
    BY <2>1
  <2>3. /\ MinPlace(ids) \in Places
        /\ \A i \in Places : scores[ids[MinPlace(ids)]] <= scores[ids[i]]
    BY <2>2, MinPlaceIs
  <2>4. \A i, j \in Places : i # j => ids[i] # ids[j]
    BY <1>1, <1>2, <2>1
  <2>5. Holds(new, h, n + 1)
    BY <2>1, <2>3, <2>4 DEF Holds
  <2>6. \A i \in Places : scores[held.ids[held.min]] <= scores[ids[i]]
    BY <1>1, <1>2, <1>3, <1>5, <2>1 DEF BeatsLeast
  <2>7. ASSUME NEW d \in Ids(h, n + 1), \A i \in Places : ids[i] # d
        PROVE  scores[d] <= scores[ids[MinPlace(ids)]]
    <3>1. d # e
      BY <1>1, <2>1, <2>7
    <3>2. CASE d = held.ids[held.min]
      BY <2>3, <2>6, <3>2
    <3>3. CASE d # held.ids[held.min]
      <4>1. d \in Ids(h, n) /\ \A i \in Places : held.ids[i] # d
        BY <1>2, <2>1, <2>7, <3>1, <3>3
      <4>2. scores[d] <= scores[held.ids[held.min]]
        BY <1>1, <4>1
      <4>3. scores[held.ids[held.min]] <= scores[ids[MinPlace(ids)]]
        BY <2>3, <2>6
      <4>4. /\ scores[d] \in Int /\ scores[held.ids[held.min]] \in Int
            /\ scores[ids[MinPlace(ids)]] \in Int
        BY <1>1, <1>3, <2>2, <2>3
      <4>5. QED
        BY <4>2, <4>3, <4>4
    <3>4. QED
      BY <3>2, <3>3
  <2>8. Best(new, h, n + 1)
    BY <2>3, <2>5, <2>7 DEF Best
  <2>9. Offer(held, h + n) = new
    BY <1>5 DEF Offer, Replace, ids, e
  <2>10. QED
    BY <2>8, <2>9
<1>6. QED
  BY <1>4, <1>5

(* A round, scanned or left out because none of its candidates beats the least. *)
LEMMA ScanBest ==
    ASSUME GateAssumption, NEW h \in Nat, NEW n \in Nat, NEW held, Best(held, h, n),
           \A e \in Ids(h, n + 4) : scores[e] \in Int,
           NEW c, c = [j \in Places |-> h + n + j]
    PROVE  Best(Scan(held, c), h, n + 4)
<1>1. c[0] = h + n /\ c[1] = h + (n + 1) /\ c[2] = h + (n + 2) /\ c[3] = h + (n + 3)
      /\ Places = {0, 1, 2, 3}
  BY GateSizes
<1>2. \A m \in n .. n + 4 : \A e \in Ids(h, m) : scores[e] \in Int
  BY DEF Ids
<1>3. CASE \E j \in Places : BeatsLeast(held, c[j])
  <2>1. Best(Offer(held, c[0]), h, n + 1)
    BY <1>1, <1>2, OfferBest
  <2>2. Best(Offer(Offer(held, c[0]), c[1]), h, (n + 1) + 1)
    BY <1>1, <1>2, <2>1, OfferBest
  <2>3. Best(Offer(Offer(Offer(held, c[0]), c[1]), c[2]), h, (n + 2) + 1)
    BY <1>1, <1>2, <2>2, OfferBest
  <2>4. Best(Offer(Offer(Offer(Offer(held, c[0]), c[1]), c[2]), c[3]), h, (n + 3) + 1)
    BY <1>1, <1>2, <2>3, OfferBest
  <2>5. QED
    BY <1>3, <2>4 DEF Scan
<1>4. CASE ~\E j \in Places : BeatsLeast(held, c[j])
  <2>1. Ids(h, n + 4) = Ids(h, n) \cup {c[0], c[1], c[2], c[3]}
    BY <1>1 DEF Ids
  <2>2. held.ids \in [Places -> Ids(h, n + 4)] /\ held.min \in Places
    BY <2>1 DEF Best, Holds
  <2>3. \A j \in Places : scores[c[j]] <= scores[held.ids[held.min]]
    <3>1. \A j \in Places : scores[c[j]] \in Int /\ scores[held.ids[held.min]] \in Int
      BY <1>1, <2>1, <2>2
    <3>2. QED
      BY <1>4, <3>1 DEF BeatsLeast
  <2>4. Best(held, h, n + 4)
    BY <1>1, <2>1, <2>2, <2>3 DEF Best, Holds
  <2>5. QED
    BY <1>4, <2>4 DEF Scan
<1>5. QED
  BY <1>3, <1>4

--------------------------------------------------------------------------------
LEMMA InitG == ASSUME GateAssumption PROVE GateInit => GInv
<1> SUFFICES ASSUME GateInit PROVE GInv
  OBVIOUS
<1>1. /\ Rounds \in Nat /\ Rounds > 0 /\ LocalK = 4 /\ Places = {0, 1, 2, 3}
      /\ \A h \in Halves : h \in Nat
  BY GateSizes
<1>2. /\ scores \in [Experts -> Int] /\ local_expert_base \in Halves /\ r = 0 /\ pkt = None
      /\ top = [h \in Halves |-> [ids |-> [i \in Places |-> h + i], min |-> 0]]
  BY DEF GateInit, GateAssumption
<1>3. ASSUME NEW h \in Halves PROVE Holds(top[h], h, LocalK)
  <2>1. top[h] = [ids |-> [i \in Places |-> h + i], min |-> 0]
    BY <1>2
  <2>2. [i \in Places |-> h + i] \in [Places -> Ids(h, LocalK)]
    BY <1>1 DEF Ids
  <2>3. QED
    BY <1>1, <2>1, <2>2 DEF Holds
<1>4. QED
  BY <1>1, <1>2, <1>3 DEF GInv

LEMMA FirstG == ASSUME GateAssumption, GInv, First PROVE GInv'
<1>1. /\ Rounds \in Nat /\ Rounds > 0 /\ LocalK = 4 /\ LocalExperts = Rounds * 4
      /\ \A h \in Halves : h \in Nat /\ Ids(h, LocalExperts) \subseteq Experts
  BY GateSizes
<1>2. /\ r = 0 /\ r' = 1 /\ pkt' = pkt /\ scores' = scores
      /\ local_expert_base' = local_expert_base /\ pkt = None
      /\ top' = [h \in Halves |-> [top[h] EXCEPT !.min = MinPlace(top[h].ids)]]
  BY <1>1 DEF First, GInv
<1>3. scores \in [Experts -> Int] /\ \A h \in Halves : Holds(top[h], h, 4)
  BY <1>1, <1>2 DEF GInv
<1>4. ASSUME NEW h \in Halves PROVE Best(top'[h], h, 4)
  <2> DEFINE ids == top[h].ids
  <2>1. /\ top[h] = [ids |-> ids, min |-> top[h].min]
        /\ ids \in [Places -> Ids(h, 4)]
        /\ \A i, j \in Places : i # j => ids[i] # ids[j]
    BY <1>3 DEF Holds
  <2>2. top'[h] = [ids |-> ids, min |-> MinPlace(ids)]
    BY <1>2, <2>1
  <2> HIDE DEF ids
  <2>3. Ids(h, 4) \subseteq Experts
    BY <1>1 DEF Ids
  <2>4. \A i \in Places : scores[ids[i]] \in Int
    BY <1>3, <2>1, <2>3
  <2>5. /\ MinPlace(ids) \in Places
        /\ \A i \in Places : scores[ids[MinPlace(ids)]] <= scores[ids[i]]
    BY <2>4, MinPlaceIs
  <2>6. Holds(top'[h], h, 4)
    BY <2>1, <2>2, <2>5 DEF Holds
  <2>7. \A e \in Ids(h, 4) : \E i \in Places : ids[i] = e
    <3>1. Places = {0, 1, 2, 3} /\ h \in Nat /\ Ids(h, 4) = {h, h + 1, h + 2, h + 3}
      BY <1>1, GateSizes DEF Ids
    <3>2. /\ ids[0] \in Ids(h, 4) /\ ids[1] \in Ids(h, 4)
          /\ ids[2] \in Ids(h, 4) /\ ids[3] \in Ids(h, 4)
          /\ ids[0] # ids[1] /\ ids[0] # ids[2] /\ ids[0] # ids[3]
          /\ ids[1] # ids[2] /\ ids[1] # ids[3] /\ ids[2] # ids[3]
      BY <2>1, <3>1
    <3>3. QED
      BY <3>1, <3>2
  <2>8. QED
    BY <2>2, <2>5, <2>6, <2>7 DEF Best
<1>5. \A h \in Halves : Best(top[h], h, 4)'
  BY <1>2, <1>4 DEF Best
<1>6. QED
  BY <1>1, <1>2, <1>5 DEF GInv

LEMMA RoundG == ASSUME GateAssumption, GInv, Round PROVE GInv'
<1>1. /\ Rounds \in Nat /\ Rounds > 0 /\ LocalK = 4 /\ LocalExperts = Rounds * 4
      /\ \A h \in Halves : h \in Nat /\ Ids(h, LocalExperts) \subseteq Experts
  BY GateSizes
<1>2. /\ r \in 1 .. Rounds - 1 /\ r' = r + 1 /\ pkt' = pkt /\ scores' = scores
      /\ local_expert_base' = local_expert_base
      /\ top' = [h \in Halves |-> Scan(top[h], Candidates(h))]
  BY DEF Round, Rounds
<1>3. scores \in [Experts -> Int] /\ \A h \in Halves : Best(top[h], h, r * 4)
  BY <1>1, <1>2 DEF GInv
<1>4. ASSUME NEW h \in Halves PROVE Best(top'[h], h, r * 4 + 4)
  <2>1. Candidates(h) = [j \in Places |-> h + r * 4 + j]
    BY <1>1 DEF Candidates
  <2>2. Ids(h, r * 4 + 4) \subseteq Ids(h, LocalExperts)
    BY <1>1, <1>2 DEF Ids
  <2>3. \A e \in Ids(h, r * 4 + 4) : scores[e] \in Int
    BY <1>1, <1>3, <2>2
  <2>4. r * 4 \in Nat
    BY <1>2
  <2>5. Best(Scan(top[h], Candidates(h)), h, r * 4 + 4)
    BY <1>1, <1>3, <2>1, <2>3, <2>4, ScanBest
  <2>6. QED
    BY <1>2, <2>5
<1>5. (r + 1) * 4 = r * 4 + 4
  BY <1>2
<1>6. \A h \in Halves : Best(top[h], h, r * LocalK)'
  BY <1>1, <1>2, <1>4, <1>5 DEF Best
<1>7. QED
  BY <1>1, <1>2, <1>6 DEF GInv

LEMMA EmitG == ASSUME GateAssumption, GInv, Emit PROVE GInv'
<1>1. /\ Rounds \in Nat /\ Rounds > 0 /\ LocalExperts = Rounds * LocalK
  BY GateSizes
<1>2. /\ r = Rounds /\ r' = r + 1 /\ scores' = scores /\ top' = top
      /\ local_expert_base' = local_expert_base
      /\ pkt'.ids = [i \in 1 .. LocalK |-> top[local_expert_base].ids[i - 1]]
      /\ pkt'.weights = [i \in 1 .. LocalK |->
            IF Wsum > 0 THEN <<scores[pkt'.ids[i]], Wsum>> ELSE <<0, 1>>]
  BY DEF Emit, Rounds
<1>3. \A h \in Halves : Best(top[h], h, LocalExperts)
  BY <1>1, <1>2 DEF GInv
<1>4. \A h \in Halves : Best(top[h], h, LocalExperts)'
  BY <1>2, <1>3 DEF Best
<1>5. Wsum' = Wsum
  BY <1>2 DEF Wsum, SumOf
<1>6. QED
  BY <1>1, <1>2, <1>4, <1>5 DEF GInv

LEMMA InvPicks == ASSUME GateAssumption PROVE GInv => GatePicks
<1> SUFFICES ASSUME GInv, pkt # None PROVE GatePicks
  BY DEF GatePicks
<1> DEFINE h == local_expert_base
           held == top[h]
<1>1. /\ LocalK = 4 /\ Places = {0, 1, 2, 3} /\ Rounds \in Nat
      /\ h \in Halves /\ h \in Nat /\ Ids(h, LocalExperts) \subseteq Experts
  BY GateSizes DEF GInv
<1>2. r > Rounds /\ scores \in [Experts -> Int]
  BY <1>1 DEF GInv
<1>3. pkt.ids = [i \in 1 .. 4 |-> held.ids[i - 1]] /\ Best(held, h, LocalExperts)
  BY <1>1, <1>2 DEF GInv
<1> HIDE DEF held, h
<1>4. /\ held.ids \in [Places -> Ids(h, LocalExperts)] /\ held.min \in Places
      /\ \A i, j \in Places : i # j => held.ids[i] # held.ids[j]
      /\ \A i \in Places : scores[held.ids[held.min]] <= scores[held.ids[i]]
      /\ \A e \in Ids(h, LocalExperts) :
            (\A i \in Places : held.ids[i] # e) => scores[e] <= scores[held.ids[held.min]]
  BY <1>3 DEF Best, Holds
<1>5. ToSet(pkt.ids) = {held.ids[i] : i \in Places}
  BY <1>1, <1>3 DEF ToSet
<1>6. CardExperts(h) = Ids(h, LocalExperts)
  BY DEF CardExperts, Ids
<1>7. \A i, j \in 1 .. LocalK : i # j => pkt.ids[i] # pkt.ids[j]
  BY <1>1, <1>3, <1>4
<1>8. ASSUME NEW e \in CardExperts(h) \ ToSet(pkt.ids), NEW p \in ToSet(pkt.ids)
      PROVE  scores[e] <= scores[p]
  <2>1. PICK i \in Places : p = held.ids[i]
    BY <1>5
  <2>2. scores[e] <= scores[held.ids[held.min]] /\ scores[held.ids[held.min]] <= scores[p]
    BY <1>4, <1>5, <1>6, <2>1
  <2>3. scores[e] \in Int /\ scores[held.ids[held.min]] \in Int /\ scores[p] \in Int
    BY <1>1, <1>2, <1>4, <1>6, <2>1
  <2>4. QED
    BY <2>2, <2>3
<1>9. QED
  BY <1>4, <1>5, <1>6, <1>7, <1>8 DEF GatePicks, h

(* The standings of a card are 0 .. LocalExperts - 1, each of one expert,  *)
(* and who stands before another has no lower score.                       *)
LEMMA Standings ==
    ASSUME GateAssumption, scores \in [Experts -> Int], NEW h \in Halves
    PROVE  /\ \A d, e \in CardExperts(h) : Standing(h, d) < Standing(h, e) => scores[e] <= scores[d]
           /\ \A d, e \in CardExperts(h) : Standing(h, d) = Standing(h, e) => d = e
           /\ \A e \in CardExperts(h) : Standing(h, e) \in Nat
           /\ \A i \in 0 .. LocalExperts - 1 : \E e \in CardExperts(h) : Standing(h, e) = i
<1> DEFINE S == CardExperts(h)
           Before(e) == {d \in S : Better(d, e)}
<1>1. LocalExperts \in Nat /\ h \in Nat /\ \A e \in S : e \in Nat /\ scores[e] \in Int
  <2>1. LocalExperts \in Nat /\ h \in Nat /\ Ids(h, LocalExperts) \subseteq Experts
    BY GateSizes
  <2>2. S = Ids(h, LocalExperts)
    BY DEF CardExperts, Ids
  <2>3. QED
    BY <2>1, <2>2 DEF Experts
<1>2. IsFiniteSet(S) /\ Cardinality(S) = LocalExperts
  <2>1. PICK m \in Int : m = h + LocalExperts - 1
    BY <1>1
  <2>2. IsFiniteSet(h .. m) /\ Cardinality(h .. m) = IF h > m THEN 0 ELSE m - h + 1
    BY <1>1, FS_Interval
  <2>3. S = h .. m
    BY <2>1 DEF CardExperts
  <2>4. QED
    BY <1>1, <2>1, <2>2, <2>3
<1>3. \A e \in S : IsFiniteSet(Before(e)) /\ Standing(h, e) = Cardinality(Before(e))
                   /\ Standing(h, e) \in Nat
  BY <1>2, FS_Subset, FS_CardinalityType DEF Standing
<1>4. ASSUME NEW e \in S
      PROVE  Standing(h, e) < LocalExperts
  <2>1. Before(e) \in SUBSET S /\ Before(e) # S
    BY <1>1 DEF Better
  <2>2. /\ Cardinality(Before(e)) <= LocalExperts
        /\ Cardinality(S) = Cardinality(Before(e)) => S = Before(e)
    BY <2>1, <1>2, FS_Subset
  <2>3. Standing(h, e) \in Nat /\ Standing(h, e) = Cardinality(Before(e))
    BY <1>3
  <2> HIDE DEF Before, S
  <2>4. QED
    BY <2>1, <2>2, <2>3, <1>1, <1>2
<1>5. ASSUME NEW d \in S, NEW e \in S, Better(d, e)
      PROVE  Standing(h, d) < Standing(h, e)
  <2>1. d \in Before(e) /\ d \notin Before(d)
    BY <1>1, <1>5 DEF Better
  <2>2. Before(d) \in SUBSET Before(e) /\ Before(d) # Before(e)
    <3>1. \A f \in S : Better(f, d) => Better(f, e)
      BY <1>1, <1>5 DEF Better
    <3>2. QED
      BY <2>1, <3>1
  <2>3. Cardinality(Before(d)) <= Cardinality(Before(e))
        /\ Cardinality(Before(d)) # Cardinality(Before(e))
    BY <2>2, <1>3, FS_Subset
  <2>4. QED
    BY <2>3, <1>3
<1>6. \A d, e \in S : d = e \/ Better(d, e) \/ Better(e, d)
  BY <1>1 DEF Better
<1>7. \A e \in S : Standing(h, e) \in Nat
  BY <1>3
<1>8. ASSUME NEW d \in S, NEW e \in S, Standing(h, d) = Standing(h, e)
      PROVE  d = e
  <2>1. ~(Standing(h, d) < Standing(h, e)) /\ ~(Standing(h, e) < Standing(h, d))
    BY <1>8, <1>7
  <2>2. QED
    BY <2>1, <1>5, <1>6, Zenon
<1>9. ASSUME NEW d \in S, NEW e \in S, Standing(h, d) < Standing(h, e)
      PROVE  scores[e] <= scores[d]
  <2>1. d # e /\ ~(Standing(h, e) < Standing(h, d))
    BY <1>9, <1>7
  <2>2. Better(d, e)
    BY <2>1, <1>5, <1>6, Zenon
  <2>3. QED
    BY <2>2, <1>1 DEF Better
<1>10. ASSUME NEW i \in 0 .. LocalExperts - 1
       PROVE  \E e \in S : Standing(h, e) = i
  <2> DEFINE T == 0 .. LocalExperts - 1
             f == [e \in S |-> Standing(h, e)]
  <2>1. IsFiniteSet(T) /\ Cardinality(T) = LocalExperts
    <3>1. PICK m \in Int : m = LocalExperts - 1
      BY <1>1
    <3>2. IsFiniteSet(0 .. m) /\ Cardinality(0 .. m) = IF 0 > m THEN 0 ELSE m - 0 + 1
      BY FS_Interval
    <3>3. QED
      BY <1>1, <3>1, <3>2
  <2>2. f \in Injection(S, T)
    <3>1. \A e \in S : Standing(h, e) \in T
      BY <1>1, <1>4, <1>7
    <3>2. QED
      BY <3>1, <1>8 DEF Injection, IsInjective
  <2>3. f \in Surjection(S, T)
    BY <2>1, <2>2, <1>2, FS_Injection
  <2>4. QED
    BY <2>3 DEF Surjection
<1>11. QED
  BY <1>7, <1>8, <1>9, <1>10

(* a names four of S, and none of the others has a higher score.           *)
Foremost(a, f, S) ==
    /\ a \in [Places -> S]
    /\ \A i, j \in Places : i # j => a[i] # a[j]
    /\ \A e \in S : (\A i \in Places : a[i] # e) => \A i \in Places : f[e] <= f[a[i]]

(* Any two choices of four best have the same sum: where they differ the   *)
(* scores are equal.                                                       *)
LEMMA SameSum ==
    ASSUME NEW S, NEW f \in [S -> Int], NEW a, NEW b, Foremost(a, f, S), Foremost(b, f, S)
    PROVE  f[a[0]] + f[a[1]] + f[a[2]] + f[a[3]] = f[b[0]] + f[b[1]] + f[b[2]] + f[b[3]]
<1>1. Places = {0, 1, 2, 3}
  BY DEF Places, LocalK
<1>2. /\ a[0] \in S /\ a[1] \in S /\ a[2] \in S /\ a[3] \in S
      /\ b[0] \in S /\ b[1] \in S /\ b[2] \in S /\ b[3] \in S
  BY <1>1 DEF Foremost
<1>3. /\ a[0] # a[1] /\ a[0] # a[2] /\ a[0] # a[3] /\ a[1] # a[2] /\ a[1] # a[3] /\ a[2] # a[3]
      /\ b[0] # b[1] /\ b[0] # b[2] /\ b[0] # b[3] /\ b[1] # b[2] /\ b[1] # b[3] /\ b[2] # b[3]
  BY <1>1 DEF Foremost
<1>4. \A e \in {b[0], b[1], b[2], b[3]} : e \notin {a[0], a[1], a[2], a[3]} =>
         f[e] <= f[a[0]] /\ f[e] <= f[a[1]] /\ f[e] <= f[a[2]] /\ f[e] <= f[a[3]]
  BY <1>1, <1>2 DEF Foremost
<1>5. \A e \in {a[0], a[1], a[2], a[3]} : e \notin {b[0], b[1], b[2], b[3]} =>
         f[e] <= f[b[0]] /\ f[e] <= f[b[1]] /\ f[e] <= f[b[2]] /\ f[e] <= f[b[3]]
  BY <1>1, <1>2 DEF Foremost
<1>6. /\ f[a[0]] \in Int /\ f[a[1]] \in Int /\ f[a[2]] \in Int /\ f[a[3]] \in Int
      /\ f[b[0]] \in Int /\ f[b[1]] \in Int /\ f[b[2]] \in Int /\ f[b[3]] \in Int
  BY <1>2
<1>7. QED
  BY <1>3, <1>4, <1>5, <1>6

(* What a half holds at the end adds up to its best four scores.           *)
LEMMA HeldSum ==
    ASSUME GateAssumption, scores \in [Experts -> Int], NEW h \in Halves,
           NEW held, Best(held, h, LocalExperts)
    PROVE  SumOf(held.ids) = BestSum(h) /\ SumOf(held.ids) \in Int
<1> DEFINE C == CardExperts(h)
           f == [e \in C |-> scores[e]]
           b == [i \in Places |-> Nth(h, i)]
<1>1. /\ Places = {0, 1, 2, 3} /\ LocalExperts >= 4 /\ LocalExperts \in Nat
      /\ C = Ids(h, LocalExperts) /\ C \subseteq Experts /\ f \in [C -> Int]
  <2>1. Places = {0, 1, 2, 3} /\ LocalK = 4 /\ Rounds \in Nat /\ Rounds > 0
        /\ LocalExperts = Rounds * LocalK /\ Ids(h, LocalExperts) \subseteq Experts
    BY GateSizes
  <2>2. LocalExperts >= 4 /\ LocalExperts \in Nat
    BY <2>1
  <2>3. C = Ids(h, LocalExperts)
    BY DEF CardExperts, Ids
  <2>4. \A e \in C : scores[e] \in Int
    BY <2>1, <2>3
  <2>5. QED
    BY <2>1, <2>2, <2>3, <2>4
<1>2. Foremost(held.ids, f, C)
  <2>1. /\ held.ids \in [Places -> C] /\ held.min \in Places
        /\ \A i, j \in Places : i # j => held.ids[i] # held.ids[j]
        /\ \A i \in Places : scores[held.ids[held.min]] <= scores[held.ids[i]]
        /\ \A e \in C : (\A i \in Places : held.ids[i] # e) => scores[e] <= scores[held.ids[held.min]]
    BY <1>1, Zenon DEF Best, Holds
  <2>2. \A e \in C : scores[e] \in Int /\ f[e] = scores[e]
    BY <1>1
  <2>3. ASSUME NEW e \in C, \A i \in Places : held.ids[i] # e, NEW i \in Places
        PROVE  f[e] <= f[held.ids[i]]
    <3>1. scores[e] <= scores[held.ids[held.min]] /\ scores[held.ids[held.min]] <= scores[held.ids[i]]
      BY <2>1, <2>3
    <3>2. held.ids[held.min] \in C /\ held.ids[i] \in C
      BY <2>1
    <3>3. QED
      BY <2>2, <3>1, <3>2
  <2> HIDE DEF C, f
  <2>4. QED
    BY <2>1, <2>3 DEF Foremost
<1>3. \A i \in Places : b[i] \in C /\ Standing(h, b[i]) = i
  <2>1. \A i \in Places : i \in 0 .. LocalExperts - 1
    BY <1>1
  <2>2. \A i \in Places : \E e \in C : Standing(h, e) = i
    BY <2>1, Standings
  <2>3. QED
    BY <2>2 DEF Nth
<1>4. Foremost(b, f, C)
  <2>1. \A i, j \in Places : i # j => b[i] # b[j]
    BY <1>3
  <2>2. ASSUME NEW e \in C, \A i \in Places : b[i] # e, NEW i \in Places
        PROVE  f[e] <= f[b[i]]
    <3>1. Standing(h, e) \in Nat
      BY Standings
    <3>2. \A j \in Places : Standing(h, e) # j
      BY <1>3, <2>2, Standings
    <3>3. Standing(h, b[i]) < Standing(h, e)
      BY <1>1, <1>3, <3>1, <3>2
    <3>4. scores[e] <= scores[b[i]]
      BY <1>3, <3>3, Standings
    <3>5. QED
      BY <1>3, <3>4
  <2>3. b \in [Places -> C]
    BY <1>3
  <2> HIDE DEF C, f, b
  <2>4. QED
    BY <2>1, <2>2, <2>3 DEF Foremost
<1>5. /\ f[held.ids[0]] + f[held.ids[1]] + f[held.ids[2]] + f[held.ids[3]]
            = f[b[0]] + f[b[1]] + f[b[2]] + f[b[3]]
  <2> HIDE DEF C, f, b
  <2>1. QED
    BY <1>1, <1>2, <1>4, SameSum
<1>6. \A i \in Places : held.ids[i] \in C
  <2> HIDE DEF C, f, b
  <2>1. QED
    BY <1>2 DEF Foremost
<1>7. /\ f[held.ids[0]] = scores[held.ids[0]] /\ f[held.ids[1]] = scores[held.ids[1]]
      /\ f[held.ids[2]] = scores[held.ids[2]] /\ f[held.ids[3]] = scores[held.ids[3]]
      /\ f[b[0]] = scores[b[0]] /\ f[b[1]] = scores[b[1]]
      /\ f[b[2]] = scores[b[2]] /\ f[b[3]] = scores[b[3]]
  BY <1>1, <1>3, <1>6
<1>8. SumOf(held.ids) = SumOf(b)
  <2> HIDE DEF C, f, b
  <2>1. QED
    BY <1>5, <1>7 DEF SumOf
<1>9. SumOf(b) = BestSum(h)
  BY DEF BestSum
<1>10. SumOf(held.ids) \in Int
  BY <1>1, <1>6, <1>7 DEF SumOf
<1>11. QED
  BY <1>8, <1>9, <1>10

LEMMA InvShares == ASSUME GateAssumption PROVE GInv => GateShares
<1> SUFFICES ASSUME GInv, pkt # None PROVE GateShares
  BY DEF GateShares
<1>1. r > Rounds /\ Rounds \in Nat /\ scores \in [Experts -> Int]
  BY GateSizes DEF GInv
<1>2. /\ \A h \in Halves : Best(top[h], h, LocalExperts)
      /\ pkt.weights = [i \in 1 .. LocalK |->
            IF Wsum > 0 THEN <<scores[pkt.ids[i]], Wsum>> ELSE <<0, 1>>]
  BY <1>1 DEF GInv
<1>3. Wsum = BestSum(0) + BestSum(LocalExperts)
  BY <1>1, <1>2, HeldSum DEF Wsum, Halves
<1>4. QED
  BY <1>2, <1>3 DEF GateShares

(* For any number of experts and any scores, ties included: the packet     *)
(* names LOCAL_K different experts of this card, and none left out has a   *)
(* higher score; and its weights are shares of the sum of the best scores  *)
(* of both cards.                                                          *)
THEOREM GateRight == ASSUME GateAssumption PROVE GateSpec => [](GatePicks /\ GateShares)
<1>1. GInv /\ [GateNext]_<<scores, local_expert_base, top, r, pkt>> => GInv'
  <2> SUFFICES ASSUME GInv, [GateNext]_<<scores, local_expert_base, top, r, pkt>> PROVE GInv'
    OBVIOUS
  <2>1. CASE UNCHANGED <<scores, local_expert_base, top, r, pkt>>
    BY <2>1 DEF GInv, Best, Wsum, SumOf
  <2>2. QED
    BY <2>1, FirstG, RoundG, EmitG DEF GateNext
<1>2. QED
  BY InitG, InvPicks, InvShares, <1>1, PTL DEF GateSpec

--------------------------------------------------------------------------------
(* topk_minheap *)

(* Nodes that hold a score, and scores that were offered *)
Filled  == IF heap_pc = "up" THEN heap_pos + 1 ELSE IF heap_pos < HeapK THEN heap_pos ELSE HeapK
Offered == IF heap_pc \in {"up", "down"} THEN heap_pos + 1 ELSE heap_pos

HeapType ==
    /\ heap_score \in [HeapPositions -> HeapScores] /\ heap_pos \in 0 .. HeapN /\ heap_c \in HeapNodes
    /\ heap_tied \in BOOLEAN
    /\ heap_node \in [HeapNodes -> [id : HeapPositions, score : Int]]
    /\ heap_pc \in {"next", "up", "down", "done"}
    /\ heap_pc = "up" => heap_pos < HeapK /\ heap_c <= heap_pos
    /\ heap_pc = "down" => HeapK <= heap_pos /\ heap_pos < HeapN

(* A node holds a score that was offered and its position, no two the same *)
(* one; those not filled hold the value of a child that is not there.      *)
HeapHolds ==
    /\ \A j \in HeapNodes :
          IF j < Filled
          THEN heap_node[j].score = heap_score[heap_node[j].id] /\ heap_node[j].id < Offered
          ELSE heap_node[j].score = HeapHuge
    /\ \A i, j \in HeapNodes : i < Filled /\ j < Filled /\ i # j => heap_node[i].id # heap_node[j].id

(* What was offered is held, or no better than anything that is. *)
Kept(p) == \E j \in HeapNodes : j < Filled /\ heap_node[j].id = p
Dropped(p) == HeapK <= heap_pos /\ \A j \in HeapNodes : heap_score[p] <= heap_node[j].score
HeapBest == \A p \in HeapPositions : p < Offered => Kept(p) \/ Dropped(p)

(* Of what was offered a best is held. *)
HeapMax == \A p \in HeapPositions :
    p < Offered => \E j \in HeapNodes : j < Filled /\ heap_score[p] <= heap_node[j].score

(* A node is not above its parent, but for the node being moved up, or the *)
(* children of the one being moved down; and nowhere above its parent's    *)
(* parent.                                                                 *)
Ordered ==
    /\ \A j \in HeapNodes \ {0} :
          \/ heap_pc = "up" /\ j = heap_c
          \/ heap_pc = "down" /\ Parent(j) = heap_c
          \/ heap_node[Parent(j)].score <= heap_node[j].score
    /\ heap_pc \in {"up", "down"} /\ heap_c > 0 =>
          \A j \in HeapNodes \ {0} :
             Parent(j) = heap_c => heap_node[Parent(heap_c)].score <= heap_node[j].score

(* The order of the heap, and that it holds the best, last until a node    *)
(* stays above two equal children.                                         *)
HeapInv ==
    /\ HeapType /\ HeapHolds /\ HeapMax
    /\ ~heap_tied => HeapBest /\ Ordered
    /\ HeapTopK

LEMMA Parents ==
    ASSUME HeapAssumption, NEW j \in HeapNodes \ {0}
    PROVE  Parent(j) \in HeapNodes /\ Parent(j) < j /\ (j = 2 * Parent(j) + 1 \/ j = 2 * Parent(j) + 2)
  BY DEF HeapAssumption, HeapNodes, Parent

LEMMA Children ==
    ASSUME HeapAssumption, NEW j \in HeapNodes \ {0}, NEW i \in HeapNodes
    PROVE  Parent(j) = i <=> j = 2 * i + 1 \/ j = 2 * i + 2
  BY DEF HeapAssumption, HeapNodes, Parent

(* What a node can hold *)
LEMMA ScoreBelow ==
    ASSUME HeapAssumption, HeapType, HeapHolds, NEW j \in HeapNodes
    PROVE  /\ heap_node[j].score \in Int /\ heap_node[j].score <= HeapHuge /\ HeapHuge \in Int
           /\ heap_node[j].id \in HeapPositions
           /\ heap_node[j] = [id |-> heap_node[j].id, score |-> heap_node[j].score]
           /\ j < Filled => heap_node[j].score < HeapHuge /\ heap_score[heap_node[j].id] \in HeapScores
  BY DEF HeapAssumption, HeapType, HeapHolds

LEMMA FilledNat ==
    ASSUME HeapAssumption, HeapType
    PROVE  /\ Filled \in 0 .. HeapK /\ Offered \in Nat /\ 0 \in HeapNodes
           /\ HeapK <= heap_pos => Filled = HeapK
           /\ HeapK \in Nat /\ HeapN \in Nat /\ HeapK >= 1 /\ heap_pos \in Nat
  BY DEF HeapAssumption, HeapType, Filled, Offered, HeapNodes

(* The root of an ordered heap is the least. *)
LEMMA RootLeast ==
    ASSUME HeapAssumption, HeapType, HeapHolds, Ordered, heap_pc = "next", NEW j \in HeapNodes
    PROVE  heap_node[0].score <= heap_node[j].score
<1> DEFINE S == {n \in Nat : \A i \in HeapNodes : i <= n => heap_node[0].score <= heap_node[i].score}
<1>1. \A i \in HeapNodes : heap_node[i].score \in Int
  BY ScoreBelow
<1>2. 0 \in S
  BY <1>1 DEF HeapNodes
<1>3. ASSUME NEW n \in Nat, n \in S PROVE n + 1 \in S
  <2> SUFFICES ASSUME NEW i \in HeapNodes, i <= n + 1 PROVE heap_node[0].score <= heap_node[i].score
    OBVIOUS
  <2>1. CASE i <= n
    BY <1>3, <2>1
  <2>2. CASE ~(i <= n)
    <3>1. i \in HeapNodes \ {0}
      BY <2>2 DEF HeapNodes
    <3>2. Parent(i) \in HeapNodes /\ Parent(i) <= n
      BY <3>1, Parents DEF HeapNodes
    <3>3. heap_node[0].score <= heap_node[Parent(i)].score
      BY <1>3, <3>2
    <3>4. heap_node[Parent(i)].score <= heap_node[i].score
      BY <3>1 DEF Ordered
    <3> QED
      BY <1>1, <3>2, <3>3, <3>4, FilledNat
  <2> QED
    BY <2>1, <2>2
<1>4. Nat \subseteq S
  <2> HIDE DEF S
  <2> QED
    BY <1>2, <1>3, Numbers
<1>5. j \in S
  BY <1>4 DEF HeapNodes
<1> QED
  BY <1>5

(* A swap of two filled nodes changes none of what the nodes hold. *)
LEMMA SwapKeeps ==
    ASSUME HeapAssumption, HeapType, HeapHolds, HeapMax, NEW a \in HeapNodes, NEW b \in HeapNodes,
           a < Filled, b < Filled, a # b, heap_node' = Swap(a, b),
           UNCHANGED <<heap_score, heap_pos, heap_pc>>
    PROVE  /\ heap_node' \in [HeapNodes -> [id : HeapPositions, score : Int]]
           /\ heap_node'[a] = heap_node[b] /\ heap_node'[b] = heap_node[a]
           /\ \A j \in HeapNodes : j # a /\ j # b => heap_node'[j] = heap_node[j]
           /\ HeapHolds' /\ HeapMax' /\ (HeapBest => HeapBest')
<1>1. heap_node \in [HeapNodes -> [id : HeapPositions, score : Int]]
  BY DEF HeapType
<1>2. /\ heap_node' \in [HeapNodes -> [id : HeapPositions, score : Int]]
      /\ heap_node'[a] = heap_node[b] /\ heap_node'[b] = heap_node[a]
      /\ \A j \in HeapNodes : j # a /\ j # b => heap_node'[j] = heap_node[j]
  BY <1>1 DEF Swap
<1>3. Filled' = Filled /\ Offered' = Offered /\ heap_score' = heap_score /\ heap_pos' = heap_pos
  BY DEF Filled, Offered
<1> DEFINE to(j) == IF j = a THEN b ELSE IF j = b THEN a ELSE j
<1>4. \A j \in HeapNodes : to(j) \in HeapNodes /\ heap_node'[j] = heap_node[to(j)]
                              /\ (j < Filled <=> to(j) < Filled) /\ to(to(j)) = j
  BY <1>2
<1>5. \A i, j \in HeapNodes : i # j => to(i) # to(j)
  OBVIOUS
<1> HIDE DEF to
<1>6. HeapHolds'
  <2>1. \A j \in HeapNodes :
           IF j < Filled
           THEN heap_node'[j].score = heap_score[heap_node'[j].id] /\ heap_node'[j].id < Offered
           ELSE heap_node'[j].score = HeapHuge
    BY <1>4 DEF HeapHolds
  <2>2. \A i, j \in HeapNodes : i < Filled /\ j < Filled /\ i # j => heap_node'[i].id # heap_node'[j].id
    BY <1>4, <1>5 DEF HeapHolds
  <2> QED
    BY <1>3, <2>1, <2>2 DEF HeapHolds
<1>7. HeapBest => HeapBest'
  <2>1. \A p \in HeapPositions : Kept(p) => Kept(p)'
    <3> SUFFICES ASSUME NEW p \in HeapPositions, Kept(p) PROVE Kept(p)'
      OBVIOUS
    <3>1. PICK j \in HeapNodes : j < Filled /\ heap_node[j].id = p
      BY DEF Kept
    <3>2. to(j) \in HeapNodes /\ to(j) < Filled /\ heap_node'[to(j)] = heap_node[j]
      BY <1>4, <3>1
    <3> QED
      BY <1>3, <3>1, <3>2 DEF Kept
  <2>2. \A p \in HeapPositions : Dropped(p) => Dropped(p)'
    BY <1>3, <1>4 DEF Dropped
  <2> QED
    BY <1>3, <2>1, <2>2 DEF HeapBest
<1>8. HeapMax'
  <2> SUFFICES ASSUME NEW p \in HeapPositions, p < Offered
               PROVE  \E j \in HeapNodes : j < Filled /\ heap_score[p] <= heap_node'[j].score
    BY <1>3 DEF HeapMax
  <2>1. PICK j \in HeapNodes : j < Filled /\ heap_score[p] <= heap_node[j].score
    BY DEF HeapMax
  <2>2. to(j) \in HeapNodes /\ to(j) < Filled /\ heap_node'[to(j)] = heap_node[j]
    BY <1>4, <2>1
  <2> QED
    BY <2>1, <2>2
<1> QED
  BY <1>2, <1>6, <1>7, <1>8

LEMMA PushStep ==
    ASSUME HeapAssumption, HeapInv, Push PROVE HeapInv'
<1>1. HeapType /\ HeapHolds /\ HeapMax /\ (~heap_tied => HeapBest /\ Ordered)
      /\ heap_pc = "next" /\ heap_pos < HeapK
      /\ heap_pc' = "up" /\ heap_c' = heap_pos
      /\ heap_node' = [heap_node EXCEPT ![heap_pos] = HeapEntry(heap_pos)]
         /\ heap_score' = heap_score /\ heap_tied' = heap_tied /\ heap_pos' = heap_pos
  BY DEF HeapInv, Push
<1>2. heap_pos \in HeapNodes /\ heap_pos \in HeapPositions /\ heap_pos \in Nat /\ HeapK \in Nat
  BY <1>1 DEF HeapType, HeapAssumption, HeapNodes, HeapPositions
<1>3. HeapEntry(heap_pos) \in [id : HeapPositions, score : Int]
      /\ heap_score[heap_pos] \in HeapScores /\ heap_score[heap_pos] \in Int
      /\ heap_score[heap_pos] < HeapHuge /\ HeapEntry(heap_pos).id = heap_pos
         /\ HeapEntry(heap_pos).score = heap_score[heap_pos]
  BY <1>1, <1>2 DEF HeapType, HeapAssumption, HeapEntry
<1>4. Filled = heap_pos /\ Offered = heap_pos /\ Filled' = heap_pos + 1 /\ Offered' = heap_pos + 1
  BY <1>1, <1>2 DEF Filled, Offered
<1>5. /\ heap_node' \in [HeapNodes -> [id : HeapPositions, score : Int]]
         /\ heap_node'[heap_pos] = HeapEntry(heap_pos)
      /\ \A j \in HeapNodes : j # heap_pos => heap_node'[j] = heap_node[j]
  BY <1>1, <1>2, <1>3 DEF HeapType
<1>6. HeapType'
  BY <1>1, <1>2, <1>5 DEF HeapType
<1>7. HeapHolds'
  <2>1. \A j \in HeapNodes :
           IF j < heap_pos + 1
           THEN heap_node'[j].score = heap_score[heap_node'[j].id] /\ heap_node'[j].id < heap_pos + 1
           ELSE heap_node'[j].score = HeapHuge
    <3> TAKE j \in HeapNodes
    <3>1. CASE j = heap_pos
      BY <1>2, <1>3, <1>5, <3>1
    <3>2. CASE j # heap_pos
      <4>1. j \in Nat /\ heap_node'[j] = heap_node[j] /\ heap_node[j].id \in Nat
        BY <1>1, <1>2, <1>5, <3>2, ScoreBelow DEF HeapNodes, HeapPositions
      <4> QED
        BY <1>1, <1>2, <1>4, <3>2, <4>1 DEF HeapHolds
    <3> QED
      BY <3>1, <3>2
  <2>2. \A i, j \in HeapNodes :
           i < heap_pos + 1 /\ j < heap_pos + 1 /\ i # j => heap_node'[i].id # heap_node'[j].id
    <3>1. \A j \in HeapNodes :
             j < heap_pos + 1 /\ j # heap_pos =>
                j < heap_pos /\ heap_node[j].id < heap_pos /\ heap_node[j].id \in Nat
      <4> TAKE j \in HeapNodes
      <4> HAVE j < heap_pos + 1 /\ j # heap_pos
      <4>0. j < heap_pos
        BY <1>2 DEF HeapNodes
      <4>1. j < heap_pos /\ heap_node[j].id \in HeapPositions
        BY <1>1, <4>0, ScoreBelow
      <4>2. heap_node[j].id \in Nat
        BY <4>1 DEF HeapPositions
      <4> QED
        BY <1>1, <1>4, <4>1, <4>2 DEF HeapHolds
    <3>2. \A j \in HeapNodes :
             j < heap_pos + 1 /\ j # heap_pos => heap_node'[j].id # heap_node'[heap_pos].id
      BY <1>2, <1>3, <1>5, <3>1
    <3> QED
      BY <1>1, <1>4, <1>5, <3>1, <3>2 DEF HeapHolds
  <2> QED
    BY <1>1, <1>4, <2>1, <2>2 DEF HeapHolds
<1>8. ASSUME ~heap_tied PROVE HeapBest'
  <2> SUFFICES ASSUME NEW p \in HeapPositions, p < heap_pos + 1
               PROVE  \E j \in HeapNodes : j < heap_pos + 1 /\ heap_node'[j].id = p
    BY <1>8, <1>1, <1>4 DEF HeapBest, Kept
  <2>1. CASE p = heap_pos
    BY <1>2, <1>3, <1>5, <2>1
  <2>2. CASE p # heap_pos
    <3>1. p < Offered /\ ~(HeapK <= heap_pos)
      BY <1>1, <1>2, <1>4, <2>2 DEF HeapPositions
    <3>2. PICK j \in HeapNodes : j < heap_pos /\ heap_node[j].id = p
      BY <1>8, <1>1, <1>4, <3>1 DEF HeapBest, Kept, Dropped
    <3> QED
      BY <1>2, <1>5, <3>2 DEF HeapNodes
  <2> QED
    BY <2>1, <2>2
<1>9. ASSUME ~heap_tied PROVE Ordered'
  <2>1. ASSUME NEW j \in HeapNodes \ {0}, j # heap_pos
        PROVE  heap_node'[Parent(j)].score <= heap_node'[j].score
    <3>1. Parent(j) \in HeapNodes /\ Parent(j) < j /\ heap_node'[j] = heap_node[j]
      BY <1>5, <2>1, Parents
    <3>2. CASE Parent(j) = heap_pos
      <4>1. heap_node[j].score = HeapHuge
        BY <1>1, <1>2, <1>4, <3>1, <3>2 DEF HeapHolds, HeapNodes
      <4> QED
        BY <1>1, <1>3, <1>5, <3>1, <3>2, <4>1, ScoreBelow
    <3>3. CASE Parent(j) # heap_pos
      BY <1>9, <1>1, <1>5, <3>1, <3>3 DEF Ordered
    <3> QED
      BY <3>2, <3>3
  <2>2. ASSUME NEW j \in HeapNodes \ {0}, Parent(j) = heap_pos, heap_pos > 0
        PROVE  heap_node'[Parent(heap_pos)].score <= heap_node'[j].score
    <3>1. heap_pos < j /\ j \in HeapNodes /\ heap_node'[j] = heap_node[j]
      BY <1>2, <1>5, <2>2, Parents DEF HeapNodes
    <3>2. heap_node'[j].score = HeapHuge
      BY <1>1, <1>2, <1>4, <3>1 DEF HeapHolds, HeapNodes
    <3>3. Parent(heap_pos) \in HeapNodes /\ Parent(heap_pos) # heap_pos
      BY <1>2, <2>2, Parents DEF HeapNodes
    <3>4. heap_node'[Parent(heap_pos)] = heap_node[Parent(heap_pos)]
      BY <1>5, <3>3
    <3> QED
      BY <1>1, <3>2, <3>3, <3>4, ScoreBelow
  <2> QED
    BY <1>9, <1>1, <2>1, <2>2 DEF Ordered, Parent
<1>10. HeapMax'
  <2> SUFFICES ASSUME NEW p \in HeapPositions, p < heap_pos + 1
               PROVE  \E j \in HeapNodes : j < heap_pos + 1 /\ heap_score[p] <= heap_node'[j].score
    BY <1>1, <1>4 DEF HeapMax
  <2>1. CASE p = heap_pos
    BY <1>2, <1>3, <1>5, <2>1
  <2>2. CASE p # heap_pos
    <3>1. p < Offered
      BY <1>2, <1>4, <2>2 DEF HeapPositions
    <3>2. PICK j \in HeapNodes : j < heap_pos /\ heap_score[p] <= heap_node[j].score
      BY <1>1, <1>4, <3>1 DEF HeapMax
    <3> QED
      BY <1>2, <1>5, <3>2 DEF HeapNodes
  <2> QED
    BY <2>1, <2>2
<1>11. HeapTopK'
  BY <1>1 DEF HeapTopK
<1> QED
  BY <1>1, <1>6, <1>7, <1>8, <1>9, <1>10, <1>11 DEF HeapInv

LEMMA SiftUpStep ==
    ASSUME HeapAssumption, HeapInv, SiftUp PROVE HeapInv'
<1>1. HeapType /\ HeapHolds /\ HeapMax /\ (~heap_tied => HeapBest /\ Ordered)
      /\ heap_pc = "up" /\ heap_score' = heap_score /\ heap_tied' = heap_tied
      /\ heap_out' = heap_out
  BY DEF HeapInv, SiftUp
<1>2. heap_c \in HeapNodes /\ heap_c \in Nat /\ heap_c <= heap_pos /\ heap_pos < HeapK
      /\ heap_pos \in Nat /\ HeapK \in Nat /\ HeapN \in Nat /\ HeapK <= HeapN
  BY <1>1 DEF HeapType, HeapAssumption, HeapNodes
<1>3. Filled = heap_pos + 1 /\ Offered = heap_pos + 1
  BY <1>1 DEF Filled, Offered
<1>4. \A j \in HeapNodes : heap_node[j].score \in Int
  BY <1>1, ScoreBelow
<1>5. CASE /\ heap_c > 0 /\ heap_node[heap_c].score < heap_node[Parent(heap_c)].score
           /\ heap_node' = Swap(heap_c, Parent(heap_c)) /\ heap_c' = Parent(heap_c)
              /\ heap_pos' = heap_pos /\ heap_pc' = heap_pc
  <2> DEFINE b == Parent(heap_c)
  <2>1. heap_c \in HeapNodes \ {0} /\ b \in HeapNodes /\ b < heap_c /\ b \in Nat /\ b < Filled
        /\ heap_c < Filled /\ b # heap_c
    <3>1. heap_c \in HeapNodes \ {0}
      BY <1>2, <1>5
    <3>2. b \in HeapNodes /\ b < heap_c
      BY <3>1, Parents
    <3>3. b \in Nat
      BY <3>2 DEF HeapNodes
    <3> QED
      BY <1>2, <1>3, <3>1, <3>2, <3>3
  <2>2. /\ heap_node' \in [HeapNodes -> [id : HeapPositions, score : Int]]
        /\ heap_node'[heap_c] = heap_node[b] /\ heap_node'[b] = heap_node[heap_c]
        /\ \A j \in HeapNodes : j # heap_c /\ j # b => heap_node'[j] = heap_node[j]
        /\ HeapHolds' /\ HeapMax' /\ (HeapBest => HeapBest')
    BY <1>1, <1>5, <2>1, SwapKeeps
  <2>3. HeapType'
    BY <1>1, <1>2, <1>5, <2>1, <2>2 DEF HeapType
  <2>4. ASSUME ~heap_tied
        PROVE  \A j \in HeapNodes \ {0} : j # heap_c => heap_node[Parent(j)].score <= heap_node[j].score
    BY <1>1, <2>4 DEF Ordered
  <2>5. ASSUME ~heap_tied
        PROVE  \A j \in HeapNodes \ {0} : Parent(j) = heap_c => heap_node[b].score <= heap_node[j].score
    BY <1>1, <1>5, <2>5 DEF Ordered
  <2>6. heap_node[heap_c].score < heap_node[b].score
    BY <1>5
  <2> HIDE DEF b
  <2>7. ASSUME ~heap_tied, NEW j \in HeapNodes \ {0}, j # b
        PROVE  heap_node'[Parent(j)].score <= heap_node'[j].score
    <3>0. Parent(j) \in HeapNodes /\ Parent(j) # j
      BY Parents DEF HeapNodes
    <3>1. CASE j = heap_c
      BY <1>4, <2>1, <2>2, <2>6, <3>1 DEF b
    <3>2. CASE j # heap_c /\ Parent(j) = heap_c
      BY <2>2, <2>5, <2>7, <3>2
    <3>3. CASE j # heap_c /\ Parent(j) = b
      BY <1>4, <2>1, <2>2, <2>4, <2>6, <2>7, <3>3
    <3>4. CASE j # heap_c /\ Parent(j) # heap_c /\ Parent(j) # b
      BY <2>2, <2>4, <2>7, <3>0, <3>4
    <3> QED
      BY <3>1, <3>2, <3>3, <3>4
  <2>8. ASSUME ~heap_tied, NEW j \in HeapNodes \ {0}, Parent(j) = b, b > 0
        PROVE  heap_node'[Parent(b)].score <= heap_node'[j].score
    <3>1. b \in HeapNodes \ {0} /\ Parent(b) \in HeapNodes /\ Parent(b) < b
      <4>1. b \in HeapNodes \ {0}
        BY <2>1, <2>8
      <4> QED
        BY <4>1, Parents
    <3>2. Parent(b) # b /\ Parent(b) # heap_c
      BY <2>1, <3>1 DEF HeapNodes
    <3>3. heap_node'[Parent(b)] = heap_node[Parent(b)] /\ heap_node[Parent(b)].score <= heap_node[b].score
      BY <2>1, <2>2, <2>4, <2>8, <3>1, <3>2
    <3>4. CASE j = heap_c
      BY <2>2, <3>3, <3>4
    <3>5. CASE j # heap_c
      <4>1. j # b /\ heap_node[b].score <= heap_node[j].score
        BY <2>4, <2>8, <3>2, <3>5
      <4>2. heap_node[Parent(b)].score \in Int /\ heap_node[b].score \in Int /\ heap_node[j].score \in Int
        BY <1>4, <2>1, <3>1
      <4>3. heap_node[Parent(b)].score <= heap_node[j].score
        BY <3>3, <4>1, <4>2
      <4>4. heap_node'[j] = heap_node[j]
        BY <2>2, <3>5, <4>1
      <4> QED
        BY <3>3, <4>3, <4>4
    <3> QED
      BY <3>4, <3>5
  <2>9. ASSUME ~heap_tied PROVE Ordered'
    <3>1. heap_c' = b /\ heap_pc' = "up"
      BY <1>1, <1>5 DEF b
    <3> QED
      BY <2>9, <2>7, <2>8, <3>1 DEF Ordered, Parent
  <2>10. HeapTopK'
    BY <1>1, <1>5 DEF HeapTopK
  <2> QED
    BY <1>1, <2>2, <2>3, <2>9, <2>10 DEF HeapInv
<1>6. CASE ~(heap_c > 0 /\ heap_node[heap_c].score < heap_node[Parent(heap_c)].score) /\ Taken
           /\ heap_node' = heap_node
  <2>1. heap_pc' = "next" /\ heap_pos' = heap_pos + 1 /\ heap_c' = 0 /\ Filled' = Filled
        /\ Offered' = Offered
    BY <1>1, <1>2, <1>3, <1>6 DEF Taken, Filled, Offered
  <2>2. HeapType'
    BY <1>1, <1>2, <1>6, <2>1 DEF HeapType, HeapNodes
  <2>3. HeapHolds'
    BY <1>1, <1>6, <2>1 DEF HeapHolds
  <2>4. ASSUME ~heap_tied PROVE HeapBest'
    <3>1. \A p \in HeapPositions : Kept(p) => Kept(p)'
      <4>1. \A j \in HeapNodes : j < Filled => j < Filled' /\ heap_node'[j].id = heap_node[j].id
        BY <1>6, <2>1
      <4> QED
        BY <4>1 DEF Kept
    <3>2. \A p \in HeapPositions : Dropped(p) => Dropped(p)'
      <4>1. ~(HeapK <= heap_pos)
        BY <1>2
      <4> QED
        BY <4>1 DEF Dropped
    <3> QED
      BY <2>4, <1>1, <2>1, <3>1, <3>2 DEF HeapBest
  <2>5. ASSUME ~heap_tied, NEW j \in HeapNodes \ {0}
        PROVE  heap_node[Parent(j)].score <= heap_node[j].score
    <3>1. CASE j = heap_c
      <4>1. Parent(heap_c) \in HeapNodes /\ heap_c > 0
        BY <1>2, <3>1, Parents
      <4>2. ~(heap_node[heap_c].score < heap_node[Parent(heap_c)].score)
        BY <1>6, <4>1
      <4>3. heap_node[heap_c].score \in Int /\ heap_node[Parent(heap_c)].score \in Int
        BY <1>2, <1>4, <4>1
      <4> QED
        BY <3>1, <4>2, <4>3
    <3>2. CASE j # heap_c
      BY <1>1, <2>5, <3>2 DEF Ordered
    <3> QED
      BY <3>1, <3>2
  <2>6. ASSUME ~heap_tied PROVE Ordered'
    BY <2>6, <1>6, <2>1, <2>5 DEF Ordered, Parent
  <2>7. HeapMax'
    BY <1>1, <1>6, <2>1 DEF HeapMax
  <2>8. HeapTopK'
    BY <2>1 DEF HeapTopK
  <2> QED
    BY <1>1, <2>2, <2>3, <2>4, <2>6, <2>7, <2>8 DEF HeapInv
<1> QED
  BY <1>5, <1>6 DEF SiftUp

LEMMA OfferStep ==
    ASSUME HeapAssumption, HeapInv, OfferScore PROVE HeapInv'
<1>1. HeapType /\ HeapHolds /\ HeapMax /\ (~heap_tied => HeapBest /\ Ordered)
      /\ heap_pc = "next" /\ HeapK <= heap_pos
      /\ heap_pos < HeapN /\ heap_score' = heap_score /\ heap_tied' = heap_tied
      /\ heap_out' = heap_out
  BY DEF HeapInv, OfferScore
<1>2. /\ HeapK \in Nat /\ HeapN \in Nat /\ heap_pos \in Nat /\ 0 \in HeapNodes /\ 0 < HeapK
         /\ heap_pos \in HeapPositions
      /\ Filled = HeapK /\ Offered = heap_pos
  BY <1>1, FilledNat DEF HeapType, HeapPositions, Filled, Offered
<1>3. \A j \in HeapNodes : /\ j < HeapK /\ heap_node[j].score \in Int
                            /\ heap_node[j].id \in Nat /\ heap_node[j].id < heap_pos
                            /\ heap_node[j].score = heap_score[heap_node[j].id]
  <2> TAKE j \in HeapNodes
  <2>1. j < HeapK
    BY <1>2 DEF HeapNodes
  <2>2. heap_node[j].score \in Int /\ heap_node[j].id \in HeapPositions
    BY <1>1, ScoreBelow
  <2> QED
    BY <1>1, <1>2, <2>1, <2>2 DEF HeapHolds, HeapPositions
<1>4. ASSUME ~heap_tied PROVE \A j \in HeapNodes : heap_node[0].score <= heap_node[j].score
  BY <1>1, <1>4, RootLeast
<1>5. heap_score[heap_pos] \in HeapScores /\ heap_score[heap_pos] \in Int /\ heap_score[heap_pos] < HeapHuge
      /\ \A p \in HeapPositions : heap_score[p] \in Int
  BY <1>1, <1>2 DEF HeapType, HeapAssumption
<1>6. CASE /\ BeatsRoot /\ heap_node' = [heap_node EXCEPT ![0] = HeapEntry(heap_pos)]
           /\ heap_pc' = "down" /\ heap_c' = 0 /\ heap_pos' = heap_pos
  <2>1. /\ heap_node' \in [HeapNodes -> [id : HeapPositions, score : Int]]
        /\ heap_node'[0].id = heap_pos /\ heap_node'[0].score = heap_score[heap_pos]
        /\ \A j \in HeapNodes : j # 0 => heap_node'[j] = heap_node[j]
    BY <1>1, <1>2, <1>5, <1>6 DEF HeapEntry, HeapType
  <2>2. Filled' = HeapK /\ Offered' = heap_pos + 1
    BY <1>1, <1>2, <1>6 DEF Filled, Offered
  <2>3. HeapType'
    BY <1>1, <1>2, <1>6, <2>1 DEF HeapType
  <2>4. HeapHolds'
    <3>1. \A j \in HeapNodes : heap_node'[j].score = heap_score[heap_node'[j].id]
          /\ heap_node'[j].id < heap_pos + 1
      <4> TAKE j \in HeapNodes
      <4>1. CASE j = 0
        BY <1>2, <2>1, <4>1
      <4>2. CASE j # 0
        BY <1>2, <1>3, <2>1, <4>2
      <4> QED
        BY <4>1, <4>2
    <3>2. \A j \in HeapNodes : j # 0 => heap_node'[j].id # heap_pos
      BY <1>2, <1>3, <2>1
    <3>3. \A i, j \in HeapNodes : i # 0 /\ j # 0 /\ i # j => heap_node'[i].id # heap_node'[j].id
      BY <1>1, <1>2, <1>3, <2>1 DEF HeapHolds
    <3>4. \A i, j \in HeapNodes : i # j => heap_node'[i].id # heap_node'[j].id
      BY <2>1, <3>2, <3>3
    <3> QED
      BY <1>1, <1>3, <2>2, <3>1, <3>4 DEF HeapHolds
  <2>5. ASSUME ~heap_tied PROVE HeapBest'
    <3> SUFFICES ASSUME NEW p \in HeapPositions, p < heap_pos + 1 PROVE Kept(p)' \/ Dropped(p)'
      BY <2>5, <2>2 DEF HeapBest
    <3>1. heap_node[0].score < heap_score[heap_pos] /\ heap_node[0].score \in Int
      BY <1>2, <1>3, <1>5, <1>6 DEF BeatsRoot
    <3>2. ASSUME heap_score[p] <= heap_node[0].score PROVE Dropped(p)'
      <4>1. \A j \in HeapNodes : heap_score[p] <= heap_node'[j].score
        <5> TAKE j \in HeapNodes
        <5>1. CASE j = 0
          BY <1>5, <2>1, <3>1, <3>2, <5>1
        <5>2. CASE j # 0
          <6>1. heap_node[0].score <= heap_node[j].score /\ heap_node[j].score \in Int
                /\ heap_score[p] \in Int
            BY <1>3, <1>4, <1>5, <2>5
          <6>2. heap_score[p] <= heap_node[j].score
            BY <3>1, <3>2, <6>1
          <6> QED
            BY <2>1, <5>2, <6>2
        <5> QED
          BY <5>1, <5>2
      <4> QED
        BY <1>1, <1>6, <4>1 DEF Dropped
    <3>3. CASE p = heap_pos
      BY <1>2, <2>1, <2>2, <3>3 DEF Kept
    <3>4. CASE p # heap_pos /\ Kept(p)
      <4>1. PICK j \in HeapNodes : heap_node[j].id = p
        BY <3>4 DEF Kept
      <4>2. CASE j = 0
        <5>1. heap_score[p] = heap_node[0].score
          BY <1>3, <4>1, <4>2
        <5> QED
          BY <3>1, <3>2, <5>1
      <4>3. CASE j # 0
        BY <1>3, <2>1, <2>2, <4>1, <4>3 DEF Kept
      <4> QED
        BY <4>2, <4>3
    <3>5. CASE p # heap_pos /\ Dropped(p)
      BY <1>2, <3>2, <3>5 DEF Dropped
    <3>6. p # heap_pos => Kept(p) \/ Dropped(p)
      <4>1. p # heap_pos => p < Offered
        BY <1>2 DEF HeapPositions
      <4> QED
        BY <2>5, <1>1, <4>1 DEF HeapBest
    <3> QED
      BY <3>3, <3>4, <3>5, <3>6
  <2>6. ASSUME ~heap_tied PROVE Ordered'
    <3>1. ASSUME NEW j \in HeapNodes \ {0}, Parent(j) # 0
          PROVE  heap_node'[Parent(j)].score <= heap_node'[j].score
      <4>1. Parent(j) \in HeapNodes /\ heap_node[Parent(j)].score <= heap_node[j].score
        BY <2>6, <1>1, Parents DEF Ordered
      <4> QED
        BY <2>1, <3>1, <4>1
    <3> QED
      BY <2>6, <1>6, <3>1 DEF Ordered, Parent
  <2>7. HeapMax'
    <3> SUFFICES ASSUME NEW p \in HeapPositions, p < heap_pos + 1
                 PROVE  \E j \in HeapNodes : j < HeapK /\ heap_score[p] <= heap_node'[j].score
      BY <1>1, <2>2 DEF HeapMax
    <3>1. CASE p = heap_pos
      BY <1>2, <1>5, <2>1, <3>1
    <3>2. CASE p # heap_pos
      <4>1. p < Offered
        BY <1>2, <3>2 DEF HeapPositions
      <4>2. PICK j \in HeapNodes : heap_score[p] <= heap_node[j].score
        BY <1>1, <4>1 DEF HeapMax
      <4>3. heap_node[0].score < heap_score[heap_pos]
        BY <1>6 DEF BeatsRoot
      <4>4. CASE j = 0
        BY <1>2, <1>3, <1>5, <2>1, <4>2, <4>3, <4>4
      <4>5. CASE j # 0
        BY <1>3, <2>1, <4>2, <4>5
      <4> QED
        BY <4>4, <4>5
    <3> QED
      BY <3>1, <3>2
  <2>8. HeapTopK'
    BY <1>6 DEF HeapTopK
  <2> QED
    BY <1>1, <2>3, <2>4, <2>5, <2>6, <2>7, <2>8 DEF HeapInv
<1>7. CASE ~BeatsRoot /\ Taken /\ heap_node' = heap_node
  <2>1. heap_pc' = "next" /\ heap_pos' = heap_pos + 1 /\ heap_c' = 0 /\ Filled' = HeapK
        /\ Offered' = heap_pos + 1
    BY <1>1, <1>2, <1>7 DEF Taken, Filled, Offered
  <2>2. HeapType'
    BY <1>1, <1>2, <1>7, <2>1 DEF HeapType, HeapNodes
  <2>3. HeapHolds'
    <3>1. \A j \in HeapNodes : heap_node[j].score = heap_score[heap_node[j].id]
          /\ heap_node[j].id < heap_pos + 1 /\ j < HeapK
      BY <1>2, <1>3
    <3> QED
      BY <1>1, <1>2, <1>7, <2>1, <3>1 DEF HeapHolds
  <2>4. ASSUME ~heap_tied PROVE HeapBest'
    <3> SUFFICES ASSUME NEW p \in HeapPositions, p < heap_pos + 1 PROVE Kept(p)' \/ Dropped(p)'
      BY <2>4, <2>1 DEF HeapBest
    <3>1. CASE p = heap_pos
      <4>1. heap_score[heap_pos] <= heap_node[0].score
        BY <1>2, <1>3, <1>5, <1>7 DEF BeatsRoot
      <4>2. \A j \in HeapNodes : heap_score[heap_pos] <= heap_node[j].score
        <5> TAKE j \in HeapNodes
        <5>1. heap_node[0].score <= heap_node[j].score /\ heap_node[j].score \in Int
              /\ heap_node[0].score \in Int
          BY <1>2, <1>3, <1>4, <2>4
        <5> QED
          BY <1>5, <4>1, <5>1
      <4> QED
        BY <1>1, <1>2, <1>7, <2>1, <3>1, <4>2 DEF Dropped
    <3>2. CASE p # heap_pos
      <4>1. p < Offered
        BY <1>2, <3>2 DEF HeapPositions
      <4>2. Kept(p) \/ Dropped(p)
        BY <2>4, <1>1, <4>1 DEF HeapBest
      <4> QED
        BY <1>1, <1>2, <1>7, <2>1, <4>2 DEF Kept, Dropped
    <3> QED
      BY <3>1, <3>2
  <2>5. ASSUME ~heap_tied PROVE Ordered'
    BY <2>5, <1>1, <1>7, <2>1 DEF Ordered, Parent
  <2>6. HeapMax'
    <3> SUFFICES ASSUME NEW p \in HeapPositions, p < heap_pos + 1
                 PROVE  \E j \in HeapNodes : j < HeapK /\ heap_score[p] <= heap_node[j].score
      BY <1>1, <1>7, <2>1 DEF HeapMax
    <3>1. CASE p = heap_pos
      BY <1>2, <1>3, <1>5, <1>7, <3>1 DEF BeatsRoot
    <3>2. CASE p # heap_pos
      <4>1. p < Offered
        BY <1>2, <3>2 DEF HeapPositions
      <4> QED
        BY <1>1, <1>2, <4>1 DEF HeapMax
    <3> QED
      BY <3>1, <3>2
  <2>7. HeapTopK'
    BY <2>1 DEF HeapTopK
  <2> QED
    BY <1>1, <2>2, <2>3, <2>4, <2>5, <2>6, <2>7 DEF HeapInv
<1> QED
  BY <1>6, <1>7 DEF OfferScore

LEMMA SiftDownStep ==
    ASSUME HeapAssumption, HeapInv, SiftDown PROVE HeapInv'
<1>1. HeapType /\ HeapHolds /\ HeapMax /\ (~heap_tied => HeapBest /\ Ordered)
      /\ heap_pc = "down" /\ heap_score' = heap_score
      /\ heap_out' = heap_out
  BY DEF HeapInv, SiftDown
<1>2. /\ heap_c \in HeapNodes /\ heap_c \in Nat /\ heap_c < HeapK /\ HeapK <= heap_pos
         /\ heap_pos < HeapN /\ heap_pos \in Nat /\ HeapK \in Nat /\ HeapN \in Nat
      /\ Filled = HeapK /\ Offered = heap_pos + 1
  BY <1>1 DEF HeapType, HeapAssumption, HeapNodes, Filled, Offered
<1>3. \A j \in HeapNodes : /\ j \in Nat /\ j < Filled
                            /\ heap_node[j].score \in Int /\ heap_node[j].score < HeapHuge
                            /\ heap_node[j].score = heap_score[heap_node[j].id]
                            /\ heap_node[j].id \in HeapPositions
  <2> TAKE j \in HeapNodes
  <2>1. j \in Nat /\ j < Filled
    BY <1>2 DEF HeapNodes
  <2> QED
    BY <1>1, <2>1, ScoreBelow DEF HeapHolds
<1>4. \A j \in Nat : Value(j) = IF j \in HeapNodes THEN heap_node[j].score ELSE HeapHuge
  BY <1>2 DEF Value, HeapNodes
<1>5. HeapHuge \in Int
  BY DEF HeapAssumption
<1> DEFINE left == 2 * heap_c + 1
           right == 2 * heap_c + 2
           b == LowerChild(heap_c)
<1>6. left \in Nat /\ right \in Nat /\ left # right /\ left # heap_c /\ right # heap_c
      /\ \A j \in HeapNodes \ {0} : Parent(j) = heap_c <=> j = left \/ j = right
  BY <1>2, Children
<1>7. Value(heap_c) = heap_node[heap_c].score /\ Value(left) \in Int /\ Value(right) \in Int
      /\ Value(heap_c) < HeapHuge
  BY <1>2, <1>3, <1>4, <1>5, <1>6
<1>8. \/ b = left /\ Value(left) < Value(heap_c) /\ Value(left) < Value(right)
      \/ b = right /\ Value(right) < Value(heap_c) /\ Value(right) < Value(left)
      \/ b = heap_c /\ ~(Value(left) < Value(heap_c) /\ Value(left) < Value(right))
               /\ ~(Value(right) < Value(heap_c) /\ Value(right) < Value(left))
  BY DEF LowerChild
<1> HIDE DEF left, right, b
<1>9. CASE b # heap_c /\ heap_node' = Swap(heap_c, b) /\ heap_c' = b /\ heap_pos' = heap_pos
           /\ heap_pc' = heap_pc /\ heap_tied' = heap_tied
  <2>1. b \in HeapNodes /\ b \in Nat /\ b # 0 /\ Parent(b) = heap_c
        /\ heap_node[b].score < heap_node[heap_c].score
    <3>1. (b = left \/ b = right) /\ Value(b) < Value(heap_c)
      BY <1>8, <1>9
    <3>2. b \in HeapNodes /\ Value(b) = heap_node[b].score
      <4>1. b \in Nat /\ Value(b) \in Int /\ Value(heap_c) \in Int /\ Value(b) # HeapHuge
        BY <1>2, <1>3, <1>5, <1>6, <1>7, <3>1
      <4> QED
        BY <1>4, <4>1
    <3>3. b # 0
      BY <1>2, <3>1 DEF left, right
    <3> QED
      BY <1>3, <1>6, <1>7, <3>1, <3>2, <3>3
  <2>2. \A j \in HeapNodes \ {0} : Parent(j) = heap_c /\ j # b => heap_node[b].score <= heap_node[j].score
    <3> SUFFICES ASSUME NEW j \in HeapNodes \ {0}, Parent(j) = heap_c, j # b
                 PROVE  heap_node[b].score <= heap_node[j].score
      OBVIOUS
    <3>1. j = left \/ j = right
      BY <1>6
    <3>2. Value(b) < Value(j)
      BY <1>8, <1>9, <3>1
    <3>3. Value(b) = heap_node[b].score /\ Value(j) = heap_node[j].score
      BY <1>3, <1>4, <2>1
    <3> QED
      BY <1>3, <2>1, <3>2, <3>3
  <2>3. /\ heap_node' \in [HeapNodes -> [id : HeapPositions, score : Int]]
        /\ heap_node'[heap_c] = heap_node[b] /\ heap_node'[b] = heap_node[heap_c]
        /\ \A j \in HeapNodes : j # heap_c /\ j # b => heap_node'[j] = heap_node[j]
        /\ HeapHolds' /\ HeapMax' /\ (HeapBest => HeapBest')
    BY <1>1, <1>2, <1>3, <1>9, <2>1, SwapKeeps
  <2>4. HeapType'
    BY <1>1, <1>2, <1>9, <2>1, <2>3 DEF HeapType
  <2>5. ASSUME ~heap_tied
        PROVE  \A j \in HeapNodes \ {0} :
                  Parent(j) # heap_c => heap_node[Parent(j)].score <= heap_node[j].score
    BY <1>1, <2>5 DEF Ordered
  <2>6. ASSUME ~heap_tied, heap_c > 0 PROVE heap_node[Parent(heap_c)].score <= heap_node[b].score
    BY <1>1, <2>6, <2>1 DEF Ordered
  <2>7. ASSUME ~heap_tied, NEW j \in HeapNodes \ {0}, Parent(j) # b
        PROVE  heap_node'[Parent(j)].score <= heap_node'[j].score
    <3>0. Parent(j) \in HeapNodes /\ Parent(j) # j
      BY Parents DEF HeapNodes
    <3>1. CASE j = b
      BY <1>3, <2>1, <2>3, <3>1
    <3>2. CASE j # b /\ Parent(j) = heap_c
      BY <2>2, <2>3, <3>0, <3>2
    <3>3. CASE j = heap_c
      <4>1. heap_c > 0 /\ Parent(heap_c) # heap_c /\ Parent(heap_c) # b
        BY <1>2, <2>7, <3>0, <3>3
      <4>2. heap_node'[Parent(heap_c)] = heap_node[Parent(heap_c)]
        BY <2>3, <3>0, <3>3, <4>1
      <4> QED
        BY <2>3, <2>6, <2>7, <3>3, <4>1, <4>2
    <3>4. CASE j # b /\ j # heap_c /\ Parent(j) # heap_c
      BY <2>3, <2>5, <2>7, <3>0, <3>4
    <3> QED
      BY <3>1, <3>2, <3>3, <3>4
  <2>8. ASSUME ~heap_tied, NEW j \in HeapNodes \ {0}, Parent(j) = b
        PROVE  heap_node'[Parent(b)].score <= heap_node'[j].score
    <3>1. j # b /\ j # heap_c
      <4>1. b < j /\ heap_c < b
        BY <2>1, <2>8, Parents
      <4> QED
        BY <1>2, <2>1, <4>1 DEF HeapNodes
    <3>2. heap_node[b].score <= heap_node[j].score
      BY <1>9, <2>5, <2>8
    <3> QED
      BY <2>1, <2>3, <3>1, <3>2
  <2>9. ASSUME ~heap_tied PROVE Ordered'
    <3>1. heap_c' = b /\ heap_pc' = "down"
      BY <1>1, <1>9
    <3> QED
      BY <2>9, <2>7, <2>8, <3>1 DEF Ordered, Parent
  <2>10. HeapTopK'
    BY <1>1, <1>9 DEF HeapTopK
  <2> QED
    BY <1>1, <1>9, <2>3, <2>4, <2>9, <2>10 DEF HeapInv
<1>10. CASE b = heap_c /\ Taken /\ heap_node' = heap_node /\ heap_tied' = (heap_tied \/ EqualBelow(heap_c))
  <2>1. heap_pc' = "next" /\ heap_pos' = heap_pos + 1 /\ heap_c' = 0 /\ Filled' = Filled
        /\ Offered' = Offered
    BY <1>1, <1>2, <1>10 DEF Taken, Filled, Offered
  <2>2. HeapType'
    BY <1>1, <1>2, <1>10, <2>1 DEF HeapType, HeapNodes
  <2>3. HeapHolds'
    BY <1>1, <1>10, <2>1 DEF HeapHolds
  <2>4. ASSUME ~heap_tied PROVE HeapBest'
    <3>1. \A p \in HeapPositions : Kept(p) => Kept(p)'
      BY <1>1, <1>10, <2>1 DEF Kept
    <3>2. \A p \in HeapPositions : Dropped(p) => Dropped(p)'
      BY <1>1, <1>2, <1>10, <2>1 DEF Dropped
    <3> QED
      BY <2>4, <1>1, <2>1, <3>1, <3>2 DEF HeapBest
  <2>5. ASSUME ~EqualBelow(heap_c)
        PROVE  Value(heap_c) <= Value(left) /\ Value(heap_c) <= Value(right)
    <3>1. Value(left) # Value(right) \/ ~(Value(left) < Value(heap_c))
      BY <2>5 DEF EqualBelow, left, right
    <3>2. /\ ~(Value(left) < Value(heap_c) /\ Value(left) < Value(right))
          /\ ~(Value(right) < Value(heap_c) /\ Value(right) < Value(left))
      BY <1>6, <1>8, <1>10
    <3>3. Value(heap_c) \in Int
      BY <1>2, <1>3, <1>7
    <3> QED
      BY <1>7, <3>1, <3>2, <3>3
  <2>6. ASSUME ~heap_tied, ~EqualBelow(heap_c), NEW j \in HeapNodes \ {0}
        PROVE  heap_node[Parent(j)].score <= heap_node[j].score
    <3>1. CASE Parent(j) = heap_c
      BY <1>3, <1>4, <1>6, <1>7, <2>5, <2>6, <3>1
    <3>2. CASE Parent(j) # heap_c
      BY <1>1, <2>6, <3>2 DEF Ordered
    <3> QED
      BY <3>1, <3>2
  <2>7. ASSUME ~heap_tied, ~EqualBelow(heap_c) PROVE Ordered'
    BY <2>7, <1>10, <2>1, <2>6 DEF Ordered, Parent
  <2>8. HeapMax'
    BY <1>1, <1>10, <2>1 DEF HeapMax
  <2>9. HeapTopK'
    BY <2>1 DEF HeapTopK
  <2> QED
    BY <1>1, <1>10, <2>2, <2>3, <2>4, <2>7, <2>8, <2>9 DEF HeapInv
<1> QED
  BY <1>9, <1>10 DEF SiftDown, b

LEMMA WriteIdsStep ==
    ASSUME HeapAssumption, HeapInv, WriteHeapIds PROVE HeapInv'
<1>1. HeapType /\ HeapHolds /\ HeapMax /\ (~heap_tied => HeapBest /\ Ordered)
      /\ heap_pc = "next" /\ heap_pos = HeapN
      /\ heap_pc' = "done"
      /\ heap_out' = [j \in HeapNodes |-> heap_node[j].id] /\ UNCHANGED <<heap_score, heap_pos, heap_node,
         heap_c, heap_tied>>
  BY DEF HeapInv, WriteHeapIds
<1>2. HeapK \in Nat /\ HeapN \in Nat /\ HeapK <= HeapN /\ Filled = HeapK /\ Offered = HeapN
      /\ Filled' = HeapK /\ Offered' = HeapN
  BY <1>1 DEF HeapAssumption, Filled, Offered
<1>3. HeapType' /\ HeapHolds' /\ HeapMax'
  BY <1>1, <1>2 DEF HeapType, HeapHolds, HeapMax
<1>4. \A j \in HeapNodes : j < HeapK /\ heap_out'[j] = heap_node[j].id
      /\ heap_node[j].score = heap_score[heap_node[j].id]
  BY <1>1, <1>2 DEF HeapHolds, HeapNodes
<1>5. \A i, j \in HeapNodes : i # j => heap_out'[i] # heap_out'[j]
  BY <1>1, <1>2, <1>4 DEF HeapHolds
<1>6. ASSUME ~heap_tied PROVE HeapBest' /\ Ordered'
  BY <1>1, <1>2, <1>6 DEF HeapBest, Kept, Dropped, Ordered, Parent
<1>7. ASSUME NEW p \in HeapPositions PROVE \E j \in HeapNodes : heap_score[p] <= heap_score[heap_out'[j]]
  <2>1. PICK j \in HeapNodes : heap_score[p] <= heap_node[j].score
    BY <1>1, <1>2 DEF HeapMax, HeapPositions
  <2> QED
    BY <1>4, <2>1
<1>8. ASSUME ~heap_tied, NEW p \in HeapPositions, NEW j \in HeapNodes, \A i \in HeapNodes : heap_out'[i] # p
      PROVE  heap_score[p] <= heap_score[heap_out'[j]]
  <2>1. p < Offered
    BY <1>2 DEF HeapPositions
  <2>2. ~Kept(p)
    BY <1>4, <1>8 DEF Kept
  <2> QED
    BY <1>1, <1>4, <1>8, <2>1, <2>2 DEF HeapBest, Dropped
<1>9. HeapTopK'
  BY <1>1, <1>5, <1>7, <1>8 DEF HeapTopK
<1> QED
  BY <1>1, <1>3, <1>6, <1>9 DEF HeapInv

(* topk_minheap, for a heap of any size, any number of scores and scores   *)
(* that may be equal: the ids written are different and those of a best    *)
(* score are among them; and they are those of the best scores, unless a   *)
(* node stayed above two equal children that are below it.                 *)
THEOREM HeapSelects == ASSUME HeapAssumption PROVE HeapSpec => []HeapTopK
<1>1. HeapInit => HeapInv
  <2> SUFFICES ASSUME HeapInit PROVE HeapInv
    OBVIOUS
  <2>1. HeapK \in Nat /\ HeapN \in Nat /\ HeapK >= 1 /\ HeapK <= HeapN /\ 0 \in HeapNodes
        /\ 0 \in HeapPositions /\ HeapHuge \in Int
    BY DEF HeapAssumption, HeapNodes, HeapPositions
  <2>2. heap_score \in [HeapPositions -> HeapScores] /\ heap_pos = 0 /\ heap_pc = "next" /\ heap_c = 0
        /\ heap_node = [j \in HeapNodes |-> [id |-> 0, score |-> HeapHuge]]
        /\ heap_tied = FALSE
    BY DEF HeapInit
  <2>3. Filled = 0 /\ Offered = 0
    BY <2>1, <2>2 DEF Filled, Offered
  <2>4. \A j \in HeapNodes : heap_node[j].score = HeapHuge /\ ~(j < 0)
    BY <2>1, <2>2 DEF HeapNodes
  <2>5. HeapType
    <3>1. heap_tied \in BOOLEAN
      BY <2>2
    <3>2. heap_node \in [HeapNodes -> [id : HeapPositions, score : Int]] /\ heap_pos \in 0 .. HeapN
          /\ heap_c \in HeapNodes
      BY <2>1, <2>2
    <3>3. heap_pc = "next"
      BY <2>2
    <3> QED
      BY <2>2, <3>1, <3>2, <3>3 DEF HeapType
  <2>6. HeapHolds
    BY <2>3, <2>4 DEF HeapHolds
  <2>7. HeapBest
    BY <2>1, <2>3 DEF HeapBest, HeapPositions
  <2>8. Ordered
    BY <2>1, <2>2, <2>4, Parents DEF Ordered
  <2>9. HeapTopK
    BY <2>2 DEF HeapTopK
  <2>10. HeapMax
    BY <2>1, <2>3 DEF HeapMax, HeapPositions
  <2> QED
    BY <2>5, <2>6, <2>7, <2>8, <2>9, <2>10 DEF HeapInv
<1>2. HeapInv /\ [HeapNext]_heap_vars => HeapInv'
  <2>1. ASSUME HeapInv, UNCHANGED heap_vars PROVE HeapInv'
    <3>1. /\ heap_score' = heap_score /\ heap_pos' = heap_pos /\ heap_node' = heap_node
          /\ heap_pc' = heap_pc /\ heap_c' = heap_c /\ heap_out' = heap_out
          /\ heap_tied' = heap_tied
      BY <2>1 DEF heap_vars
    <3>2. HeapType' /\ HeapHolds' /\ HeapMax'
      BY <2>1, <3>1 DEF HeapInv, HeapType, HeapHolds, HeapMax, Filled, Offered
    <3>3. ASSUME ~heap_tied PROVE HeapBest' /\ Ordered'
      BY <2>1, <3>3, <3>1 DEF HeapInv, HeapBest, Kept, Dropped, Filled, Offered, Ordered, Parent
    <3>4. HeapTopK'
      BY <2>1, <3>1 DEF HeapInv, HeapTopK
    <3> QED
      BY <3>1, <3>2, <3>3, <3>4 DEF HeapInv
  <2> QED
    BY <2>1, PushStep, SiftUpStep, OfferStep, SiftDownStep, WriteIdsStep DEF HeapNext
<1>3. HeapInv => HeapTopK
  BY DEF HeapInv
<1> QED
  BY <1>1, <1>2, <1>3, PTL DEF HeapSpec

--------------------------------------------------------------------------------
(* The search for the best devices.  A register of copies, a function of   *)
(* the data to sets of devices, against what was seen: the devices of the  *)
(* producer of each data and of its users since.  Of data that cannot be   *)
(* transferred to a device the register may lack users on that device.     *)
Registers == UNION {[D -> SUBSET KernelDevices] : D \in SUBSET STRING}
States == Registers \X Int
SeenBy(devices, i) == [data \in STRING |-> SeenOn(devices, i, data)]
SameData(reg, seen) == \A data \in STRING : data \in DOMAIN reg <=> seen[data] # {}
SameDevices(reg, seen) ==
    \A data \in DOMAIN reg, d \in KernelDevices :
        /\ d \in reg[data] => d \in seen[data]
        /\ d \in seen[data] => d \in reg[data] \/ ~Transferable(data, d)
Tells(reg, seen) ==
    /\ reg \in Registers /\ seen \in [STRING -> SUBSET KernelDevices]
    /\ SameData(reg, seen) /\ SameDevices(reg, seen)
Seeing(seen, S, d) == [data \in STRING |-> seen[data] \cup (IF data \in S THEN {d} ELSE {})]

(* What the input costs that a kernel on d takes, and whether. *)
Charged(seen, data, d) == seen[data] # {} /\ d \notin seen[data] /\ Transferable(data, d)

(* When a function is a register *)
LEMMA RegisterIs ==
    ASSUME NEW reg
    PROVE  /\ reg \in Registers <=> /\ DOMAIN reg \subseteq STRING /\ reg = [x \in DOMAIN reg |-> reg[x]]
                                    /\ \A x \in DOMAIN reg : reg[x] \subseteq KernelDevices
<1>1. ASSUME reg \in Registers
      PROVE  /\ DOMAIN reg \subseteq STRING /\ reg = [x \in DOMAIN reg |-> reg[x]]
             /\ \A x \in DOMAIN reg : reg[x] \subseteq KernelDevices
  <2>1. PICK D \in SUBSET STRING : reg \in [D -> SUBSET KernelDevices]
    BY <1>1 DEF Registers
  <2> QED
    BY <2>1
<1>2. ASSUME DOMAIN reg \subseteq STRING, reg = [x \in DOMAIN reg |-> reg[x]],
             \A x \in DOMAIN reg : reg[x] \subseteq KernelDevices
      PROVE  reg \in Registers
  <2> DEFINE D == DOMAIN reg
  <2>1. D \in SUBSET STRING /\ reg \in [D -> SUBSET KernelDevices]
    BY <1>2
  <2> HIDE DEF D
  <2> QED
    BY <2>1 DEF Registers
<1> QED
  BY <1>1, <1>2

(* A price is a number. *)
LEMMA PriceIs ==
    ASSUME AssignmentAssumption, profile \in Profiles, NEW i \in Position, NEW d \in KernelDevices
    PROVE  /\ KernelLatency(i, d) \in Int
           /\ \A data \in Range(Inputs[Kernels[i]]) : PcieLatency(SizeFor(i, data), Direction(d)) \in Int
<1>1. Kernels[i] \in Range(Kernels)
  BY DEF Position, Range
<1>2. KernelLatency(i, d) \in Int
  BY <1>1 DEF KernelLatency, AssignmentAssumption, KernelDevices
<1>3. ASSUME NEW data \in Range(Inputs[Kernels[i]])
      PROVE  PcieLatency(SizeFor(i, data), Direction(d)) \in Int
  <2> DEFINE s == SizeFor(i, data)
             b == Bandwidth(s, Direction(d))
  <2>1. Direction(d) \in Directions
    BY DEF Direction, Directions
  <2>2. s \in Nat /\ b \in Nat /\ b >= 1000
    BY <1>1, <1>3, <2>1 DEF AssignmentAssumption, SizeFor
  <2> HIDE DEF b, s
  <2>3. b \div 1000 \in Nat /\ b \div 1000 >= 1 /\ s * 2500 \in Nat
    BY <2>2
  <2> DEFINE q == b \div 1000
             p == s * 2500
  <2>4. q \in Nat \ {0} /\ p \in Nat
    BY <2>3
  <2> HIDE DEF q, p
  <2>5. p \div q \in Int
    BY <2>4, DivParts
  <2> QED
    BY <2>5 DEF PcieLatency, q, p, b, s
<1> QED
  BY <1>2, <1>3

(* One input *)
LEMMA InputTaken ==
    ASSUME AssignmentAssumption, profile \in Profiles, NEW i \in Position, NEW d \in KernelDevices,
           NEW data \in Range(Inputs[Kernels[i]]), data \in STRING,
           NEW state \in States, NEW seen, Tells(state[1], seen)
    PROVE  /\ TakeInput(state, i, d, data) \in States
           /\ Tells(TakeInput(state, i, d, data)[1], Seeing(seen, {data}, d))
           /\ TakeInput(state, i, d, data)[2]
                = state[2] + (IF Charged(seen, data, d) THEN PcieLatency(SizeFor(i, data), Direction(d)) ELSE 0)
<1> DEFINE reg == state[1]
           cost == PcieLatency(SizeFor(i, data), Direction(d))
           next == Seeing(seen, {data}, d)
<1>1. cost \in Int
  BY PriceIs
<1>2. state = <<reg, state[2]>> /\ reg \in Registers /\ state[2] \in Int
  BY DEF States
<1>3. /\ seen \in [STRING -> SUBSET KernelDevices]
      /\ \A x \in STRING : x \in DOMAIN reg <=> seen[x] # {}
      /\ \A x \in DOMAIN reg, e \in KernelDevices :
            /\ e \in reg[x] => e \in seen[x]
            /\ e \in seen[x] => e \in reg[x] \/ ~Transferable(x, e)
  BY DEF Tells, SameData, SameDevices
<1>4. DOMAIN reg \subseteq STRING /\ reg = [x \in DOMAIN reg |-> reg[x]]
      /\ \A x \in DOMAIN reg : reg[x] \subseteq KernelDevices
  BY <1>2, RegisterIs
<1>5. /\ next \in [STRING -> SUBSET KernelDevices]
      /\ next[data] = seen[data] \cup {d}
      /\ \A x \in STRING : x # data => next[x] = seen[x]
  BY <1>3 DEF Seeing
<1>6. CASE data \notin DOMAIN reg
  <2> DEFINE new == Register(reg, {data}, d)
  <2>1. TakeInput(state, i, d, data) = <<new, state[2]>>
    BY <1>6 DEF TakeInput
  <2>2. DOMAIN new = DOMAIN reg \cup {data} /\ new[data] = {d} /\ new = [x \in DOMAIN new |-> new[x]]
        /\ \A x \in DOMAIN reg : new[x] = reg[x]
    BY <1>6 DEF Register
  <2>3. seen[data] = {}
    BY <1>3, <1>6
  <2> HIDE DEF new, next, reg
  <2>4. new \in Registers
    <3>1. \A x \in DOMAIN new : new[x] \subseteq KernelDevices
      BY <1>4, <2>2
    <3> QED
      BY <1>4, <2>2, <3>1, RegisterIs
  <2>5. Tells(new, next)
    <3>1. SameData(new, next)
      BY <1>3, <1>5, <2>2 DEF SameData
    <3>2. SameDevices(new, next)
      BY <1>3, <1>4, <1>5, <1>6, <2>2, <2>3 DEF SameDevices
    <3> QED
      BY <1>5, <2>4, <3>1, <3>2 DEF Tells
  <2>6. ~Charged(seen, data, d)
    BY <2>3 DEF Charged
  <2> QED
    BY <1>2, <2>1, <2>4, <2>5, <2>6 DEF States, next
<1>7. CASE data \in DOMAIN reg /\ (d \in reg[data] \/ ~Transferable(data, d))
  <2>1. TakeInput(state, i, d, data) = state
    BY <1>7 DEF TakeInput
  <2> HIDE DEF next, reg
  <2>2. ~Charged(seen, data, d)
    <3>1. d \in reg[data] => d \in seen[data]
      BY <1>3, <1>7
    <3> QED
      BY <1>7, <3>1 DEF Charged
  <2>3. Tells(reg, next)
    <3>1. SameData(reg, next)
      BY <1>3, <1>5, <1>7 DEF SameData
    <3>2. SameDevices(reg, next)
      BY <1>3, <1>4, <1>5, <1>7 DEF SameDevices
    <3> QED
      BY <1>2, <1>5, <3>1, <3>2 DEF Tells
  <2> QED
    BY <1>2, <2>1, <2>2, <2>3 DEF next, reg
<1>8. CASE data \in DOMAIN reg /\ ~(d \in reg[data] \/ ~Transferable(data, d))
  <2> DEFINE new == [reg EXCEPT ![data] = @ \cup {d}]
  <2>1. TakeInput(state, i, d, data) = <<new, state[2] + cost>>
    BY <1>8 DEF TakeInput
  <2>2. DOMAIN new = DOMAIN reg /\ new[data] = reg[data] \cup {d} /\ new = [x \in DOMAIN new |-> new[x]]
        /\ \A x \in DOMAIN reg : x # data => new[x] = reg[x]
    BY <1>4, <1>8
  <2> HIDE DEF new, next, reg, cost
  <2>3. new \in Registers
    <3>1. \A x \in DOMAIN new : new[x] \subseteq KernelDevices
      BY <1>4, <1>8, <2>2
    <3> QED
      BY <1>4, <2>2, <3>1, RegisterIs
  <2>4. Charged(seen, data, d)
    BY <1>3, <1>4, <1>8 DEF Charged
  <2>5. Tells(new, next)
    <3>1. SameData(new, next)
      BY <1>3, <1>5, <1>8, <2>2 DEF SameData
    <3>2. SameDevices(new, next)
      BY <1>3, <1>4, <1>5, <1>8, <2>2 DEF SameDevices
    <3> QED
      BY <1>5, <2>3, <3>1, <3>2 DEF Tells
  <2>6. state[2] + cost \in Int
    BY <1>1, <1>2
  <2> DEFINE price == state[2] + cost
             result == <<new, price>>
  <2>7. TakeInput(state, i, d, data) = result
    BY <2>1
  <2> HIDE DEF price
  <2>8. result \in States /\ result[1] = new /\ result[2] = price
    BY <2>3, <2>6 DEF States, price
  <2> HIDE DEF result
  <2>9. TakeInput(state, i, d, data) \in States /\ Tells(TakeInput(state, i, d, data)[1], next)
    BY <2>5, <2>7, <2>8
  <2>10. TakeInput(state, i, d, data)[2] = state[2] + cost
    BY <2>7, <2>8 DEF price
  <2> QED
    BY <2>4, <2>9, <2>10 DEF next, cost
<1> QED
  BY <1>6, <1>7, <1>8

(* What is seen is again sets of devices, and no data adds nothing. *)
LEMMA SeeingIs ==
    ASSUME NEW seen, seen \in [STRING -> SUBSET KernelDevices], NEW S, NEW d \in KernelDevices
    PROVE  Seeing(seen, S, d) \in [STRING -> SUBSET KernelDevices] /\ Seeing(seen, {}, d) = seen
<1>1. Seeing(seen, S, d) \in [STRING -> SUBSET KernelDevices]
  BY DEF Seeing
<1>2. \A y \in STRING : seen[y] = Seeing(seen, {}, d)[y]
  BY DEF Seeing
<1> QED
  BY <1>1, <1>2 DEF Seeing

(* What one device sees of two sets, it sees of their union. *)
LEMMA SeeingJoined ==
    ASSUME NEW seen, NEW S, NEW T, NEW d
    PROVE  Seeing(Seeing(seen, S, d), T, d) = Seeing(seen, S \cup T, d)
<1>1. \A y \in STRING : Seeing(Seeing(seen, S, d), T, d)[y] = Seeing(seen, S \cup T, d)[y]
  <2> TAKE y \in STRING
  <2>1. Seeing(Seeing(seen, S, d), T, d)[y]
          = (seen[y] \cup (IF y \in S THEN {d} ELSE {})) \cup (IF y \in T THEN {d} ELSE {})
    BY DEF Seeing
  <2>2. Seeing(seen, S \cup T, d)[y] = seen[y] \cup (IF y \in S \cup T THEN {d} ELSE {})
    BY DEF Seeing
  <2> QED
    BY <2>1, <2>2
<1> QED
  BY <1>1 DEF Seeing

(* All inputs of a kernel: each is charged once. *)
Paid(seen, i, d) ==
    [data \in Range(Inputs[Kernels[i]]) |->
        IF Charged(seen, data, d) THEN PcieLatency(SizeFor(i, data), Direction(d)) ELSE 0]
SumPaid(seen, i, d) == SumFunctionOnSet(Paid(seen, i, d), Range(Inputs[Kernels[i]]))
TellsAll(state, start, seen, S, i, d) ==
    /\ state \in States
    /\ Tells(state[1], Seeing(seen, S, d))
    /\ state[2] = start[2] + SumFunctionOnSet(Paid(seen, i, d), S)

(* One more of the inputs *)
LEMMA MoreTaken ==
    ASSUME AssignmentAssumption, profile \in Profiles, NEW i \in Position, NEW d \in KernelDevices,
           NEW S, S \subseteq Range(Inputs[Kernels[i]]), IsFiniteSet(S),
           NEW data \in Range(Inputs[Kernels[i]]), data \in STRING,
           NEW start \in States, NEW seen, seen \in [STRING -> SUBSET KernelDevices],
           NEW state, TellsAll(state, start, seen, S, i, d)
    PROVE  TellsAll(TakeInput(state, i, d, data), start, seen, S \cup {data}, i, d)
<1> DEFINE now == Seeing(seen, S, d)
           new == TakeInput(state, i, d, data)
           cost == PcieLatency(SizeFor(i, data), Direction(d))
           paid == Paid(seen, i, d)
<1>1. state \in States /\ Tells(state[1], now) /\ state[2] = start[2] + SumFunctionOnSet(paid, S)
  BY DEF TellsAll
<1>2. /\ new \in States
      /\ Tells(new[1], Seeing(now, {data}, d))
      /\ new[2] = state[2] + (IF Charged(now, data, d) THEN cost ELSE 0)
  <2> HIDE DEF now
  <2> QED
    BY <1>1, InputTaken
<1>3. Seeing(now, {data}, d) = Seeing(seen, S \cup {data}, d)
  <2> DEFINE T == {data}
  <2> HIDE DEF T
  <2>1. Seeing(Seeing(seen, S, d), T, d) = Seeing(seen, S \cup T, d)
    BY SeeingJoined
  <2> QED
    BY <2>1 DEF T
<1>4. \A x \in Range(Inputs[Kernels[i]]) : paid[x] \in Int
  <2>1. \A x \in Range(Inputs[Kernels[i]]) : PcieLatency(SizeFor(i, x), Direction(d)) \in Int
    BY PriceIs
  <2> TAKE x \in Range(Inputs[Kernels[i]])
  <2>2. paid[x] = IF Charged(seen, x, d) THEN PcieLatency(SizeFor(i, x), Direction(d)) ELSE 0
    BY DEF Paid
  <2> DEFINE p == PcieLatency(SizeFor(i, x), Direction(d))
             value == paid[x]
  <2>3. p \in Int
    BY <2>1
  <2>4. value = p \/ value = 0
    BY <2>2
  <2> HIDE DEF p, value
  <2>5. value \in Int
    BY <2>3, <2>4
  <2> QED
    BY <2>5 DEF value
<1>5. paid[data] = IF Charged(seen, data, d) THEN cost ELSE 0
  BY DEF Paid
<1>6. cost \in Int /\ start[2] \in Int
  BY PriceIs DEF States
<1>7. SumFunctionOnSet(paid, S) \in Int
  BY <1>4, SumNumber
<1>8. now[data] = seen[data] \cup (IF data \in S THEN {d} ELSE {})
  BY DEF Seeing
<1>9. new[2] = start[2] + SumFunctionOnSet(paid, S \cup {data})
  <2> HIDE DEF now, new, cost, paid
  <2>1. CASE data \in S
    <3>1. ~Charged(now, data, d)
      BY <1>8, <2>1 DEF Charged
    <3>2. S \cup {data} = S
      BY <2>1
    <3>3. new[2] = state[2]
      <4>1. state[2] \in Int
        BY <1>1, <1>6, <1>7
      <4> QED
        BY <1>2, <3>1, <4>1
    <3> QED
      BY <1>1, <3>2, <3>3
  <2>2. CASE data \notin S
    <3>1. Charged(now, data, d) <=> Charged(seen, data, d)
      BY <1>8, <2>2 DEF Charged
    <3>2. \A y \in S \cup {data} : paid[y] \in Int
      BY <1>4
    <3>3. SumFunctionOnSet(paid, S \cup {data}) = SumFunctionOnSet(paid, S) + paid[data]
      BY <2>2, <3>2, SumAdd
    <3>4. new[2] = state[2] + paid[data]
      BY <1>2, <1>5, <3>1
    <3> DEFINE a == start[2]
               b == SumFunctionOnSet(paid, S)
               c == paid[data]
    <3>5. a \in Int /\ b \in Int /\ c \in Int
      BY <1>4, <1>6, <1>7
    <3>6. state[2] = a + b /\ new[2] = state[2] + c /\ SumFunctionOnSet(paid, S \cup {data}) = b + c
      BY <1>1, <3>3, <3>4
    <3> HIDE DEF a, b, c
    <3>7. new[2] = a + (b + c)
      BY <3>5, <3>6
    <3> QED
      BY <3>6, <3>7 DEF a
  <2> QED
    BY <2>1, <2>2
<1> QED
  BY <1>2, <1>3, <1>9 DEF TellsAll

(* TakeInputs takes all. *)
LEMMA TakenAll ==
    ASSUME AssignmentAssumption, profile \in Profiles, NEW i \in Position, NEW d \in KernelDevices,
           NEW start \in States, NEW seen, Tells(start[1], seen)
    PROVE  TellsAll(TakeInputs(start, i, d), start, seen, Range(Inputs[Kernels[i]]), i, d)
<1> DEFINE W == Inputs[Kernels[i]]
           N == Len(W)
           Firsts(j) == {W[m] : m \in 1 .. j}
           D(h) == [n \in 0 .. N |-> IF n = 0 THEN start ELSE TakeInput(h[n - 1], i, d, W[n])]
           after == CHOOSE h : h = D(h)
           V == {s \in States : \E e \in [STRING -> SUBSET KernelDevices] : Tells(s[1], e)}
           step == [x \in (1 .. N) \X V |-> TakeInput(x[2], i, d, W[x[1]])]
<1>1. /\ W \in Seq(STRING) /\ N \in Nat
      /\ \A j \in 1 .. N : W[j] \in STRING /\ W[j] \in Range(W)
  <2>1. Kernels[i] \in Range(Kernels)
    BY DEF Position, Range
  <2>2. W \in Seq(STRING)
    BY <2>1 DEF AssignmentAssumption
  <2> HIDE DEF W
  <2> QED
    BY <2>2 DEF Range
<1>2. seen \in [STRING -> SUBSET KernelDevices] /\ start \in V
  BY DEF Tells
<1>3. TakeInputs(start, i, d) = after[N]
  BY DEF TakeInputs
<1>4. Range(W) = Firsts(N)
  BY <1>1 DEF Range
<1> HIDE DEF N
<1>5. \A j \in 1 .. N : \A v \in V : step[<<j, v>>] = TakeInput(v, i, d, W[j]) /\ step[<<j, v>>] \in V
  <2> TAKE j \in 1 .. N
  <2> TAKE v \in V
  <2>1. step[<<j, v>>] = TakeInput(v, i, d, W[j])
    <3> HIDE DEF V
    <3>1. <<j, v>> \in (1 .. N) \X V
      OBVIOUS
    <3> QED
      BY <3>1
  <2>2. PICK e \in [STRING -> SUBSET KernelDevices] : Tells(v[1], e)
    OBVIOUS
  <2>3. /\ TakeInput(v, i, d, W[j]) \in States
        /\ Tells(TakeInput(v, i, d, W[j])[1], Seeing(e, {W[j]}, d))
    <3>1. v \in States /\ W[j] \in Range(W) /\ W[j] \in STRING
      BY <1>1
    <3> HIDE DEF V
    <3> QED
      BY <2>2, <3>1, InputTaken
  <2>4. Seeing(e, {W[j]}, d) \in [STRING -> SUBSET KernelDevices]
    BY SeeingIs
  <2> QED
    BY <2>1, <2>3, <2>4
<1> HIDE DEF step, V, W
<1>6. PICK h \in [0 .. N -> V] : Iterates(start, step, N, h)
  <2>1. StaysIn(V, step, N)
    BY <1>5 DEF StaysIn
  <2> QED
    BY <1>1, <1>2, <2>1, Iterate
<1>7. h[0] = start /\ \A j \in 1 .. N : h[j] = TakeInput(h[j - 1], i, d, W[j])
  <2>1. \A j \in 1 .. N : h[j - 1] \in V
    BY <1>1
  <2> QED
    BY <1>5, <1>6, <2>1 DEF Iterates
<1>8. h = D(h)
  <2>1. \A j \in 0 .. N : h[j] = D(h)[j]
    <3>1. \A j \in 0 .. N : j = 0 \/ j \in 1 .. N
      BY <1>1
    <3> QED
      BY <1>7, <3>1
  <2> QED
    BY <2>1
<1>9. after = D(after)
  BY <1>8
<1> HIDE DEF after
<1>10. after[0] = start /\ \A j \in 1 .. N : after[j] = TakeInput(after[j - 1], i, d, W[j])
  <2>1. \A j \in 0 .. N : after[j] = D(after)[j]
    BY <1>9
  <2>2. 0 \in 0 .. N /\ \A j \in 1 .. N : j \in 0 .. N /\ j # 0
    BY <1>1
  <2> QED
    BY <2>1, <2>2
<1> DEFINE T == {j \in Nat : j <= N => TellsAll(after[j], start, seen, Firsts(j), i, d)}
<1>11. 0 \in T
  <2>1. Firsts(0) = {}
    OBVIOUS
  <2>2. Seeing(seen, {}, d) = seen
    BY <1>2, SeeingIs
  <2>3. start[2] + 0 = start[2]
    BY DEF States
  <2> QED
    BY <1>10, <2>1, <2>2, <2>3, SumEmpty DEF TellsAll
<1>12. ASSUME NEW j \in Nat, j \in T PROVE j + 1 \in T
  <2> SUFFICES ASSUME j + 1 <= N PROVE TellsAll(after[j + 1], start, seen, Firsts(j + 1), i, d)
    OBVIOUS
  <2>1. TellsAll(after[j], start, seen, Firsts(j), i, d)
    BY <1>1, <1>12
  <2>2. j + 1 \in 1 .. N /\ (j + 1) - 1 = j /\ 1 .. j + 1 = (1 .. j) \cup {j + 1}
        /\ \A m \in 1 .. j : m \in 1 .. N
    BY <1>1
  <2>3. after[j + 1] = TakeInput(after[j], i, d, W[j + 1])
    BY <1>10, <2>2
  <2>4. Firsts(j + 1) = Firsts(j) \cup {W[j + 1]}
    BY <2>2
  <2>5. Firsts(j) \subseteq Range(W) /\ IsFiniteSet(Firsts(j))
    <3>1. IsFiniteSet(1 .. j)
      BY FS_Interval
    <3> QED
      BY <1>1, <2>2, <3>1, FiniteRange
  <2>6. W[j + 1] \in Range(W) /\ W[j + 1] \in STRING
    BY <1>1, <2>2
  <2> DEFINE S == Firsts(j)
             data == W[j + 1]
             state == after[j]
  <2> HIDE DEF Firsts
  <2>7. TellsAll(TakeInput(state, i, d, data), start, seen, S \cup {data}, i, d)
    <3>1. TellsAll(state, start, seen, S, i, d) /\ S \subseteq Range(Inputs[Kernels[i]]) /\ IsFiniteSet(S)
          /\ data \in Range(Inputs[Kernels[i]]) /\ data \in STRING
      BY <2>1, <2>5, <2>6 DEF W
    <3> HIDE DEF S, data, state
    <3> QED
      BY <1>2, <3>1, MoreTaken
  <2> QED
    BY <2>3, <2>4, <2>7
<1>13. N \in T
  <2> HIDE DEF T
  <2> QED
    BY <1>1, <1>11, <1>12, Numbers
<1> HIDE DEF Firsts
<1>14. TellsAll(after[N], start, seen, Firsts(N), i, d)
  BY <1>1, <1>13
<1> QED
  BY <1>3, <1>4, <1>14 DEF W

(* What is seen after kernel i *)
Making(seen, S, d) == [data \in STRING |-> IF data \in S THEN {d} ELSE seen[data]]

(* The outputs of a kernel are on its device only, in the register as in what is seen. *)
LEMMA RegisterMade ==
    ASSUME NEW reg, NEW seen, Tells(reg, seen), NEW S, S \subseteq STRING, NEW d \in KernelDevices
    PROVE  Tells(Register(reg, S, d), Making(seen, S, d))
<1> DEFINE new == Register(reg, S, d)
           next == Making(seen, S, d)
<1>1. /\ reg \in Registers /\ seen \in [STRING -> SUBSET KernelDevices]
      /\ \A x \in STRING : x \in DOMAIN reg <=> seen[x] # {}
      /\ \A x \in DOMAIN reg, e \in KernelDevices :
            /\ e \in reg[x] => e \in seen[x]
            /\ e \in seen[x] => e \in reg[x] \/ ~Transferable(x, e)
  BY DEF Tells, SameData, SameDevices
<1>2. DOMAIN reg \subseteq STRING /\ \A x \in DOMAIN reg : reg[x] \subseteq KernelDevices
  BY <1>1, RegisterIs
<1>3. /\ DOMAIN new = DOMAIN reg \cup S /\ new = [x \in DOMAIN new |-> new[x]]
      /\ \A x \in DOMAIN new : new[x] = IF x \in S THEN {d} ELSE reg[x]
  BY DEF Register
<1>4. next \in [STRING -> SUBSET KernelDevices] /\ \A x \in STRING : next[x] = IF x \in S THEN {d} ELSE seen[x]
  BY <1>1 DEF Making
<1> HIDE DEF new, next
<1>5. new \in Registers
  <2>1. \A x \in DOMAIN new : new[x] \subseteq KernelDevices
    BY <1>2, <1>3
  <2> QED
    BY <1>2, <1>3, <2>1, RegisterIs
<1>6. SameData(new, next)
  BY <1>1, <1>3, <1>4 DEF SameData
<1>7. SameDevices(new, next)
  <2> SUFFICES ASSUME NEW x \in DOMAIN new, NEW e \in KernelDevices
               PROVE  /\ e \in new[x] => e \in next[x]
                      /\ e \in next[x] => e \in new[x] \/ ~Transferable(x, e)
    BY DEF SameDevices
  <2>1. x \in STRING
    BY <1>2, <1>3
  <2>2. CASE x \in S
    BY <1>3, <1>4, <2>1, <2>2
  <2>3. CASE x \notin S
    BY <1>1, <1>3, <1>4, <2>1, <2>3
  <2> QED
    BY <2>2, <2>3
<1>8. Tells(new, next)
  BY <1>4, <1>5, <1>6, <1>7 DEF Tells
<1> QED
  BY <1>8 DEF new, next

(* The producer of data, one kernel on *)
LEMMA OriginIs ==
    ASSUME NEW i \in Nat \ {0}, NEW data
    PROVE  /\ Origin(i, data) \in 0 .. i - 1
           /\ Makes(i, data) => Origin(i + 1, data) = i
           /\ ~Makes(i, data) => Origin(i + 1, data) = Origin(i, data)
<1> DEFINE S(n) == {0} \cup {j \in 1 .. n - 1 : Makes(j, data)}
<1>1. \A n \in Nat \ {0} : S(n) \in SUBSET Int /\ IsFiniteSet(S(n)) /\ S(n) # {} /\ \A x \in S(n) : x \in 0 .. n - 1
  <2> TAKE n \in Nat \ {0}
  <2>1. S(n) \in SUBSET (0 .. n - 1)
    OBVIOUS
  <2>2. IsFiniteSet(0 .. n - 1)
    BY FS_Interval
  <2>3. 0 \in S(n)
    OBVIOUS
  <2> HIDE DEF S
  <2> QED
    BY <2>1, <2>2, <2>3, FS_Subset
<1>2. Makes(i, data) => i \in S(i + 1)
  OBVIOUS
<1>3. ~Makes(i, data) => S(i + 1) = S(i)
  <2> SUFFICES ASSUME ~Makes(i, data) PROVE S(i + 1) = S(i)
    OBVIOUS
  <2>1. \A j \in 1 .. (i + 1) - 1 : j = i \/ j \in 1 .. i - 1
    OBVIOUS
  <2>2. \A j \in 1 .. i - 1 : j \in 1 .. (i + 1) - 1
    OBVIOUS
  <2> QED
    BY <2>1, <2>2
<1>4. Origin(i, data) = Max(S(i)) /\ Origin(i + 1, data) = Max(S(i + 1))
  BY DEF Origin
<1>5. i + 1 \in Nat \ {0} /\ (i + 1) - 1 = i
  OBVIOUS
<1> HIDE DEF S
<1>6. \A n \in Nat \ {0} : Max(S(n)) \in S(n) /\ \A x \in S(n) : x <= Max(S(n))
  BY <1>1, MaxIs
<1>7. Max(S(i)) \in 0 .. i - 1 /\ Max(S(i + 1)) \in 0 .. i
  BY <1>1, <1>5, <1>6
<1>8. Makes(i, data) => Max(S(i + 1)) = i
  <2>1. Makes(i, data) => i <= Max(S(i + 1))
    BY <1>2, <1>5, <1>6
  <2> QED
    BY <1>7, <2>1
<1> QED
  BY <1>3, <1>4, <1>7, <1>8

(* What is seen of data, one kernel on *)
LEMMA SeenNext ==
    ASSUME NEW i \in Nat \ {0}, NEW data, NEW devices
    PROVE  SeenOn(devices, i + 1, data)
             = IF Makes(i, data) THEN {devices[i]}
               ELSE SeenOn(devices, i, data) \cup (IF Uses(i, data) THEN {devices[i]} ELSE {})
<1> DEFINE o == Origin(i, data)
           J == {j \in 1 .. i - 1 : (Makes(j, data) /\ j = o) \/ (Uses(j, data) /\ j > o)}
           p == Origin(i + 1, data)
           L == {j \in 1 .. (i + 1) - 1 : (Makes(j, data) /\ j = p) \/ (Uses(j, data) /\ j > p)}
<1>1. SeenOn(devices, i, data) = {devices[j] : j \in J} /\ SeenOn(devices, i + 1, data) = {devices[j] : j \in L}
  BY DEF SeenOn
<1>2. o \in 0 .. i - 1 /\ (Makes(i, data) => p = i) /\ (~Makes(i, data) => p = o)
  BY OriginIs
<1> HIDE DEF o, p
<1>3. \A j \in 1 .. (i + 1) - 1 : j = i \/ j \in 1 .. i - 1
  OBVIOUS
<1>4. i \in 1 .. (i + 1) - 1 /\ \A j \in 1 .. i - 1 : j \in 1 .. (i + 1) - 1 /\ j < i /\ j # i
  OBVIOUS
<1>5. CASE Makes(i, data)
  <2>1. L = {i}
    <3>1. i \in L
      BY <1>2, <1>4, <1>5
    <3>2. \A j \in L : j = i
      BY <1>2, <1>3, <1>4, <1>5
    <3> HIDE DEF L
    <3> QED
      BY <3>1, <3>2
  <2> HIDE DEF L, J
  <2> QED
    BY <1>1, <1>5, <2>1
<1>6. CASE ~Makes(i, data)
  <2>0. p = o /\ i > o
    BY <1>2, <1>6
  <2>1. L = J \cup (IF Uses(i, data) THEN {i} ELSE {})
    <3>1. \A j \in L : j \in J \/ (Uses(i, data) /\ j = i)
      BY <2>0, <1>3, <1>6
    <3>2. \A j \in J : j \in L
      BY <2>0, <1>4
    <3>3. Uses(i, data) => i \in L
      BY <2>0, <1>4
    <3> HIDE DEF L, J
    <3> QED
      BY <3>1, <3>2, <3>3
  <2> HIDE DEF L, J
  <2>2. {devices[j] : j \in L} = {devices[j] : j \in J} \cup (IF Uses(i, data) THEN {devices[i]} ELSE {})
    BY <2>1
  <2> QED
    BY <1>1, <1>6, <2>2
<1> QED
  BY <1>5, <1>6

(* Nothing is seen at the first kernel, and nothing registered. *)
LEMMA SeenFirst ==
    ASSUME NEW devices
    PROVE  Tells(<<>>, SeenBy(devices, 1))
<1> DEFINE none == <<>>
           seen == SeenBy(devices, 1)
<1>1. \A data \in STRING : seen[data] = {}
  <2> TAKE data \in STRING
  <2>1. 1 .. 1 - 1 = {}
    OBVIOUS
  <2>2. SeenOn(devices, 1, data) = {}
    BY <2>1 DEF SeenOn
  <2> QED
    BY <2>2 DEF SeenBy
<1>2. seen \in [STRING -> SUBSET KernelDevices]
  <2>1. seen = [data \in STRING |-> seen[data]]
    BY DEF SeenBy
  <2> HIDE DEF seen
  <2> QED
    BY <1>1, <2>1
<1>3. DOMAIN none = {} /\ none = [x \in DOMAIN none |-> none[x]]
  OBVIOUS
<1> HIDE DEF none, seen
<1>4. none \in Registers
  BY <1>3, RegisterIs
<1>5. SameData(none, seen) /\ SameDevices(none, seen)
  BY <1>1, <1>3 DEF SameData, SameDevices
<1>6. Tells(none, seen)
  BY <1>2, <1>4, <1>5 DEF Tells
<1> QED
  BY <1>6 DEF none, seen

(* After kernel i *)
LEMMA SeenAfter ==
    ASSUME NEW i \in Position, AssignmentAssumption, NEW devices
    PROVE  SeenBy(devices, i + 1)
             = Making(Seeing(SeenBy(devices, i), Range(Inputs[Kernels[i]]), devices[i]),
                      Range(Outputs[Kernels[i]]), devices[i])
<1> DEFINE I == Range(Inputs[Kernels[i]])
           O == Range(Outputs[Kernels[i]])
           d == devices[i]
           seen == SeenBy(devices, i)
           used == Seeing(seen, I, d)
           made == Making(used, O, d)
           next == SeenBy(devices, i + 1)
<1>1. i \in Nat \ {0}
  BY DEF Position, AssignmentAssumption
<1>2. \A x \in STRING : next[x] = made[x]
  <2> TAKE x \in STRING
  <2>1. next[x] = SeenOn(devices, i + 1, x) /\ seen[x] = SeenOn(devices, i, x)
    BY DEF SeenBy
  <2>2. made[x] = IF x \in O THEN {d} ELSE used[x]
    BY DEF Making
  <2>3. used[x] = seen[x] \cup (IF x \in I THEN {d} ELSE {})
    BY DEF Seeing
  <2>4. (Makes(i, x) <=> x \in O) /\ (Uses(i, x) <=> x \in I)
    BY DEF Makes, Uses
  <2>5. SeenOn(devices, i + 1, x)
          = IF Makes(i, x) THEN {d} ELSE SeenOn(devices, i, x) \cup (IF Uses(i, x) THEN {d} ELSE {})
    BY <1>1, SeenNext
  <2> HIDE DEF next, made, used, seen, I, O, d
  <2> QED
    BY <2>1, <2>2, <2>3, <2>4, <2>5
<1>3. next = [x \in STRING |-> next[x]] /\ made = [x \in STRING |-> made[x]]
  BY DEF SeenBy, Making
<1>4. next = made
  <2> HIDE DEF next, made
  <2> QED
    BY <1>2, <1>3
<1> QED
  BY <1>4

(* What kernel i pays, by the reference *)
LEMMA PaidIs ==
    ASSUME AssignmentAssumption, NEW i \in Position, NEW devices, devices \in Assignments
    PROVE  SumPaid(SeenBy(devices, i), i, devices[i]) = SumFunction(Payment(devices, i))
<1> DEFINE I == Range(Inputs[Kernels[i]])
           d == devices[i]
           seen == SeenBy(devices, i)
<1>1. \A x \in I : x \in STRING
  <2>1. Kernels[i] \in Range(Kernels)
    BY DEF Position, Range
  <2>2. Inputs[Kernels[i]] \in Seq(STRING)
    BY <2>1 DEF AssignmentAssumption
  <2> QED
    BY <2>2 DEF Range
<1>2. d \in KernelDevices
  BY DEF Assignments
<1>3. ASSUME NEW x \in I PROVE Charged(seen, x, d) <=> Pays(devices, i, x)
  <2>1. seen[x] = SeenOn(devices, i, x)
    BY <1>1 DEF SeenBy
  <2>2. Transferable(x, d) <=> ~(x = "memory" /\ d = "FPGA")
    BY <1>2 DEF Transferable, KernelDevices
  <2> HIDE DEF seen
  <2> QED
    BY <2>1, <2>2 DEF Charged, Pays
<1>4. Paid(seen, i, d) = Payment(devices, i)
  BY <1>3 DEF Paid, Payment
<1>5. DOMAIN Payment(devices, i) = I
  BY DEF Payment
<1> HIDE DEF seen, d
<1> QED
  BY <1>4, <1>5 DEF SumPaid, SumFunction, seen, d

(* The powers of two *)
Doubles(p) == p[0] = 1 /\ \A n \in Nat : p[n + 1] = 2 * p[n]

LEMMA Pow2Is == Doubles(Pow2) /\ \A n \in Nat : Pow2[n] \in Nat \ {0}
<1> DEFINE V == Nat \ {0}
           step == [x \in V \X V |-> 2 * x[2]]
           D(f) == [n \in Nat |-> IF n = 0 THEN 1 ELSE 2 * f[n - 1]]
<1>1. \A i \in V : \A v \in V : step[<<i, v>>] = 2 * v /\ 2 * v \in V
  <2> TAKE i \in V
  <2> TAKE v \in V
  <2>1. <<i, v>> \in V \X V /\ <<i, v>>[2] = v /\ 2 * v \in V
    OBVIOUS
  <2> HIDE DEF V
  <2> QED
    BY <2>1
<1>2. PICK p \in [Nat -> V] : GoesOn(1, step, p)
  <2> DEFINE one == 1
  <2>1. one \in V /\ \A n \in Nat : \A i \in 1 .. n : i \in V
    OBVIOUS
  <2> HIDE DEF one, V, step
  <2>2. StaysOn(V, step)
    BY <1>1, <2>1 DEF StaysOn, StaysIn
  <2>3. \E p \in [Nat -> V] : GoesOn(one, step, p)
    BY <2>1, <2>2, IterateOn
  <2> QED
    BY <2>3 DEF one
<1>3. p = D(p)
  <2>1. ASSUME NEW n \in Nat, n # 0 PROVE p[n] = 2 * p[n - 1]
    <3>1. n - 1 \in Nat /\ (n - 1) + 1 = n /\ n \in V /\ p[n - 1] \in V
      BY <2>1
    <3>2. p[n] = step[<<n, p[n - 1]>>]
      BY <1>2, <3>1 DEF GoesOn
    <3> HIDE DEF V, step
    <3> QED
      BY <1>1, <3>1, <3>2
  <2>2. \A n \in Nat : p[n] = D(p)[n]
    BY <1>2, <2>1 DEF GoesOn
  <2> QED
    BY <2>2
<1>4. Pow2 = D(Pow2)
  <2>1. Pow2 = CHOOSE f : f = D(f)
    BY DEF Pow2
  <2>2. \E f : f = D(f)
    BY <1>3
  <2> QED
    BY <2>1, <2>2
<1>5. Pow2[0] = 1 /\ \A n \in Nat : Pow2[n + 1] = 2 * Pow2[n]
  <2>1. \A n \in Nat : Pow2[n] = D(Pow2)[n]
    BY <1>4
  <2>2. \A n \in Nat : n + 1 \in Nat /\ n + 1 # 0 /\ (n + 1) - 1 = n
    OBVIOUS
  <2> QED
    BY <2>1, <2>2
<1> DEFINE S == {n \in Nat : Pow2[n] \in V}
<1>6. 0 \in S
  BY <1>5
<1>7. ASSUME NEW n \in Nat, n \in S PROVE n + 1 \in S
  BY <1>5, <1>7
<1>8. Nat \subseteq S
  <2> HIDE DEF S
  <2> QED
    BY <1>6, <1>7, Numbers
<1> QED
  BY <1>5, <1>8 DEF Doubles

(* Twice a number, halved *)
LEMMA DivTwice ==
    ASSUME NEW p \in Nat \ {0}, NEW m \in Nat, NEW b \in 0 .. 1
    PROVE  (2 * m + b) \div (2 * p) = m \div p
<1> DEFINE q == m \div p
           rest == m % p
           c == 2 * p
           s == 2 * rest + b
<1>1. q \in Nat /\ rest \in 0 .. p - 1 /\ m = q * p + rest
  BY DivParts
<1> HIDE DEF q, rest
<1>2. c \in Nat \ {0} /\ s \in 0 .. c - 1
  BY <1>1
<1>3. 2 * m + b = q * c + s
  <2> DEFINE t == q * p
  <2>1. t \in Int /\ q * c = 2 * t
    BY <1>1
  <2> QED
    <3>1. m = t + rest
      BY <1>1
    <3> HIDE DEF t
    <3>2. 2 * m + b = 2 * t + (2 * rest + b)
      BY <1>1, <2>1, <3>1
    <3> QED
      BY <2>1, <3>2
<1> HIDE DEF c, s
<1>4. (q * c + s) \div c = q
  BY <1>1, <1>2, DivMod
<1> QED
  BY <1>3, <1>4 DEF c, q

(* Each assignment has a number. *)
LEMMA AllAssigned ==
    ASSUME AssignmentAssumption, NEW devices \in Assignments
    PROVE  \E m \in 0 .. Pow2[Len(Kernels)] - 1 : Assigned(m) = devices
<1> DEFINE N == Len(Kernels)
           bit(i) == IF devices[i] = "GPU" THEN 0 ELSE 1
           Bits(m, j) == \A i \in 1 .. j : (m \div Pow2[j - i]) % 2 = bit(i)
           S == {j \in Nat : j <= N => \E m \in 0 .. Pow2[j] - 1 : Bits(m, j)}
<1>1. N \in Nat /\ Position = 1 .. N
  BY DEF AssignmentAssumption, Position
<1>2. Pow2[0] = 1 /\ \A n \in Nat : Pow2[n + 1] = 2 * Pow2[n] /\ Pow2[n] \in Nat \ {0}
  BY Pow2Is DEF Doubles
<1>3. \A i \in Position : devices[i] \in {"GPU", "FPGA"}
  BY DEF Assignments, KernelDevices
<1>4. 0 \in S
  <2>1. 0 \in 0 .. Pow2[0] - 1 /\ Bits(0, 0)
    BY <1>2
  <2> HIDE DEF Bits
  <2> QED
    BY <2>1
<1>5. ASSUME NEW j \in Nat, j \in S PROVE j + 1 \in S
  <2> SUFFICES ASSUME j + 1 <= N PROVE \E m \in 0 .. Pow2[j + 1] - 1 : Bits(m, j + 1)
    OBVIOUS
  <2>1. PICK m \in 0 .. Pow2[j] - 1 : Bits(m, j)
    BY <1>1, <1>5
  <2> DEFINE b == bit(j + 1)
             next == 2 * m + b
  <2>2. b \in 0 .. 1 /\ m \in Nat /\ Pow2[j] \in Nat \ {0} /\ Pow2[j + 1] = 2 * Pow2[j]
    <3>1. b = 0 \/ b = 1
      OBVIOUS
    <3>2. Pow2[j] \in Nat \ {0} /\ Pow2[j + 1] = 2 * Pow2[j]
      BY <1>2
    <3> HIDE DEF b
    <3> QED
      BY <3>1, <3>2
  <2>3. next \in 0 .. Pow2[j + 1] - 1 /\ next \in Nat
    <3> HIDE DEF b
    <3> QED
      BY <2>2
  <2>4. ASSUME NEW i \in 1 .. j + 1 PROVE (next \div Pow2[(j + 1) - i]) % 2 = bit(i)
    <3>1. CASE i = j + 1
      <4>1. Pow2[(j + 1) - i] = 1
        <5>1. (j + 1) - i = 0
          BY <3>1
        <5> QED
          BY <1>2, <5>1
      <4> HIDE DEF b
      <4>2. next \div 1 = next /\ next % 2 = b
        <5>1. (next * 1 + 0) \div 1 = next
          <6>1. 1 \in Nat \ {0} /\ 0 \in 0 .. 1 - 1
            OBVIOUS
          <6> HIDE DEF next
          <6> QED
            BY <2>3, <6>1, DivMod
        <5>2. next * 1 + 0 = next
          BY <2>3
        <5>3. (m * 2 + b) % 2 = b
          <6>1. 2 \in Nat \ {0} /\ b \in 0 .. 2 - 1 /\ m \in Nat
            BY <2>2
          <6> HIDE DEF next
          <6> QED
            BY <6>1, DivMod
        <5>4. m * 2 + b = next
          BY <2>2
        <5> QED
          BY <5>1, <5>2, <5>3, <5>4
      <4> QED
        BY <3>1, <4>1, <4>2 DEF b
    <3>2. CASE i # j + 1
      <4> DEFINE e == j - i
      <4>1. i \in 1 .. j /\ e \in Nat /\ (j + 1) - i = e + 1
        BY <3>2
      <4>2. Pow2[(j + 1) - i] = 2 * Pow2[e] /\ Pow2[e] \in Nat \ {0}
        BY <1>2, <4>1
      <4>3. (m \div Pow2[e]) % 2 = bit(i)
        BY <2>1, <4>1
      <4> HIDE DEF b, e
      <4>4. next \div (2 * Pow2[e]) = m \div Pow2[e]
        BY <2>2, <4>2, DivTwice
      <4> QED
        BY <4>2, <4>3, <4>4
    <3> QED
      BY <3>1, <3>2
  <2> HIDE DEF next
  <2> QED
    BY <2>3, <2>4
<1>6. N \in S
  <2> HIDE DEF S
  <2> QED
    BY <1>1, <1>4, <1>5, Numbers
<1>7. PICK m \in 0 .. Pow2[N] - 1 : Bits(m, N)
  BY <1>1, <1>6
<1>8. \A i \in Position : Assigned(m)[i] = devices[i]
  <2> TAKE i \in Position
  <2>1. (m \div Pow2[N - i]) % 2 = bit(i)
    BY <1>1, <1>7
  <2>2. Assigned(m)[i] = IF (m \div Pow2[N - i]) % 2 = 0 THEN "GPU" ELSE "FPGA"
    BY DEF Assigned
  <2> QED
    BY <1>3, <2>1, <2>2
<1>9. Assigned(m) = [i \in Position |-> Assigned(m)[i]] /\ devices = [i \in Position |-> devices[i]]
  BY DEF Assigned, Assignments
<1>10. Assigned(m) = devices
  BY <1>8, <1>9
<1> QED
  BY <1>7, <1>10

(* The register tells what the reference sees at kernel k, and the latency *)
(* so far is what the kernels before k cost.                               *)
Evaluated ==
    /\ k \in 1 .. Len(Kernels) + 1
    /\ latency \in Int
    /\ Tells(locations, SeenBy(Assignment, k))
    /\ latency = SumFunctionOnSet(CostOf(Assignment), 1 .. k - 1)

(* The best of the assignments tried so far *)
BestSoFar ==
    /\ tried = 0 => best = <<>>
    /\ tried # 0 => /\ best # <<>>
                    /\ best.devices \in Assignments /\ best.latency = Cost(best.devices)
                    /\ \A m \in 0 .. tried - 1 : best.latency <= Cost(Assigned(m))

AssignmentInv == profile \in Profiles /\ tried \in Nat /\ Evaluated /\ BestSoFar

(* A number gives an assignment. *)
LEMMA AssignedType ==
    ASSUME NEW n PROVE Assigned(n) \in Assignments
  BY DEF Assigned, Assignments, KernelDevices

(* A cost is a number, the sum of what the kernels cost. *)
LEMMA CostIs ==
    ASSUME AssignmentAssumption, profile \in Profiles, NEW devices, devices \in Assignments
    PROVE  /\ \A i \in Position :
                 /\ CostOf(devices)[i] = KernelLatency(i, devices[i]) + SumFunction(Payment(devices, i))
                 /\ KernelLatency(i, devices[i]) \in Int /\ SumFunction(Payment(devices, i)) \in Int
                 /\ CostOf(devices)[i] \in Int
           /\ Cost(devices) \in Int
           /\ Cost(devices) = SumFunctionOnSet(CostOf(devices), 1 .. Len(Kernels))
<1>1. ASSUME NEW i \in Position
      PROVE  /\ CostOf(devices)[i] = KernelLatency(i, devices[i]) + SumFunction(Payment(devices, i))
             /\ KernelLatency(i, devices[i]) \in Int /\ SumFunction(Payment(devices, i)) \in Int
             /\ CostOf(devices)[i] \in Int
  <2> DEFINE d == devices[i]
             I == Range(Inputs[Kernels[i]])
             payment == Payment(devices, i)
  <2>1. d \in KernelDevices
    BY DEF Assignments
  <2>2. IsFiniteSet(I)
    <3> DEFINE W == Inputs[Kernels[i]]
    <3>1. Kernels[i] \in Range(Kernels)
      BY DEF Position, Range
    <3>2. W \in Seq(STRING)
      BY <3>1 DEF AssignmentAssumption
    <3> HIDE DEF W
    <3>3. I = {W[m] : m \in 1 .. Len(W)}
      BY <3>2 DEF Range, W
    <3>4. IsFiniteSet(1 .. Len(W))
      BY <3>2, FS_Interval
    <3> HIDE DEF I
    <3> QED
      BY <3>3, <3>4, FiniteRange
  <2>3. KernelLatency(i, d) \in Int /\ \A x \in I : PcieLatency(SizeFor(i, x), Direction(d)) \in Int
    <3> HIDE DEF d
    <3> QED
      BY <2>1, PriceIs
  <2>4. DOMAIN payment = I /\ \A x \in I : payment[x] = PcieLatency(SizeFor(i, x), Direction(d)) \/ payment[x] = 0
    BY DEF Payment
  <2>5. \A x \in I : payment[x] \in Int
    <3> HIDE DEF payment, I
    <3> TAKE x \in I
    <3> DEFINE value == payment[x]
               p == PcieLatency(SizeFor(i, x), Direction(d))
    <3>1. p \in Int /\ (value = p \/ value = 0)
      BY <2>3, <2>4
    <3> HIDE DEF value, p
    <3>2. value \in Int
      BY <3>1
    <3> QED
      BY <3>2 DEF value
  <2>6. SumFunction(payment) \in Int
    <3> HIDE DEF payment, I
    <3>1. SumFunctionOnSet(payment, I) \in Int
      BY <2>2, <2>5, SumNumber
    <3> QED
      BY <2>4, <3>1 DEF SumFunction
  <2>7. CostOf(devices)[i] = KernelLatency(i, d) + SumFunction(payment)
    BY DEF CostOf
  <2> HIDE DEF payment, d
  <2>8. KernelLatency(i, d) + SumFunction(payment) \in Int
    BY <2>3, <2>6
  <2> QED
    BY <2>3, <2>6, <2>7, <2>8 DEF payment, d
<1>2. Position = 1 .. Len(Kernels) /\ IsFiniteSet(Position)
  BY FS_Interval DEF Position, AssignmentAssumption
<1>3. Cost(devices) = SumFunctionOnSet(CostOf(devices), Position)
  BY DEF Cost, CostOf, SumFunction
<1>4. SumFunctionOnSet(CostOf(devices), Position) \in Int
  <2>1. \A i \in Position : CostOf(devices)[i] \in Int
    BY <1>1
  <2> QED
    BY <1>2, <2>1, SumNumber
<1> QED
  BY <1>1, <1>2, <1>3, <1>4

(* Prices and costs are those of the profile, which is kept. *)
LEMMA CostKept ==
    ASSUME profile' = profile, NEW devices
    PROVE  Cost(devices)' = Cost(devices) /\ CostOf(devices)' = CostOf(devices)
  BY DEF Cost, CostOf, Payment, KernelLatency, SizeFor

(* An evaluation starts with no copies and no cost. *)
LEMMA InitEvaluated ==
    ASSUME AssignmentAssumption, profile \in Profiles, NEW devices
    PROVE  /\ 1 \in 1 .. Len(Kernels) + 1
           /\ Tells(<<>>, SeenBy(devices, 1))
           /\ SumFunctionOnSet(CostOf(devices), 1 .. 1 - 1) = 0
<1>1. 1 .. 1 - 1 = {}
  OBVIOUS
<1>2. SumFunctionOnSet(CostOf(devices), {}) = 0
  BY SumEmpty
<1>3. 1 \in 1 .. Len(Kernels) + 1
  BY DEF AssignmentAssumption
<1> QED
  BY <1>1, <1>2, <1>3, SeenFirst

(* The two steps of the loops *)
LEMMA EvaluateKeeps == AssignmentAssumption /\ AssignmentInv /\ Evaluate => AssignmentInv'
<1> SUFFICES ASSUME AssignmentAssumption, AssignmentInv, Evaluate PROVE AssignmentInv'
  OBVIOUS
<1> DEFINE A == Assignment
           d == A[k]
           start == <<locations, latency + KernelLatency(k, d)>>
           result == TakeInputs(start, k, d)
           seen == SeenBy(A, k)
           I == Range(Inputs[Kernels[k]])
           O == Range(Outputs[Kernels[k]])
<1>1. /\ k <= Len(Kernels)
      /\ locations' = Register(result[1], O, d) /\ latency' = result[2] /\ k' = k + 1
      /\ profile' = profile /\ tried' = tried /\ best' = best
  BY DEF Evaluate
<1>2. /\ profile \in Profiles /\ k \in 1 .. Len(Kernels) + 1 /\ latency \in Int
      /\ Tells(locations, seen) /\ latency = SumFunctionOnSet(CostOf(A), 1 .. k - 1)
  BY DEF AssignmentInv, Evaluated
<1>3. k \in Position /\ Len(Kernels) \in Nat /\ Position = 1 .. Len(Kernels)
  BY <1>1, <1>2 DEF Position, AssignmentAssumption
<1>4. A \in Assignments /\ A' = A
  <2>1. A' = A
    BY <1>1 DEF Assignment, Assigned
  <2> QED
    BY <2>1, AssignedType DEF Assignment
<1>5. d \in KernelDevices
  BY <1>3, <1>4 DEF Assignments
<1> HIDE DEF A
<1>6. /\ CostOf(A)[k] = KernelLatency(k, d) + SumFunction(Payment(A, k))
      /\ KernelLatency(k, d) \in Int /\ SumFunction(Payment(A, k)) \in Int
      /\ \A i \in Position : CostOf(A)[i] \in Int
  BY <1>2, <1>3, <1>4, CostIs
<1>7. start \in States /\ start[1] = locations /\ start[2] = latency + KernelLatency(k, d)
  <2> DEFINE sum == latency + KernelLatency(k, d)
  <2>1. sum \in Int /\ locations \in Registers
    BY <1>2, <1>6 DEF Tells
  <2> DEFINE pair == <<locations, sum>>
  <2>2. start = pair
    OBVIOUS
  <2> HIDE DEF sum, start
  <2>3. pair \in States /\ pair[1] = locations /\ pair[2] = sum
    BY <2>1 DEF States
  <2> HIDE DEF pair
  <2> QED
    BY <2>2, <2>3 DEF sum
<1> HIDE DEF d, start, seen
<1>8. TellsAll(result, start, seen, I, k, d)
  <2>1. Tells(start[1], seen)
    BY <1>2, <1>7
  <2> QED
    BY <1>2, <1>3, <1>5, <1>7, <2>1, TakenAll
<1> HIDE DEF result
<1>9. O \subseteq STRING
  <2>1. Kernels[k] \in Range(Kernels)
    BY <1>3 DEF Position, Range
  <2>2. Outputs[Kernels[k]] \in Seq(STRING)
    BY <2>1 DEF AssignmentAssumption
  <2> QED
    BY <2>2 DEF Range
<1>10. Tells(locations', SeenBy(A, k + 1))
  <2>1. Tells(result[1], Seeing(seen, I, d))
    BY <1>8 DEF TellsAll
  <2>2. Tells(Register(result[1], O, d), Making(Seeing(seen, I, d), O, d))
    <3> DEFINE reg == result[1]
               used == Seeing(seen, I, d)
    <3> HIDE DEF reg, used, O
    <3>1. Tells(reg, used) /\ O \subseteq STRING
      BY <1>9, <2>1 DEF reg, used
    <3>2. Tells(Register(reg, O, d), Making(used, O, d))
      BY <1>5, <3>1, RegisterMade
    <3> QED
      BY <3>2 DEF reg, used
  <2>3. SeenBy(A, k + 1) = Making(Seeing(seen, I, d), O, d)
    BY <1>3, SeenAfter DEF seen, d
  <2> QED
    BY <1>1, <2>2, <2>3
<1>11. latency' = SumFunctionOnSet(CostOf(A), 1 .. k)
  <2> DEFINE before == SumFunctionOnSet(CostOf(A), 1 .. k - 1)
             own == KernelLatency(k, d)
             pays == SumFunction(Payment(A, k))
  <2>1. result[2] = start[2] + SumPaid(seen, k, d)
    BY <1>8 DEF TellsAll, SumPaid
  <2>2. SumPaid(seen, k, d) = pays
    BY <1>3, <1>4, PaidIs DEF seen, d
  <2>3. SumFunctionOnSet(CostOf(A), 1 .. k) = before + CostOf(A)[k] /\ before \in Int
    <3> DEFINE n == k - 1
               f == CostOf(A)
    <3>1. n \in Nat /\ n + 1 = k /\ \A i \in 1 .. n + 1 : i \in Position
      BY <1>3
    <3> HIDE DEF f, n
    <3>2. \A i \in 1 .. n + 1 : f[i] \in Int
      BY <1>6, <3>1 DEF f
    <3>3. /\ SumFunctionOnSet(f, 1 .. n) \in Int
          /\ SumFunctionOnSet(f, 1 .. n + 1) = SumFunctionOnSet(f, 1 .. n) + f[n + 1]
      BY <3>1, <3>2, SumNext
    <3> QED
      BY <3>1, <3>3 DEF f, n
  <2>4. start[2] = before + own
    BY <1>2, <1>7
  <2>5. CostOf(A)[k] = own + pays /\ own \in Int /\ pays \in Int
    BY <1>6
  <2> HIDE DEF before, own, pays
  <2>6. (before + own) + pays = before + (own + pays)
    BY <2>3, <2>5
  <2> QED
    BY <1>1, <2>1, <2>2, <2>3, <2>4, <2>5, <2>6
<1>12. Evaluated'
  <2>1. k' \in 1 .. Len(Kernels) + 1 /\ k' - 1 = k
    BY <1>1, <1>3
  <2>2. latency' \in Int
    BY <1>1, <1>8 DEF TellsAll, States
  <2>3. CostOf(A)' = CostOf(A)
    BY <1>1, <1>4 DEF CostOf, Payment, KernelLatency, SizeFor
  <2>4. SeenBy(A, k)' = SeenBy(A, k + 1)
    BY <1>1, <1>4 DEF SeenBy, SeenOn
  <2> QED
    BY <1>10, <1>11, <2>1, <2>2, <2>3, <2>4 DEF Evaluated, A
<1>13. BestSoFar'
  <2>1. BestSoFar
    BY DEF AssignmentInv
  <2>2. Cost(best.devices)' = Cost(best.devices)
    BY <1>1 DEF Cost, CostOf, Payment, KernelLatency, SizeFor
  <2>3. \A m \in 0 .. tried - 1 : Cost(Assigned(m))' = Cost(Assigned(m))
    BY <1>1, CostKept
  <2> QED
    BY <1>1, <2>1, <2>2, <2>3 DEF BestSoFar
<1> QED
  BY <1>1, <1>2, <1>12, <1>13 DEF AssignmentInv

LEMMA CompareKeeps == AssignmentAssumption /\ AssignmentInv /\ CompareLatency => AssignmentInv'
<1> SUFFICES ASSUME AssignmentAssumption, AssignmentInv, CompareLatency PROVE AssignmentInv'
  OBVIOUS
<1> DEFINE A == Assignment
           found == [devices |-> A, latency |-> latency]
<1>1. /\ k > Len(Kernels) /\ best' = (IF Cheaper THEN found ELSE best)
      /\ tried' = tried + 1 /\ k' = 1 /\ locations' = <<>> /\ latency' = 0 /\ profile' = profile
  BY DEF CompareLatency, FreshRegister
<1>2. /\ profile \in Profiles /\ tried \in Nat /\ k \in 1 .. Len(Kernels) + 1 /\ latency \in Int
      /\ latency = SumFunctionOnSet(CostOf(A), 1 .. k - 1)
      /\ BestSoFar
  BY DEF AssignmentInv, Evaluated
<1>3. A \in Assignments /\ A = Assigned(tried)
  BY AssignedType DEF Assignment
<1> HIDE DEF A
<1>4. Len(Kernels) \in Nat /\ k - 1 = Len(Kernels)
  BY <1>1, <1>2 DEF AssignmentAssumption
<1>5. latency = Cost(A)
  BY <1>2, <1>3, <1>4, CostIs
<1>6. profile' \in Profiles /\ tried' \in Nat /\ tried' # 0
  BY <1>1, <1>2
<1>7. Evaluated'
  <2>1. 1 \in 1 .. Len(Kernels) + 1 /\ Tells(<<>>, SeenBy(Assigned(tried'), 1))
        /\ SumFunctionOnSet(CostOf(Assigned(tried')), 1 .. 1 - 1) = 0
    BY <1>2, InitEvaluated
  <2>2. /\ k' \in 1 .. Len(Kernels) + 1 /\ latency' \in Int
        /\ Tells(locations', SeenBy(Assigned(tried'), k'))
    BY <1>1, <2>1
  <2>3. SeenBy(Assignment, k)' = SeenBy(Assigned(tried'), k')
    BY DEF SeenBy, SeenOn, Assignment, Assigned
  <2>4. SumFunctionOnSet(CostOf(Assignment), 1 .. k - 1)' = 0
    <3>1. 1 .. k' - 1 = {}
      BY <1>1
    <3>2. SumFunctionOnSet(CostOf(Assignment)', {}) = 0
      BY SumEmpty
    <3> QED
      BY <3>1, <3>2
  <2> QED
    BY <1>1, <2>2, <2>3, <2>4 DEF Evaluated
<1>8. best' # <<>> /\ (Cheaper => best'.devices = A /\ best'.latency = latency)
  <2>1. found # <<>>
    <3>1. "latency" \in DOMAIN found
      OBVIOUS
    <3>2. DOMAIN <<>> = {}
      OBVIOUS
    <3> HIDE DEF found
    <3> QED
      BY <3>1, <3>2
  <2>2. found.devices = A /\ found.latency = latency
    OBVIOUS
  <2> HIDE DEF found
  <2>3. CASE Cheaper
    BY <1>1, <2>1, <2>2, <2>3
  <2>4. CASE ~Cheaper
    BY <1>1, <2>4 DEF Cheaper
  <2> QED
    BY <2>3, <2>4
<1>9. ~Cheaper => best' = best /\ tried # 0 /\ ~(latency < best.latency)
  BY <1>1, <1>2 DEF Cheaper, BestSoFar
<1> HIDE DEF found
<1>10. \A devices : Cost(devices)' = Cost(devices)
  BY <1>1, CostKept
<1>11. /\ best'.devices \in Assignments /\ best'.latency = Cost(best'.devices)
       /\ \A m \in 0 .. tried : best'.latency <= Cost(Assigned(m))
  <2>1. \A m \in Nat : Cost(Assigned(m)) \in Int
    BY <1>2, AssignedType, CostIs
  <2>2. \A m \in 0 .. tried : m = tried \/ m \in 0 .. tried - 1
    BY <1>2
  <2>3. CASE Cheaper
    <3>1. ASSUME NEW m \in 0 .. tried PROVE latency <= Cost(Assigned(m))
      <4>1. CASE m = tried
        BY <1>2, <1>3, <1>5, <4>1
      <4>2. CASE m # tried
        <5>1. tried # 0 /\ m \in 0 .. tried - 1
          BY <1>2, <2>2, <4>2
        <5>2. best # <<>> /\ best.latency <= Cost(Assigned(m)) /\ latency < best.latency
          BY <1>2, <2>3, <5>1 DEF BestSoFar, Cheaper
        <5>3. best.latency \in Int
          <6>1. best.devices \in Assignments /\ best.latency = Cost(best.devices)
            BY <1>2, <5>1 DEF BestSoFar
          <6>2. Cost(best.devices) \in Int
            BY <1>2, <6>1, CostIs
          <6> QED
            BY <6>1, <6>2
        <5> QED
          BY <1>2, <2>1, <5>2, <5>3
      <4> QED
        BY <4>1, <4>2
    <3> QED
      BY <1>3, <1>5, <1>8, <2>3, <3>1
  <2>4. CASE ~Cheaper
    <3>1. best' = best /\ tried # 0 /\ ~(latency < best.latency)
      BY <1>9, <2>4
    <3>2. /\ best.devices \in Assignments /\ best.latency = Cost(best.devices)
          /\ \A m \in 0 .. tried - 1 : best.latency <= Cost(Assigned(m))
      BY <1>2, <3>1 DEF BestSoFar
    <3>3. best.latency \in Int
      <4>1. Cost(best.devices) \in Int
        BY <1>2, <3>2, CostIs
      <4> QED
        BY <3>2, <4>1
    <3>4. best.latency <= Cost(Assigned(tried))
      BY <1>2, <1>3, <1>5, <3>1, <3>3
    <3>5. \A m \in 0 .. tried : best.latency <= Cost(Assigned(m))
      BY <2>2, <3>2, <3>4
    <3> QED
      BY <3>1, <3>2, <3>5
  <2> QED
    BY <2>3, <2>4
<1>12. BestSoFar'
  <2>1. tried' - 1 = tried
    BY <1>1, <1>2
  <2>2. Cost(best.devices)' = Cost(best'.devices)
    BY <1>1 DEF Cost, CostOf, Payment, KernelLatency, SizeFor
  <2>3. \A m \in 0 .. tried : Cost(Assigned(m))' = Cost(Assigned(m))
    BY <1>10
  <2> QED
    BY <1>6, <1>8, <1>11, <2>1, <2>2, <2>3 DEF BestSoFar
<1> QED
  BY <1>6, <1>7, <1>12 DEF AssignmentInv

(* find_optimal_assignment reports, for any kernels, dependencies,         *)
(* profiles and transfer rates, the cheapest of all assignments, at what   *)
(* the reference without a register of copies says it costs.               *)
THEOREM CheapestFound == ASSUME AssignmentAssumption PROVE AssignmentSpec => []BestIsCheapest
<1>1. AssignmentInit => AssignmentInv
  <2> SUFFICES ASSUME AssignmentInit PROVE AssignmentInv
    OBVIOUS
  <2>1. /\ profile \in Profiles /\ tried = 0 /\ k = 1 /\ locations = <<>> /\ latency = 0 /\ best = <<>>
    BY DEF AssignmentInit
  <2>2. /\ 1 \in 1 .. Len(Kernels) + 1
        /\ Tells(<<>>, SeenBy(Assignment, 1)) /\ SumFunctionOnSet(CostOf(Assignment), 1 .. 1 - 1) = 0
    BY <2>1, InitEvaluated
  <2> QED
    BY <2>1, <2>2 DEF AssignmentInv, Evaluated, BestSoFar
<1>2. AssignmentInv /\ [AssignmentNext]_assignment_vars => AssignmentInv'
  <2> SUFFICES ASSUME AssignmentInv, [AssignmentNext]_assignment_vars PROVE AssignmentInv'
    OBVIOUS
  <2>1. CASE Evaluate
    BY <2>1, EvaluateKeeps
  <2>2. CASE CompareLatency
    BY <2>2, CompareKeeps
  <2>3. CASE Analyze \/ UNCHANGED assignment_vars
    <3>1. UNCHANGED <<profile, tried, k, locations, latency, best>>
      BY <2>3 DEF Analyze, assignment_vars
    <3> QED
      BY <3>1 DEF AssignmentInv, Evaluated, BestSoFar, Cost, CostOf, Payment, KernelLatency, SizeFor,
                  Assignment, Assigned, SeenBy, SeenOn
  <2> QED
    BY <2>1, <2>2, <2>3 DEF AssignmentNext
<1>3. AssignmentInv => BestIsCheapest
  <2> SUFFICES ASSUME AssignmentInv, tried = Pow2[Len(Kernels)]
               PROVE  /\ best.latency = Cost(best.devices)
                      /\ \A devices \in Assignments : best.latency <= Cost(devices)
    BY DEF BestIsCheapest
  <2>1. tried # 0
    <3>1. Len(Kernels) \in Nat
      BY DEF AssignmentAssumption
    <3> QED
      BY <3>1, Pow2Is
  <2>2. best.latency = Cost(best.devices) /\ \A m \in 0 .. tried - 1 : best.latency <= Cost(Assigned(m))
    BY <2>1 DEF AssignmentInv, BestSoFar
  <2>3. \A devices \in Assignments : \E m \in 0 .. tried - 1 : Assigned(m) = devices
    BY AllAssigned
  <2> QED
    BY <2>2, <2>3
<1> QED
  BY <1>1, <1>2, <1>3, PTL DEF AssignmentSpec
================================================================================
