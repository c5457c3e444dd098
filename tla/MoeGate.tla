--------------------------------- MODULE MoeGate --------------------------------
(***************************************************************************)
(* gate_compute of kernels/moe/moe_batch_16b.cpp for one token, from the   *)
(* scores on: the LOCAL_K best experts of either card, and the packet for  *)
(* this one.  The experts are the other card's as well, so that both cards *)
(* scale their weights by the same sum.  The other MoE kernels have the    *)
(* same gate.                                                              *)
(***************************************************************************)
EXTENDS Integers, FiniteSets, SequencesExt

CONSTANTS
    LocalExperts,   \* LOCAL_EXPERTS, of a card
    GateScores      \* scores the experts may have: functions on Experts

LocalK == 4         \* LOCAL_K; the comparator tree is written out for 4
Experts == 0 .. 2 * LocalExperts - 1
Halves == {0, LocalExperts}     \* first expert of the "lo" and of the "hi" half
Places == 0 .. LocalK - 1

GateAssumption ==
    /\ LocalExperts \in Nat \ {0} /\ LocalExperts % LocalK = 0
    /\ GateScores \subseteq [Experts -> Int]

VARIABLES
    scores,
    local_expert_base,
    top,        \* per half: ids, the experts held, and min, the place of the least
    r,          \* rounds of candidates taken
    pkt         \* the route packet

None == [ids |-> <<>>, weights |-> <<>>]

GateInit ==
    /\ scores \in GateScores /\ local_expert_base \in Halves
    /\ top = [h \in Halves |-> [ids |-> [i \in Places |-> h + i], min |-> 0]]
    /\ r = 0 /\ pkt = None

--------------------------------------------------------------------------------
Lower(ids, i, j) == IF scores[ids[i]] < scores[ids[j]] THEN i ELSE j

(* The comparator tree: the right one of two that are equal. *)
MinPlace(ids) == Lower(ids, Lower(ids, 0, 1), Lower(ids, 2, 3))

(* The first LOCAL_K of a half are held as they come. *)
First ==
    /\ r = 0 /\ r' = 1
    /\ top' = [h \in Halves |-> [top[h] EXCEPT !.min = MinPlace(top[h].ids)]]
    /\ UNCHANGED <<scores, local_expert_base, pkt>>

BeatsLeast(held, e) == scores[e] > scores[held.ids[held.min]]

Replace(held, e) ==
    LET ids == [held.ids EXCEPT ![held.min] = e]
    IN  [ids |-> ids, min |-> MinPlace(ids)]

OfferOldMin(held, e) ==
    IF BeatsLeast(held, e) THEN [held EXCEPT !.ids[held.min] = e] ELSE held

(* A candidate takes the place of the least, and the least is found anew. *)
Offer(held, e) == IF BeatsLeast(held, e) THEN Replace(held, e) ELSE held

(* A round of LOCAL_K candidates: scanned if one of them, "fast_lo", beats *)
(* the least.                                                              *)
Scan(held, c) ==
    IF \E j \in Places : BeatsLeast(held, c[j])
    THEN Offer(Offer(Offer(Offer(held, c[0]), c[1]), c[2]), c[3]) ELSE held

Candidates(h) == [j \in Places |-> h + r * LocalK + j]

Round ==
    /\ r \in 1 .. LocalExperts \div LocalK - 1
    /\ top' = [h \in Halves |-> Scan(top[h], Candidates(h))]
    /\ r' = r + 1
    /\ UNCHANGED <<scores, local_expert_base, pkt>>

SumOf(ids) == scores[ids[0]] + scores[ids[1]] + scores[ids[2]] + scores[ids[3]]

WsumOwn == SumOf(top[local_expert_base].ids)

(* wsum, over both cards' experts *)
Wsum == SumOf(top[0].ids) + SumOf(top[LocalExperts].ids)

(* The packet; a weight is the fraction of ROUTE_SCALE that wscale makes,  *)
(* as a numerator and a denominator, and 0 if wsum is not positive.        *)
Emit ==
    /\ r = LocalExperts \div LocalK /\ r' = r + 1
    /\ LET ids == [i \in 1 .. LocalK |-> top[local_expert_base].ids[i - 1]]
       IN  pkt' = [ids |-> ids,
                   weights |-> [i \in 1 .. LocalK |->
                       IF Wsum > 0 THEN <<scores[ids[i]], Wsum>> ELSE <<0, 1>>]]
    /\ UNCHANGED <<scores, local_expert_base, top>>

GateNext == First \/ Round \/ Emit

GateSpec == GateInit /\ [][GateNext]_<<scores, local_expert_base, top, r, pkt>>

--------------------------------------------------------------------------------
CardExperts(h) == h .. h + LocalExperts - 1

(* What the dispatcher takes for granted: LOCAL_K different experts of     *)
(* this card; and none left out has a higher score, ties or not, wherever  *)
(* among the rounds the good ones come.                                    *)
GatePicks ==
    pkt # None =>
        LET picked == ToSet(pkt.ids)
            card == CardExperts(local_expert_base)
        IN  /\ picked \subseteq card
            /\ \A i, j \in 1 .. LocalK : i # j => pkt.ids[i] # pkt.ids[j]
            /\ \A e \in card \ picked : \A p \in picked : scores[e] <= scores[p]

(* A card's experts in order: better scores first, lower ids on a tie.     *)
Better(d, e) == scores[d] > scores[e] \/ (scores[d] = scores[e] /\ d < e)
Standing(h, e) == Cardinality({d \in CardExperts(h) : Better(d, e)})
Nth(h, i) == CHOOSE e \in CardExperts(h) : Standing(h, e) = i

(* The weights are shares of one total, the same on both cards: the sum of *)
(* the best LOCAL_K scores of each, so that the two results add up.        *)
BestSum(h) == SumOf([i \in Places |-> Nth(h, i)])
GateShares ==
    pkt # None =>
        LET total == BestSum(0) + BestSum(LocalExperts)
        IN  \A i \in 1 .. LocalK :
                pkt.weights[i] = IF total > 0 THEN <<scores[pkt.ids[i]], total>> ELSE <<0, 1>>
================================================================================
