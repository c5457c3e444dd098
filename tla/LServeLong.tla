------------------------------- MODULE LServeLong ------------------------------
(***************************************************************************)
(* kernels/lserve/indexer_lserve_long.h: keys that do not fit in block RAM *)
(* go to ultra RAM, and those that do not fit there are streamed again for *)
(* every query.  A round covers fewer keys the further out they are, so    *)
(* the rounds are counted in logical positions, which the host computes    *)
(* (l_logical_per_channel in indexer_lserve_long_tb.cpp).  Only the first  *)
(* Active channels work; dummies keep the others in step.                  *)
(*                                                                         *)
(* Detached tasks have the iterations for which there is data.             *)
(***************************************************************************)
EXTENDS QueryStream

CONSTANTS Active,     \* channels with a processing element
          BramKeys,   \* MAX_LEN_PER_CNL_BRAM
          UramKeys    \* MAX_LEN_PER_CNL_URAM

MaxKeys == BramKeys + UramKeys      \* MAX_LEN_PER_CNL
Half == Lane \div 2                 \* keys to a vector outside block RAM
UramRound == 2 * Lane               \* keys to a round in ultra RAM
OnChip == BramKeys \div Round + UramKeys \div UramRound   \* MAX_ONCHIP_LEN

LServeLongAssumption ==
    /\ QueryStreamAssumption
    /\ Active \in Channel
    /\ BramKeys % Round = 0 /\ UramKeys % UramRound = 0

(* The host's L_logical: a key counts for the share of a round it takes. *)
Logical(L) ==
    LET uram == Round \div UramRound
    IN  CASE L < BramKeys -> L
          [] BramKeys <= L /\ L < MaxKeys -> BramKeys + (L - BramKeys) * uram
          [] OTHER -> BramKeys + UramKeys * uram + (L - MaxKeys) * (Round \div Half)

(* What a channel's memory holds: with keys off chip, they and a block for *)
(* the new key come after each query and key.                              *)
OffChip(L) == IF L > MaxKeys THEN (L - MaxKeys) * KeyVecs + Half * KeyVecs ELSE 0
Loaded(L) == IF L > MaxKeys THEN MaxKeys ELSE L
VectorLong(L, p) ==
    LET beyond == p - 1 - Loaded(L) * KeyVecs
        each == 2 * KeyVecs + OffChip(L)
    IN  IF p <= Loaded(L) * KeyVecs THEN <<0, p>>
        ELSE <<(beyond \div each) + 1, (beyond % each) + 1>>

(* total_size *)
TotalSize(L, nq) ==
    IF L > MaxKeys
    THEN MaxKeys * KeyVecs + (L - MaxKeys + 2) * KeyVecs * nq + Half * KeyVecs * nq
    ELSE (L + nq * 2) * KeyVecs

ReadQkVec(c, L, nq) ==
    Loop(TotalSize(L, nq), LAMBDA p : W(<<"qk_vec", c>>, VectorLong(L, p)))

(* Keys in block RAM, and in ultra RAM. *)
UramLen(L) == IF L > MaxKeys THEN UramKeys ELSE IF L > BramKeys THEN L - BramKeys ELSE 0
BramLen(L) == IF UramLen(L) > 0 THEN BramKeys ELSE L

LoadBoth(c, L) ==
    LET bram == (BramLen(L) \div Lane) * (Lane * KeyVecs)
        uram == (UramLen(L) \div Half) * (Half * KeyVecs)
    IN  Loop(bram + uram, LAMBDA p : R(<<"qk_vec", c>>, <<0, p>>))

(* The rounds of query q as gemm_pe counts them... *)
GemmRounds(L, q) ==
    LET step == CASE L > MaxKeys -> Round \div Half
                  [] BramKeys < L /\ L <= MaxKeys -> Round \div UramRound
                  [] OTHER -> 0
    IN  (Logical(L) + step * ((q - 1) \div Share) + Round) \div Round

(* ... reading the keys of a round again when it is beyond what is on chip. *)
OffChipRound(c, L, q, n) ==
    IF n <= OnChip THEN <<>>
    ELSE Loop(Half * KeyVecs, LAMBDA v :
             R(<<"qk_vec", c>>, <<q, 2 * KeyVecs + (n - OnChip - 1) * Half * KeyVecs + v>>))

GemmPe(c, L, nq) ==
    LoadBoth(c, L)
    \o Loop(nq, LAMBDA q :
           Loop(2 * KeyVecs, LAMBDA v : R(<<"qk_vec", c>>, <<q, v>>))
           \o Loop(GemmRounds(L, q), LAMBDA n :
                  OffChipRound(c, L, q, n)
                  \o RoundPacks(n, LAMBDA p : W(<<"score_out", c>>, <<q, p>>))))

DummyConsumer(c, L, nq) ==
    Loop(TotalSize(L, nq), LAMBDA p : R(<<"qk_vec", c>>, VectorLong(L, p)))

MinMaxPageReduction(c, L, nq) ==
    Loop(nq, LAMBDA q : Loop(GemmRounds(L, q), LAMBDA n : RoundPacks(n, LAMBDA p :
        R(<<"score_out", c>>, <<q, p>>) \o W(<<"max_score", c>>, <<q, p>>))))

(* ... and as the dummies and topk_parallel_cmp count them. *)
DummyProducer(c, L, nq) ==
    EachRound(Logical(L), nq, LAMBDA q, n : RoundPacks(n, LAMBDA p :
        W(<<"max_score", c>>, <<q, p>>)))

ScorePacking(L, nq) ==
    EachRound(Logical(L), nq, LAMBDA q, n : RoundPacks(n, LAMBDA p :
        Loop(Channels, LAMBDA c : R(<<"max_score", c>>, <<q, p>>))
        \o W(<<"packed", 0>>, <<q, p>>)))

TopK(L, nq) == Loop(nq, LAMBDA q :
    Loop(KPacks + (Rounds(Logical(L), q) * Packs - KPacks), LAMBDA p :
        R(<<"packed", 0>>, <<q, p>>))
    \o Loop(KPacks, LAMBDA i : W(<<"topk_id", 0>>, <<q, i>>)))

WriteId(nq) == Loop(nq * KPacks, LAMBDA i :
    R(<<"topk_id", 0>>, <<((i - 1) \div KPacks) + 1, ((i - 1) % KPacks) + 1>>))

Working == 1 .. Active
Script(L, nq) == [k \in PerChannel({"read_qk_vec", "consume", "produce"}) \cup
                        Single({"packing", "topk", "write_id"}) |->
    CASE k[1] = "read_qk_vec" -> ReadQkVec(k[2], L, nq)
      [] k[1] = "consume"     -> IF k[2] \in Working THEN GemmPe(k[2], L, nq)
                                                     ELSE DummyConsumer(k[2], L, nq)
      [] k[1] = "produce"     -> IF k[2] \in Working THEN MinMaxPageReduction(k[2], L, nq)
                                                     ELSE DummyProducer(k[2], L, nq)
      [] k[1] = "packing"     -> ScorePacking(L, nq)
      [] k[1] = "topk"        -> TopK(L, nq)
      [] k[1] = "write_id"    -> WriteId(nq)]

(* As in LServeIndexer; score_packing takes the channels one by one. *)
Depth == [c \in PerChannel({"qk_vec", "max_score"}) \cup ({"score_out"} \X Working) \cup
                Single({"packed", "topk_id"}) |->
             IF c[1] = "max_score" /\ c[2] # Channels THEN 1 ELSE 2]
================================================================================
