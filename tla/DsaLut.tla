--------------------------------- MODULE DsaLut --------------------------------
(***************************************************************************)
(* kernels/dsa_indexer/indexer_lut.h: every processing element holds all   *)
(* the query's code words, handed down the chain, and looks the products   *)
(* with its own keys up in a table it reads first.  A cascade of drainers  *)
(* puts the elements' sums into one stream, a round of all of them after   *)
(* another; they are weighted by head and added up to scores.              *)
(*                                                                         *)
(* A vector of k_lut_vec_mem is named <<0, i>> (table) or <<r, i>> (keys   *)
(* of round r), a pack of sums by the 16 keys it is of, numbered as the    *)
(* scores are, and its head.  Lanes and heads are 16 each in the code, and *)
(* loops count one by another.                                             *)
(***************************************************************************)
EXTENDS Streams

CONSTANTS Elements,   \* channels of k_lut_vec_mem, processing elements
          Lane,       \* 16: keys of an element to a round, NUM_INDEX_HEAD
          QueryVecs,  \* (NUM_INDEX_HEAD * HEAD_DIM) >> 7
          TableVecs,  \* (K_CODEBOOK_SIZE * Q_CODEBOOK_SIZE) >> 6
          DimVecs,    \* HEAD_DIM_DIV_2: key vectors of an element to a round
          KPacks,     \* TOP_K >> 4
          ScoreDepth  \* depth of score_id_fifo

DsaLutAssumption ==
    {Elements, Lane, QueryVecs, TableVecs, DimVecs, KPacks, ScoreDepth} \subseteq Nat \ {0}

Element == 1 .. Elements
RoundKeys == Elements * Lane
Rounds(L) == L \div RoundKeys
Keys(r, e) == (r - 1) * Elements + e

(* Number p of a sequence of packs, a pack per head of 16 keys after 16. *)
PerHead(p) == <<((p - 1) \div Lane) + 1, ((p - 1) % Lane) + 1>>

(* In the order gemm_pe takes them; see the README for the test bench's. *)
ReadKLut(e, L) ==
    Loop(TableVecs, LAMBDA i : W(<<"k_lut", e>>, <<0, i>>))
    \o Loop((L * DimVecs) \div RoundKeys, LAMBDA p :
           W(<<"k_lut", e>>, <<((p - 1) \div DimVecs) + 1, ((p - 1) % DimVecs) + 1>>))

ReadQVec == Loop(QueryVecs, LAMBDA i : W(<<"q_vec", 1>>, <<i>>))
ReadWeight == W(<<"weight", 0>>, <<1>>)

Gemm(e, L) ==
    Loop(TableVecs, LAMBDA i : R(<<"k_lut", e>>, <<0, i>>))
    \o Loop(Rounds(L), LAMBDA r :
           Loop(DimVecs, LAMBDA i : R(<<"k_lut", e>>, <<r, i>>))
           \o Loop(Lane, LAMBDA h : W(<<"pe_to_drainer", e>>, <<Keys(r, e), h>>)))

GemmPe(e, L) ==
    Loop(QueryVecs, LAMBDA i : R(<<"q_vec", e>>, <<i>>) \o W(<<"q_vec", e + 1>>, <<i>>))
    \o Gemm(e, L)
GemmPeTail(L) ==
    Loop(QueryVecs, LAMBDA i : R(<<"q_vec", Elements>>, <<i>>)) \o Gemm(Elements, L)

Drain(from, e, g) == Loop(Lane, LAMBDA h : R(from, <<g, h>>) \o W(<<"cascade", e>>, <<g, h>>))

Drainer0(L) == Loop((L \div RoundKeys) * Lane, LAMBDA p :
    LET pack == <<Keys(((p - 1) \div Lane) + 1, 1), ((p - 1) % Lane) + 1>>
    IN  R(<<"pe_to_drainer", 1>>, pack) \o W(<<"cascade", 1>>, pack))

(* The packs of the elements before it, and its own element's after them. *)
Drainer(e, L) == Loop(Rounds(L), LAMBDA r :
    Loop(e - 1, LAMBDA f : Drain(<<"cascade", e - 1>>, e, Keys(r, f)))
    \o Drain(<<"pe_to_drainer", e>>, e, Keys(r, e)))

(* weight_pack[r % 16]: pack r is taken for that head's. *)
WeightedSumMul(L) ==
    R(<<"weight", 0>>, <<1>>)
    \o Loop(L, LAMBDA p :
           R(<<"cascade", Elements>>, PerHead(p)) \o W(<<"weight_psum", 0>>, PerHead(p)))

WeightedSumAdd(L) == Loop(L \div Lane, LAMBDA g :
    Loop(Lane, LAMBDA h : R(<<"weight_psum", 0>>, <<g, h>>)) \o W(<<"score_id", 0>>, <<g>>))

TopK(L) ==
    Loop(KPacks, LAMBDA g : R(<<"score_id", 0>>, <<g>>))
    \o Loop((L - KPacks * Lane) \div Lane, LAMBDA g : R(<<"score_id", 0>>, <<KPacks + g>>))
    \o Loop(KPacks, LAMBDA i : W(<<"topk_id", 0>>, <<i>>))

WriteId == Loop(KPacks, LAMBDA i : R(<<"topk_id", 0>>, <<i>>))

Task == ({"read_k_lut", "gemm_pe", "drainer"} \X Element) \cup
        ({"read_q_vec", "read_weight", "mul", "add", "topk", "write_id"} \X {0})

Script(L) == [k \in Task |->
    LET e == k[2] IN
    CASE k[1] = "read_k_lut"  -> ReadKLut(e, L)
      [] k[1] = "gemm_pe"     -> IF e = Elements THEN GemmPeTail(L) ELSE GemmPe(e, L)
      [] k[1] = "drainer"     -> IF e = 1 THEN Drainer0(L) ELSE Drainer(e, L)
      [] k[1] = "read_q_vec"  -> ReadQVec
      [] k[1] = "read_weight" -> ReadWeight
      [] k[1] = "mul"         -> WeightedSumMul(L)
      [] k[1] = "add"         -> WeightedSumAdd(L)
      [] k[1] = "topk"        -> TopK(L)
      [] k[1] = "write_id"    -> WriteId]

Depth == [c \in ({"k_lut", "q_vec", "pe_to_drainer", "cascade"} \X Element) \cup
                ({"weight", "weight_psum", "score_id", "topk_id"} \X {0}) |->
             CASE c[1] \in {"pe_to_drainer", "cascade"} -> 4
               [] c[1] = "score_id" -> ScoreDepth
               [] OTHER -> 2]
================================================================================
