------------------------------- MODULE DsaVanilla ------------------------------
(***************************************************************************)
(* kernels/dsa_indexer/indexer_vanilla.h: a chain of processing elements,  *)
(* each with its slice of the query and of the keys, sums the products of  *)
(* 16 keys with every head; the sums go through ReLU, are weighted by head *)
(* and added up to the keys' scores, of which the TOP_K best are written.  *)
(*                                                                         *)
(* A slice of memory is named <<0, i>> (query) or <<g, i>> (the g-th group *)
(* of keys), a pack of sums <<g, head>>.  Lanes, heads and vectors to a    *)
(* slice are 16 each in the code, and loops count one by another.          *)
(***************************************************************************)
EXTENDS Streams

CONSTANTS Elements,   \* channels of qk_vec_mem, processing elements
          Lane,       \* 16: keys to a vector, NUM_INDEX_HEAD, DIM_PER_PE
          KPacks,     \* TOP_K >> 4
          ScoreDepth  \* depth of score_id_fifo

DsaVanillaAssumption == {Elements, Lane, KPacks, ScoreDepth} \subseteq Nat \ {0}

Element == 1 .. Elements
Groups(L) == L \div Lane

(* Element p of a sequence made group by group. *)
InGroup(p) == <<((p - 1) \div Lane) + 1, ((p - 1) % Lane) + 1>>

ReadQkVec(e, L) == Loop(L + Lane, LAMBDA p :
    W(<<"qk_vec", e>>, IF p <= Lane THEN <<0, p>> ELSE InGroup(p - Lane)))

ReadWeight == W(<<"weight", 0>>, <<1>>)

LoadQuery(e) == Loop(Lane, LAMBDA i : R(<<"qk_vec", e>>, <<0, i>>))
LoadGroup(e, g) == Loop(Lane, LAMBDA i : R(<<"qk_vec", e>>, <<g, i>>))

GemmPeHead(L) ==
    LoadQuery(1)
    \o Loop(Groups(L), LAMBDA g :
           LoadGroup(1, g) \o Loop(Lane, LAMBDA h : W(<<"psum", 1>>, <<g, h>>)))

GemmPe(e, L) ==
    LoadQuery(e)
    \o Loop(Groups(L), LAMBDA g :
           LoadGroup(e, g)
           \o Loop(Lane, LAMBDA h :
                  R(<<"psum", e - 1>>, <<g, h>>) \o W(<<"psum", e>>, <<g, h>>)))

(* A pack per head of every group: as many as there are keys. *)
Relu(L) == Loop(L, LAMBDA p :
    R(<<"psum", Elements>>, InGroup(p)) \o W(<<"psum", Elements + 1>>, InGroup(p)))

(* weight_pack[r % 16]: pack r is taken for that head's. *)
WeightedSumMul(L) ==
    R(<<"weight", 0>>, <<1>>)
    \o Loop(L, LAMBDA p :
           R(<<"psum", Elements + 1>>, InGroup(p)) \o W(<<"weight_psum", 0>>, InGroup(p)))

WeightedSumAdd(L) == Loop(Groups(L), LAMBDA g :
    Loop(Lane, LAMBDA h : R(<<"weight_psum", 0>>, <<g, h>>)) \o W(<<"score_id", 0>>, <<g>>))

TopK(L) ==
    Loop(KPacks, LAMBDA g : R(<<"score_id", 0>>, <<g>>))
    \o Loop((L - KPacks * Lane) \div Lane, LAMBDA g : R(<<"score_id", 0>>, <<KPacks + g>>))
    \o Loop(KPacks, LAMBDA i : W(<<"topk_id", 0>>, <<i>>))

WriteId == Loop(KPacks, LAMBDA i : R(<<"topk_id", 0>>, <<i>>))

Task == ({"read_qk_vec", "gemm_pe"} \X Element) \cup
        ({"read_weight", "relu", "mul", "add", "topk", "write_id"} \X {0})

Script(L) == [k \in Task |->
    LET e == k[2] IN
    CASE k[1] = "read_qk_vec" -> ReadQkVec(e, L)
      [] k[1] = "gemm_pe"     -> IF e = 1 THEN GemmPeHead(L) ELSE GemmPe(e, L)
      [] k[1] = "read_weight" -> ReadWeight
      [] k[1] = "relu"        -> Relu(L)
      [] k[1] = "mul"         -> WeightedSumMul(L)
      [] k[1] = "add"         -> WeightedSumAdd(L)
      [] k[1] = "topk"        -> TopK(L)
      [] k[1] = "write_id"    -> WriteId]

Depth == [c \in ({"qk_vec"} \X Element) \cup ({"psum"} \X (1 .. Elements + 1)) \cup
                ({"weight", "weight_psum", "score_id", "topk_id"} \X {0}) |->
             CASE c[1] = "psum" -> 4
               [] c[1] = "score_id" -> ScoreDepth
               [] OTHER -> 2]
================================================================================
