---------------------------- MODULE SeerTokenBudget ----------------------------
(***************************************************************************)
(* kernels/seerattention/indexer_seer_token_budget.h: the processing       *)
(* elements form a chain; in every round each passes on the packs of the   *)
(* ones before it, then adds its own.                                      *)
(***************************************************************************)
EXTENDS QueryStream

ReadQkVec(c, L, nq) ==
    Loop((L + nq * 2) * KeyVecs, LAMBDA p : W(<<"qk_vec", c>>, Vector(L, p)))

LoadAll(c, L) ==
    Loop((L \div Lane) * (Lane * KeyVecs), LAMBDA p : R(<<"qk_vec", c>>, <<0, p>>))
QueryAndKey(c, q) == Loop(2 * KeyVecs, LAMBDA v : R(<<"qk_vec", c>>, <<q, v>>))

(* Pack p of a round's Channels * Packs, the elements' packs in a row. *)
PackOf(n, p) == (n - 1) * (Channels * Packs) + p

OwnScores(c, q, n) == Loop(Packs, LAMBDA i :
    W(<<"score_out", c>>, <<q, PackOf(n, (c - 1) * Packs + i)>>))

GemmPeHead(L, nq) ==
    LoadAll(1, L)
    \o Loop(nq, LAMBDA q :
           QueryAndKey(1, q) \o Loop(Rounds(L, q), LAMBDA n : OwnScores(1, q, n)))

PreviousScores(c, q, n) == Loop((c - 1) * Packs, LAMBDA p :
    R(<<"score_out", c - 1>>, <<q, PackOf(n, p)>>)
    \o W(<<"score_out", c>>, <<q, PackOf(n, p)>>))

GemmPe(c, L, nq) ==
    LoadAll(c, L)
    \o Loop(nq, LAMBDA q :
           QueryAndKey(c, q)
           \o Loop(Rounds(L, q), LAMBDA n :
                  PreviousScores(c, q, n) \o OwnScores(c, q, n)))

(* The packs of all elements: << 6 where one channel's would be << 3. *)
Remaining(L, q) == Rounds(L, q) * Channels * Packs - KPacks

TopK(L, nq) == Loop(nq, LAMBDA q :
    Loop(KPacks + Remaining(L, q), LAMBDA p : R(<<"score_out", Channels>>, <<q, p>>))
    \o Loop(KPacks, LAMBDA i : W(<<"topk_id", 0>>, <<q, i>>)))

WriteId(nq) == Loop(nq * KPacks, LAMBDA i :
    R(<<"topk_id", 0>>, <<((i - 1) \div KPacks) + 1, ((i - 1) % KPacks) + 1>>))

Task == PerChannel({"read_qk_vec", "gemm_pe"}) \cup Single({"topk", "write_id"})

Script(L, nq) == [k \in Task |->
    CASE k[1] = "read_qk_vec" -> ReadQkVec(k[2], L, nq)
      [] k[1] = "gemm_pe"     -> IF k[2] = 1 THEN GemmPeHead(L, nq) ELSE GemmPe(k[2], L, nq)
      [] k[1] = "topk"        -> TopK(L, nq)
      [] k[1] = "write_id"    -> WriteId(nq)]

Depth == [c \in PerChannel({"qk_vec", "score_out"}) \cup Single({"topk_id"}) |-> 2]
================================================================================
