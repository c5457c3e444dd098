----------------------------- MODULE LServeIndexer -----------------------------
(***************************************************************************)
(* kernels/lserve/indexer_lserve.h: the channels' scores are reduced to    *)
(* pages, packed into one stream and the best pages of a query written     *)
(* out.  score_packing runs for ever (detach); here it has the iterations  *)
(* for which there is data.                                                *)
(***************************************************************************)
EXTENDS QueryStream

ReadQkVec(c, L, nq) ==
    Loop((L + nq * 2) * KeyVecs, LAMBDA p : W(<<"qk_vec", c>>, Vector(L, p)))

(* Whole packs of Lane keys into k_vec_buffer. *)
LoadKeys(c, L) ==
    Loop((L \div Lane) * (Lane * KeyVecs), LAMBDA p : R(<<"qk_vec", c>>, <<0, p>>))

QueryAndKey(c, q) == Loop(2 * KeyVecs, LAMBDA v : R(<<"qk_vec", c>>, <<q, v>>))

Scores(c, q, n) == RoundPacks(n, LAMBDA p : W(<<"score_out", c>>, <<q, p>>))

GemmPe(c, L, nq) ==
    LoadKeys(c, L)
    \o Loop(nq, LAMBDA q :
           QueryAndKey(c, q) \o Loop(Rounds(L, q), LAMBDA n : Scores(c, q, n)))

MinMaxPageReduction(c, L, nq) ==
    EachRound(L, nq, LAMBDA q, n : RoundPacks(n, LAMBDA p :
        R(<<"score_out", c>>, <<q, p>>) \o W(<<"max_score", c>>, <<q, p>>)))

(* One pack of every channel into one pack of pages. *)
ScorePacking(L, nq) ==
    EachRound(L, nq, LAMBDA q, n : RoundPacks(n, LAMBDA p :
        Loop(Channels, LAMBDA c : R(<<"max_score", c>>, <<q, p>>))
        \o W(<<"packed", 0>>, <<q, p>>)))

(* Packs after those that fill the nodes. *)
Remaining(L, q) == Rounds(L, q) * Packs - KPacks

TopK(L, nq) == Loop(nq, LAMBDA q :
    Loop(KPacks + Remaining(L, q), LAMBDA p : R(<<"packed", 0>>, <<q, p>>))
    \o Loop(KPacks, LAMBDA i : W(<<"topk_id", 0>>, <<q, i>>)))

WriteId(nq) == Loop(nq * KPacks, LAMBDA i :
    R(<<"topk_id", 0>>, <<((i - 1) \div KPacks) + 1, ((i - 1) % KPacks) + 1>>))

Task == PerChannel({"read_qk_vec", "gemm_pe", "pages"}) \cup
        Single({"packing", "topk", "write_id"})

Script(L, nq) == [k \in Task |->
    CASE k[1] = "read_qk_vec" -> ReadQkVec(k[2], L, nq)
      [] k[1] = "gemm_pe"     -> GemmPe(k[2], L, nq)
      [] k[1] = "pages"       -> MinMaxPageReduction(k[2], L, nq)
      [] k[1] = "packing"     -> ScorePacking(L, nq)
      [] k[1] = "topk"        -> TopK(L, nq)
      [] k[1] = "write_id"    -> WriteId(nq)]

(* TAPA's default of 2.  score_packing waits until every channel has a     *)
(* datum; here it takes them one by one, so all but the last have a place  *)
(* less (with fewer places a kernel can only wait more).                   *)
Depth == [c \in PerChannel({"qk_vec", "score_out", "max_score"}) \cup
                Single({"packed", "topk_id"}) |->
             IF c[1] = "max_score" /\ c[2] # Channels THEN 1 ELSE 2]
================================================================================
