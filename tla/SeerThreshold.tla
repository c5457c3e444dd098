----------------------------- MODULE SeerThreshold -----------------------------
(***************************************************************************)
(* kernels/seerattention/indexer_seer_threshold.h: every channel on its    *)
(* own turns a round of scores into one bitmap and writes the bitmaps to   *)
(* its memory, as many as a closed formula says.                           *)
(***************************************************************************)
EXTENDS QueryStream

ReadQkVec(c, L, nq) ==
    Loop((L + nq * 2) * KeyVecs, LAMBDA p : W(<<"qk_vec", c>>, Vector(L, p)))

GemmPe(c, L, nq) ==
    Loop((L \div Lane) * (Lane * KeyVecs), LAMBDA p : R(<<"qk_vec", c>>, <<0, p>>))
    \o Loop(nq, LAMBDA q :
           Loop(2 * KeyVecs, LAMBDA v : R(<<"qk_vec", c>>, <<q, v>>))
           \o Loop(Rounds(L, q), LAMBDA n : W(<<"bitmap", c>>, <<q, n>>)))

(* total_size >> 7: the bitmaps write_id waits for. *)
Bitmaps(L, nq) == (L * nq + nq \div (Share * Round) + nq * Round) \div Round

(* It takes whatever bitmap comes next. *)
WriteId(c, L, nq) ==
    LET made == EachRound(L, nq, LAMBDA q, n : <<(<<q, n>>)>>)
    IN  Loop(Bitmaps(L, nq), LAMBDA i :
            R(<<"bitmap", c>>, IF i <= Len(made) THEN made[i] ELSE <<0>>))

Task == PerChannel({"read_qk_vec", "gemm_pe", "write_id"})

Script(L, nq) == [k \in Task |->
    CASE k[1] = "read_qk_vec" -> ReadQkVec(k[2], L, nq)
      [] k[1] = "gemm_pe"     -> GemmPe(k[2], L, nq)
      [] k[1] = "write_id"    -> WriteId(k[2], L, nq)]

Depth == [c \in PerChannel({"qk_vec", "bitmap"}) |-> 2]
================================================================================
