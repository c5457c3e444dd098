------------------------------- MODULE MoeKernel -------------------------------
(***************************************************************************)
(* kernels/moe/moe_kernel.cpp: the routed experts for N tokens, one after  *)
(* another.  The gate routes a token and hands its x on; the dispatch      *)
(* gives every lane the token, its header and the number of its expert, on *)
(* six streams to the lane's weight loaders (W1, W3, W2, even and odd      *)
(* rows); a lane's partial result is added to what the lanes before it     *)
(* have, and the last lane's goes to memory.                               *)
(*                                                                         *)
(* A datum is named by its token and its place; the rows of the expert a   *)
(* trigger names, by the token it was routed for.  The chain of partial    *)
(* sums is named by token and place, whatever lanes are in it.             *)
(***************************************************************************)
EXTENDS Streams

CONSTANTS Lanes,       \* N_PARALLEL_SLOTS = LOCAL_K
          Experts,     \* N_EXPERTS_TOTAL
          HiddenVecs,  \* HIDDEN_VECS
          HalfInter,   \* MOE_INTER / 2, pairs of rows of W1 and of W3
          InterVecs,   \* INTER_VECS
          HalfHidden,  \* HIDDEN / 2, pairs of rows of W2
          YVecs,       \* HIDDEN_VECS_FP
          ParamsEach   \* dequantisation parameters per matrix: scale and shift

MoeKernelAssumption ==
    {Lanes, Experts, HiddenVecs, HalfInter, InterVecs, HalfHidden, YVecs, ParamsEach}
        \subseteq Nat \ {0}

Lane == 1 .. Lanes
Matrices == {"1", "3", "2"}
Half == {"a", "b"}   \* even rows, odd rows

--------------------------------------------------------------------------------
(* Before the lanes. *)

PerToken(n, count, Body(_)) == Loop(n, LAMBDA t : Loop(count, LAMBDA i : Body(<<t, i>>)))

XGateReader(n) == PerToken(n, HiddenVecs, LAMBDA d : W(<<"x_gate", 0>>, d))
WGateReader == PerToken(Experts, HiddenVecs, LAMBDA d : W(<<"w_gate", 0>>, d))

(* One buffer, the bias first. *)
BiasDequantReader ==
    Loop(Experts, LAMBDA e : W(<<"bias", 0>>, <<e>>))
    \o Loop(3 * ParamsEach, LAMBDA i : W(<<"dequant", 1>>, <<i>>))

DequantSink == Loop(3 * ParamsEach, LAMBDA i : R(<<"dequant", Lanes + 1>>, <<i>>))

GateCompute(n) ==
    Loop(Experts, LAMBDA e : R(<<"bias", 0>>, <<e>>))
    \o PerToken(Experts, HiddenVecs, LAMBDA d : R(<<"w_gate", 0>>, d))
    \o Loop(n, LAMBDA t :
           Loop(HiddenVecs, LAMBDA v : R(<<"x_gate", 0>>, <<t, v>>) \o W(<<"x_disp", 0>>, <<t, v>>))
           \o W(<<"route", 0>>, <<t>>))

(* The header of a lane, then the triggers of its loaders. *)
Announce(t, l) ==
    W(<<"disp_hdr", l>>, <<t>>)
    \o W(<<"trigger1a", l>>, <<t>>) \o W(<<"trigger3a", l>>, <<t>>) \o W(<<"trigger2a", l>>, <<t>>)
    \o W(<<"trigger1b", l>>, <<t>>) \o W(<<"trigger3b", l>>, <<t>>) \o W(<<"trigger2b", l>>, <<t>>)

DispatchCompute(n) == Loop(n, LAMBDA t :
    Loop(HiddenVecs, LAMBDA v : R(<<"x_disp", 0>>, <<t, v>>))
    \o R(<<"route", 0>>, <<t>>)
    \o Loop(Lanes, LAMBDA l : Announce(t, l))
    \o Loop(HiddenVecs, LAMBDA v : Loop(Lanes, LAMBDA l : W(<<"disp_x", l>>, <<t, v>>))))

--------------------------------------------------------------------------------
(* A lane. *)

(* Half the rows of a matrix: W1_HALF_VECS, W3_HALF_VECS, W2_HALF_VECS. *)
HalfVecs(m) == IF m = "2" THEN HalfHidden * InterVecs ELSE HalfInter * HiddenVecs

WeightLoader(m, half, l, n) == Loop(n, LAMBDA t :
    R(<<"trigger" \o m \o half, l>>, <<t>>)
    \o Loop(HalfVecs(m), LAMBDA i : W(<<"W" \o m \o half, l>>, <<t, i>>)))

(* Hands all the parameters down the chain and keeps each for a projection. *)
DequantSplit(l) == Loop(3 * ParamsEach, LAMBDA i :
    R(<<"dequant", l>>, <<i>>) \o W(<<"dequant", l + 1>>, <<i>>)
    \o (CASE i <= ParamsEach     -> W(<<"dq1", l>>, <<i>>)
          [] i > 2 * ParamsEach  -> W(<<"dq2", l>>, <<i>>)
          [] OTHER               -> W(<<"dq3", l>>, <<i>>)))

FfnXSplit(l, n) == Loop(n, LAMBDA t :
    Loop(HiddenVecs, LAMBDA v :
        R(<<"disp_x", l>>, <<t, v>>) \o W(<<"x1", l>>, <<t, v>>) \o W(<<"x3", l>>, <<t, v>>))
    \o R(<<"disp_hdr", l>>, <<t>>)
    \o W(<<"xs1", l>>, <<t>>) \o W(<<"xs3", l>>, <<t>>) \o W(<<"w_route", l>>, <<t>>))

(* A pair of rows, one from each loader. *)
Rows(m, l, t, row, vecs) == Loop(vecs, LAMBDA v :
    R(<<"W" \o m \o "a", l>>, <<t, (row - 1) * vecs + v>>)
    \o R(<<"W" \o m \o "b", l>>, <<t, (row - 1) * vecs + v>>))

Proj(m, first, l, n) ==
    Loop(ParamsEach, LAMBDA i : R(<<"dq" \o m, l>>, <<first + i>>))
    \o Loop(n, LAMBDA t :
           Loop(HiddenVecs, LAMBDA v : R(<<"x" \o m, l>>, <<t, v>>))
           \o R(<<"xs" \o m, l>>, <<t>>)
           \o Loop(HalfInter, LAMBDA row :
                  Rows(m, l, t, row, HiddenVecs) \o W(<<"acc" \o m, l>>, <<t, row>>)))

FfnW1Proj(l, n) == Proj("1", 0, l, n)
FfnW3Proj(l, n) == Proj("3", ParamsEach, l, n)

FfnSwiglu(l, n) == Loop(n, LAMBDA t :
    Loop(HalfInter, LAMBDA row : R(<<"acc1", l>>, <<t, row>>) \o R(<<"acc3", l>>, <<t, row>>))
    \o W(<<"inter_scale", l>>, <<t>>)
    \o Loop(InterVecs, LAMBDA v : W(<<"inter", l>>, <<t, v>>)))

FfnW2Proj(l, n) ==
    Loop(ParamsEach, LAMBDA i : R(<<"dq2", l>>, <<2 * ParamsEach + i>>))
    \o Loop(n, LAMBDA t :
           R(<<"inter_scale", l>>, <<t>>) \o R(<<"w_route", l>>, <<t>>)
           \o Loop(InterVecs, LAMBDA v : R(<<"inter", l>>, <<t, v>>))
           \o Loop(HalfHidden, LAMBDA row : Rows("2", l, t, row, InterVecs))
           \o Loop(YVecs, LAMBDA v :
                  R(<<"partial", l>>, <<t, v>>) \o W(<<"partial", l + 1>>, <<t, v>>)))

PartialSeed(n) == PerToken(n, YVecs, LAMBDA d : W(<<"partial", 1>>, d))
YWriter(n) == PerToken(n, YVecs, LAMBDA d : R(<<"partial", Lanes + 1>>, d))

--------------------------------------------------------------------------------
(* The network. *)

Task == ({"dequant_split", "x_split", "w1_proj", "w3_proj", "swiglu", "w2_proj"} \X Lane)
        \cup ({"loader"} \X Lane \X Matrices \X Half)
        \cup ({"x_reader", "w_reader", "bias_reader", "dequant_sink", "gate", "dispatch",
               "seed", "y_writer"} \X {0})

Script(n) == [k \in Task |->
    LET l == k[2] IN
    CASE k[1] = "x_reader"      -> XGateReader(n)
      [] k[1] = "w_reader"      -> WGateReader
      [] k[1] = "bias_reader"   -> BiasDequantReader
      [] k[1] = "dequant_sink"  -> DequantSink
      [] k[1] = "gate"          -> GateCompute(n)
      [] k[1] = "dispatch"      -> DispatchCompute(n)
      [] k[1] = "loader"        -> WeightLoader(k[3], k[4], l, n)
      [] k[1] = "dequant_split" -> DequantSplit(l)
      [] k[1] = "x_split"       -> FfnXSplit(l, n)
      [] k[1] = "w1_proj"       -> FfnW1Proj(l, n)
      [] k[1] = "w3_proj"       -> FfnW3Proj(l, n)
      [] k[1] = "swiglu"        -> FfnSwiglu(l, n)
      [] k[1] = "w2_proj"       -> FfnW2Proj(l, n)
      [] k[1] = "seed"          -> PartialSeed(n)
      [] k[1] = "y_writer"      -> YWriter(n)]

Weights == {"W" \o m \o half : m \in Matrices, half \in Half}
Triggers == {"trigger" \o m \o half : m \in Matrices, half \in Half}

Depth == [c \in ({"x_gate", "w_gate", "bias", "route", "x_disp"} \X {0})
                \cup ({"dequant", "partial"} \X (1 .. Lanes + 1))
                \cup ((Weights \cup Triggers \cup
                       {"dq1", "dq3", "dq2", "disp_hdr", "disp_x", "x1", "x3", "xs1", "xs3",
                        "w_route", "acc1", "acc3", "inter", "inter_scale"}) \X Lane) |->
             CASE c[1] \in {"x_gate", "w_gate", "bias"} \cup Weights -> 2
               [] c[1] = "dequant" -> 8
               [] c[1] = "partial" -> 16
               [] OTHER -> 4]
================================================================================
