------------------------------- MODULE MoeDecode -------------------------------
(***************************************************************************)
(* The decoding kernels, kernels/moe/moe_kernel_dec_spec.cpp and, with     *)
(* weights two to the place of one, moe_int8_decode.cpp: the routed        *)
(* experts for a single token.  A lane's W1 and W3 projections read their  *)
(* weights in row thirds a, b, c from ports that also hold their half of   *)
(* W2, and go on to that half once ffn_swiglu has given them its vector;   *)
(* the two halves of the result run down two chains through the lanes.     *)
(*                                                                         *)
(* A datum is named by its place in its stream: all are of one token.      *)
(***************************************************************************)
EXTENDS Streams

CONSTANTS Lanes,        \* N_PARALLEL_SLOTS = LOCAL_K
          Experts,      \* N_EXPERTS_TOTAL
          HalfExperts,  \* N_EXPERTS_TOTAL / 2
          HiddenVecs,   \* HIDDEN_VECS, of x
          HiddenVecsW,  \* beats of a row of W_gate, W1, W3: HIDDEN_VECS(_W)
          W1Rows,       \* W1_THIRD_ROWS
          W2Rows,       \* W2_SIXTH_ROWS
          InterVecs,    \* INTER_VECS, of the vector between the stages
          InterVecsW,   \* beats of a row of W2: INTER_VECS(_W)
          YHalfVecs,    \* HIDDEN_VECS_FP / 2
          ParamsEach    \* dequantisation parameters per matrix: scale and shift

MoeDecodeAssumption ==
    {Lanes, Experts, HalfExperts, HiddenVecs, HiddenVecsW, W1Rows, W2Rows, InterVecs,
     InterVecsW, YHalfVecs, ParamsEach} \subseteq Nat \ {0}

Lane == 1 .. Lanes
Third == {"a", "b", "c"}

(* n data in a row, of a stream's own numbering. *)
Reads(c, n) == Loop(n, LAMBDA i : R(c, <<i>>))
Writes(c, n) == Loop(n, LAMBDA i : W(c, <<i>>))

--------------------------------------------------------------------------------
(* Before the lanes. *)

XGateReader == Writes(<<"x_gate", 0>>, HiddenVecs)
WGateReader(half) == Writes(<<"w_gate" \o half, 0>>, HalfExperts * HiddenVecsW)
BiasDequantReader == Writes(<<"bias", 0>>, Experts) \o Writes(<<"dequant", 1>>, 3 * ParamsEach)
DequantSink == Reads(<<"dequant", Lanes + 1>>, 3 * ParamsEach)

(* x goes on to the dispatch before the first score; an expert of either   *)
(* half at a time.                                                         *)
GateCompute ==
    Reads(<<"bias", 0>>, Experts)
    \o Loop(HiddenVecs, LAMBDA v : R(<<"x_gate", 0>>, <<v>>) \o W(<<"x_disp", 0>>, <<v>>))
    \o Loop(HalfExperts * HiddenVecsW, LAMBDA i :
           R(<<"w_gatea", 0>>, <<i>>) \o R(<<"w_gateb", 0>>, <<i>>))
    \o W(<<"route", 0>>, <<1>>)

Announce(l) ==
    W(<<"disp_hdr", l>>, <<1>>)
    \o W(<<"trigger1a", l>>, <<1>>) \o W(<<"trigger1b", l>>, <<1>>) \o W(<<"trigger1c", l>>, <<1>>)
    \o W(<<"trigger3a", l>>, <<1>>) \o W(<<"trigger3b", l>>, <<1>>) \o W(<<"trigger3c", l>>, <<1>>)

DispatchCompute ==
    Reads(<<"x_disp", 0>>, HiddenVecs) \o R(<<"route", 0>>, <<1>>)
    \o Loop(Lanes, LAMBDA l : Announce(l))
    \o Loop(HiddenVecs, LAMBDA v : Loop(Lanes, LAMBDA l : W(<<"disp_x", l>>, <<v>>)))

--------------------------------------------------------------------------------
(* A lane.  Its two projections are numbered 1 and 3, after the matrix of  *)
(* their first stage; half a of W2, and of y, is with 1.                   *)

PortVecs == W1Rows * HiddenVecsW + W2Rows * InterVecsW

WeightLoader(m, third, l) ==
    R(<<"trigger" \o m \o third, l>>, <<1>>) \o Writes(<<"W" \o m \o third, l>>, PortVecs)

DequantSplit(l) == Loop(3 * ParamsEach, LAMBDA i :
    R(<<"dequant", l>>, <<i>>) \o W(<<"dequant", l + 1>>, <<i>>)
    \o (CASE i <= ParamsEach    -> W(<<"dq1", l>>, <<i>>)
          [] i > 2 * ParamsEach -> W(<<"dq2_1", l>>, <<i>>) \o W(<<"dq2_3", l>>, <<i>>)
          [] OTHER              -> W(<<"dq3", l>>, <<i>>)))

FfnXSplit(l) ==
    Loop(HiddenVecs, LAMBDA v :
        R(<<"disp_x", l>>, <<v>>) \o W(<<"x1", l>>, <<v>>) \o W(<<"x3", l>>, <<v>>))
    \o R(<<"disp_hdr", l>>, <<1>>)
    \o W(<<"xs1", l>>, <<1>>) \o W(<<"xs3", l>>, <<1>>)
    \o W(<<"w_route1", l>>, <<1>>) \o W(<<"w_route3", l>>, <<1>>)

(* Beats from .. from + n - 1 of the three ports, in lockstep. *)
Weights(m, l, from, n) == Loop(n, LAMBDA i :
    R(<<"W" \o m \o "a", l>>, <<from + i - 1>>) \o R(<<"W" \o m \o "b", l>>, <<from + i - 1>>)
    \o R(<<"W" \o m \o "c", l>>, <<from + i - 1>>))

Stage0(m, l) ==
    Reads(<<"x" \o m, l>>, HiddenVecs) \o R(<<"xs" \o m, l>>, <<1>>)
    \o Loop(W1Rows, LAMBDA row :
           Weights(m, l, (row - 1) * HiddenVecsW + 1, HiddenVecsW) \o W(<<"acc" \o m, l>>, <<row>>))

Stage1(m, l) ==
    R(<<"inter_scale" \o m, l>>, <<1>>) \o R(<<"w_route" \o m, l>>, <<1>>)
    \o Reads(<<"inter" \o m, l>>, InterVecs)
    \o Weights(m, l, W1Rows * HiddenVecsW + 1, W2Rows * InterVecsW)

Proj(m, first, l) ==
    Loop(ParamsEach, LAMBDA i : R(<<"dq" \o m, l>>, <<first + i>>))
    \o Loop(ParamsEach, LAMBDA i : R(<<"dq2_" \o m, l>>, <<2 * ParamsEach + i>>))
    \o Stage0(m, l) \o Stage1(m, l)
    \o Loop(YHalfVecs, LAMBDA v :
           R(<<"partial" \o m, l>>, <<v>>) \o W(<<"partial" \o m, l + 1>>, <<v>>))

FfnW1W2Proj(l) == Proj("1", 0, l)
FfnW3W2Proj(l) == Proj("3", ParamsEach, l)

FfnSwiglu(l) ==
    Loop(W1Rows, LAMBDA row : R(<<"acc1", l>>, <<row>>) \o R(<<"acc3", l>>, <<row>>))
    \o W(<<"inter_scale1", l>>, <<1>>) \o W(<<"inter_scale3", l>>, <<1>>)
    \o Loop(InterVecs, LAMBDA v : W(<<"inter1", l>>, <<v>>) \o W(<<"inter3", l>>, <<v>>))

PartialSeedHalf(m) == Writes(<<"partial" \o m, 1>>, YHalfVecs)
YWriterHalf(m) == Reads(<<"partial" \o m, Lanes + 1>>, YHalfVecs)

--------------------------------------------------------------------------------
(* The network. *)

Task == ({"dequant_split", "x_split", "proj1", "proj3", "swiglu"} \X Lane)
        \cup ({"loader"} \X Lane \X {"1", "3"} \X Third)
        \cup ({"x_reader", "w_reader_a", "w_reader_b", "bias_reader", "dequant_sink", "gate",
               "dispatch", "seed1", "seed3", "y_writer1", "y_writer3"} \X {0})

DecodeScript == [k \in Task |->
    LET l == k[2] IN
    CASE k[1] = "x_reader"      -> XGateReader
      [] k[1] = "w_reader_a"    -> WGateReader("a")
      [] k[1] = "w_reader_b"    -> WGateReader("b")
      [] k[1] = "bias_reader"   -> BiasDequantReader
      [] k[1] = "dequant_sink"  -> DequantSink
      [] k[1] = "gate"          -> GateCompute
      [] k[1] = "dispatch"      -> DispatchCompute
      [] k[1] = "loader"        -> WeightLoader(k[3], k[4], l)
      [] k[1] = "dequant_split" -> DequantSplit(l)
      [] k[1] = "x_split"       -> FfnXSplit(l)
      [] k[1] = "proj1"         -> FfnW1W2Proj(l)
      [] k[1] = "proj3"         -> FfnW3W2Proj(l)
      [] k[1] = "swiglu"        -> FfnSwiglu(l)
      [] k[1] = "seed1"         -> PartialSeedHalf("1")
      [] k[1] = "seed3"         -> PartialSeedHalf("3")
      [] k[1] = "y_writer1"     -> YWriterHalf("1")
      [] k[1] = "y_writer3"     -> YWriterHalf("3")]

Ports == {s \o m \o third : s \in {"W", "trigger"}, m \in {"1", "3"}, third \in Third}
Streams1 == {s \o m : s \in {"dq", "dq2_", "x", "xs", "w_route", "acc", "inter", "inter_scale"},
                      m \in {"1", "3"}}

(* Every stream is two deep, by TAPA's default or by declaration. *)
DecodeDepth == [c \in ({"x_gate", "w_gatea", "w_gateb", "bias", "route", "x_disp"} \X {0})
                      \cup ({"dequant", "partial1", "partial3"} \X (1 .. Lanes + 1))
                      \cup ((Ports \cup Streams1 \cup {"disp_hdr", "disp_x"}) \X Lane) |-> 2]
================================================================================
