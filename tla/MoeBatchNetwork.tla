---------------------------- MODULE MoeBatchNetwork ----------------------------
(***************************************************************************)
(* kernels/moe/moe_batch_16b.cpp and moe_batch_16b_2ch.cpp, all of their   *)
(* tasks: the routed experts for N tokens, in tiles of at most N_TILE_MAX  *)
(* tokens and, within a tile, in rounds of one expert per slot.  The two   *)
(* differ in the weight ports of a slot's W1 and W3 projections: a, b and  *)
(* c with thirds of W1 or W3 and sixths of W2, or a and b with halves and  *)
(* quarters.                                                               *)
(*                                                                         *)
(* The parameter is the work: tiles[i].tokens, and tiles[i].rounds, which  *)
(* MoeDispatch derives from the routing.  Tokens and rounds are named by   *)
(* tile and place; the round after the last tile is the last_round one.    *)
(***************************************************************************)
EXTENDS Streams

CONSTANTS Ports,        \* <<"a", "b", "c">> or <<"a", "b">>
          Slots,        \* N_PARALLEL_SLOTS
          Lanes,        \* TOKEN_LANES
          Experts,      \* N_EXPERTS_TOTAL
          HalfExperts,  \* N_EXPERTS_TOTAL / 2
          HiddenVecs,   \* HIDDEN_VECS
          W1Rows,       \* W1_THIRD_ROWS, W1_AB_HALF_ROWS
          W2Rows,       \* W2_SIXTH_ROWS, W2_AB_QUARTER_ROWS
          InterVecs,    \* INTER_VECS
          HalfVecs,     \* HIDDEN_VECS_FP / 2
          ParamsEach    \* dequantisation parameters per matrix: scale and shift

BatchAssumption ==
    /\ Ports \in {<<"a", "b", "c">>, <<"a", "b">>}
    /\ {Slots, Lanes, Experts, HalfExperts, HiddenVecs, W1Rows, W2Rows, InterVecs, HalfVecs,
        ParamsEach} \subseteq Nat \ {0}

Slot == 1 .. Slots
Port == {Ports[i] : i \in DOMAIN Ports}
EachPort(Body(_)) == Loop(Len(Ports), LAMBDA i : Body(Ports[i]))

EachToken(tiles, Body(_)) ==
    Loop(Len(tiles), LAMBDA i : Loop(tiles[i].tokens, LAMBDA t : Body(<<i, t>>)))
EachRound(tiles, Body(_)) ==
    Loop(Len(tiles), LAMBDA i : Loop(tiles[i].rounds, LAMBDA r : Body(<<i, r>>)))

LastRound(tiles) == <<Len(tiles) + 1, 1>>

(* n data in a row that belong to datum d. *)
Reads(c, d, n) == Loop(n, LAMBDA i : R(c, d \o <<i>>))
Writes(c, d, n) == Loop(n, LAMBDA i : W(c, d \o <<i>>))

--------------------------------------------------------------------------------
(* Before the slots. *)

XGateReader(tiles) == EachToken(tiles, LAMBDA t : Writes(<<"x_gate", 0>>, t, HiddenVecs))

(* W_gate again for every token. *)
WGateReader(half, tiles) ==
    EachToken(tiles, LAMBDA t : Writes(<<"w_gate" \o half, 0>>, t, HalfExperts * HiddenVecs))

BiasDequantReader ==
    Writes(<<"bias", 0>>, <<>>, Experts) \o Writes(<<"dequant", 1>>, <<>>, 3 * ParamsEach)
DequantSink == Reads(<<"dequant", Slots + 1>>, <<>>, 3 * ParamsEach)

(* x goes on before the scores are known, the route after them. *)
GateCompute(tiles) ==
    Reads(<<"bias", 0>>, <<>>, Experts)
    \o EachToken(tiles, LAMBDA t :
           Loop(HiddenVecs, LAMBDA v :
               R(<<"x_gate", 0>>, t \o <<v>>) \o W(<<"x_to_sched", 0>>, t \o <<v>>))
           \o Loop(HalfExperts * HiddenVecs, LAMBDA i :
                  R(<<"w_gatea", 0>>, t \o <<i>>) \o R(<<"w_gateb", 0>>, t \o <<i>>))
           \o W(<<"route", 0>>, t))

(* A round: the headers of all slots, then x, a beat to every slot at a time. *)
SendRound(r) ==
    Loop(Slots, LAMBDA s : W(<<"hdr", s>>, r))
    \o Loop(Lanes * HiddenVecs, LAMBDA i : Loop(Slots, LAMBDA s : W(<<"x", s>>, r \o <<i>>)))

TakeToken(t) == Reads(<<"x_to_sched", 0>>, t, HiddenVecs) \o R(<<"route", 0>>, t)

(* The whole of a tile is read before its first round is chosen. *)
DispatchCore(tiles) ==
    Loop(Len(tiles), LAMBDA i :
        Loop(tiles[i].tokens, LAMBDA t : TakeToken(<<i, t>>))
        \o Loop(tiles[i].rounds, LAMBDA r : SendRound(<<i, r>>)))
    \o SendRound(LastRound(tiles))

--------------------------------------------------------------------------------
(* A slot.  Its two projections are numbered 1 and 3, after the matrix of  *)
(* their first stage; half a of the result is with 1, half b with 3.       *)

(* W1_W2C_PORT_VECS and the like. *)
PortVecs == W1Rows * HiddenVecs + W2Rows * InterVecs

(* The last_round header carries a trigger below 0, which ends the loader. *)
WeightLoader(m, port, s, tiles) ==
    EachRound(tiles, LAMBDA r :
        R(<<"trigger" \o m \o port, s>>, r) \o Writes(<<"W" \o m \o port, s>>, r, PortVecs))
    \o R(<<"trigger" \o m \o port, s>>, LastRound(tiles))

DequantSplit(s) == Loop(3 * ParamsEach, LAMBDA i :
    R(<<"dequant", s>>, <<i>>) \o W(<<"dequant", s + 1>>, <<i>>)
    \o (CASE i <= ParamsEach    -> W(<<"dq1", s>>, <<i>>)
          [] i > 2 * ParamsEach -> W(<<"dq2_1", s>>, <<i>>) \o W(<<"dq2_3", s>>, <<i>>)
          [] OTHER              -> W(<<"dq3", s>>, <<i>>)))

SplitRound(s, r) ==
    R(<<"hdr", s>>, r)
    \o W(<<"hdr1", s>>, r) \o W(<<"hdr3", s>>, r) \o W(<<"hdr_swiglu", s>>, r)
    \o EachPort(LAMBDA port : W(<<"trigger1" \o port, s>>, r))
    \o EachPort(LAMBDA port : W(<<"trigger3" \o port, s>>, r))
    \o Loop(Lanes * HiddenVecs, LAMBDA i :
           R(<<"x", s>>, r \o <<i>>) \o W(<<"x1", s>>, r \o <<i>>) \o W(<<"x3", s>>, r \o <<i>>))

FfnXSplit(s, tiles) ==
    EachRound(tiles, LAMBDA r : SplitRound(s, r)) \o SplitRound(s, LastRound(tiles))

(* Beats from .. from + n - 1 of the ports of a round, in lockstep. *)
Weights(m, s, r, from, n) == Loop(n, LAMBDA i :
    EachPort(LAMBDA port : R(<<"W" \o m \o port, s>>, r \o <<from + i - 1>>)))

Stage0(m, s, r) == Loop(W1Rows, LAMBDA row :
    Weights(m, s, r, (row - 1) * HiddenVecs + 1, HiddenVecs)
    \o Writes(<<"acc" \o m, s>>, r \o <<row>>, Lanes))

Stage1(m, s, r) ==
    Reads(<<"inter_scale" \o m, s>>, r, Lanes)
    \o Reads(<<"inter" \o m, s>>, r, Lanes * 2 * InterVecs)
    \o Weights(m, s, r, W1Rows * HiddenVecs + 1, W2Rows * InterVecs)

Proj(m, first, s, tiles) ==
    LET TakeX(r) == R(<<"hdr" \o m, s>>, r) \o Reads(<<"x" \o m, s>>, r, Lanes * HiddenVecs)
    IN  Loop(ParamsEach, LAMBDA i : R(<<"dq" \o m, s>>, <<first + i>>))
        \o Loop(ParamsEach, LAMBDA i : R(<<"dq2_" \o m, s>>, <<2 * ParamsEach + i>>))
        \o EachRound(tiles, LAMBDA r :
               TakeX(r) \o Stage0(m, s, r) \o Stage1(m, s, r)
               \o Writes(<<"partial" \o m, s>>, r, Lanes * HalfVecs))
        \o TakeX(LastRound(tiles)) \o W(<<"partial" \o m, s>>, LastRound(tiles))

FfnW1W2Proj(s, tiles) == Proj("1", 0, s, tiles)
FfnW3W2Proj(s, tiles) == Proj("3", ParamsEach, s, tiles)

(* Scales before vectors, as the projections read them. *)
FfnSwiglu(s, tiles) ==
    EachRound(tiles, LAMBDA r :
        R(<<"hdr_swiglu", s>>, r)
        \o Loop(W1Rows, LAMBDA row : Loop(Lanes, LAMBDA l :
               R(<<"acc1", s>>, r \o <<row, l>>) \o R(<<"acc3", s>>, r \o <<row, l>>)))
        \o Loop(Lanes, LAMBDA l :
               W(<<"inter_scale1", s>>, r \o <<l>>) \o W(<<"inter_scale3", s>>, r \o <<l>>))
        \o Loop(Lanes * 2 * InterVecs, LAMBDA i :
               W(<<"inter1", s>>, r \o <<i>>) \o W(<<"inter3", s>>, r \o <<i>>)))
    \o R(<<"hdr_swiglu", s>>, LastRound(tiles))

--------------------------------------------------------------------------------
(* After the slots: a half of the result.                                  *)

(* tile_done, on the packets of a tile's last round, ends its rounds. *)
YAccumulatorHalf(m, tiles) ==
    Loop(Len(tiles), LAMBDA i :
        Loop(tiles[i].rounds, LAMBDA r : Loop(Slots, LAMBDA s :
            Reads(<<"partial" \o m, s>>, <<i, r>>, Lanes * HalfVecs)))
        \o Loop(tiles[i].tokens, LAMBDA t : Writes(<<"y" \o m, 0>>, <<i, t>>, HalfVecs)))
    \o Loop(Slots, LAMBDA s : R(<<"partial" \o m, s>>, LastRound(tiles)))

YWriterHalf(m, tiles) == EachToken(tiles, LAMBDA t : Reads(<<"y" \o m, 0>>, t, HalfVecs))

--------------------------------------------------------------------------------
(* The network. *)

Task == ({"dequant_split", "x_split", "proj1", "proj3", "swiglu"} \X Slot)
        \cup ({"loader"} \X Slot \X {"1", "3"} \X Port)
        \cup ({"x_reader", "w_reader_a", "w_reader_b", "bias_reader", "dequant_sink", "gate",
               "dispatch", "acc1", "acc3", "y_writer1", "y_writer3"} \X {0})

BatchScript(tiles) == [k \in Task |->
    LET s == k[2] IN
    CASE k[1] = "x_reader"      -> XGateReader(tiles)
      [] k[1] = "w_reader_a"    -> WGateReader("a", tiles)
      [] k[1] = "w_reader_b"    -> WGateReader("b", tiles)
      [] k[1] = "bias_reader"   -> BiasDequantReader
      [] k[1] = "dequant_sink"  -> DequantSink
      [] k[1] = "gate"          -> GateCompute(tiles)
      [] k[1] = "dispatch"      -> DispatchCore(tiles)
      [] k[1] = "loader"        -> WeightLoader(k[3], k[4], s, tiles)
      [] k[1] = "dequant_split" -> DequantSplit(s)
      [] k[1] = "x_split"       -> FfnXSplit(s, tiles)
      [] k[1] = "proj1"         -> FfnW1W2Proj(s, tiles)
      [] k[1] = "proj3"         -> FfnW3W2Proj(s, tiles)
      [] k[1] = "swiglu"        -> FfnSwiglu(s, tiles)
      [] k[1] = "acc1"          -> YAccumulatorHalf("1", tiles)
      [] k[1] = "acc3"          -> YAccumulatorHalf("3", tiles)
      [] k[1] = "y_writer1"     -> YWriterHalf("1", tiles)
      [] k[1] = "y_writer3"     -> YWriterHalf("3", tiles)]

Both(streams) == {c \o m : c \in streams, m \in {"1", "3"}}

Depth2 == ({"w_gatea", "w_gateb", "bias"} \X {0})
          \cup ({"dequant"} \X (1 .. Slots + 1))
          \cup ((Both({"dq", "dq2_", "acc"})
                 \cup {c \o port : c \in Both({"W", "trigger"}), port \in Port}) \X Slot)
Depth4 == ({"hdr", "x", "hdr_swiglu"} \cup Both({"hdr", "x", "partial"})) \X Slot
Depth8 == ({"x_gate", "x_to_sched", "route", "y1", "y3"} \X {0})
          \cup (Both({"inter", "inter_scale"}) \X Slot)

BatchDepth == [c \in Depth2 \cup Depth4 \cup Depth8 |->
                  IF c \in Depth4 THEN 4 ELSE IF c \in Depth8 THEN 8 ELSE 2]
================================================================================
