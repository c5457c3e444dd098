-------------------------------- MODULE MoeSlot --------------------------------
(***************************************************************************)
(* One compute slot of kernels/moe/moe_batch_16b.cpp: ffn_x_split fans a   *)
(* round's header and x out to the W1 and the W3 projection and to         *)
(* ffn_swiglu, and triggers the weight loaders; the projections run their  *)
(* first stage, meet in ffn_swiglu, run the second stage on its output and *)
(* write the partial vectors of the two halves.  All of it repeats per     *)
(* round until the header with last_round.                                 *)
(*                                                                         *)
(* The three loaders of a projection (row thirds a, b, c) and their FIFOs  *)
(* are read in lockstep and modelled as one.                               *)
(***************************************************************************)
EXTENDS Streams

CONSTANTS Lanes,       \* TOKEN_LANES
          HiddenVecs,  \* HIDDEN_VECS, beats of x per lane and of a W1 row
          W1Rows,      \* W1_THIRD_ROWS
          W2Rows,      \* W2_SIXTH_ROWS
          InterVecs,   \* INTER_VECS, beats of a W2 row
          HalfVecs,    \* HIDDEN_VECS_FP / 2, packets per lane and half
          ParamsEach,  \* dequantisation parameters per matrix: scale and shift
          Depth4,      \* bound: depth of the FIFOs the code makes 4 deep
          Depth8       \* bound: depth of the FIFOs the code makes 8 deep

SlotAssumption ==
    {Lanes, HiddenVecs, W1Rows, W2Rows, InterVecs, HalfVecs,
     ParamsEach, Depth4, Depth8}
        \subseteq Nat \ {0}

HalfBeats == 2 * InterVecs   \* INTER_HALF_VECS

--------------------------------------------------------------------------------
(* The tasks.  Round r is the last one when r = n.                         *)

(* dispatch_core and the accumulators, as this slot sees them. *)
Source(n) == Loop(n, LAMBDA r :
    W("hdr", <<r>>) \o Loop(Lanes * HiddenVecs, LAMBDA i : W("x", <<r, i>>)))

Sink(part, n) == Loop(n, LAMBDA r :
    IF r = n THEN R(part, <<r, 0>>)
    ELSE Loop(Lanes * HalfVecs, LAMBDA i : R(part, <<r, i>>)))

(* The parameters of W1, W3 and W2 in turn, ParamsEach of each matrix. *)
Params(m) == (m - 1) * ParamsEach + 1 .. m * ParamsEach

DequantReader == Loop(3 * ParamsEach, LAMBDA i : W("dequant", <<i>>))

(* Keeps the parameters of its slot and hands them down the chain. *)
DequantSplit == Loop(3 * ParamsEach, LAMBDA i :
    R("dequant", <<i>>) \o W("dequant_fwd", <<i>>) \o
    (CASE i \in Params(1) -> W("w1_dq", <<i>>)
       [] i \in Params(2) -> W("w3_dq", <<i>>)
       [] i \in Params(3) -> W("w2_dq_a", <<i>>) \o W("w2_dq_b", <<i>>)))

DequantSink == Loop(3 * ParamsEach, LAMBDA i : R("dequant_fwd", <<i>>))

XSplit(n) == Loop(n, LAMBDA r :
    R("hdr", <<r>>) \o W("hdr1", <<r>>) \o W("hdr3", <<r>>) \o W("hdrS", <<r>>)
    \o W("trig1", <<r>>) \o W("trig3", <<r>>)
    \o Loop(Lanes * HiddenVecs, LAMBDA i :
           R("x", <<r, i>>) \o W("x1", <<r, i>>) \o W("x3", <<r, i>>)))

(* A load streams one expert: its W1 rows, then its share of the W2 rows.  *)
PortVecs == W1Rows * HiddenVecs + W2Rows * InterVecs

Loader(trig, w, n) == Loop(n, LAMBDA r :
    R(trig, <<r>>) \o
    IF r = n THEN <<>> ELSE Loop(PortVecs, LAMBDA i : W(w, <<r, i>>)))

(* Stage 0 interleaves a row's weights with its Lanes results; stage 1     *)
(* first takes all scales, then all of inter.                              *)
Stage0(r, w, acc) == Loop(W1Rows, LAMBDA row :
    Loop(HiddenVecs, LAMBDA v : R(w, <<r, (row - 1) * HiddenVecs + v>>))
    \o Loop(Lanes, LAMBDA l : W(acc, <<r, row, l>>)))

Stage1(r, w, scale, inter) ==
    Loop(Lanes, LAMBDA l : R(scale, <<r, l>>))
    \o Loop(Lanes * HalfBeats, LAMBDA i : R(inter, <<r, i>>))
    \o Loop(W2Rows * InterVecs, LAMBDA i : R(w, <<r, W1Rows * HiddenVecs + i>>))

Proj(dq, dq2, m, hdr, x, w, acc, scale, inter, part, n) ==
    Loop(ParamsEach, LAMBDA i : R(dq, <<(m - 1) * ParamsEach + i>>))
    \o Loop(ParamsEach, LAMBDA i : R(dq2, <<2 * ParamsEach + i>>))
    \o Loop(n, LAMBDA r :
        R(hdr, <<r>>) \o Loop(Lanes * HiddenVecs, LAMBDA i : R(x, <<r, i>>))
        \o IF r = n THEN W(part, <<r, 0>>)
           ELSE Stage0(r, w, acc) \o Stage1(r, w, scale, inter)
                \o Loop(Lanes * HalfVecs, LAMBDA i : W(part, <<r, i>>)))

W1W2Proj(n) == Proj("w1_dq", "w2_dq_a", 1, "hdr1", "x1", "w1", "acc1",
                    "scale_a", "inter_a", "partial_a", n)
W3W2Proj(n) == Proj("w3_dq", "w2_dq_b", 2, "hdr3", "x3", "w3", "acc3",
                    "scale_b", "inter_b", "partial_b", n)

(* Scales before vectors, as the projections read them. *)
Swiglu(n) == Loop(n, LAMBDA r :
    R("hdrS", <<r>>) \o
    IF r = n THEN <<>>
    ELSE Loop(W1Rows, LAMBDA row : Loop(Lanes, LAMBDA l :
             R("acc1", <<r, row, l>>) \o R("acc3", <<r, row, l>>)))
         \o Loop(Lanes, LAMBDA l : W("scale_a", <<r, l>>) \o W("scale_b", <<r, l>>))
         \o Loop(Lanes * HalfBeats, LAMBDA i :
                W("inter_a", <<r, i>>) \o W("inter_b", <<r, i>>)))

--------------------------------------------------------------------------------
(* The network. *)

(* A run has n rounds, the last_round one included. *)
SlotScript(n) ==
    [source |-> Source(n), dequant |-> DequantReader, dqsplit |-> DequantSplit,
     dqsink |-> DequantSink,
     xsplit |-> XSplit(n),
     load1 |-> Loader("trig1", "w1", n), load3 |-> Loader("trig3", "w3", n),
     proj1 |-> W1W2Proj(n), proj3 |-> W3W2Proj(n), swiglu |-> Swiglu(n),
     accA |-> Sink("partial_a", n), accB |-> Sink("partial_b", n)]

(* Depths: 2 where the code gives none or 2. *)
Chan2 == {"dequant", "dequant_fwd", "w1_dq", "w3_dq", "w2_dq_a", "w2_dq_b",
          "trig1", "trig3", "w1", "w3", "acc1", "acc3"}
Chan4 == {"hdr", "x", "hdr1", "hdr3", "hdrS", "x1", "x3", "partial_a", "partial_b"}
Chan8 == {"scale_a", "scale_b", "inter_a", "inter_b"}
SlotDepth == [c \in Chan2 \cup Chan4 \cup Chan8 |->
                 IF c \in Chan4 THEN Depth4 ELSE IF c \in Chan8 THEN Depth8 ELSE 2]
================================================================================
