----------------------------- MODULE KernelNetworks ----------------------------
(***************************************************************************)
(* The kernels as networks of tasks (Dataflow), each on inputs small       *)
(* enough to run to the end.                                               *)
(***************************************************************************)
EXTENDS Naturals, Sequences

CONSTANTS Run,      \* the kernels to run, by their names in Kernels
          AllOrders \* those of them to run in every interleaving, not in one

VARIABLES run, pos, fifo

Network(script, depth) == [script |-> script, depth |-> depth]

--------------------------------------------------------------------------------
(* kernels/moe *)

Batch == INSTANCE MoeBatchNetwork WITH
    Ports <- <<"a", "b", "c">>, Slots <- 2, Lanes <- 2, Experts <- 2, HalfExperts <- 1,
    HiddenVecs <- 2, W1Rows <- 2, W2Rows <- 2, InterVecs <- 1, HalfVecs <- 3, ParamsEach <- 2
Batch2ch == INSTANCE MoeBatchNetwork WITH
    Ports <- <<"a", "b">>, Slots <- 2, Lanes <- 2, Experts <- 4, HalfExperts <- 2,
    HiddenVecs <- 1, W1Rows <- 3, W2Rows <- 2, InterVecs <- 1, HalfVecs <- 2, ParamsEach <- 2
Tiles == <<[tokens |-> 2, rounds |-> 2], [tokens |-> 1, rounds |-> 1]>>

Slot == INSTANCE MoeSlot WITH
    Lanes <- 4, HiddenVecs <- 3, W1Rows <- 3, W2Rows <- 3, InterVecs <- 2, HalfVecs <- 3,
    ParamsEach <- 2, Depth4 <- 4, Depth8 <- 8
SlotOfOne == INSTANCE MoeSlot WITH
    Lanes <- 1, HiddenVecs <- 1, W1Rows <- 1, W2Rows <- 1, InterVecs <- 1, HalfVecs <- 1,
    ParamsEach <- 1, Depth4 <- 1, Depth8 <- 1
Moe == INSTANCE MoeKernel WITH
    Lanes <- 2, Experts <- 2, HiddenVecs <- 2, HalfInter <- 2, InterVecs <- 1,
    HalfHidden <- 2, YVecs <- 2, ParamsEach <- 2
DecSpec == INSTANCE MoeDecode WITH
    Lanes <- 2, Experts <- 4, HalfExperts <- 2, HiddenVecs <- 2, HiddenVecsW <- 2, W1Rows <- 2,
    W2Rows <- 2, InterVecs <- 2, InterVecsW <- 2, YHalfVecs <- 2, ParamsEach <- 2
Int8Decode == INSTANCE MoeDecode WITH
    Lanes <- 2, Experts <- 4, HalfExperts <- 2, HiddenVecs <- 4, HiddenVecsW <- 2, W1Rows <- 2,
    W2Rows <- 2, InterVecs <- 4, InterVecsW <- 2, YHalfVecs <- 3, ParamsEach <- 2

--------------------------------------------------------------------------------
(* The retrieval kernels. *)

LServe == INSTANCE LServeIndexer WITH
    Channels <- 2, KeyVecs <- 2, Lane <- 2, Packs <- 2, Share <- 2, KPacks <- 3
Long == INSTANCE LServeLong WITH
    Channels <- 3, Active <- 2, KeyVecs <- 1, Lane <- 2, Packs <- 8, Share <- 2,
    KPacks <- 4, BramKeys <- 16, UramKeys <- 8
Threshold == INSTANCE SeerThreshold WITH
    Channels <- 2, KeyVecs <- 2, Lane <- 2, Packs <- 2, Share <- 2, KPacks <- 3
ThresholdTest == INSTANCE SeerThreshold WITH
    Channels <- 2, KeyVecs <- 1, Lane <- 16, Packs <- 8, Share <- 8, KPacks <- 4
Budget == INSTANCE SeerTokenBudget WITH
    Channels <- 3, KeyVecs <- 2, Lane <- 2, Packs <- 2, Share <- 2, KPacks <- 3
Vanilla == INSTANCE DsaVanilla WITH Elements <- 3, Lane <- 2, KPacks <- 2, ScoreDepth <- 4
Lut == INSTANCE DsaLut WITH
    Elements <- 3, Lane <- 2, QueryVecs <- 3, TableVecs <- 3, DimVecs <- 2, KPacks <- 2,
    ScoreDepth <- 4
Bm25 == INSTANCE Bm25Indexer WITH Channels <- 4, DfVecs <- 3, QueryVecs <- 2, KPacks <- 4
Engram == INSTANCE EngramKernel WITH
    Channels <- 3, EmbedVecs <- 2, WeightVecs <- 4, RowBlocks <- 3

--------------------------------------------------------------------------------
Kernels ==
    [moe_batch      |-> Network(Batch!BatchScript(Tiles), Batch!BatchDepth),
     moe_batch_2ch  |-> Network(Batch2ch!BatchScript(Tiles), Batch2ch!BatchDepth),
     moe_batch_idle |-> Network(Batch!BatchScript(<<>>), Batch!BatchDepth),
     moe_slot       |-> Network(Slot!SlotScript(3), Slot!SlotDepth),
     slot_of_one    |-> Network(SlotOfOne!SlotScript(2), SlotOfOne!SlotDepth),
     moe_kernel     |-> Network(Moe!Script(3), Moe!Depth),
     dec_spec       |-> Network(DecSpec!DecodeScript, DecSpec!DecodeDepth),
     int8_decode    |-> Network(Int8Decode!DecodeScript, Int8Decode!DecodeDepth),
     lserve         |-> Network(LServe!Script(6, 5), LServe!Depth),
     long_bram      |-> Network(Long!Script(16, 3), Long!Depth),
     long_uram      |-> Network(Long!Script(20, 3), Long!Depth),
     long_offchip   |-> Network(Long!Script(26, 2), Long!Depth),
     long_full      |-> Network(Long!Script(24, 2), Long!Depth),
     threshold      |-> Network(Threshold!Script(8, 5), Threshold!Depth),
     threshold_test |-> Network(ThresholdTest!Script(32, 8), ThresholdTest!Depth),
     budget         |-> Network(Budget!Script(6, 5), Budget!Depth),
     dsa_vanilla    |-> Network(Vanilla!Script(12), Vanilla!Depth),
     dsa_lut        |-> Network(Lut!Script(12), Lut!Depth),
     bm25           |-> Network(Bm25!Bm25Script(<<9, 1>>), Bm25!Bm25Depth),
     engram         |-> Network(Engram!Script(4), Engram!Depth)]

Script == [r \in Run |-> Kernels[r].script]
Depth == [r \in Run |-> Kernels[r].depth]

Net == INSTANCE Dataflow

ASSUME KernelAssumptions ==
    /\ Batch!BatchAssumption /\ Batch2ch!BatchAssumption
    /\ Slot!SlotAssumption /\ SlotOfOne!SlotAssumption
    /\ Moe!MoeKernelAssumption /\ DecSpec!MoeDecodeAssumption /\ Int8Decode!MoeDecodeAssumption
    /\ LServe!QueryStreamAssumption /\ Long!LServeLongAssumption
    /\ Threshold!QueryStreamAssumption /\ ThresholdTest!QueryStreamAssumption
    /\ Budget!QueryStreamAssumption /\ Vanilla!DsaVanillaAssumption /\ Lut!DsaLutAssumption
    /\ Bm25!Bm25Assumption /\ Engram!EngramAssumption
(* TLC evaluates the scripts once, here. *)
ASSUME KernelScripts == \A r \in Run :
    Script[r] \in [DOMAIN Script[r] ->
                      Seq([dir : {"r", "w"}, ch : DOMAIN Depth[r], msg : Seq(Nat)])]
ASSUME KernelsAreNetworks == AllOrders \subseteq Run /\ Net!WellFormed

--------------------------------------------------------------------------------
Next == IF run \in AllOrders THEN Net!Next ELSE Net!Next1

Spec == Net!Init /\ [][Next]_Net!vars /\ WF_Net!vars(Next)

(* Headers, x, keys, weights, triggers, scales and scores travel in        *)
(* separate streams that no field ties together: each task relies on every *)
(* other task's loop bounds to take the datum its own loop is at.          *)
Aligned == Net!Aligned

(* A kernel that has returned leaves nothing in a stream for the next      *)
(* invocation to take for its own.                                         *)
Drained == Net!Drained

(* Every task of the kernel returns: no fork and join of its streams, at   *)
(* their depths, blocks for good, and no task waits for a datum more than  *)
(* the others send.                                                        *)
Returns == Net!Terminates
================================================================================
