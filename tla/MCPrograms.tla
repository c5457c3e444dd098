------------------------------- MODULE MCPrograms ------------------------------
(***************************************************************************)
(* The parts of the repository that run alone, on inputs for TLC: the      *)
(* functions of the kernels that select best scores (topk_parallel_cmp,    *)
(* topk_minheap, gate_compute), the buffers shared with the GPU, the       *)
(* search for the best devices, the memories and the steps of the          *)
(* frontend, its BM25 retrieval, and the RAG pipeline.  A behaviour is of  *)
(* one of them; the variables of the others stay as they start.            *)
(***************************************************************************)
EXTENDS TopKSelect, MinHeapSelect, MoeGate, P2PBuffer, Assignment, IndexMemory,
        FrontendSteps, Bm25Host, RagGeneration, RagRetriever, TLC

CONSTANT Parts   \* the parts to run

VARIABLE part

gate_vars == <<scores, local_expert_base, top, r, pkt>>

--------------------------------------------------------------------------------
(* Scores of one card's experts, four to a round: the first are held, and  *)
(* replaced by better ones of two rounds, with equal ones among them.  The *)
(* other card's, in the reverse order, go through the other half's code.   *)
CardScores ==
    {[e \in 0 .. 11 |-> q[e \div 4 + 1][e % 4]] :
        q \in [0 .. 3 -> {-1, 1}] \X [0 .. 3 -> {0, 1}] \X [0 .. 3 -> {0, 2}]}
MirrorScores == {[e \in 0 .. 23 |-> IF e < 12 THEN f[e] ELSE f[23 - e]] : f \in CardScores}

(* The kernels and the PCIe model of the repository, the profile it        *)
(* measured, one with slower FPGA kernels and one with a faster builder.   *)
PerKernel(build, product, topk, attention) ==
    "paged_kv_index_builder" :> build @@ "inner_product" :> product @@
    "topk_retrieval" :> topk @@ "block_sparse_attention" :> attention

Sizes == PerKernel([retrieved_data |-> 786432, memory |-> 16384],
                   [memory |-> 16384, query |-> 2, score |-> 128],
                   [score |-> 128, retrieved_index |-> 1],
                   [retrieved_data |-> 12288, retrieved_index |-> 1, target_data |-> 12])
Profile(gpu, fpga) == [gpu |-> gpu, fpga |-> fpga, size |-> Sizes]
Measured == Profile(PerKernel(2500, 825, 362, 76), PerKernel(11086, 109, 101, 281))
SlowFpga == Profile(PerKernel(2500, 825, 362, 76), PerKernel(11086, 900, 101, 281))
FastBuilder == Profile(PerKernel(2500, 825, 362, 7600), PerKernel(1108, 109, 101, 281))

PipelineKernels == <<"paged_kv_index_builder", "inner_product", "topk_retrieval",
                     "block_sparse_attention">>
PipelineInputs == PerKernel(<<"retrieved_data">>, <<"memory", "query">>, <<"score">>,
                            <<"retrieved_data", "retrieved_index", "target_data">>)
PipelineOutputs ==
    PerKernel(<<"memory">>, <<"score">>, <<"retrieved_index">>, <<"target_data">>)
\* pcie_config/p2p_host_jump.json
HostJump ==
    [gpu_to_fpga |-> <<<<512, 15000, 154129>>, <<-1, 0, 4194304>>>>,
     fpga_to_gpu |-> <<<<512, 10554, 276495>>, <<262144, 9, 4335963>>, <<-1, 0, 6385828>>>>]
PipelineProfiles == {Measured, SlowFpga, FastBuilder}

(* Corpora and queries for two lanes and two channels.                     *)
T(token, count) == [token |-> token, count |-> count]

(* Three documents, one place of padding; terms of the wrong lane, a count *)
(* above MaxFreq.                                                          *)
Small == <<<<T(0, 1), T(2, 1)>>, <<T(1, 3)>>, <<T(1, 1), T(2, 2)>>>>

(* Two super-batches with different numbers of rows, an empty document, a  *)
(* token beyond the vocabulary, more matches over two queries than TOP_K.  *)
Large == <<<<T(0, 1), T(2, 1), T(4, 2)>>, <<T(1, 1)>>, <<>>, <<T(3, 1), T(9, 1)>>, <<T(2, 3), T(4, 1)>>,
           <<T(1, 1), T(3, 1)>>>>

(* A term in more than half of the documents. *)
Common == <<<<T(0, 2)>>, <<T(0, 1), T(1, 1)>>, <<T(0, 1)>>, <<T(0, 2), T(1, 1)>>, <<T(0, 1)>>, <<T(1, 1)>>>>

MixedCorpora == {Small, Large, Common}
MixedQueries == {{0, 2}, {1, 3, 9}, {0, 1, 4}}

(* Steps under test, of a small cache that stays the same. *)
Tested == INSTANCE FrontendSteps WITH
    MaxTokens <- 3, MaxCaches <- 0, Tests <- {"build", "score", "topk", "bitmap", "apply"}

ASSUME PartAssumptions ==
    /\ HeapAssumption /\ GateAssumption
    /\ AssignmentAssumption /\ IndexAssumption
    /\ StepsAssumption /\ Tested!StepsAssumption
    /\ GenerationAssumption /\ RetrieverAssumption

--------------------------------------------------------------------------------
(* A part that does not run has one input. *)
AnyQuery ==
    /\ packs = CHOOSE n \in Packs : TRUE
    /\ score = [p \in Positions(packs) |-> CHOOSE s \in Scores : TRUE]
AnyHeap == heap_score = [p \in HeapPositions |-> CHOOSE s \in HeapScores : TRUE]
AnyToken ==
    /\ scores = CHOOSE f \in MirrorScores : TRUE
    /\ local_expert_base = 0

PInit ==
    /\ part \in Parts
    /\ part = "gate_compute" \/ AnyToken
    /\ GateInit
    /\ part = "topk_parallel_cmp" \/ AnyQuery
    /\ part = "topk_minheap" \/ AnyHeap
    /\ part = "assignment" \/ profile = Measured
    /\ part = "memory" \/ (kind = "flat" /\ data = <<>>)
    /\ part \in {"steps", "tested steps"} \/ keys = <<>>
    /\ part = "retriever" \/ device = "cuda"
    /\ Init /\ HeapInit /\ P2PInit /\ AssignmentInit /\ MemoryInit /\ HostInit
    /\ IF part = "tested steps" THEN Tested!StepsInit ELSE StepsInit
    /\ GenerationInit /\ RetrieverInit

PNext ==
    /\ UNCHANGED part
    /\ IF part = "topk_parallel_cmp" THEN Next ELSE UNCHANGED vars
    /\ IF part = "topk_minheap" THEN HeapNext ELSE UNCHANGED heap_vars
    /\ IF part = "gate_compute" THEN GateNext ELSE UNCHANGED gate_vars
    /\ IF part = "p2p_buffer" THEN P2PNext ELSE UNCHANGED p2p_vars
    /\ IF part = "assignment" THEN AssignmentNext ELSE UNCHANGED assignment_vars
    /\ IF part = "memory" THEN MemoryNext ELSE UNCHANGED memory_vars
    /\ CASE part = "steps" -> StepsNext
         [] part = "tested steps" -> Tested!StepsNext
         [] OTHER -> UNCHANGED steps_vars
    /\ IF part = "bm25_host" THEN HostNext ELSE UNCHANGED host_vars
    /\ IF part = "generation" THEN GenerationNext ELSE UNCHANGED generation_vars
    /\ IF part = "retriever" THEN RetrieverNext ELSE UNCHANGED retriever_vars

PSpec ==
    PInit /\ [][PNext]_<<part, vars, heap_vars, gate_vars, p2p_vars, assignment_vars, memory_vars,
                         steps_vars, host_vars, generation_vars, retriever_vars>>

================================================================================
