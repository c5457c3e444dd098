# Verification of HeteroLLM

HeteroLLM runs parts of LLM inference on an FPGA card next to a GPU: mixture-of-experts
feed-forward layers, BM25 and attention indexers, and the host code that packs data,
launches kernels and moves results, up to a RAG pipeline whose retriever may be another
machine. This directory holds TLA+ models of its core, the TLC
configurations that check them and TLAPS proofs of their main properties. Paths below are
relative to `src/`.

## 1. The system

| Part | State it keeps | Operations | Interaction | Hard behaviour |
|---|---|---|---|---|
| MoE batch kernel, `kernels/moe/moe_batch_16b.{h,cpp}` | pending bank (a stack of tokens per expert), tile cache of x, per-slot round state, accumulators of a tile | gate, dispatch in rounds, projections, SwiGLU, accumulate, write back | 80-odd concurrent tasks joined by bounded FIFOs only | interleaving, FIFO deadlock, end-of-tile and end-of-kernel signalling, tails left in FIFOs |
| Other MoE kernels, `kernels/moe/*.cpp` | the same, for one token or two channels | the same tasks in other arrangements | FIFOs | deadlock, stream alignment |
| BM25 indexer, `kernels/bm25/indexer_bm25.h` | row counts, idf and score FIFOs, top-k registers | read query, weight terms, score, merge, top-k | FIFOs; frequencies, query and row counts through a chain of cores | loop bounds of tasks that must agree, padded documents |
| DSA, LServe, SeerAttention indexers, `kernels/{dsa_indexer,lserve,seerattention}` | running top-k or page scores | score and select | FIFOs | as above |
| Engram kernel, `kernels/deepseek_engram` | hash-table rows in flight | hash, gather, normalise, project | FIFOs | alignment of gathered rows |
| BM25 host, `toolchain/backend/lib` | the card's buffers, packed documents | pack, set up, launch, read top-k | XRT runs | layout that the kernel must undo, buffers that outlive a query, runs that do not complete |
| BM25 steps, `toolchain/frontend/{deploy/simple_rag.h,dev/steps}` | set-up tuple with its references, cached steps | build memory, retrieve, setters | the caller's index, the BM25 host through Python | builds that fail part-way, steps cached past a setter |
| P2P manager, `p2p_comm/python_api` | buffer kind, GPU registration, host shadow and device memory | allocate, write, sync, register, transfer, generate | XRT, HIP, Python caller | fallbacks and failures part-way, which copy is the newest |
| Frontend deploy layer, `toolchain/frontend/deploy` | cached step objects, schedule | build memory, retrieve, apply, setters | steps and memory types | does not compile at this commit |
| Frontend memory types, `toolchain/frontend/dev/types` | vectors of entries with a count beside them | insert, pop, delete, get | the steps' inputs and outputs | counts and data that must move together |
| Frontend steps, `toolchain/frontend/dev/steps` | none; the caller keeps memory, scores, index, output | execute: build, score, select pages, attend; functional tests | each step reads what the last one wrote | indices older than the cache, last pages, tests that compare by old counts |
| Device assignment, `toolchain/backend/modeling/optimal_assignment.py` | register of copies, best assignment so far | evaluate, compare, group | profile files | a copy forgotten or kept |
| Remote retrieval, `aws_ec2_ena` | connections, bytes read and sent, chunks of a payload | connect, launch, send; accept, receive, reconnect | TCP between the indexer host and the RAG pipeline | split reads, broken connections, dead processes and machines, no timeouts |
| RAG pipeline, `toolchain/rag_test`, `aws_ec2_ena` | prompt, text, sentence; index, vocabulary and texts in memory and on disk | generate sentence by sentence, initialize, save, set_device, retrieve | language model, files, the retriever | three strings reset at different conditions; a cache written in parts |
| Dispatch pass, `toolchain/frontend/dev/passes` | none across calls | text to Python | none | none |
| Roofline, profiling, benches | none worth a state machine | | | |

Correctness, component by component:

* dispatch: every (token, expert) routing goes to exactly one lane of one round, the tile is
  closed after its last one, the stacks are never overrun, and the rounds are as few as the
  header file says;
* slots and accumulators: an output row is the sum of exactly its own products, the kernel
  returns, and no FIFO keeps data for the next launch;
* P2P manager: a reader sees the data the last successful call promised it, on a true P2P
  buffer and on a fallback one;
* indexers: streams stay aligned, the kernel returns, the top-k is the top-k;
* gate: the packet names the card's best experts, and both cards scale by one sum;
* BM25 host and steps: the kernel scores what the host packed, a query is answered from the
  index the caller holds, and a set-up lives exactly as long as somebody holds it;
* memory types and steps: a memory is a list, attention takes the tokens of the best pages,
  a functional test tells the truth;
* remote retrieval: an answer is one run's whole payload, none twice or out of order, and a
  payload that is there is read;
* RAG pipeline: every token generated is in exactly one query, the model sees what it just
  wrote, the texts are those of the index; device assignment: the best one is the cheapest.

## 2. Modules

    RoutingDelivery   <== DispatchDelivers (proved) ==   MoeDispatch
    MoeDispatch       -- extended by -->                 MoeBatchKernel
    Dataflow          -- instantiated by -->             KernelNetworks, with the scripts of
        MoeSlot, MoeBatchNetwork, MoeKernel, MoeDecode,
        LServeIndexer, LServeLong, SeerThreshold, SeerTokenBudget (QueryStream),
        DsaVanilla, DsaLut, Bm25Indexer, EngramKernel (all: Streams)
    TopKSelect, MinHeapSelect, MoeGate, P2PBuffer, Assignment, IndexMemory, FrontendSteps,
        Bm25Host, RagGeneration, RagRetriever
                      -- extended by -->                 MCPrograms
    EntryList         <== MemoryLists (proved) =======   IndexMemory
    RemoteDelivery    <== RetrievalDelivers (proved) ==  RemoteRetrieval
    Bm25Packing       -- extended by -->                 Bm25Host

    Theorems, by the module that has them:
        MoeDispatchProofs     StacksFit, EveryRoutingOnce, DispatchInvariant,
                              DispatchDelivers, RoundsBounded
        MoeBatchKernelProofs  KernelDispatches, KernelOutputExact, KernelNothingLeft
        SelectionProofs       BestSelected (TopKSelect), GateRight (MoeGate),
                              HeapSelects (MinHeapSelect), CheapestFound (Assignment)
        DataflowProofs        TasksIndependent, Commutation, OneScheduleShows,
                              SoundInEveryOrder, ChoreographySound, SlotSound (MoeSlot),
                              Bm25Sound (Bm25Indexer)
        Bm25HostProofs        SetUpOwned, KernelScores, AnswersBest
        MemoryProofs          BufferSound, NeverOlder, WordTransfersWhole (P2PBuffer),
                              MemoryLists (IndexMemory), StepsSelect (FrontendSteps)
        RagProofs             AnswersWhole, RetrievalDelivers, SentencesKept, TextsWhole
        FoldTheorems          what they rest on: sums, FlattenSeq, loops, minima

**RoutingDelivery** is the abstract promise of a dispatcher: routings are accepted for a
tile, each is delivered at most once, and the tile is left when all are delivered.

**MoeDispatch** is `dispatch_core` (moe_batch_16b.cpp:298-519). `pc` names the loop the code
is in; `tile_base`, `pending_token`, `pending_count`, `x_cache` are its locals; `hdr` the
headers of the round; `hdr_out` and `x_out` the FIFOs to the slots with their capacities.
`Ingest` is an iteration of the ingest loop, `BuildRound` the argmax, the popping and
`tile_done`, `EmitHdr` and `StreamX` the emission, `EmitSentinel`/`StreamZero` the end.
The writes to all the slots' FIFOs are unrolled, so they go together. `routed`, `sent` and
`rounds` are history variables. The gate is its environment: any `LOCAL_K` distinct experts
of the card for each token. What an id beyond the arrays does (the second card) is undefined
in C++; the access is lost or wraps to the bank's width (`Rows`).

**MoeBatchKernel** adds the slots and `y_accumulator_half`. A slot reads a header and its x
beats and writes the packets of the round to both halves; an accumulator goes round-robin
through the slots, adds active packets, and flushes when a round said `tile_done`. A product
is the pair of the expert row whose weights were streamed and the token whose x was
multiplied, and a sum is the bag of its terms, so `OutputExact` sees any term that is lost,
doubled, misplaced or made of the wrong operands. `routes`, `log` (the rounds written to the
slots, with their tiles) and `around` (the rounds an accumulator has read) are history
variables; nothing the code does depends on them.

**MoeGate** is `gate_compute` from the scores on: `First` fills both halves, `Round` is an
iteration over four candidates with the `fast` check and the scan, `Emit` the packet. The
comparator tree is modelled with its tie-breaking. A weight is a fraction of `ROUTE_SCALE`
(numerator and denominator). That a packet names `LOCAL_K` different experts of the card is
what MoeDispatch takes for granted of its environment.

**Dataflow** is TAPA's execution model: concurrent tasks, each with its own fixed order of
blocking reads and writes of bounded FIFOs. A kernel is the script of each of its tasks, with
the loop bounds of the code, and the depth of each stream. A message is named by what its
writer means it to be and a read by what the reader takes it for; `Aligned` says the two
agree. **Streams** has what scripts are made of. Detached tasks loop for ever in the code;
in a script they have the iterations there is data for, so `Drained` and `Returns` speak of
them as well. **KernelNetworks** runs the kernels, one instance of Dataflow for all; the
scripts are functions of sizes that are constants of their modules:

* **MoeSlot**: the twelve tasks of one slot of the batch kernel.
* **MoeBatchNetwork**: all tasks of `moe_batch_16b.cpp` and of `moe_batch_16b_2ch.cpp`; the
  two differ in the ports of the weights (`Ports`), three or two to a slot. Its input is the
  rounds of each tile, which MoeDispatch derives from a routing.
* **MoeKernel**: `moe_kernel.cpp`, the lanes' chain of partial sums included.
* **MoeDecode**: `moe_kernel_dec_spec.cpp` and, with other sizes, `moe_int8_decode.cpp`.
* **QueryStream** with **LServeIndexer**, **LServeLong**, **SeerThreshold**,
  **SeerTokenBudget**: keys and queries of the attention indexers, streamed in rounds. In
  LServeLong a round covers fewer keys the further out in memory they lie.
* **DsaVanilla**, **DsaLut**: the chain of processing elements, the cascade of drainers, the
  table and the code words. In DsaLut the order of `k_lut_vec_mem` is the one the test bench
  writes.
* **Bm25Indexer**: the 33 tasks of `indexer_top`. What a run is comes from the host: batches
  of 64 documents, 16 to a channel, each padded to the longest of the batch. `bm25_score_mul`
  takes from both its streams when both have a datum; the script takes one and waits for the
  other, so that stream is one place shorter.
* **EngramKernel**: hashes of the last tokens, embeddings per head, the chain of projections.

**TopKSelect** is `topk_parallel_cmp` inside: `FillPack` an iteration of the first loop,
`ReadPack` the `fast_check`, `Compare` an element of the scan with the search for the new
minimum, `NextQuery` the query loop. The comparator trees are "some index of a least score":
the trees of the kernels that have this function break ties in different ways, and the
model allows them all. Scores are totally ordered, so NaN is left out.

**MinHeapSelect** is the other selection, `topk_minheap` of the DSA indexers, one action per
iteration of its loops. The kernels of this commit do not invoke it. Its sift-down stays put
when both children are equal and below the node (indexer_vanilla.h:452), and the nodes are then
no heap (finding 7). `heap_tied`, a history variable, says that this happened; scores may be
equal anywhere. `HeapTopK` says what holds in any case, that the ids are different and one of a
best score is among them, and what holds until it happens, that they are a top-k.

**IndexMemory** is `dev/types/memory.h`: three classes that keep entries of one, two or a
segment of vectors in one vector, and a count of vectors beside it, which every call moves by
hand. **EntryList** is what a caller may take it for. `delete_memory` of the min-max memory
checks against the number of vectors and may erase behind the end; there `undefined` is set
and nothing more happens.

**FrontendSteps** is `execute` of the four steps of paged attention with their example kernels,
called in any order by a caller that keeps the objects and changes the cache. Each call of the
builder may be of one whose weight fits the keys or of one whose weight does not (it is empty
after the default constructor): the second kind warns, stores an empty memory and returns as if
done (`Built`). `BuildPages`,
`Score`, `RetrieveTopK`, `RetrieveThreshold`, `Apply` are the kernels, with `set_data` that
leaves the counts alone (`SetData`); `TestBuild` and so on the functional tests with right,
short, long and wrong truths and the comparison of each type. A key is its product with the
query, after the projection, which is linear; `attended` are the tokens of the output. Left out:
weights with rows of different lengths, queries that do not have the projection's size, and the
page size of a default-constructed object, which nothing sets.

**Assignment** is `find_optimal_assignment`: `Evaluate` one kernel of one assignment with the
register of copies (`TakeInputs`), `CompareLatency` an iteration of the search, `Analyze` the
groups at the end. Only `Cost`, in the property, does without a register: a kernel pays for an
input when no producer or user since the last production was on its device.

**RemoteDelivery** is what retrieval over TCP promises: runs of the indexer host finish
sending, and an answer is the payload of a finished run that has not answered before.

**RemoteRetrieval** has both ends. A run connects (`Connect`, `ConnectFails`), launches its
kernel (`Launch`), sends its payload in pieces (`SendSome`, `SendFails`). The pipeline listens,
accepts one connection at a time (`Accept`), reads pieces until it has a payload (`Recv`),
and drops chunks and connection when a read raises or returns nothing (`Reconnect`). The
connection stays open after a payload, as in the code. A connection delivers its bytes in
order or breaks (`Break`); a process may die, which closes it (`Die`), a machine may die, which
nobody notices (`Vanish`). `order` and `accepted` are the backlog.

**RagGeneration** is `generate_fix_sentence` with a language model that may give any token:
words, ends of sentences, and line breaks, which `strip` takes away. A token is its place in
the answer. **RagRetriever** is `initialize`, `save`, `set_device` and `retrieve` of the
retriever with its three files, a process that may be killed while it writes one, and a corpus
that changes upstream; the user may start it with another device.

**MCPrograms** composes the parts that run alone for one run: `part` is the one that runs, the
variables of the others stay. The steps under test are a second instance, of a small cache.

**Bm25Packing** is the memory of a corpus as `pack_documents_for_hw` lays it out, what the
kernel's cores compute from that memory, with its tie-breaking selection, and the software
reference `indexer_top_ref`. Of the BM25 formula only the signs and the monotonicity are kept
(`Idf`, weight by count): enough to tell any term counted twice, lost, or taken with another
document's count or another token's frequency.

**Bm25Host** is how the steps drive it. `setup` is every tuple `fpga_retriever_setup` made,
with its reference count, and the card's buffers that live with it; `builder` and `retrieval`
are the tuples of the two steps, `builder_step` whether SimpleRAG has its build step cached,
`bm25_memory` the index in the caller's hands. `BuildMemory` and `BuildFails` are
`run_cpu_kernel` with and without an exception, `ResetBuilder` the setters, `FusedRetrieve`
the cached retrieval step with `fpga_retriver_launch`: new bitmap, a run that completes or
stops after some of the vectors of ids, the cut of the last three. `DestroyRag` is `~SimpleRAG`.
The retrieval step never takes a reference of the tuple it keeps. So it may use a tuple that a
rebuild has freed, and its destructor lets go of a reference that is not its own, after a plain
build and query too (finding 6). Both are undefined in Python's API: the model sets `freed_used`
and stops there. `FreedUse` says exactly which steps do this, so that a build, a setter, or a
query with the builder's own tuple never does.
SimpleRAG's other calls need templates that do not instantiate at this commit.

**P2PBuffer** is one buffer of the P2P manager and every call on it, in any order. XRT and HIP
are external: allocation may yield a P2P BO or a normal one, `hipHostRegister` takes pages
as IoMemory, as Mapped or not at all, and whether a P2P BO's mapping reaches the card or is
staged is a fact of the platform (`direct`). `hbm` is the card's memory, `shadow` the host
copy that an indirect mapping writes and whole-buffer syncs copy; a word holds the stamp of
its last write. `is_p2p`, `gpu_registered` are the class's flags. `unsynced` (a history
variable) are the words written since somebody last asked for a sync, `inflight` those that
a GPU kernel in progress has yet to write.

## 3. Runs

Names are those of the entries in PROJECT.json. All instances are explored exhaustively.

| Run | What it checks | Bounds, and why they do |
|---|---|---|
| `moe_dispatch` | `TypeOK`, `StackBound`, `Conservation`, `LanesDistinct`, `AllDispatched`, `RoundBound`; implements `RoutingDelivery` | a full tile of 3 tokens and a partial one of 1; 3 experts on 2 slots with 2 lanes, so that experts wait for a round, a stack needs two, and fillers occur; one-deep FIFOs block everywhere |
| `moe_dispatch_second_card` | violation of `AllDispatched` with `LocalExpertBase = LocalExperts` | finding 1 |
| `moe_kernel` | `OutputExact`, `NothingLeft`, `KernelReturns` | two tiles, one partial; every interleaving with one-deep FIFOs |
| `kernel_networks` | `Aligned`, `Drained`, `Returns` of every kernel | two lanes or slots, two or three channels, sizes of loops 1 to 4 and mostly different so that a wrong bound shows; two tiles, a partial one, and none; streams at their real depths; row counts above the depth of a stream; context lengths on chip, beyond it and at a boundary. One schedule, and every interleaving for a slot with one-deep FIFOs; for the slot and the BM25 indexer `SlotSound` and `Bm25Sound` do without the bounds |
| `seer_threshold` | violation of `Returns` with the test bench's default of keys | finding 3 |
| `lserve_long` | violation of `Aligned` with keys that just fill the chip | finding 4 |
| `p2p_float64` | violation of `TransferWhole` for float64 | finding 2 |
| `remote_retrieval` | `WholeAnswers`, `ConnectionOrder`, `Served`; implements `RemoteDelivery` | three runs, the last of which may be refused by a backlog of two; payloads of two bytes, so that reads split; two retrievals, so that an open connection is met by a question; one fault, of any kind and at any moment. The theorems do without the bounds |
| `programs`, selections | `TopK`, `HeapTopK`, `GatePicks`, `GateShares` | packs of 2, four nodes, streams of two packs (only the fill) and of three, two scores (every comparison is of two, so better, worse and equal all occur; `BestSelected` does without the bound), two queries; four heap nodes (one child, two) and six of four scores in any order, so that equal children come up and are sifted past; 12 experts to a card, three rounds, ties within and between rounds, sums that are not positive |
| `programs`, assignment | `BestIsCheapest` | the repository's kernels, PCIe model and profile, one with slower FPGA kernels, one with a faster builder, so that different devices win |
| `programs`, P2P buffer | `SkipsOnlyDirect`, `RegistrationHeld`, `Coherent`, `TransferWhole`, `NoResurrection` | two elements (a prefix and the whole), four writes: a stale copy, a newer one over it, and a sync between them |
| `programs`, BM25 host | `PackedRight`, `SetupOfMemory`, `AnswerRight`, `FreedUse` | two lanes and two channels, three corpora: padding, tokens beyond the vocabulary and of the wrong lane, counts above the cap, one and two super-batches with different rows, a term in more than half of the documents; three queries; two set-ups that succeed, any number that fail |
| `programs`, memory | `ListSpec` | the three memories, made with and without an entry, two names, four entries; indices up to twice that |
| `programs`, steps | `AttendsBestPages`, `InsideCache`, `BitmapSelects` | five tokens in pages of two (two whole, one not), two pages selected, words of two bits with a last one partly used, builders whose weight fits or not, one change of the cache between any two calls |
| `programs`, generation | `QueriesPartition`, `LastSentenceSeen` | six tokens of three kinds: three sentences, blank ones, retrievals that find nothing |
| `programs`, retriever | `TextsOfIndex` | three files, three kills, two revisions, two devices |
| `step_tests` | violation of `TestsTell` | finding 5; three tokens, every kind of wrong truth |
| `bm25_release` | violation of `OwnedOnce` | finding 6; the BM25 host as in `programs` |
| `heap_ties` | violation of `RootIsLeast` | finding 7; three nodes, so that the root has two children |

Every property of a passing run has a mutant in PROJECT.json: a definition of the model
changed as a plausible bug would change the code, with which the property fails. The changed
definitions stand next to the ones they change (`NextBeatNoReset` beside `NextBeat`).

**Fairness.** A TAPA task is a circuit of its own and runs until it returns, so a kernel
stops only when no task can move: `WF` of the next-state relation (per task in `KSpec`, for
the kernel as a whole in `KernelNetworks`). No fairness is assumed of host calls, and no
liveness is claimed of them. For remote retrieval `FairSpec` says that both programs take
their next step when they can, that kernels end, and that bytes sent arrive; nobody need ask
a question or quit. A connection that is silent because its machine died is waited for
without end, as the code has no timeout, so `Served` excepts a machine that vanished. Where a
model checks deadlock off, the system may stop: after the last query of a selection, when a
pipeline or search has ended, when a caller makes no more calls, or where the behaviour is
undefined from there on.

**One schedule.** `Next1` of `Dataflow` runs the network along a single schedule.
`OneScheduleShows` and `SoundInEveryOrder` justify it. A schedule that returns, with `Aligned`
and `Drained` on its way, shows that the scripts of that kernel are `Sound`, which speaks of no
schedule; and where they are, every state of every interleaving is `Aligned` and `Drained`
and none is `Stuck`. That the tasks then do return needs only that they go on when they
can and have finitely many operations; this last remark, liveness, is not proved.

## 4. Proofs

Assumptions are the named ASSUMEs of the modules (`DispatchAssumption` and so on), which
the runs evaluate; nothing else is assumed of the constants.

* **StacksFit**: types and `StackBound` are inductive together. A token is ingested once per
  tile and pushes at most one entry per expert, so a counter is at most t, t at most the tile
  size, and the tile size below the counter's range and at most TOP_K.
* **EveryRoutingOnce**, **DispatchInvariant**, **DispatchDelivers**: for
  `LocalExpertBase = 0` (they are false on the second card, finding 1). The properties are not
  inductive: that a round sends each routing
  once needs that a stack holds distinct tokens, all ingested (`StackShape`, `RoutedBelow`);
  that a closed tile is empty needs that `tile_done` says truly, while headers are still being
  sent, whether the bank is empty (`HdrDone`), and that the bank is empty between tiles
  (`EmptyBank`). `IInv` is their conjunction. `RoundSplits` is the central lemma: building a
  round splits the bank into what the headers carry and what stays. The refinement maps
  `routed` and `sent` to the promise's variables.
* **RoundsBounded**: on either card. The number of rounds is bounded by a potential: after any
  round of a tile of n tokens, no stack is higher than the n - `rounds` rounds that are left,
  and all stacks together hold at most `NSlots` entries for each of them (`RoundsFit`). A
  round takes one entry off each of the `NSlots` highest stacks, or empties the bank. The
  theorem assumes `LocalK <= NSlots`; moe_batch_16b.h:31 makes them equal.
* **KernelDispatches**: the kernel's steps are steps of MoeDispatch (with FIFOs read by slots)
  or leave its variables alone, so what is proved of the dispatcher holds in the kernel.
* **KernelOutputExact**, **KernelNothingLeft**: any number of tokens, experts, slots, lanes,
  vectors and every depth of the FIFOs, for `LocalExpertBase = 0`. `log` numbers the rounds,
  so each slot, each accumulator and each FIFO has a position in one sequence: a FIFO holds
  exactly what lies between the position of its writer and that of its reader. `LogInv` says
  what the dispatcher wrote: rounds of one tile after another, a routing of the gate in each
  working lane, none twice in a tile, all of them by the round that closes it, headers of a
  round that agree. `SlotInv` and `PFifo` place the slots (`XFifo`: the beats they have yet to
  read are those of the log; `PacketAt`: so are the packets they write), and `AccInv` the
  accumulators: a sum is of the products that lie before its position (`Summed`), a row
  written is `Expected`. `KInv` is the conjunction, inductive with `IInv`. That a flush writes
  the whole sum is `FlushSum`: the accumulator leaves a tile when it has read the round that
  closes it, and `Delivered` and `OnceInTile` say that by then each routing came once.
* **Commutation**, **TasksIndependent**: for any well-formed network; `NetType` (streams within
  their depths, positions within their scripts) is the invariant.
* **OneScheduleShows**, **SoundInEveryOrder**: for any well-formed network. Positions alone
  tell how often a stream was written and read (`Total`), and a stream holds the data of the
  writes not yet read, in order (`Carries`; `NetInv` with `NetType`). So which datum a read
  takes depends on its number among the reads of its stream (`Matched`), what is left at the
  end on the lengths of the scripts (`Balanced`), and whether a task can go on on the positions
  (`CanAt`). No behaviour passes a position in which no task can go on (`OnTheWay`): one that
  reaches the end has shown there is no other (`OnlyEnds`). `Sound` is these three.
* **ChoreographySound**: for any network, without running a schedule. A choreography is one
  sequence of exchanges, each on a stream and of a datum, such that the script of every task is
  its part of them (`Part`: the writes of the exchanges on the streams it writes, the reads of
  those on the streams it reads, in that order). Then the n-th write and the n-th read of a
  stream are halves of one exchange (`ChoreographyMatched`, `ChoreographyBalanced`), and at any
  position the first exchange that is not over can go on (`EarliestCan`): nobody has one before
  it left to do, so its writer is at it with room, or its reader at it with the datum there. So
  the scripts are `Sound`, at any depths of at least one. A choreography is what the authors of
  a kernel have in mind when they say that its loops fit; it exists exactly where no task must
  run ahead of another.
* **SlotSound**: MoeSlot has one, for any lanes, vectors, rows, parameters and rounds
  (`SlotPlan`: the parameters, then in each round header, x, the rows with their weights and
  results, scales, inter, the second half of the weights and the partial vectors). `SlotParts`
  shows, task by task, that its script is its part of the plan. A loop over a body of which the
  task has no part is none of its script (`PartIdle`), a loop over its part is a loop of its
  script (`PartTurns`), and where two tasks count differently the loops are split
  (`InTurnSplit`: the loader's one loop over W1 and W2 rows, the parameters of the three
  matrices) or nested (`InTurnNest`: rows of vectors against a running number). What could be
  wrong is just that: the loader's `PortVecs` against the bounds of the two projections, the
  order in which the dequantiser serves three consumers, scales before vectors.
* **Bm25Sound**: Bm25Indexer has one, for any number of channels, any sizes of vocabulary and
  query, any row counts of the batches and any depths (`Bm25Plan`: frequencies and query down
  the chain of cores; then batch after batch the row count, in each channel its rows through
  both weight terms to the sum, and its score through the merge to topk; the ids last). The
  cores of a chain differ only in their place, and a task of channel c has no part in another's
  (`InTurnAt`, `PartAt`; a core takes part in two places of the chain, `PartAtTwo`). Where the
  counts differ it is topk_parallel_cmp's two loops over packs of scores, the first to fill its
  nodes, against the merge's loop of channels in a loop of batches: that the p-th score is the
  one `Numbered` takes it for is `InTurnNest` with the division undone. The theorem assumes
  `KPacks <= Len(inst) * Channels`: a corpus with fewer packs of documents than TOP_K >> 4 leaves
  the first loop waiting for ever, and the loop bound of the second, L >> 4 less those, below 0.
* **BufferSound**, **NeverOlder**: `PInv` strengthens the properties by `Flags` (how the
  four flags and HIP's hold of the pages can stand to each other) and `ShadowAhead` (an
  indirect buffer's shadow is nowhere older than the card's memory); without the second a
  whole-buffer push could bring old words back. The bound on stamps plays no part.
* **WordTransfersWhole**: where an element is a word (finding 2 is about the others), a memcpy
  transfer is whole: it skips the push on a direct mapping only, which is `Flags` again.
* **GateRight**: `GInv` says of each half, after r rounds, that the four held are different,
  among those seen, that `min` is a least one and nobody dropped is above it (`Best`).
  `OfferBest` is one candidate; a round is four of them, or none when the `fast` check fails.
  The shares (`GateShares`) need that equal experts may be exchanged: `Standings` and
  `SameSum` show that two sets of `LocalK` best experts have the same sum of scores.
* **SetUpOwned**: `FreedUse` and `SetupOfMemory`. Inductive, with the types of the tuples
  (`SetUps`), is that until a freed tuple is used a tuple has exactly the builder's reference as
  long as the builder holds it (`Owned`), whatever the card has written into it: a query then
  uses a freed one just when the builder holds another, and the destructors together let go of
  two references of one tuple, or of one that is gone (`DestroyReleases`). `LaunchKeeps` says
  that a query leaves references and corpus alone; `BuildReleases` that a build lets go of the
  old tuple under the cached step as under a new one.
* **KernelScores**, **AnswersBest**: any corpora of documents with terms (`HostAssumption`:
  one document at least, tokens and counts are naturals), queries, lanes and channels.
  `ScoreRight` is a statement about data: the kernel's sum over the rows of a lane is the
  reference's over the terms of the document. It goes through what the lane keeps
  (`KeptSum`: leaving terms out changes nothing, they score 0), where a row of a super-batch
  lies in the channel's memory (`PackedAt`, after the rows of all batches before), the
  fillers, which score 0 (`SumPadded`), and the part of the document frequencies that a lane
  has (`OwnFrequency`). `TopKIs` is the selection loop with the invariant `Holds`: the nodes
  hold different positions already seen, the minimum is where it is said to be, nothing
  passed over is better. `AnswersBest` combines both with `HInv`, by which the card's corpus
  is the caller's.
* **AnswersWhole**, **RetrievalDelivers**: any number of runs, size of a payload and faults.
  `RInv` adds to types and order that a run connects once and has failed only on a broken
  connection (`Connections`), that bytes were read only from accepted connections and were
  sent (`Reading`), that the chunks are exactly what was read of the open connection unless
  that is a whole payload (`Chunks`), and that answers are payloads of connections read to
  their end (`Answered`). `OthersKeep` is the lemma for every step that reads and accepts
  nothing; `RecvReads` says that a read appends to the chunks of one run; `UsedGrows` that an
  answer uses one run that was not used before. The refinement maps finished and used runs
  and the last answer.
* **SentencesKept**: for any number of tokens and any model. `GenerationInv` has the invariants
  of the run with the documents and last sentence remembered (`Remembered`); that the queries
  joined are the tokens so far is a fact about `FlattenSeq` (`FlattenAppend`).
* **TextsWhole**: for any number of kills, revisions and devices. `CacheWhole` is what makes
  the cache safe: `save` writes the meta file last and `initialize` looks for that one, so
  whoever finds it finds the index and texts it was written with.
* **BestSelected**: `SelInv` strengthens `TopK` by the loop invariant `Selected` (which nodes
  are filled, that they hold positions already seen with their own scores, that the minimum is
  where `min_idx` says, and that nothing dropped is above it) and by what was written.
* **HeapSelects**: a heap of any size and any scores, equal ones included. Two parts of
  `HeapTopK` hold whatever happens: nodes hold different positions (`HeapHolds`), and a best of
  the scores offered is always held, since only the root is replaced, by a better one
  (`HeapMax`). The third, that the ids are a top-k, holds until a node stays above two equal
  children (`heap_tied`, set by `EqualBelow`); until then `Ordered` and `HeapBest` are inductive.
  `Ordered` says that a node is not below its parent but at the node being moved, and there not
  below its parent's parent, which is why one swap mends it; `HeapBest` that a score offered is
  held or no better than any that is held. That the root is the least (`RootLeast`), for which
  the scores that do not beat it are passed over, is an induction over the numbers of nodes.
* **CheapestFound**: any kernels, inputs, outputs and profiles whose sizes and latencies are
  naturals and whose transfers run at 1 MB/s at least (`AssignmentAssumption`; the code divides
  by the bandwidth). The register holds what the reference sees, but that it may lack a user
  of data that cannot go to that user's device (`Tells`): `InputTaken` is one input and its
  charge, `TakenAll` all of a kernel, each charged once however often it is listed,
  `SeenAfter` what the reference sees one kernel on. So the latency is at every kernel the sum
  of what the kernels before it cost (`Evaluated`), and the best so far is no dearer than what
  was tried (`BestSoFar`). That `Assigned` counts through all assignments is `AllAssigned`,
  from the first kernel to the last one binary digit at a time.
* **MemoryLists**: any kinds, entries and sizes. `MemInv` says that the data are whole entries
  and the count beside them is their length, so that cutting off, taking out and reading
  vectors falls between entries: `PieceIs` and `JoinIs` are what cutting and joining data does
  to the list. The refinement maps the data to the list of their entries; an access that is
  undefined in C++ ends the behaviour and maps to a stutter.
* **StepsSelect**: any keys that are naturals, any sizes of page, word and k of at least one,
  and any order of calls, tested ones and builders with a weight that does not fit too.
  `StepsInv` says that each object is what its step makes of the data it was last computed from,
  whatever has become of them since; the three properties follow in any such state: after such a
  builder no page is scored and no token taken (`AttendsNothing`), and after the others
  (`AttendsPages`) the pages are the best. `PooledIs` is why the averages compare exactly: each
  number of tokens that a page can have divides the factorial that is the unit
  (`FactorialDivides`), so a page's average times its tokens is their sum, the last page's as
  well (`BetterIs`). Attention's pages are the builder's (`PageTokensAre`, `BlockTokensAre`),
  and joining their tokens repeats none (`FlattenRanges`). `BitIs` finds a page's bit where the
  constructor looks for it.

**Data.** The library's theorems of induction take an operator and are out of reach, but sets
are not: `Numbers` of FoldTheorems says that a set with 0 and with the successor of each of its
members contains all naturals, by the well-foundedness of <. With the set of all n up to which a
function does what it should, that is induction. What FoldTheorems says of sums over finite sets
(`SumAdd`, `SumSame`, `SumNext`), of `FlattenSeq` (`FlattenAppend`, `FlattenAt`), of a loop that
iterates a step (`Iterate`, `IterateOn`, `SameSteps`) and of minima and maxima is proved so.

Model-checked only:

* liveness (`KernelReturns`, `Returns`, `Served`), out of the prover's reach;
* `Aligned` and `Drained` of the kernels beside the slot and the BM25 indexer: one schedule of each instance, which
  `OneScheduleShows` and `SoundInEveryOrder` carry to all schedules of that instance, not to
  other sizes. Their plans would be written like those two.

## 5. Findings

1. `dispatch_core` does not subtract `local_expert_base` when it ingests (moe_batch_16b.cpp:339).
   On the second card the ids lie beyond the pending bank and routings are lost.
2. `memcpy_transfer_gpu_to_fpga` counts elements and moves 4 bytes each, so half of a float64
   transfer is not made (p2p_manager.cpp:432).
3. `write_id` of the SeerAttention threshold kernel waits for a closed formula's number of
   bitmaps, which `gemm_pe` does not send when a channel's keys are no multiple of 128
   (indexer_seer_threshold.h:162); the test bench allows multiples of 256 for 8 channels.
4. The long LServe kernel reads off-chip keys for the round of the new key when the past keys
   just fill the chip, and nobody streams them (indexer_lserve_long.h:37, :204): it takes
   queries for keys.
5. `set_data` changes the data of an object and none of the counts beside it, and `is_equal`
   compares by them (base_types.h:68, build_memory.h:72). A functional test takes the object
   that is passed as the truth: with entries missing at the end it passes, with entries too
   many it is read behind the end of the result. frontend/README.md:173 and :181 say "Pass
   ground truth as the output parameter" and "result == 0 means test passed".
6. `~FusedBM25Retrieval` gives back a reference of the set-up tuple that the step never took
   (bm25_fpga_retrieval.cpp:29); the builder, which "takes ownership"
   (bm25_dataset_builder.cpp:103), gives it back again. A build, a query and the end of SimpleRAG
   are enough.
7. The sift-down of `topk_minheap` leaves a node above two equal children that are below it
   (indexer_vanilla.h:452, and indexer_lut.h after :704). The root is then not the least, later
   scores are compared with one that is too high, and a lower score is kept for a better one.
   The kernels of this commit do not invoke it.

Met while modelling, and described here without a run:

* A builder whose weight is empty or whose rows are not as long as a key logs a warning, stores an
  empty memory and lets `execute` return 0 (paged_kv_index_builder.cpp:38); score, top-k and
  attention then succeed on nothing. `Built` has both kinds, and `AttendsBestPages` says that no
  token is taken.
* The retrieval step cuts the last three of its ids as padding; they are in the order of the
  selection's nodes and may be the best documents
  (frontend/dev/steps/example_kernel/bm25_fpga_retrieval.cpp:120). `FusedRetrieve` has the cut.
* A payload does not say which question it answers. A retrieval that finds a connection open,
  or one in the backlog, takes what is there (aws_ec2_ena/rag_pipeline.py:423).
* A retrieval that found documents moves the text so far into the prompt and empties
  `generated_text`, which is what `generate_fix_sentence` returns: the response is the text
  since the last retrieval (aws_ec2_ena/rag_pipeline.py:726, rag_test/rag_pipeline.py:662).
  Each continuation starts from the first prompt, so of the text and documents before only the
  last part stays (rag_test/README.md:81 has them appended).
* `rag_test/rag_pipeline.py:657` takes the pair that `retrieve` returns for the documents; the
  copy in `aws_ec2_ena` takes it apart (:720), and is the one modelled.
* `initialize` sets `vocab_dict` when it loads a cache (:272) and not when it builds one; a
  hybrid query then fails (:362). `set_device` stores the device before `initialize` may raise
  (:705). In RagRetriever such queries have an answer without vocabulary, or none.
* `delete_memory` of the min-max memory checks an index of pairs against the number of vectors
  (types/memory.h:197); `insert_memory` of a segment keeps the vectors before the one it
  refuses (:368); of these the model has the first, and segments refused at their first vector.
* GPU and FPGA kernels of a step that are not implemented are reported as completed
  (build_memory.h:98).
* `optimal_assignment.py:529` takes no bandwidth below 0.001 GB/s; Assignment assumes at least that.
* `optimal_assignment.py:638`: an input on a device that has no path to the kernel costs
  nothing, as `memory` on the GPU for a kernel on the FPGA; `Transferable` has this.
* `indexer_lut.h:168` sums signed products in unsigned registers; the test for padding in
  `indexer_lserve.h:146` is always true for the rounds it is made in. Both are values, which
  the networks leave out.
* The state that `run.wait()` returns is dropped (p2p_manager.cpp:284): an aborted run returns as if
  the card had written. P2PBuffer has such runs; its properties ask nothing of their data.
* The quick start of `p2p_comm/python_api/README.md` reads on the GPU a buffer it never
  registered; `read_buffer` throws (p2p_manager.cpp:342).

## 6. Not modelled, and why

* Number formats, int4/int8 arithmetic, softmax, BM25 formula: data, abstracted to what the
  control tells apart.
* `async_mmap` request and response pipelining: a reader is a loop that sends what it reads in
  order; TAPA returns responses in order.
* What flows through the networks: dot products, the hash, page minima, thresholds, padding
  scores.
* Frontend deploy layer: `memory_manager.h` and `paged_attention.h` do not compile at this
  commit (an undeclared name, a call with an argument too many), so there is no behaviour to
  model; the caching they would give SimpleRAG is in Bm25Host. Of the memory types, HMT
  queries, LaCT and text data have no calls of their own.
* Copies: the BM25 loaders under `rag_test` and `aws_ec2_ena` and the C++ loader do what the
  Python loader does; the gates of the other MoE kernels are the one of MoeGate.
* RAG pipelines: the language model, tokenizers, the wording of prompts and the BM25 library
  are external or text; simple generation keeps no state. Remote retrieval: name resolution
  and sockets that cannot be made end the program at its start.
* Roofline and fusion estimates, profiling, benchmarks, the code generator (text to text):
  arithmetic on files. Vendored headers (`json.hpp` and `doctest.h`) are half of the lines of
  the repository.

## 7. Plan

Done: all modules above, and a proof of every safety property that a run checks; of `Aligned`
and `Drained` for the slot and the BM25 indexer. Left: plans for the other kernels; the deploy layer, once it
compiles, with the question which cached step a setter must reset.
