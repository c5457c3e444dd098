-------------------------------- MODULE Bm25Host -------------------------------
(***************************************************************************)
(* The BM25 retrieval as the host drives it: BM25DatasetBuilder and        *)
(* FusedBM25Retrieval (frontend/dev/steps), the Python functions they call *)
(* (launch_bm25.py), and how SimpleRAG (deploy/simple_rag.h) keeps the two *)
(* steps.  The tuple that fpga_retriever_setup returns is a Python object  *)
(* that lives as long as it is referenced, and the card's buffers with it. *)
(***************************************************************************)
EXTENDS Bm25Packing

CONSTANTS
    Corpora,    \* the corpora a caller may have exported
    Queries,    \* sets of tokens
    CutIds,     \* 3, the ids left out at the end
    MaxSetups   \* bound: set-ups that succeed

ASSUME HostAssumption ==
    /\ {Lanes, Channels, Vocab, MaxFreq, CutIds, MaxSetups} \subseteq Nat \ {0}
    /\ Vocab % Lanes = 0
    /\ \A docs \in Corpora : docs \in Seq(Seq([token : Nat, count : Nat])) \ {<<>>}

VARIABLES
    setup,         \* the tuples made so far: corpus, references, card's buffers
    builder_step,  \* is build_memory_step_ set?
    builder,       \* fpga_setup_object_ of dataset_builder_
    retrieval,     \* fpga_setup_object_ of fused_retrieval_step_
    bm25_memory,   \* the corpus of the caller's BM25IndexMemory
    retrieved,     \* what fused_retrieve did last
    freed_used     \* a freed object was used

host_vars == <<setup, builder_step, builder, retrieval, bm25_memory, retrieved, freed_used>>

NoStep == -1   \* no such step
Null == 0      \* a step without a tuple

NothingRetrieved == [status |-> "none"]

(* What the set-up of each corpus writes to the card. *)
CardImage == [docs \in Corpora |-> Image(docs)]

HostInit ==
    /\ setup = <<>> /\ builder_step = FALSE /\ builder = NoStep /\ retrieval = NoStep
    /\ bm25_memory = <<>> /\ retrieved = NothingRetrieved /\ freed_used = FALSE

--------------------------------------------------------------------------------
(* A new tuple, referenced by its holder.  The ids in the host's copy are  *)
(* -1; what the card's memory holds before the first run is nobody's id.   *)
NewSetup(docs) ==
    [docs |-> docs, refs |-> 1, bitmap |-> {}, ids |-> [i \in 1 .. Batch |-> -1]]

Decref(s, o) == IF o > Null THEN [s EXCEPT ![o].refs = @ - 1] ELSE s

(* get_or_create_build_memory_step: a new builder takes the place of the   *)
(* one that dataset_builder_ still held, whose destructor lets go of its   *)
(* tuple.                                                                  *)
AfterCreate == IF builder_step THEN setup ELSE Decref(setup, builder)
Kept == IF builder_step THEN builder ELSE Null

OldKept(s, o) == s

(* The builder lets go of the tuple of its last run. *)
OldReleased(s, o) == Decref(s, o)

(* BM25DatasetBuilder::run_cpu_kernel when fpga_retriever_setup succeeds;  *)
(* the caller passes the corpus it has exported.                           *)
BuildMemory(docs) ==
    /\ ~freed_used /\ Len(setup) < MaxSetups
    /\ setup' = Append(OldReleased(AfterCreate, Kept), NewSetup(docs))
    /\ builder' = Len(setup') /\ builder_step' = TRUE
    /\ bm25_memory' = docs
    /\ UNCHANGED <<retrieval, retrieved, freed_used>>

BuildFailsIndexFirst ==
    /\ ~freed_used
    /\ setup' = AfterCreate
    /\ builder' = Kept /\ builder_step' = TRUE /\ bm25_memory' \in Corpora
    /\ UNCHANGED <<retrieval, retrieved, freed_used>>

(* It throws when a file cannot be loaded, no device takes the bitstream   *)
(* or the call fails, and has changed nothing but the step.                *)
BuildFails ==
    /\ ~freed_used
    /\ setup' = AfterCreate
    /\ builder' = Kept /\ builder_step' = TRUE
    /\ UNCHANGED <<retrieval, bm25_memory, retrieved, freed_used>>

(* set_bitstream_path, set_export_dir, set_python_module_path *)
ResetBuilder ==
    /\ ~freed_used /\ builder_step
    /\ builder_step' = FALSE
    /\ UNCHANGED <<setup, builder, retrieval, bm25_memory, retrieved, freed_used>>

--------------------------------------------------------------------------------
(* fused_retrieve makes its step once, with the tuple of that moment. *)
Used == IF retrieval # NoStep THEN retrieval ELSE IF builder = NoStep THEN Null ELSE builder

BitmapKept(s, query) == s.bitmap \cup query

(* The bitmap on the card: new for every query, only tokens it knows. *)
BitmapWritten(s, query) == {t \in query : t < Vocab}

(* The ids on the card when a run has written n of its vectors of ids. *)
IdsWritten(s, new, n) == [i \in 1 .. Batch |-> IF i <= n * Lanes THEN new[i] ELSE s.ids[i]]

(* FusedBM25Retrieval::run_fpga_kernel with fpga_retriver_launch: whatever *)
(* state run.wait() returns, the ids are taken from the card, and the last *)
(* ones left out.                                                          *)
Launch(o, query) ==
    \E n \in 0 .. Channels :
        LET bitmap == BitmapWritten(setup[o], query)
            ids == IdsWritten(setup[o], TopKIds(CardImage[setup[o].docs], bitmap), n)
        IN  /\ setup' = [setup EXCEPT ![o].bitmap = bitmap, ![o].ids = ids]
            /\ retrieved' = [status |-> IF n = Channels THEN "completed" ELSE "aborted",
                          docs |-> bm25_memory, query |-> query, found |-> ids,
                          ids |-> IF Batch > CutIds THEN SubSeq(ids, 1, Batch - CutIds) ELSE ids]

FusedRetrieve(query) ==
    /\ ~freed_used
    /\ retrieval' = Used
    /\ CASE Used = Null -> retrieved' = [status |-> "thrown"] /\ UNCHANGED <<setup, freed_used>>
         [] Used > Null /\ setup[Used].refs < 1 -> freed_used' = TRUE /\ UNCHANGED <<setup, retrieved>>
         [] OTHER -> Launch(Used, query) /\ UNCHANGED freed_used
    /\ UNCHANGED <<builder_step, builder, bm25_memory>>

(* ~SimpleRAG: the retrieval step and the builder both let go of their     *)
(* tuples.                                                                 *)
DestroyRag ==
    /\ ~freed_used
    /\ setup' = Decref(Decref(setup, retrieval), builder)
    /\ freed_used' = (\E o \in DOMAIN setup : setup'[o].refs < 0)
    /\ builder_step' = FALSE /\ builder' = NoStep /\ retrieval' = NoStep
    /\ bm25_memory' = <<>> /\ retrieved' = NothingRetrieved

HostNext ==
    \/ \E docs \in Corpora : BuildMemory(docs)
    \/ \E query \in Queries : FusedRetrieve(query)
    \/ BuildFails \/ ResetBuilder \/ DestroyRag

HostSpec == HostInit /\ [][HostNext]_host_vars

--------------------------------------------------------------------------------
(* The kernel gives every document the score of the software reference,    *)
(* computed from the document's terms, and padding the score 0: packing,   *)
(* the mod-16 filter, the lanes' tables of frequencies and the row counts  *)
(* fit together.                                                           *)
PackedRight ==
    \A o \in DOMAIN setup : \A query \in Queries : \A p \in Ids(setup[o].docs) :
        ScoreAt(CardImage[setup[o].docs], query, p) = Expected(setup[o].docs, query, p)

(* bm25_dataset_builder.cpp keeps the tuple with "takes ownership", and the *)
(* retrieval step only uses it: a tuple has the builder's reference as long *)
(* as the builder holds it, and none before or after.                       *)
OwnedOnce == \A o \in DOMAIN setup : setup[o].refs = IF builder = o THEN 1 ELSE 0

(* A freed tuple is used exactly in two cases.  A query uses one when the  *)
(* retrieval step was made with a tuple that the builder has let go of     *)
(* since, and ~SimpleRAG lets go of one again when there is a retrieval    *)
(* step that was made with a tuple.  Builds, failed ones too, and setters  *)
(* never do, and a query whose tuple the builder still holds finds it.     *)
FreedUse ==
    [][freed_used' <=> /\ retrieval > Null
                       /\ \/ retrieval # builder /\ \E query \in Queries : FusedRetrieve(query)
                          \/ DestroyRag]_host_vars

(* The builder's tuple was made from the corpus of the index that the      *)
(* caller holds, also after builds that threw.                             *)
SetupOfMemory == ~freed_used /\ builder > Null => setup[builder].docs = bm25_memory

(* The ids of a run that completed are a top-k of this query over the      *)
(* corpus of the index passed: TOP_K different ids, and no document left   *)
(* out beats one of them by the software reference.                        *)
AnswerRight ==
    retrieved.status = "completed" =>
        LET found == ToSet(retrieved.found)
            Score(p) == Expected(retrieved.docs, retrieved.query, p)
        IN  /\ found \subseteq Ids(retrieved.docs) /\ Cardinality(found) = Batch
            /\ \A d \in 0 .. Len(retrieved.docs) - 1 \ found : \A p \in found : Score(d) <= Score(p)
================================================================================
