------------------------------ MODULE Bm25Indexer ------------------------------
(***************************************************************************)
(* The BM25 indexer (kernels/bm25/indexer_bm25.h) on the documents that    *)
(* pack_documents_for_hw lays out (toolchain/backend/lib/python): batches  *)
(* of 16 documents per channel, each padded to the longest of its batch.   *)
(* The cores pass the document frequencies, the query and the row counts   *)
(* of the batches down a chain; every channel scores its documents; a      *)
(* round-robin merge restores their order, from which topk_parallel_cmp    *)
(* numbers them (TopKSelect models what it does with them).                *)
(*                                                                         *)
(* idf, tf_weight, score_mul, merge_score and the black holes run for ever *)
(* (detach); here each has the iterations for which there is data.         *)
(***************************************************************************)
EXTENDS Streams

CONSTANTS
    Channels,     \* doc_mem channels, cores
    DfVecs,       \* VOCAB_SIZE_DIV_16
    QueryVecs,    \* VOCAB_SIZE_DIV_512
    KPacks        \* TOP_K >> 4

Bm25Assumption == {Channels, DfVecs, QueryVecs, KPacks} \subseteq Nat \ {0}

Channel == 1 .. Channels

(* The work is what the host puts into inst_mem: inst[b] rows in batch b,  *)
(* L >> 6 batches.  Row i of batch b is named <<b, i>>, the rows of        *)
(* doc_mem in their order.                                                 *)
EachRow(inst, Body(_)) == Loop(Len(inst), LAMBDA b : Loop(inst[b], LAMBDA i : Body(<<b, i>>)))

--------------------------------------------------------------------------------
(* The tasks. *)

ReadDf == Loop(DfVecs, LAMBDA i : W(<<"df", 1>>, <<i>>))
ReadQuery == Loop(QueryVecs, LAMBDA i : W(<<"query", 1>>, <<i>>))
ReadInst(inst) == Loop(Len(inst), LAMBDA b : W(<<"inst", 1>>, <<b>>))

(* L_doc_total rows, as many as the host has put into doc_mem. *)
ReadDocDict(c, inst) == EachRow(inst, LAMBDA row : W(<<"doc", c>>, row))

LoadDf(c) == Loop(DfVecs, LAMBDA i : R(<<"df", c>>, <<i>>) \o W(<<"df", c + 1>>, <<i>>))
LoadQuery(c) ==
    Loop(QueryVecs, LAMBDA i : R(<<"query", c>>, <<i>>) \o W(<<"query", c + 1>>, <<i>>))
ScoreRows(c, n, b) == Loop(n, LAMBDA i :
    R(<<"doc", c>>, <<b, i>>) \o W(<<"df_t", c>>, <<b, i>>) \o W(<<"f", c>>, <<b, i>>))

CoreHandsOnLate(c, inst) ==
    LoadDf(c) \o LoadQuery(c)
    \o Loop(Len(inst), LAMBDA b :
           R(<<"inst", c>>, <<b>>) \o ScoreRows(c, inst[b], b)
           \o W(<<"inst", c + 1>>, <<b>>) \o W(<<"inst_out", c>>, <<b>>))

(* bm25_core hands everything it reads but the documents to the next one. *)
Core(c, inst) ==
    LoadDf(c) \o LoadQuery(c)
    \o Loop(Len(inst), LAMBDA b :
           R(<<"inst", c>>, <<b>>) \o W(<<"inst", c + 1>>, <<b>>)
           \o W(<<"inst_out", c>>, <<b>>) \o ScoreRows(c, inst[b], b))

BlackHole(n, ch) == Loop(n, LAMBDA i : R(<<ch, Channels + 1>>, <<i>>))

Idf(c, inst) ==
    EachRow(inst, LAMBDA row : R(<<"df_t", c>>, row) \o W(<<"idf", c>>, row))
TfWeight(c, inst) ==
    EachRow(inst, LAMBDA row : R(<<"f", c>>, row) \o W(<<"tf_weight", c>>, row))
ScoreMul(c, inst) == EachRow(inst, LAMBDA row :
    R(<<"idf", c>>, row) \o R(<<"tf_weight", c>>, row) \o W(<<"psum", c>>, row))

Accumulate(c, n, b) ==
    R(<<"inst_out", c>>, <<b>>)
    \o Loop(n, LAMBDA i : R(<<"psum", c>>, <<b, i>>))
    \o W(<<"score", c>>, <<b, c>>)

ScoreAccShort(c, inst) == Loop(Len(inst), LAMBDA b :
    Accumulate(c, IF b = Len(inst) THEN inst[b] - 1 ELSE inst[b], b))

(* The sum of a batch's rows, one vector of 16 documents. *)
ScoreAcc(c, inst) == Loop(Len(inst), LAMBDA b : Accumulate(c, inst[b], b))

MergeScoreByChannel(inst) == Loop(Channels, LAMBDA c : Loop(Len(inst), LAMBDA b :
    R(<<"score", c>>, <<b, c>>) \o W(<<"merged", 0>>, <<b, c>>)))

(* Round-robin over the channels, batch after batch. *)
MergeScore(inst) == Loop(Len(inst), LAMBDA b : Loop(Channels, LAMBDA c :
    R(<<"score", c>>, <<b, c>>) \o W(<<"merged", 0>>, <<b, c>>)))

(* The host's number for 16 documents: batch and channel (64 documents a   *)
(* batch), from the position p at which topk_parallel_cmp reads them.      *)
Numbered(p) == <<((p - 1) \div Channels) + 1, ((p - 1) % Channels) + 1>>

(* L >> 4 packs of scores in, of which KPacks fill the nodes, ids out. *)
TopKCmp(inst) ==
    Loop(KPacks, LAMBDA p : R(<<"merged", 0>>, Numbered(p)))
    \o Loop(Len(inst) * Channels - KPacks, LAMBDA p : R(<<"merged", 0>>, Numbered(KPacks + p)))
    \o Loop(KPacks, LAMBDA i : W(<<"topk_id", 0>>, <<i>>))

WriteId == Loop(KPacks, LAMBDA i : R(<<"topk_id", 0>>, <<i>>))

--------------------------------------------------------------------------------
(* The network. *)

PerChannel == {"read_doc_dict", "core", "idf", "tf_weight", "score_mul", "score_acc"}
Single == {"read_df", "read_query", "read_inst", "hole_df", "hole_query", "hole_inst",
           "merge", "topk", "write_id"}
Bm25Task == (Single \X {0}) \cup (PerChannel \X Channel)

Bm25Script(inst) == [k \in Bm25Task |->
    LET c == k[2] IN
    CASE k[1] = "read_df"       -> ReadDf
      [] k[1] = "read_query"    -> ReadQuery
      [] k[1] = "read_inst"     -> ReadInst(inst)
      [] k[1] = "read_doc_dict" -> ReadDocDict(c, inst)
      [] k[1] = "core"          -> Core(c, inst)
      [] k[1] = "hole_df"       -> BlackHole(DfVecs, "df")
      [] k[1] = "hole_query"    -> BlackHole(QueryVecs, "query")
      [] k[1] = "hole_inst"     -> BlackHole(Len(inst), "inst")
      [] k[1] = "idf"           -> Idf(c, inst)
      [] k[1] = "tf_weight"     -> TfWeight(c, inst)
      [] k[1] = "score_mul"     -> ScoreMul(c, inst)
      [] k[1] = "score_acc"     -> ScoreAcc(c, inst)
      [] k[1] = "merge"         -> MergeScore(inst)
      [] k[1] = "topk"          -> TopKCmp(inst)
      [] k[1] = "write_id"      -> WriteId]

Bm25Chan == ({"df", "query", "inst"} \X (1 .. Channels + 1))
        \cup ({"doc", "df_t", "f", "idf", "tf_weight", "psum", "inst_out", "score"} \X Channel)
        \cup ({"merged", "topk_id"} \X {0})

(* TAPA's default of 2, and 4 for the scores.  score_mul waits until both  *)
(* its streams have a datum; here it takes the idf first and holds it, so  *)
(* that stream has one place less (with fewer places a kernel can only     *)
(* wait more).                                                             *)
Bm25Depth == [c \in Bm25Chan |-> CASE c[1] = "score" -> 4
                               [] c[1] = "idf"   -> 1
                               [] OTHER          -> 2]
================================================================================
