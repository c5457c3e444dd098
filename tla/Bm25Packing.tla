------------------------------- MODULE Bm25Packing -----------------------------
(***************************************************************************)
(* The host's layout of a corpus for the BM25 kernel                       *)
(* (bm25_loader_xrt.py), what the kernel (indexer_bm25.h) computes from    *)
(* that layout, and the software reference of both.                        *)
(*                                                                         *)
(* A corpus is a sequence of documents, a document the sequence of its     *)
(* terms, [token, count].  Only what the ranking depends on is kept of the *)
(* BM25 formula: idf falls with the document frequency and is negative     *)
(* when a term is in more than half of the L documents, and a term's       *)
(* weight grows with its count and is 0 at 0.                              *)
(***************************************************************************)
EXTENDS Integers, SequencesExt

CONSTANTS
    Lanes,     \* 16, documents of a vector
    Channels,  \* 4
    Vocab,     \* VOCAB_SIZE
    MaxFreq    \* 255

Batch == Channels * Lanes   \* 64, documents of a super-batch; also TOP_K
Lane == 0 .. Lanes - 1
Channel == 0 .. Channels - 1

(* num_docs_padded, and L *)
Padded(docs) == ((Len(docs) + Batch - 1) \div Batch) * Batch
Ids(docs) == 0 .. Padded(docs) - 1
SuperBatches(docs) == Padded(docs) \div Batch

(* A lane takes the tokens of its residue that have a frequency. *)
Keeps(j, token) == token % Lanes = j /\ token < Vocab

(* The terms of a document that a lane keeps, in their order.              *)
KeptTerms(doc, j) ==
    LET kept[n \in 0 .. Len(doc)] ==
            IF n = 0 THEN <<>>
            ELSE IF Keeps(j, doc[n].token) THEN Append(kept[n - 1], doc[n])
            ELSE kept[n - 1]
    IN  kept[Len(doc)]

FilteredByVector(docs, d) ==
    IF d < Len(docs) THEN KeptTerms(docs[d + 1], (d \div Lanes) % Lanes) ELSE <<>>

(* "filter_worker" *)
Filtered(docs, d) == IF d < Len(docs) THEN KeptTerms(docs[d + 1], d % Lanes) ELSE <<>>

Capped(count) == IF count < MaxFreq THEN count ELSE MaxFreq

(* inst_mem[sb]: the rows of a super-batch, as many as its longest         *)
(* document needs and at least one.                                        *)
Rows(docs, sb) ==
    Max({1} \cup {Len(Filtered(docs, d)) : d \in sb * Batch .. (sb + 1) * Batch - 1})

(* Element j of a vector: the document's next term, or pack_token(j, 0).   *)
PackedTerm(docs, d, j, row) ==
    IF row <= Len(Filtered(docs, d))
    THEN LET term == Filtered(docs, d)[row]
         IN  [token |-> term.token, count |-> Capped(term.count)]
    ELSE [token |-> j, count |-> 0]

(* doc_mem[channel] *)
DocMem(docs, c) ==
    FlattenSeq([b \in 1 .. SuperBatches(docs) |->
        [row \in 1 .. Rows(docs, b - 1) |->
            [j \in Lane |-> PackedTerm(docs, (b - 1) * Batch + c * Lanes + j, j, row)]]])

InstMem(docs) == [b \in 1 .. SuperBatches(docs) |-> Rows(docs, b - 1)]

(* doc_freq.bin, "token_id -> number of documents containing this token"   *)
DocFreq(docs) == [t \in 0 .. Vocab - 1 |->
    Cardinality({d \in DOMAIN docs : \E i \in DOMAIN docs[d] : docs[d][i].token = t})]

(* What fpga_retriever_setup hands to the card. *)
Image(docs) == [L |-> Padded(docs), inst |-> InstMem(docs), df |-> DocFreq(docs),
                doc |-> [c \in Channel |-> DocMem(docs, c)]]

--------------------------------------------------------------------------------
(* The kernel. *)

Idf(L, df) == L - 2 * df

(* Lane j of bm25_core for one packed term: the query's bit, and the       *)
(* frequency in the lane's own part of df_buf.                             *)
TermScore(image, query, j, term) ==
    IF term.token \in query
    THEN Idf(image.L, image.df[(term.token \div Lanes) * Lanes + j]) * term.count
    ELSE 0

(* The score merged at position p of the stream: of lane p % Lanes, the    *)
(* rows that the super-batch has in inst_mem, read one after the other.    *)
ScoreAt(image, query, p) ==
    LET b == p \div Batch
        vectors == image.doc[(p % Batch) \div Lanes]
        start == SumFunctionOnSet(image.inst, 1 .. b)
    IN  SumFunction([row \in 1 .. image.inst[b + 1] |->
            TermScore(image, query, p % Lanes, vectors[start + row][p % Lanes])])

Smallest(score, I) == {m \in I : \A i \in I : score[m] <= score[i]}

(* After the first TOP_K scores: the pack with the smallest is the first   *)
(* such, the comparator tree prefers the right one in it.                  *)
FirstMin(score) ==
    LET OfPack(r) == Max(Smallest(score, r * Lanes .. (r + 1) * Lanes - 1))
        mins == {OfPack(r) : r \in 0 .. Channels - 1}
    IN  Min(Smallest(score, mins))

(* A score that beats the smallest node takes its place; held is the       *)
(* position every node has, and min the node with the smallest score.      *)
OfferDoc(score, state, p) ==
    IF score[p] > score[state.held[state.min]]
    THEN LET held == [state.held EXCEPT ![state.min] = p]
             value == [n \in DOMAIN held |-> score[held[n]]]
         IN  [held |-> held, min |-> Max(Smallest(value, DOMAIN held))]
    ELSE state

(* topk_parallel_cmp: the ids in the order of the nodes, TOP_K = Batch. *)
TopKIds(image, query) ==
    LET score == [p \in 0 .. image.L - 1 |-> ScoreAt(image, query, p)]
        first == [held |-> [n \in 0 .. Batch - 1 |-> n], min |-> FirstMin(score)]
        state[i \in 0 .. image.L - Batch] ==
            IF i = 0 THEN first ELSE OfferDoc(score, state[i - 1], Batch + i - 1)
    IN  [n \in 1 .. Batch |-> state[image.L - Batch].held[n - 1]]

--------------------------------------------------------------------------------
(* indexer_top_ref: the score of a document, from its terms alone. *)
Reference(docs, query, d) ==
    LET doc == docs[d + 1]
        Of(term) ==
            IF Keeps(d % Lanes, term.token) /\ term.token \in query
            THEN Idf(Padded(docs), DocFreq(docs)[term.token]) * Capped(term.count)
            ELSE 0
    IN  SumFunction([i \in DOMAIN doc |-> Of(doc[i])])

(* A padded document has no terms. *)
Expected(docs, query, p) == IF p < Len(docs) THEN Reference(docs, query, p) ELSE 0
================================================================================
