------------------------------ MODULE FrontendSteps -----------------------------
(***************************************************************************)
(* The four steps of paged attention in the frontend (dev/steps), as a     *)
(* caller of execute drives them: PagedKVIndexBuilder averages the keys of *)
(* every page, InnerProductCompute scores the averages, TopKRetrieval and  *)
(* ThresholdRetrieval select pages, BlockSparseAttention attends to the    *)
(* tokens of the selected pages.  The caller keeps the objects between the *)
(* calls, may repeat or leave out a step, and change the KV cache.         *)
(*                                                                         *)
(* The key of a token is its product with the query, which stays the same. *)
(* A functional test takes the object that is passed as the ground truth.  *)
(* The steps run as CPU kernels: those for the GPU and the FPGA say that   *)
(* they are not implemented and leave everything as it is.                 *)
(***************************************************************************)
EXTENDS Integers, Sequences, FiniteSets, FiniteSetsExt, SequencesExt, Functions

CONSTANTS
    Keys,            \* products of keys with the query
    MaxTokens,       \* bound: tokens in the KV cache
    MaxCaches,       \* bound: how often the KV cache changes
    TokensPerPage,   \* page_size_ of builder and attention
    BestK,           \* k_ of TopKRetrieval
    Threshold,       \* threshold_ of ThresholdRetrieval, of a page's average
    WordBits,        \* bits of a word of the bitmap: 64
    HeadDim,         \* size of query and output
    Tests            \* steps it tests

StepsAssumption ==
    /\ Keys \subseteq Nat /\ {MaxTokens, MaxCaches} \subseteq Nat /\ Threshold \in Nat
    /\ {TokensPerPage, BestK, WordBits, HeadDim} \subseteq Nat \ {0}
    /\ Tests \subseteq {"build", "score", "topk", "bitmap", "apply"}

VARIABLES
    keys,        \* of the KV cache
    caches,      \* how often it changed
    page_memory,      \* FlatIndexMemory: its data, and num_entries_
    page_score, index,
    bitmap,      \* ThresholdBitmapIndex: words, total_length_, selected_indices_
    output,      \* VectorInputOutputData: its data, and vector_size_
    attended,    \* the tokens the data of output is of
    source,      \* history: what the data of each object was computed from
    lied         \* steps a test of which took something else for the truth

objects == <<page_memory, page_score, index, bitmap, output, attended>>
steps_vars == <<keys, caches, objects, source, lied>>

--------------------------------------------------------------------------------
(* The kernels *)

(* Averages are multiples of 1 / Scale. *)
Factorial[n \in Nat] == IF n = 0 THEN 1 ELSE n * Factorial[n - 1]
Scale == Factorial[TokensPerPage]

NumPages(ks) == (Len(ks) + TokensPerPage - 1) \div TokensPerPage

Smaller(a, b) == IF a < b THEN a ELSE b
PageTokens(page, length) == page * TokensPerPage .. Smaller(page * TokensPerPage + TokensPerPage, length) - 1

(* PagedKVIndexBuilder.  Tokens and pages count from 0. *)
Pooled(ks) ==
    [p \in 1 .. NumPages(ks) |->
        LET tokens == PageTokens(p - 1, Len(ks))
        IN  (SumFunction([t \in tokens |-> ks[t + 1]]) * Scale) \div Cardinality(tokens)]

(* What the step stores; with a weight that is empty, as a builder made    *)
(* without one has, or whose rows are not as long as a key, it warns,      *)
(* stores nothing and returns as if done.                                  *)
Built(ks, fits) == IF fits THEN Pooled(ks) ELSE <<>>

(* InnerProductCompute: an entry is its product with the query. *)
Scored(entries) == entries

WorstPages(scores) ==
    LET k == Smaller(BestK, Len(scores))
    IN  {s \in [1 .. k -> 0 .. Len(scores) - 1] :
            /\ IsInjective(s)
            /\ \A i, j \in 1 .. k : i < j => scores[s[i] + 1] <= scores[s[j] + 1]
            /\ \A i \in 1 .. k, p \in (0 .. Len(scores) - 1) \ Range(s) : scores[s[i] + 1] <= scores[p + 1]}

(* TopKRetrieval: partial_sort leaves equal scores in any order. *)
BestPages(scores) ==
    LET k == Smaller(BestK, Len(scores))
    IN  {s \in [1 .. k -> 0 .. Len(scores) - 1] :
            /\ IsInjective(s)
            /\ \A i, j \in 1 .. k : i < j => scores[s[i] + 1] >= scores[s[j] + 1]
            /\ \A i \in 1 .. k, p \in (0 .. Len(scores) - 1) \ Range(s) : scores[s[i] + 1] >= scores[p + 1]}

(* ThresholdRetrieval: bit i % 64 of word i / 64 *)
NumWordsFloor(n) == n \div WordBits
NumWords(n) == (n + WordBits - 1) \div WordBits
PageWords(scores) ==
    [w \in 1 .. NumWords(Len(scores)) |->
        {b \in 0 .. WordBits - 1 :
            LET i == (w - 1) * WordBits + b
            IN  i < Len(scores) /\ scores[i + 1] >= Threshold * Scale}]

(* The constructor of ThresholdBitmapIndex reads the indices off the words. *)
IsSet(words, i) == i \div WordBits < Len(words) /\ i % WordBits \in words[i \div WordBits + 1]
SelectedOf(words, total) ==
    LET selected[n \in 0 .. total] ==
            IF n = 0 THEN <<>>
            ELSE IF IsSet(words, n - 1) THEN Append(selected[n - 1], n - 1)
            ELSE selected[n - 1]
    IN  selected[total]

Bitmap(words, total) ==
    [words |-> words, total |-> total, selected |-> SelectedOf(words, total)]

(* BlockSparseAttention: the tokens of the selected blocks, as far as there *)
(* are any                                                                  *)
BlockEndUnclamped(block, length) == block * TokensPerPage + TokensPerPage
BlockEnd(block, length) == Smaller(block * TokensPerPage + TokensPerPage, length)
BlockTokens(block, length) ==
    LET first == block * TokensPerPage IN [j \in 1 .. BlockEnd(block, length) - first |-> first + j - 1]
Attended(blocks, length) == FlattenSeq([i \in DOMAIN blocks |-> BlockTokens(blocks[i], length)])

(* The weighted sum of their values; zero for no tokens. *)
Component(i, tokens) == <<i, tokens>>
Output(tokens) == [i \in 1 .. HeadDim |-> Component(i, tokens)]

--------------------------------------------------------------------------------
(* A constructor counts what it is given, set_data does not. *)
Counted(data) == [data |-> data, count |-> Len(data)]
SetData(object, data) == [object EXCEPT !.data = data]

StepsInit ==
    /\ keys \in BoundedSeq(Keys, MaxTokens) /\ caches = 0
    /\ page_memory = Counted(<<>>) /\ page_score = <<>> /\ index = <<>>
    /\ bitmap = Bitmap(<<>>, 0) /\ output = Counted(<<>>) /\ attended = <<>>
    /\ source = [build |-> [keys |-> <<>>, fits |-> TRUE], score |-> <<>>, topk |-> <<>>,
                 bitmap |-> <<>>, apply |-> <<<<>>, <<>>>>]
    /\ lied = {}

(* The caller's KV cache grows by a token, or is cut back. *)
NewCache ==
    /\ caches < MaxCaches /\ caches' = caches + 1
    /\ \/ Len(keys) < MaxTokens /\ \E key \in Keys : keys' = Append(keys, key)
       \/ \E n \in 0 .. Len(keys) - 1 : keys' = SubSeq(keys, 1, n)
    /\ UNCHANGED <<objects, source, lied>>

Ran(step, inputs) ==
    source' = [source EXCEPT ![step] = inputs] /\ UNCHANGED <<keys, caches>>

(* Does the weight of the builder that the caller passes fit the cache?    *)
BuildPages ==
    \E fits \in BOOLEAN :
        /\ page_memory' = SetData(page_memory, Built(keys, fits))
        /\ Ran("build", [keys |-> keys, fits |-> fits])
        /\ UNCHANGED <<page_score, index, bitmap, output, attended, lied>>

Score ==
    /\ page_score' = Scored(page_memory.data)
    /\ Ran("score", page_memory.data)
    /\ UNCHANGED <<page_memory, index, bitmap, output, attended, lied>>

RetrieveTopK ==
    /\ index' \in BestPages(page_score)
    /\ Ran("topk", page_score)
    /\ UNCHANGED <<page_memory, page_score, bitmap, output, attended, lied>>

RetrieveThreshold ==
    /\ bitmap' = Bitmap(PageWords(page_score), Len(page_score))
    /\ Ran("bitmap", page_score)
    /\ UNCHANGED <<page_memory, page_score, index, output, attended, lied>>

Apply ==
    /\ attended' = Attended(index, Len(keys))
    /\ output' = SetData(output, Output(attended'))
    /\ Ran("apply", <<index, keys>>)
    /\ UNCHANGED <<page_memory, page_score, index, bitmap, lied>>

Execute == BuildPages \/ Score \/ RetrieveTopK \/ RetrieveThreshold \/ Apply

--------------------------------------------------------------------------------
(* What a caller may take for the truth: the right data, too few, too many *)
(* or wrong ones.                                                          *)
Guesses(data, wrong) ==
    {data, Append(data, wrong)} \cup
    (IF data = <<>> THEN {} ELSE {Front(data), [data EXCEPT ![1] = wrong]})

(* is_equal of FlatIndexMemory and VectorInputOutputData compares as many  *)
(* elements as the counts say.  Behind the end of the data it finds        *)
(* anything.                                                               *)
CountsEqual(a, b) ==
    LET n == Smaller(a.count, Smaller(Len(a.data), Len(b.data)))
    IN  IF a.count # b.count \/ \E i \in 1 .. n : a.data[i] # b.data[i] THEN {FALSE}
        ELSE IF n < a.count THEN BOOLEAN ELSE {TRUE}

(* That of VectorScore, TopKIndex and ThresholdBitmapIndex compares sizes  *)
(* and elements of the data.                                               *)
DataEqual(a, b) == Len(a) = Len(b) /\ \A i \in DOMAIN a : a[i] = b[i]

(* execute returns 0 if they are equal. *)
Tell(step, equal, right) == lied' = IF equal = right THEN lied ELSE lied \cup {step}

TestBuild ==
    \E fits \in BOOLEAN : \E truth \in Guesses(Built(keys, fits), Scale * (1 + Max(Keys))) :
        LET original == Counted(truth)
        IN  /\ page_memory' = SetData(original, Built(keys, fits))
            /\ \E equal \in CountsEqual(page_memory', original) : Tell("build", equal, page_memory'.data = truth)
            /\ Ran("build", [keys |-> keys, fits |-> fits])
            /\ UNCHANGED <<page_score, index, bitmap, output, attended>>

TestScore ==
    \E truth \in Guesses(Scored(page_memory.data), Scale * (1 + Max(Keys))) :
        /\ page_score' = Scored(page_memory.data)
        /\ Tell("score", DataEqual(page_score', truth), page_score' = truth)
        /\ Ran("score", page_memory.data)
        /\ UNCHANGED <<page_memory, index, bitmap, output, attended>>

TestTopK ==
    \E right \in BestPages(page_score) : \E truth \in Guesses(right, Len(page_score)) :
        /\ index' = right
        /\ Tell("topk", DataEqual(index', truth), index' = truth)
        /\ Ran("topk", page_score)
        /\ UNCHANGED <<page_memory, page_score, bitmap, output, attended>>

TestThreshold ==
    LET right == Bitmap(PageWords(page_score), Len(page_score))
    IN  \E truth \in Guesses(right.words, 0 .. WordBits) :
            /\ bitmap' = right
            /\ Tell("bitmap", DataEqual(bitmap'.words, truth), bitmap'.words = truth)
            /\ Ran("bitmap", page_score)
            /\ UNCHANGED <<page_memory, page_score, index, output, attended>>

TestApply ==
    LET tokens == Attended(index, Len(keys))
    IN  \E truth \in Guesses(Output(tokens), Component(0, <<>>)) :
            LET original == Counted(truth)
            IN  /\ attended' = tokens
                /\ output' = SetData(original, Output(tokens))
                /\ \E equal \in CountsEqual(output', original) : Tell("apply", equal, output'.data = truth)
                /\ Ran("apply", <<index, keys>>)
                /\ UNCHANGED <<page_memory, page_score, index, bitmap>>

Test ==
    \/ "build" \in Tests /\ TestBuild
    \/ "score" \in Tests /\ TestScore
    \/ "topk" \in Tests /\ TestTopK
    \/ "bitmap" \in Tests /\ TestThreshold
    \/ "apply" \in Tests /\ TestApply

StepsNext == NewCache \/ Execute \/ Test

StepsSpec == StepsInit /\ [][StepsNext]_steps_vars

--------------------------------------------------------------------------------
(* The keys of page p, as attention pages the cache *)
PageKeys(p) == {t \in 0 .. Len(keys) - 1 : t \div TokensPerPage = p}
BetterPage(p, q) ==
    SumFunction([t \in PageKeys(p) |-> keys[t + 1]]) * Cardinality(PageKeys(q))
        >= SumFunction([t \in PageKeys(q) |-> keys[t + 1]]) * Cardinality(PageKeys(p))

(* Nothing changed between the steps that led to the output. *)
Chained ==
    /\ source.build.keys = keys /\ source.score = page_memory.data /\ source.topk = page_score
    /\ source.apply = <<index, keys>>

(* Attention takes, each once, all tokens of as many pages as there are up *)
(* to BestK, and no page left out has better keys on average: also when the *)
(* last page is not full.  Builder and attention page the cache each for   *)
(* itself, in different types.  After a builder whose weight does not fit  *)
(* it takes no token at all, however many steps said they were done.       *)
AttendsBestPages ==
    Chained =>
        LET pages == {t \div TokensPerPage : t \in Range(attended)}
            all == IF source.build.fits THEN {t \div TokensPerPage : t \in 0 .. Len(keys) - 1} ELSE {}
        IN  /\ IsInjective(attended)
            /\ Range(attended) = UNION {PageKeys(p) : p \in pages}
            /\ Cardinality(pages) = Smaller(BestK, Cardinality(all))
            /\ \A p \in pages, q \in all \ pages : BetterPage(p, q)

(* An index that is older than the cache names pages that may not be there *)
(* any more, or not be full: attention never leaves the cache.             *)
InsideCache ==
    \A i \in DOMAIN attended : attended[i] \in 0 .. Len(source.apply[2]) - 1

(* The indices read off the bitmap are the pages with an average of the    *)
(* threshold or more, whatever the words they lie in.                      *)
BitmapSelects ==
    Range(bitmap.selected) = {i \in 0 .. Len(source.bitmap) - 1 : source.bitmap[i + 1] >= Threshold * Scale}

(* "result == 0 means test passed": a functional test passes when the step *)
(* computes the ground truth it was passed, and only then.                 *)
TestsTell == lied = {}
================================================================================
