------------------------------ MODULE EngramKernel -----------------------------
(***************************************************************************)
(* kernels/deepseek_engram/engram.h: token ids are hashed with the one and *)
(* two tokens before them, the hashes of every head look up an embedding,  *)
(* and a chain of projections, each with its slice of the weights, sums    *)
(* them up for two tokens at a time.                                       *)
(*                                                                         *)
(* A hash is named by the tokens it mixes, 0 for pad_id; an embedding by   *)
(* its channel, its hash and the vector of it; a partial sum <<p, r>> by   *)
(* the pair of tokens and the block of rows.                               *)
(***************************************************************************)
EXTENDS Streams

CONSTANTS Channels,     \* KV_WEIGHT_CHANNELS
          EmbedVecs,    \* EMBED_DIM_DIV_16
          WeightVecs,   \* KV_WEIGHT_VECS_PER_CHANNEL
          RowBlocks     \* KV_PROJ_ROWS_DIV_16

EngramAssumption == {Channels, EmbedVecs, WeightVecs, RowBlocks} \subseteq Nat \ {0}

Channel == 1 .. Channels
Pairs(L) == (L + 1) \div 2   \* iterations of for (t = 0; t < L; t += 2)

ReadTokenIds(L) == Loop(L, LAMBDA t : W(<<"token_id", 0>>, <<t>>))

(* shift_0, shift_1, shift_2 after token t has come in. *)
Shifts[t \in Nat] ==
    IF t = 0 THEN <<0, 0, 0>> ELSE LET s == Shifts[t - 1] IN <<t, s[1], s[2]>>

NgramHash(L) == Loop(L, LAMBDA t :
    R(<<"token_id", 0>>, <<t>>) \o W(<<"ngram_id", 0>>, Shifts[t]))

(* The n tokens up to t, pad_id before the first. *)
Window(t, n) == [i \in 1 .. n |-> IF t >= i THEN t - i + 1 ELSE 0]

(* The first half of the ids are the heads' 2-grams, the second the 3-grams. *)
DispatchHashIds(L) == Loop(L, LAMBDA t :
    R(<<"ngram_id", 0>>, Window(t, 3))
    \o Loop(Channels, LAMBDA h :
           W(<<"lo_head_id", h>>, Window(t, 2)) \o W(<<"hi_head_id", h>>, Window(t, 3))))

ReadHeadEmbed(ids, embed, h, n, L) == Loop(L, LAMBDA t :
    R(<<ids, h>>, Window(t, n))
    \o Loop(EmbedVecs, LAMBDA i : W(<<embed, h>>, <<h>> \o Window(t, n) \o <<i>>)))

ReadKvProjWeights(h) == Loop(WeightVecs, LAMBDA i : W(<<"kv_weight", h>>, <<i>>))

(* "One combined element per rb per 2-token batch" *)
SeedChainZero(L) == Loop(Pairs(L), LAMBDA p :
    Loop(RowBlocks, LAMBDA r : W(<<"kv_chain", 0>>, <<p, r>>)))

(* The embedding of token t into embed_buf, 2-gram and 3-gram half. *)
LoadToken(h, t) ==
    Loop(EmbedVecs, LAMBDA i : R(<<"embed_lo", h>>, <<h>> \o Window(t, 2) \o <<i>>))
    \o Loop(EmbedVecs, LAMBDA i : R(<<"embed_hi", h>>, <<h>> \o Window(t, 3) \o <<i>>))

KvProjection(h, L) ==
    Loop(WeightVecs, LAMBDA i : R(<<"kv_weight", h>>, <<i>>))
    \o Loop(Pairs(L), LAMBDA p :
           LoadToken(h, 2 * p - 1) \o LoadToken(h, 2 * p)
           \o Loop(RowBlocks, LAMBDA r :
                  R(<<"kv_chain", h - 1>>, <<p, r>>) \o W(<<"kv_chain", h>>, <<p, r>>)))

(* Element i of the chain, counted over all pairs. *)
PairAndRow(i) == <<((i - 1) \div RowBlocks) + 1, ((i - 1) % RowBlocks) + 1>>

AccToFloat(L) == Loop((L * RowBlocks) \div 2, LAMBDA i :
    R(<<"kv_chain", Channels>>, PairAndRow(i))
    \o W(<<"kv_float", 1>>, PairAndRow(i)) \o W(<<"kv_float", 2>>, PairAndRow(i)))

WriteKvOutput(k, L) ==
    Loop((L \div 2) * RowBlocks, LAMBDA i : R(<<"kv_float", k>>, PairAndRow(i)))

Task == ({"read_token_ids", "ngram_hash", "dispatch", "seed", "acc_to_float"} \X {0})
        \cup ({"embed_lo", "embed_hi", "read_weights", "kv_projection"} \X Channel)
        \cup ({"write_kv_output"} \X {1, 2})

Script(L) == [k \in Task |->
    LET h == k[2] IN
    CASE k[1] = "read_token_ids"  -> ReadTokenIds(L)
      [] k[1] = "ngram_hash"      -> NgramHash(L)
      [] k[1] = "dispatch"        -> DispatchHashIds(L)
      [] k[1] = "embed_lo"        -> ReadHeadEmbed("lo_head_id", "embed_lo", h, 2, L)
      [] k[1] = "embed_hi"        -> ReadHeadEmbed("hi_head_id", "embed_hi", h, 3, L)
      [] k[1] = "read_weights"    -> ReadKvProjWeights(h)
      [] k[1] = "seed"            -> SeedChainZero(L)
      [] k[1] = "kv_projection"   -> KvProjection(h, L)
      [] k[1] = "acc_to_float"    -> AccToFloat(L)
      [] k[1] = "write_kv_output" -> WriteKvOutput(h, L)]

Depth == [c \in ({"token_id", "ngram_id"} \X {0}) \cup ({"kv_chain"} \X (0 .. Channels))
             \cup ({"lo_head_id", "hi_head_id", "embed_lo", "embed_hi", "kv_weight"} \X Channel)
             \cup ({"kv_float"} \X {1, 2}) |-> 2]
================================================================================
