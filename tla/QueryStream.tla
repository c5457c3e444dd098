------------------------------ MODULE QueryStream ------------------------------
(***************************************************************************)
(* What the LServe and SeerAttention indexers share: every channel streams *)
(* the past keys, then a query and its new key for each query in turn, and *)
(* the scores of a query come in rounds of one block of keys, as many as   *)
(* cover the keys up to the query's own.                                   *)
(*                                                                         *)
(* A vector of memory is named <<0, p>> (past keys) or <<q, v>> (query q,  *)
(* its own vectors first, then its new key's); a pack of scores <<q, p>>.  *)
(***************************************************************************)
EXTENDS Streams

CONSTANTS Channels,   \* the channels of qk_vec_mem
          KeyVecs,    \* vectors of memory to a key: HEAD_DIM >> 5
          Lane,       \* lanes of a vector
          Packs,      \* packs of scores to a round, of Lane keys each
          Share,      \* queries that share a new key
          KPacks      \* TOP_K >> 4

QueryStreamAssumption ==
    {Channels, KeyVecs, Lane, Packs, Share, KPacks} \subseteq Nat \ {0}

Channel == 1 .. Channels
Round == Lane * Packs

(* The rounds of query q, counted from 1, on L past keys per channel. *)
Rounds(L, q) == (L + (q - 1) \div Share + Round) \div Round

(* "all past keys, q0, k0, q1, k0, ..., q7, k0, q8, k1" *)
Vector(L, p) ==
    LET beyond == p - 1 - L * KeyVecs
    IN  IF p <= L * KeyVecs THEN <<0, p>>
        ELSE <<(beyond \div (2 * KeyVecs)) + 1, (beyond % (2 * KeyVecs)) + 1>>

(* Packs of scores of all queries, in the order the rounds make them. *)
EachRound(L, nq, Body(_, _)) ==
    Loop(nq, LAMBDA q : Loop(Rounds(L, q), LAMBDA n : Body(q, n)))
RoundPacks(n, Body(_)) == Loop(Packs, LAMBDA i : Body((n - 1) * Packs + i))

(* Every channel's own task of a kind, and the tasks there is one of. *)
PerChannel(names) == names \X Channel
Single(names) == names \X {0}
================================================================================
