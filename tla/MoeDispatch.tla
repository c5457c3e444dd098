------------------------------ MODULE MoeDispatch ------------------------------
(***************************************************************************)
(* dispatch_core of kernels/moe/moe_batch_16b.cpp: the scheduler of the    *)
(* batched MoE kernel.  Tokens arrive in tiles of N_TILE_MAX, each with    *)
(* the LOCAL_K experts of this card the gate picked for it.  Every routing *)
(* (token, expert) is pushed on the expert's stack in the pending bank.    *)
(* Then rounds: the NSlots fullest experts are given to the compute slots, *)
(* up to TOKEN_LANES tokens each, until the bank is empty; a round's       *)
(* header goes to every slot, followed by the x beats of its lanes.  After *)
(* the last tile one sentinel header stops the slots.                      *)
(*                                                                         *)
(* The output FIFOs are bounded; whoever reads them is the environment     *)
(* here (TakeHdr, TakeX) and the slots of MoeBatchKernel there.  A routing *)
(* weight travels at the same index as its token and is left out.          *)
(***************************************************************************)
EXTENDS Integers, Sequences, FiniteSets

CONSTANTS
    N,               \* tokens of the invocation
    NTileMax,        \* N_TILE_MAX, tokens of a tile
    LocalExperts,    \* LOCAL_EXPERTS, experts resident on this card
    LocalK,          \* LOCAL_K, experts of this card per token
    NSlots,          \* N_PARALLEL_SLOTS
    TokenLanes,      \* TOKEN_LANES, tokens a slot takes in a round
    HiddenVecs,      \* HIDDEN_VECS, beats of one token's x
    TopK,            \* TOP_K, depth of an expert's stack
    CountMod,        \* 2^4: the pending counters are ap_uint<4>
    LocalExpertBase, \* global id of this card's first expert
    HdrDepth,        \* depth of the hdr_to_xsplit FIFOs
    XDepth           \* depth of the x_to_xsplit FIFOs

ASSUME DispatchAssumption ==
    /\ N \in Nat
    /\ {NTileMax, LocalExperts, LocalK, NSlots, TokenLanes, HiddenVecs,
        TopK, CountMod, HdrDepth, XDepth} \subseteq Nat \ {0}
    /\ LocalExpertBase \in {0, LocalExperts}
    /\ NTileMax <= TopK
    /\ NTileMax < CountMod

Experts == 0 .. LocalExperts - 1
Slots   == 0 .. NSlots - 1
Lanes   == 0 .. TokenLanes - 1
Tokens  == 0 .. NTileMax - 1
Depths  == 0 .. TopK - 1
Zero    == -1        \* the all-zero beat that follows the sentinel

VARIABLES
    pc,        \* where dispatch_core is
    tile_base, \* first token of the current tile
    t,         \* tokens of the tile ingested so far
    pending_token, pending_count, \* the pending bank: a stack per expert
    x_cache,   \* token whose x each row of the tile cache holds
    hdr,       \* the headers built for the current round
    lane, vec, \* position in the x stream of the round
    hdr_out,   \* hdr_to_xsplit, a FIFO per slot
    x_out,     \* x_to_xsplit, a FIFO per slot
    routed,    \* history: routings of the tile
    sent,      \* history: routings of the tile written to a slot
    rounds     \* history: rounds of the tile

bank  == <<pending_token, pending_count>>
fifos == <<hdr_out, x_out>>
hist  == <<routed, sent, rounds>>
dvars == <<pc, tile_base, t, bank, x_cache, hdr, lane, vec, fifos, hist>>

TileNUnclamped == N - tile_base

(* tile_n: a full tile, or what is left of the N tokens. *)
TileN == IF N - tile_base < NTileMax THEN N - tile_base ELSE NTileMax

(* The gate picks LOCAL_K distinct experts of this card, by global id. *)
CardExperts == LocalExpertBase .. LocalExpertBase + LocalExperts - 1
Packets == {P \in SUBSET CardExperts : Cardinality(P) = LocalK}

(* The rows of the pending bank the ids of a packet reach.  Ids beyond the *)
(* arrays are undefined behaviour: the access is lost, or the address      *)
(* wraps to the bank's width.                                              *)
Rows(pkt) == IF pkt \subseteq Experts
             THEN {pkt}
             ELSE {{}, {e % LocalExperts : e \in pkt}}

NoTokens == [l \in Lanes |-> 0]
FillerIdle(d) == [toks |-> NoTokens, cnt |-> 0, act |-> FALSE, last |-> FALSE,
                  done |-> d, trig |-> -1]

(* The header of a slot without an expert still names row 0: its weight    *)
(* loaders stream for every trigger but the sentinel's.                    *)
Filler(d) == [toks |-> NoTokens, cnt |-> 0, act |-> FALSE, last |-> FALSE,
              done |-> d, trig |-> 0]
Sentinel == [toks |-> NoTokens, cnt |-> 0, act |-> FALSE, last |-> TRUE,
             done |-> FALSE, trig |-> -1]

DInit ==
    /\ pc = "tile" /\ tile_base = 0 /\ t = 0
    /\ pending_token = [e \in Experts |-> [i \in Depths |-> 0]]
    /\ pending_count = [e \in Experts |-> 0]
    /\ x_cache = [k \in Tokens |-> 0]
    /\ hdr = [s \in Slots |-> Filler(FALSE)]
    /\ lane = 0 /\ vec = 0
    /\ hdr_out = [s \in Slots |-> <<>>]
    /\ x_out = [s \in Slots |-> <<>>]
    /\ routed = {} /\ sent = {} /\ rounds = 0

--------------------------------------------------------------------------------
(* Phase 1 of a tile: clear the bank, ingest the tokens. *)

StartTile ==
    /\ pc = "tile" /\ tile_base < N
    /\ pc' = "ingest" /\ t' = 0
    /\ pending_count' = [e \in Experts |-> 0]
    /\ routed' = {} /\ sent' = {} /\ rounds' = 0
    /\ UNCHANGED <<tile_base, pending_token, x_cache, hdr, lane, vec, fifos>>

Ingest(pkt, rows) ==
    /\ pc = "ingest" /\ t < TileN
    /\ x_cache' = [x_cache EXCEPT ![t] = tile_base + t]
    /\ pending_token' = [e \in Experts |->
           IF e \in rows THEN [pending_token[e] EXCEPT ![pending_count[e]] = t]
                         ELSE pending_token[e]]
    /\ pending_count' = [e \in Experts |->
           IF e \in rows THEN (pending_count[e] + 1) % CountMod
                         ELSE pending_count[e]]
    /\ routed' = routed \cup ({t} \X {e - LocalExpertBase : e \in pkt})
    /\ t' = t + 1
    /\ UNCHANGED <<pc, tile_base, hdr, lane, vec, fifos, sent, rounds>>

(* The tile is in: rounds follow if anything is pending. *)
Scan ==
    /\ pc = "ingest" /\ t >= TileN
    /\ LET any_pending == \E e \in Experts : pending_count[e] # 0
       IN  /\ pc' = IF any_pending THEN "round" ELSE "tile"
           /\ tile_base' = IF any_pending THEN tile_base ELSE tile_base + NTileMax
    /\ UNCHANGED <<t, bank, x_cache, hdr, lane, vec, fifos, hist>>

--------------------------------------------------------------------------------
(* Phase 2: rounds. *)

(* Argmax order: more pending tokens first, the lower id on a tie. *)
Ahead(d, e) == \/ pending_count[d] > pending_count[e]
               \/ pending_count[d] = pending_count[e] /\ d < e
Rank(e) == Cardinality({d \in Experts : Ahead(d, e)})

FoundUnmasked(s) == {e \in Experts : pending_count[e] # 0 /\ Rank(e) = 0}

(* The expert argmax pass s finds: a set of one expert, or empty. *)
Found(s) == {e \in Experts : pending_count[e] # 0 /\ Rank(e) = s}
Chosen(s) == CHOOSE e \in Found(s) : TRUE

PoppedOne(e) == IF pending_count[e] >= 1 THEN 1 ELSE 0

(* Tokens a slot takes from its expert in a round. *)
Popped(e) == IF pending_count[e] >= TokenLanes THEN TokenLanes ELSE pending_count[e]

PopIndexFromBottom(have, l) == l

(* Lane l takes the l-th token from the top of the stack. *)
PopIndex(have, l) == have - (l + 1)

Scheduled(e) == \E s \in Slots : Found(s) # {} /\ e = Chosen(s)

Remaining == [e \in Experts |->
    IF Scheduled(e) THEN pending_count[e] - Popped(e) ELSE pending_count[e]]

TileDoneBeforeLast == Cardinality({e \in Experts : Remaining[e] # 0}) <= 1

(* tile_done: this round empties the bank. *)
TileDone == \A e \in Experts : Remaining[e] = 0

SlotHdr(s, tile_done) ==
    IF Found(s) = {} THEN Filler(tile_done)
    ELSE LET e == Chosen(s)
             have == pending_count[e]
         IN  [toks |-> [l \in Lanes |-> IF l < Popped(e)
                                        THEN pending_token[e][PopIndex(have, l)]
                                        ELSE 0],
              cnt |-> Popped(e), act |-> TRUE, last |-> FALSE,
              done |-> tile_done, trig |-> e - LocalExpertBase]

BuildRound ==
    /\ pc = "round"
    /\ pending_count' = Remaining
    /\ hdr' = [s \in Slots |-> SlotHdr(s, TileDone)]
    /\ rounds' = rounds + 1
    /\ pc' = "hdr"
    /\ UNCHANGED <<tile_base, t, pending_token, x_cache, lane, vec, fifos,
                   routed, sent>>

(* The routings the built headers carry. *)
InHdr == UNION {{<<hdr[s].toks[l], hdr[s].trig>> : l \in {k \in Lanes : k < hdr[s].cnt}} :
                  s \in Slots}

(* The writes to the NSlots FIFOs are unrolled in hardware: they go        *)
(* together, once every FIFO has room.                                     *)
HdrRoom == \A s \in Slots : Len(hdr_out[s]) < HdrDepth
XRoom   == \A s \in Slots : Len(x_out[s]) < XDepth

EmitHdr ==
    /\ pc = "hdr" /\ HdrRoom
    /\ hdr_out' = [s \in Slots |-> Append(hdr_out[s], hdr[s])]
    /\ sent' = sent \cup InHdr
    /\ pc' = "x" /\ lane' = 0 /\ vec' = 0
    /\ UNCHANGED <<tile_base, t, bank, x_cache, hdr, x_out, routed, rounds>>

(* One beat of x for one lane of every slot; a lane without a token gets   *)
(* the x of the tile's token 0.                                            *)
LaneToken(s) == IF lane < hdr[s].cnt THEN hdr[s].toks[lane] ELSE 0

NextBeatNoReset == vec' = vec + 1 /\ lane' = IF vec + 1 < HiddenVecs THEN lane ELSE lane + 1

NextBeat ==
    IF vec + 1 < HiddenVecs THEN vec' = vec + 1 /\ UNCHANGED lane
                            ELSE vec' = 0 /\ lane' = lane + 1
LastBeat == lane = TokenLanes - 1 /\ vec = HiddenVecs - 1

StreamX ==
    /\ pc = "x" /\ lane < TokenLanes /\ XRoom
    /\ x_out' = [s \in Slots |-> Append(x_out[s], x_cache[LaneToken(s)])]
    /\ NextBeat
    /\ \/ /\ ~LastBeat
          /\ UNCHANGED <<pc, tile_base>>
       \/ /\ LastBeat /\ ~hdr[0].done
          /\ pc' = "round" /\ UNCHANGED tile_base
       \/ /\ LastBeat /\ hdr[0].done
          /\ pc' = "tile" /\ tile_base' = tile_base + NTileMax
    /\ UNCHANGED <<t, bank, x_cache, hdr, hdr_out, hist>>

--------------------------------------------------------------------------------
(* After the last tile: one sentinel header and its zero beats per slot. *)

EmitSentinel ==
    /\ pc = "tile" /\ tile_base >= N /\ HdrRoom
    /\ hdr_out' = [s \in Slots |-> Append(hdr_out[s], Sentinel)]
    /\ pc' = "drain" /\ lane' = 0 /\ vec' = 0
    /\ UNCHANGED <<tile_base, t, bank, x_cache, hdr, x_out, hist>>

StreamZero ==
    /\ pc = "drain" /\ lane < TokenLanes /\ XRoom
    /\ x_out' = [s \in Slots |-> Append(x_out[s], Zero)]
    /\ NextBeat
    /\ pc' = IF LastBeat THEN "done" ELSE pc
    /\ UNCHANGED <<tile_base, t, bank, x_cache, hdr, hdr_out, hist>>

Dispatch ==
    \/ StartTile
    \/ \E pkt \in Packets : \E rows \in Rows(pkt) : Ingest(pkt, rows)
    \/ Scan
    \/ BuildRound
    \/ EmitHdr
    \/ StreamX
    \/ EmitSentinel
    \/ StreamZero

(* The readers of the two FIFOs of a slot. *)
TakeHdr(s) ==
    /\ hdr_out[s] # <<>>
    /\ hdr_out' = [hdr_out EXCEPT ![s] = Tail(@)]
    /\ UNCHANGED <<pc, tile_base, t, bank, x_cache, hdr, lane, vec, x_out, hist>>

TakeX(s) ==
    /\ x_out[s] # <<>>
    /\ x_out' = [x_out EXCEPT ![s] = Tail(@)]
    /\ UNCHANGED <<pc, tile_base, t, bank, x_cache, hdr, lane, vec, hdr_out, hist>>

(* The kernel is over when everything is written and read. *)
Finished ==
    /\ pc = "done" /\ \A s \in Slots : hdr_out[s] = <<>> /\ x_out[s] = <<>>
    /\ UNCHANGED dvars

DNext == Dispatch \/ (\E s \in Slots : TakeHdr(s) \/ TakeX(s)) \/ Finished

DSpec == DInit /\ [][DNext]_dvars

(* TAPA runs every task until it returns: none is suspended for ever. *)
DFairSpec ==
    /\ DSpec
    /\ WF_dvars(Dispatch)
    /\ \A s \in Slots : WF_dvars(TakeHdr(s)) /\ WF_dvars(TakeX(s))

--------------------------------------------------------------------------------
Hdrs == [toks : [Lanes -> Tokens], cnt : 0 .. TokenLanes, act : BOOLEAN,
         last : BOOLEAN, done : BOOLEAN, trig : Int]

(* Types of every variable (dispatch_core's locals and its FIFOs). *)
TypeOK ==
    /\ pc \in {"tile", "ingest", "round", "hdr", "x", "drain", "done"}
    /\ tile_base \in Nat
    /\ t \in 0 .. NTileMax
    /\ pending_token \in [Experts -> [Depths -> Tokens]]
    /\ pending_count \in [Experts -> 0 .. CountMod - 1]
    /\ x_cache \in [Tokens -> Nat]
    /\ hdr \in [Slots -> Hdrs]
    /\ lane \in 0 .. TokenLanes /\ vec \in 0 .. HiddenVecs - 1
    /\ hdr_out \in [Slots -> Seq(Hdrs)]
    /\ x_out \in [Slots -> Seq(Nat \cup {Zero})]
    /\ routed \subseteq Tokens \X Experts
    /\ sent \subseteq Tokens \X Int
    /\ rounds \in Nat

(* The routings still in the pending bank. *)
Pending == {r \in Tokens \X Experts :
               \E i \in Depths : i < pending_count[r[2]] /\ pending_token[r[2]][i] = r[1]}
Unsent == IF pc = "hdr" THEN InHdr ELSE {}

(* An expert's stack never holds more tokens than the tile has ingested:   *)
(* the ap_uint<4> counter does not wrap and index c of                     *)
(* pending_token[eid][c] stays inside the TOP_K deep array, although       *)
(* TOP_K is not the constant that bounds a tile.                           *)
StackBound == \A e \in Experts : pending_count[e] <= t /\ pending_count[e] <= TopK

(* Between ingest and the slots no routing is lost, invented or doubled,   *)
(* across pushes, the pop from the top of the stacks and the rounds.       *)
Conservation ==
    /\ routed = Pending \cup Unsent \cup sent
    /\ Pending \cap Unsent = {}
    /\ Pending \cap sent = {}
    /\ Unsent \cap sent = {}

(* Two lanes of one round never carry the same routing.                    *)
LanesDistinct ==
    pc = "hdr" =>
        \A s1, s2 \in Slots : \A l1, l2 \in Lanes :
            (/\ l1 < hdr[s1].cnt /\ l2 < hdr[s2].cnt
             /\ hdr[s1].toks[l1] = hdr[s2].toks[l2]
             /\ hdr[s1].trig = hdr[s2].trig)
            => s1 = s2 /\ l1 = l2

(* A tile is left, and the sentinel sent, only after every routing of its  *)
(* tokens has been written to a slot (tile_done is computed before the     *)
(* headers of the round it describes are emitted).                         *)
AllDispatched == pc \in {"tile", "drain", "done"} => sent = routed

(* The bank's shape: a stack holds distinct tokens of the tile so far, the *)
(* bank is empty between tiles, and the built headers say truly whether    *)
(* they empty it.                                                          *)
StackShape ==
    \A e \in Experts : \A i \in Depths :
        i < pending_count[e] =>
            /\ pending_token[e][i] < t
            /\ \A j \in Depths : j < i => pending_token[e][i] # pending_token[e][j]
RoutedBelow == \A r \in routed : r[1] < t
EmptyBank == pc \in {"tile", "drain", "done"} => \A e \in Experts : pending_count[e] = 0
HdrDone == pc \in {"hdr", "x"} =>
               (hdr[0].done <=> \A e \in Experts : pending_count[e] = 0)

(* The inductive invariant behind the safety properties above.             *)
IInv == /\ TypeOK /\ StackBound /\ StackShape /\ RoutedBelow
        /\ EmptyBank /\ HdrDone /\ Conservation /\ LanesDistinct

(* A tile of n tokens takes at most n rounds, however the gate spreads its *)
(* routings (moe_batch_16b.h:41, "Round count <= 8", and the trip count of *)
(* the round loop).                                                        *)
RoundBound == rounds <= t

(* The stacks that are left fit the rounds that are left: none is higher,  *)
(* and they hold no more than the slots can take.                          *)
Cells == {c \in Experts \X Tokens : c[2] < pending_count[c[1]]}
RoundsFit ==
    pc \in {"ingest", "round", "hdr", "x"} =>
        /\ \A e \in Experts : pending_count[e] <= t - rounds
        /\ Cardinality(Cells) <= NSlots * (t - rounds)
RoundInv ==
    /\ RoundBound /\ RoundsFit /\ HdrDone
    /\ pc = "ingest" => rounds = 0
    /\ pc = "round" => \E e \in Experts : pending_count[e] # 0

Promise == INSTANCE RoutingDelivery WITH Token <- Tokens, Expert <- Experts

(* dispatch_core implements the delivery promise: nothing is delivered     *)
(* twice and no tile is closed early.                                      *)
PromiseSpec == Promise!Spec
================================================================================
