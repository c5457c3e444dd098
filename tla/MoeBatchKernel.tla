---------------------------- MODULE MoeBatchKernel -----------------------------
(***************************************************************************)
(* moe_fpga_top of kernels/moe/moe_batch_16b.cpp, as a network of tasks:   *)
(* the dispatcher (MoeDispatch), NSlots compute slots and, for each half   *)
(* of the hidden dimension, the accumulator that sums the slots' partial   *)
(* vectors into one row per token of the tile.  A slot stands for          *)
(* ffn_x_split, the weight loaders, the two projections and ffn_swiglu;    *)
(* MoeSlot opens it.                                                       *)
(*                                                                         *)
(* A product is represented by what went into it: the row of the expert    *)
(* memory the weights came from and the token whose x was multiplied.  A   *)
(* sum is the bag of its terms, so a term added twice, to the wrong token  *)
(* or not at all shows.                                                    *)
(***************************************************************************)
EXTENDS MoeDispatch, Bags

CONSTANTS HalfVecs,     \* packets per token and half, HIDDEN_VECS_FP / 2
          PartialDepth  \* depth of the partial_a / partial_b FIFOs

ASSUME KernelAssumption == {HalfVecs, PartialDepth} \subseteq Nat \ {0}

Halves == {"a", "b"}
HVecs  == 0 .. HalfVecs - 1

VARIABLES
    routes,   \* history: expert rows of every token so far
    log,      \* history: the rounds written to the slots, and their tiles
    around,   \* history: rounds each accumulator has read
    spc,      \* where each slot is
    shdr,     \* the header it works on
    x_cur,    \* the x beats it has read, in order
    np,       \* packets of the round it has written to each half
    partial,  \* partial_a_streams, partial_b_streams: a FIFO per half and slot
    apc,      \* where each accumulator is
    abase,    \* first token of its tile
    aslot,    \* slot it reads from
    an,       \* packets of that slot's round it has read
    aover,    \* tile_over
    asaw,     \* saw_tile_done
    y_acc,    \* the tile's sums: a bag per token and vector
    aflush,   \* rows flushed so far
    y_mem     \* the vectors written to y_mem_a, y_mem_b, in order

svars == <<spc, shdr, x_cur, np>>
avars == <<apc, abase, aslot, an, aover, asaw, y_acc, aflush, y_mem>>
kvars == <<dvars, routes, log, around, svars, partial, avars>>

RoundPackets == TokenLanes * HalfVecs

KInit ==
    /\ DInit
    /\ routes = <<>> /\ log = <<>>
    /\ around = [h \in Halves |-> 0]
    /\ spc = [s \in Slots |-> "hdr"]
    /\ shdr = [s \in Slots |-> Filler(FALSE)]
    /\ x_cur = [s \in Slots |-> <<>>]
    /\ np = [s \in Slots |-> [h \in Halves |-> 0]]
    /\ partial = [h \in Halves |-> [s \in Slots |-> <<>>]]
    /\ apc = [h \in Halves |-> "tile"]
    /\ abase = [h \in Halves |-> 0]
    /\ aslot = [h \in Halves |-> 0]
    /\ an = [h \in Halves |-> 0]
    /\ aover = [h \in Halves |-> FALSE]
    /\ asaw = [h \in Halves |-> FALSE]
    /\ y_acc = [h \in Halves |-> [k \in Tokens |-> [v \in HVecs |-> EmptyBag]]]
    /\ aflush = [h \in Halves |-> 0]
    /\ y_mem = [h \in Halves |-> <<>>]

--------------------------------------------------------------------------------
(* The dispatcher, with the rows of every ingested token and the headers   *)
(* of every round recorded.                                                *)
Round == [hdrs |-> IF pc = "hdr" THEN hdr ELSE [s \in Slots |-> Sentinel],
          base |-> tile_base]

DispatchStep ==
    /\ Dispatch
    /\ routes' = IF t' = t + 1
                 THEN Append(routes, {r[2] : r \in routed' \ routed})
                 ELSE routes
    /\ log' = IF hdr_out' # hdr_out THEN Append(log, Round) ELSE log
    /\ UNCHANGED <<around, svars, partial, avars>>

--------------------------------------------------------------------------------
(* A compute slot. *)

SlotReadHdr(s) ==
    /\ spc[s] = "hdr" /\ TakeHdr(s)
    /\ shdr' = [shdr EXCEPT ![s] = Head(hdr_out[s])]
    /\ x_cur' = [x_cur EXCEPT ![s] = <<>>]
    /\ spc' = [spc EXCEPT ![s] = "x"]
    /\ UNCHANGED <<routes, log, around, np, partial, avars>>

SlotReadX(s) ==
    /\ spc[s] = "x" /\ TakeX(s)
    /\ x_cur' = [x_cur EXCEPT ![s] = Append(@, Head(x_out[s]))]
    /\ IF Len(x_cur'[s]) = TokenLanes * HiddenVecs
       THEN /\ spc' = [spc EXCEPT ![s] = IF shdr[s].last THEN "tail" ELSE "out"]
            /\ np' = [np EXCEPT ![s] = [h \in Halves |-> 0]]
       ELSE UNCHANGED <<spc, np>>
    /\ UNCHANGED <<routes, log, around, shdr, partial, avars>>

(* The x that lane l of slot s multiplied: the tokens its beats came from. *)
LaneX(s, l) == {x_cur[s][l * HiddenVecs + v] : v \in 1 .. HiddenVecs}

LaneActiveAllLanes(s, l) == shdr[s].act

LaneActive(s, l) == shdr[s].act /\ l < shdr[s].cnt

Packet(s, l, v) ==
    [tok |-> shdr[s].toks[l], vec |-> v,
     y |-> [row |-> shdr[s].trig, x |-> LaneX(s, l)],
     act |-> LaneActive(s, l), last |-> FALSE, done |-> shdr[s].done]

Tail0 == [tok |-> 0, vec |-> 0, y |-> [row |-> -1, x |-> {}],
          act |-> FALSE, last |-> TRUE, done |-> FALSE]

Written(s, h, most) ==
    /\ np[s][h] < most
    /\ Len(partial[h][s]) < PartialDepth
    /\ np' = [np EXCEPT ![s][h] = @ + 1]

(* The packets of a round, lane-major; the weight loaders stream only for  *)
(* a trigger that names an expert.                                         *)
SlotEmit(s, h) ==
    /\ spc[s] = "out" /\ shdr[s].trig >= 0
    /\ Written(s, h, RoundPackets)
    /\ partial' = [partial EXCEPT ![h][s] =
           Append(@, Packet(s, np[s][h] \div HalfVecs, np[s][h] % HalfVecs))]
    /\ spc' = IF \A g \in Halves : np'[s][g] = RoundPackets
              THEN [spc EXCEPT ![s] = "hdr"] ELSE spc
    /\ UNCHANGED <<dvars, routes, log, around, shdr, x_cur, avars>>

SlotTail(s, h) ==
    /\ spc[s] = "tail"
    /\ Written(s, h, 1)
    /\ partial' = [partial EXCEPT ![h][s] = Append(@, Tail0)]
    /\ spc' = IF \A g \in Halves : np'[s][g] = 1
              THEN [spc EXCEPT ![s] = "done"] ELSE spc
    /\ UNCHANGED <<dvars, routes, log, around, shdr, x_cur, avars>>

Slot(s) ==
    \/ SlotReadHdr(s)
    \/ SlotReadX(s)
    \/ \E h \in Halves : SlotEmit(s, h)
    \/ \E h \in Halves : SlotTail(s, h)

--------------------------------------------------------------------------------
(* y_accumulator_half. *)

Cleared(h) == [y_acc EXCEPT ![h] = [k \in Tokens |-> [v \in HVecs |-> EmptyBag]]]

AccTile(h) ==
    /\ apc[h] = "tile"
    /\ IF abase[h] < N
       THEN /\ y_acc' = Cleared(h)
            /\ apc' = [apc EXCEPT ![h] = "acc"]
       ELSE /\ apc' = [apc EXCEPT ![h] = "drain"]
            /\ UNCHANGED y_acc
    /\ aslot' = [aslot EXCEPT ![h] = 0]
    /\ an' = [an EXCEPT ![h] = 0]
    /\ aover' = [aover EXCEPT ![h] = FALSE]
    /\ UNCHANGED <<dvars, routes, log, around, svars, partial, abase, asaw, aflush, y_mem>>

Add(h, p) ==
    IF p.act THEN [y_acc EXCEPT ![h][p.tok][p.vec] = @ (+) SetToBag({p.y})] ELSE y_acc

(* The tile may end only after the last slot of a round has been read. *)
AfterSlot(h, over) ==
    /\ an' = [an EXCEPT ![h] = 0]
    /\ aover' = [aover EXCEPT ![h] = over]
    /\ IF aslot[h] + 1 < NSlots
       THEN aslot' = [aslot EXCEPT ![h] = @ + 1] /\ UNCHANGED <<apc, aflush, around>>
       ELSE /\ aslot' = [aslot EXCEPT ![h] = 0]
            /\ apc' = [apc EXCEPT ![h] = IF over THEN "flush" ELSE "acc"]
            /\ aflush' = [aflush EXCEPT ![h] = 0]
            /\ around' = [around EXCEPT ![h] = @ + 1]

AccRead(h) ==
    LET q == partial[h][aslot[h]]
        p == Head(q)
        saw == IF an[h] = 0 THEN p.done ELSE asaw[h]
    IN  /\ apc[h] = "acc" /\ q # <<>>
        /\ partial' = [partial EXCEPT ![h][aslot[h]] = Tail(@)]
        /\ asaw' = [asaw EXCEPT ![h] = saw]
        /\ IF an[h] = 0 /\ p.last
           THEN AfterSlot(h, TRUE) /\ UNCHANGED y_acc
           ELSE /\ y_acc' = Add(h, p)
                /\ IF an[h] + 1 = RoundPackets
                   THEN AfterSlot(h, aover[h] \/ saw)
                   ELSE /\ an' = [an EXCEPT ![h] = @ + 1]
                        /\ UNCHANGED <<aslot, apc, aover, aflush, around>>
        /\ UNCHANGED <<dvars, routes, log, svars, abase, y_mem>>

ATileN(h) == IF N - abase[h] < NTileMax THEN N - abase[h] ELSE NTileMax

(* One vector of one token per step, through y_writer_half in that order. *)
AccFlush(h) ==
    LET k == aflush[h] \div HalfVecs
        v == aflush[h] % HalfVecs
    IN  /\ apc[h] = "flush"
        /\ y_mem' = [y_mem EXCEPT ![h] = Append(@, y_acc[h][k][v])]
        /\ aflush' = [aflush EXCEPT ![h] = @ + 1]
        /\ IF aflush[h] + 1 = ATileN(h) * HalfVecs
           THEN /\ apc' = [apc EXCEPT ![h] = "tile"]
                /\ abase' = [abase EXCEPT ![h] = @ + NTileMax]
           ELSE UNCHANGED <<apc, abase>>
        /\ UNCHANGED <<dvars, routes, log, around, svars, partial, aslot, an, aover, asaw, y_acc>>

TailsShort == NSlots - 1

(* After the last tile: one tail packet from every slot. *)
Tails == NSlots

AccDrain(h) ==
    /\ apc[h] = "drain" /\ partial[h][aslot[h]] # <<>>
    /\ partial' = [partial EXCEPT ![h][aslot[h]] = Tail(@)]
    /\ IF aslot[h] + 1 < Tails
       THEN aslot' = [aslot EXCEPT ![h] = @ + 1] /\ UNCHANGED apc
       ELSE apc' = [apc EXCEPT ![h] = "done"] /\ UNCHANGED aslot
    /\ UNCHANGED <<dvars, routes, log, around, svars, abase, an, aover, asaw, y_acc, aflush,
                   y_mem>>

Accumulate(h) == AccTile(h) \/ AccRead(h) \/ AccFlush(h) \/ AccDrain(h)

--------------------------------------------------------------------------------
(* moe_fpga_top returns when all its tasks have. *)
AllReturned ==
    /\ pc = "done"
    /\ \A s \in Slots : spc[s] = "done"
    /\ \A h \in Halves : apc[h] = "done"

KFinished == AllReturned /\ UNCHANGED kvars

KNext ==
    \/ DispatchStep
    \/ \E s \in Slots : Slot(s)
    \/ \E h \in Halves : Accumulate(h)
    \/ KFinished

(* Every task runs until it returns. *)
KSpec ==
    /\ KInit /\ [][KNext]_kvars
    /\ WF_kvars(DispatchStep)
    /\ \A s \in Slots : WF_kvars(Slot(s))
    /\ \A h \in Halves : WF_kvars(Accumulate(h))

--------------------------------------------------------------------------------
(* Every vector written for token n is the sum of exactly the products of  *)
(* n's own x with its LOCAL_K experts: none lost, doubled, taken from the  *)
(* next tile, added to a neighbour or multiplied with another token's x.   *)
Expected(n) == SetToBag({[row |-> e, x |-> {n}] : e \in routes[n + 1]})
OutputExact ==
    \A h \in Halves : \A i \in DOMAIN y_mem[h] :
        y_mem[h][i] = Expected((i - 1) \div HalfVecs)

(* When the kernel returns, no beat, header or packet is left in a FIFO    *)
(* for the next invocation to take for its own, and y is complete.         *)
NothingLeft ==
    AllReturned =>
        /\ \A s \in Slots : hdr_out[s] = <<>> /\ x_out[s] = <<>>
        /\ \A h \in Halves, s \in Slots : partial[h][s] = <<>>
        /\ \A h \in Halves : Len(y_mem[h]) = N * HalfVecs

(* Every task of the kernel returns: bounded FIFOs between tasks that read *)
(* and write in fixed orders never leave everybody waiting.                *)
KernelReturns == <>AllReturned
================================================================================
