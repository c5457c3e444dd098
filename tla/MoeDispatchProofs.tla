--------------------------- MODULE MoeDispatchProofs ---------------------------
(***************************************************************************)
(* Proofs about MoeDispatch for every number of tokens, experts, slots and *)
(* lanes and every FIFO depth.  First its types and the bounds of its      *)
(* stacks, on either card.  Then that no routing is lost or doubled: the   *)
(* inductive invariant of dispatch_core, and that it implements            *)
(* RoutingDelivery.  This part is about the card whose experts start at 0; *)
(* a packet's global ids are its rows only there.  Last, on either card,   *)
(* that a tile of n tokens takes at most n rounds.                         *)
(***************************************************************************)
EXTENDS MoeDispatch, FiniteSetTheorems, TLAPS

LEMMA Constants ==
    /\ N \in Nat
    /\ NTileMax \in Nat /\ NTileMax >= 1
    /\ LocalExperts \in Nat /\ LocalExperts >= 1
    /\ NSlots \in Nat /\ NSlots >= 1
    /\ TokenLanes \in Nat /\ TokenLanes >= 1
    /\ HiddenVecs \in Nat /\ HiddenVecs >= 1
    /\ TopK \in Nat /\ TopK >= NTileMax
    /\ CountMod \in Nat /\ CountMod > NTileMax
    /\ LocalExpertBase \in Nat
  BY DispatchAssumption

USE Constants

(* Below the modulus a counter is incremented exactly. *)
LEMMA NoWrap == ASSUME NEW c \in Nat, c < NTileMax
                PROVE  (c + 1) % CountMod = c + 1
  OBVIOUS

LEMMA TileNType == ASSUME tile_base \in Nat, NEW k \in Nat, k < TileN
                   PROVE  k < NTileMax /\ tile_base + k \in Nat
  BY DEF TileN

LEMMA FillerType ==
    /\ \A d \in BOOLEAN : Filler(d) \in Hdrs
    /\ Sentinel \in Hdrs
<1>1. NoTokens \in [Lanes -> Tokens]
  BY DEF NoTokens, Tokens
<1>2. 0 \in 0 .. TokenLanes /\ -1 \in Int /\ 0 \in Int
  OBVIOUS
<1>3. QED
  BY <1>1, <1>2 DEF Filler, Sentinel, Hdrs

(* What an argmax pass finds is an expert with pending tokens. *)
LEMMA ChosenIn == ASSUME NEW s, Found(s) # {}
                  PROVE  /\ Chosen(s) \in Experts
                         /\ pending_count[Chosen(s)] # 0
                         /\ Rank(Chosen(s)) = s
  BY DEF Found, Chosen

LEMMA PoppedBound == ASSUME TypeOK, NEW e \in Experts
                     PROVE  /\ Popped(e) \in 0 .. TokenLanes
                            /\ Popped(e) <= pending_count[e]
                            /\ pending_count[e] \in Nat
  BY DEF TypeOK, Popped

LEMMA RemainingBound ==
    ASSUME TypeOK
    PROVE  /\ Remaining \in [Experts -> 0 .. CountMod - 1]
           /\ \A e \in Experts : Remaining[e] <= pending_count[e]
<1>1. ASSUME NEW e \in Experts
      PROVE  /\ Remaining[e] \in 0 .. CountMod - 1
             /\ Remaining[e] <= pending_count[e]
  <2>1. pending_count[e] \in 0 .. CountMod - 1
    BY DEF TypeOK
  <2>2. Popped(e) \in 0 .. TokenLanes /\ Popped(e) <= pending_count[e]
    BY PoppedBound
  <2>3. Remaining[e] = IF Scheduled(e) THEN pending_count[e] - Popped(e)
                                       ELSE pending_count[e]
    BY DEF Remaining
  <2>4. QED
    BY <2>1, <2>2, <2>3
<1>2. QED
  BY <1>1 DEF Remaining

LEMMA SlotHdrType ==
    ASSUME TypeOK, StackBound, NEW s \in Slots, NEW d \in BOOLEAN
    PROVE  SlotHdr(s, d) \in Hdrs
<1>1. CASE Found(s) = {}
  BY <1>1, FillerType DEF SlotHdr
<1>2. CASE Found(s) # {}
  <2> DEFINE e == Chosen(s)
  <2>1. e \in Experts
    BY <1>2, ChosenIn
  <2>2. Popped(e) \in 0 .. TokenLanes /\ Popped(e) <= pending_count[e]
    BY <2>1, PoppedBound
  <2>3. pending_count[e] \in Nat /\ pending_count[e] <= TopK
    BY <2>1 DEF TypeOK, StackBound
  <2>4. ASSUME NEW l \in Lanes, l < Popped(e)
        PROVE  pending_token[e][PopIndex(pending_count[e], l)] \in Tokens
    <3>1. PopIndex(pending_count[e], l) \in Depths
      BY <2>2, <2>3, <2>4 DEF PopIndex, Depths, Lanes
    <3>2. QED
      BY <2>1, <3>1 DEF TypeOK
  <2>5. e - LocalExpertBase \in Int
    BY <2>1 DEF Experts
  <2>6. 0 \in Tokens
    BY DEF Tokens
  <2> HIDE DEF e
  <2>7. QED
    BY <1>2, <2>2, <2>4, <2>5, <2>6 DEF SlotHdr, Hdrs, e
<1>3. QED
  BY <1>1, <1>2

(* Types and the depth of the stacks. *)
LEMMA TypeStep ==
    ASSUME TypeOK, StackBound, [DNext]_dvars
    PROVE  TypeOK' /\ StackBound'
<1> USE DEF TypeOK
<1>1. CASE StartTile
  BY <1>1 DEF StartTile, fifos, StackBound
<1>2. ASSUME NEW pkt \in Packets, NEW rows \in Rows(pkt), Ingest(pkt, rows)
      PROVE  TypeOK' /\ StackBound'
  <2>1. /\ pc = "ingest" /\ t < TileN /\ t' = t + 1
        /\ UNCHANGED <<pc, tile_base, hdr, lane, vec, hdr_out, x_out, sent, rounds>>
    BY <1>2 DEF Ingest, fifos
  <2>2. t < NTileMax /\ tile_base + t \in Nat /\ t \in Tokens /\ t' \in 0 .. NTileMax
    BY <2>1, TileNType DEF Tokens
  <2>3. x_cache' \in [Tokens -> Nat]
    BY <1>2, <2>2 DEF Ingest
  <2>4. pending_token' \in [Experts -> [Depths -> Tokens]]
    BY <1>2, <2>2 DEF Ingest
  <2>5. ASSUME NEW e \in Experts
        PROVE  /\ pending_count'[e] \in 0 .. CountMod - 1
               /\ pending_count'[e] <= t'
               /\ pending_count'[e] <= TopK
    <3>1. pending_count[e] \in Nat /\ pending_count[e] <= t
      BY DEF StackBound
    <3>2. pending_count[e] < NTileMax
      BY <3>1, <2>2 DEF Tokens
    <3>3. (pending_count[e] + 1) % CountMod = pending_count[e] + 1
      BY <3>1, <3>2, NoWrap
    <3>4. pending_count'[e] \in {pending_count[e], pending_count[e] + 1}
      BY <1>2, <3>3 DEF Ingest
    <3>5. QED
      BY <3>1, <3>2, <3>4, <2>1, <2>2
  <2>6. pending_count' \in [Experts -> 0 .. CountMod - 1]
    BY <1>2, <2>5 DEF Ingest
  <2>7. routed' \subseteq Tokens \X Experts
    <3>1. \A e \in pkt : e - LocalExpertBase \in Experts
      BY DEF Packets, CardExperts, Experts
    <3>2. {e - LocalExpertBase : e \in pkt} \subseteq Experts
      BY <3>1
    <3>3. {t} \X {e - LocalExpertBase : e \in pkt} \subseteq Tokens \X Experts
      BY <2>2, <3>2
    <3>4. routed' = routed \cup ({t} \X {e - LocalExpertBase : e \in pkt})
      BY <1>2 DEF Ingest
    <3>5. QED
      BY <3>3, <3>4
  <2>8. QED
    BY <2>1, <2>2, <2>3, <2>4, <2>5, <2>6, <2>7 DEF StackBound
<1>3. CASE Scan
  BY <1>3 DEF Scan, bank, fifos, hist, StackBound
<1>4. CASE BuildRound
  <2>1. pending_count' = Remaining
    BY <1>4 DEF BuildRound
  <2>2. pending_count' \in [Experts -> 0 .. CountMod - 1] /\ StackBound'
    BY <1>4, <2>1, RemainingBound DEF BuildRound, StackBound
  <2>3. hdr' \in [Slots -> Hdrs]
    BY <1>4, SlotHdrType DEF BuildRound, TileDone
  <2>4. QED
    BY <1>4, <2>2, <2>3 DEF BuildRound, fifos
<1>5. CASE EmitHdr
  <2>1. hdr_out' \in [Slots -> Seq(Hdrs)]
    BY <1>5 DEF EmitHdr
  <2>2. InHdr \subseteq Tokens \X Int
    BY DEF InHdr, Hdrs
  <2>3. 0 \in 0 .. TokenLanes /\ 0 \in 0 .. HiddenVecs - 1
    OBVIOUS
  <2>4. QED
    BY <1>5, <2>1, <2>2, <2>3 DEF EmitHdr, bank, StackBound
<1>6. CASE StreamX
  <2>1. ASSUME NEW s \in Slots
        PROVE  x_cache[LaneToken(s)] \in Nat \cup {Zero}
    <3>1. hdr[s].cnt \in 0 .. TokenLanes /\ hdr[s].toks \in [Lanes -> Tokens]
      BY DEF Hdrs
    <3>2. CASE lane < hdr[s].cnt
      <4>1. lane \in Lanes
        BY <3>1, <3>2 DEF Lanes
      <4>2. QED
        BY <3>1, <3>2, <4>1 DEF LaneToken
    <3>3. CASE ~(lane < hdr[s].cnt)
      BY <3>3 DEF LaneToken, Tokens
    <3>4. QED
      BY <3>2, <3>3
  <2>2. x_out' \in [Slots -> Seq(Nat \cup {Zero})]
    BY <1>6, <2>1 DEF StreamX
  <2>3. lane' \in 0 .. TokenLanes /\ vec' \in 0 .. HiddenVecs - 1
    BY <1>6 DEF StreamX, NextBeat
  <2>4. pc' \in {"x", "round", "tile"} /\ tile_base' \in Nat
    BY <1>6 DEF StreamX
  <2>5. QED
    BY <1>6, <2>2, <2>3, <2>4 DEF StreamX, bank, hist, StackBound
<1>7. CASE EmitSentinel
  <2>1. hdr_out' \in [Slots -> Seq(Hdrs)]
    BY <1>7, FillerType DEF EmitSentinel
  <2>2. 0 \in 0 .. TokenLanes /\ 0 \in 0 .. HiddenVecs - 1
    OBVIOUS
  <2>3. QED
    BY <1>7, <2>1, <2>2 DEF EmitSentinel, bank, hist, StackBound
<1>8. CASE StreamZero
  <2>1. x_out' \in [Slots -> Seq(Nat \cup {Zero})]
    BY <1>8 DEF StreamZero
  <2>2. lane' \in 0 .. TokenLanes /\ vec' \in 0 .. HiddenVecs - 1
    BY <1>8 DEF StreamZero, NextBeat
  <2>3. QED
    BY <1>8, <2>1, <2>2 DEF StreamZero, bank, hist, StackBound
<1>9. ASSUME NEW s \in Slots, TakeHdr(s)
      PROVE  TypeOK' /\ StackBound'
  <2>1. hdr_out' \in [Slots -> Seq(Hdrs)]
    BY <1>9 DEF TakeHdr
  <2>2. QED
    BY <1>9, <2>1 DEF TakeHdr, bank, hist, StackBound
<1>10. ASSUME NEW s \in Slots, TakeX(s)
       PROVE  TypeOK' /\ StackBound'
  <2>1. x_out' \in [Slots -> Seq(Nat \cup {Zero})]
    BY <1>10 DEF TakeX
  <2>2. QED
    BY <1>10, <2>1 DEF TakeX, bank, hist, StackBound
<1>11. CASE UNCHANGED dvars
  BY <1>11 DEF dvars, bank, fifos, hist, StackBound
<1>12. QED
  BY <1>1, <1>2, <1>3, <1>4, <1>5, <1>6, <1>7, <1>8, <1>9, <1>10, <1>11
     DEF DNext, Dispatch, Finished

LEMMA TypeInit == DInit => TypeOK /\ StackBound
<1> SUFFICES ASSUME DInit PROVE TypeOK /\ StackBound
  OBVIOUS
<1>1. 0 \in Tokens /\ 0 \in 0 .. TokenLanes /\ 0 \in 0 .. HiddenVecs - 1
      /\ 0 \in 0 .. CountMod - 1 /\ 0 \in 0 .. NTileMax
  BY DEF Tokens
<1>2. hdr \in [Slots -> Hdrs]
  BY FillerType DEF DInit
<1>3. pending_token \in [Experts -> [Depths -> Tokens]]
  BY <1>1 DEF DInit
<1>4. pending_count \in [Experts -> 0 .. CountMod - 1] /\ StackBound
  BY <1>1 DEF DInit, StackBound
<1>5. x_cache \in [Tokens -> Nat]
  BY DEF DInit
<1>6. hdr_out \in [Slots -> Seq(Hdrs)] /\ x_out \in [Slots -> Seq(Nat \cup {Zero})]
  BY DEF DInit
<1>7. routed \subseteq Tokens \X Experts /\ sent \subseteq Tokens \X Int /\ rounds \in Nat
  BY DEF DInit
<1>8. pc \in {"tile", "ingest", "round", "hdr", "x", "drain", "done"} /\ tile_base \in Nat
      /\ t \in 0 .. NTileMax /\ lane \in 0 .. TokenLanes /\ vec \in 0 .. HiddenVecs - 1
  BY <1>1 DEF DInit
<1>9. QED
  BY <1>2, <1>3, <1>4, <1>5, <1>6, <1>7, <1>8 DEF TypeOK

(* Types, and the counters of the pending bank never exceed the depth of   *)
(* the stacks nor wrap, whatever the gate picks and wherever the card's    *)
(* experts start.                                                          *)
THEOREM StacksFit == DSpec => [](TypeOK /\ StackBound)
<1>1. QED
  BY TypeInit, TypeStep, PTL DEF DSpec

--------------------------------------------------------------------------------
(* The routings, on the first card.                                        *)

(* On the first card the rows of the bank are the ids of the packet. *)
LEMMA FirstCardRows ==
    ASSUME LocalExpertBase = 0, NEW pkt \in Packets, NEW rows \in Rows(pkt)
    PROVE  rows = pkt /\ pkt \subseteq Experts /\ {e - LocalExpertBase : e \in pkt} = pkt
<1>1. pkt \subseteq Experts
  BY DEF Packets, CardExperts, Experts
<1>2. \A e \in pkt : e - LocalExpertBase = e
  BY <1>1 DEF Experts
<1>3. QED
  BY <1>1, <1>2 DEF Rows

(* What the header of slot s holds. *)
LEMMA SlotHdrShape ==
    ASSUME LocalExpertBase = 0, TypeOK, NEW s \in Slots, NEW d \in BOOLEAN
    PROVE  /\ SlotHdr(s, d).done = d
           /\ Found(s) = {} => SlotHdr(s, d).cnt = 0
           /\ Found(s) # {} =>
                /\ SlotHdr(s, d).cnt = Popped(Chosen(s))
                /\ SlotHdr(s, d).trig = Chosen(s)
                /\ \A l \in Lanes : l < Popped(Chosen(s)) =>
                     SlotHdr(s, d).toks[l] =
                         pending_token[Chosen(s)][pending_count[Chosen(s)] - (l + 1)]
<1>1. CASE Found(s) = {}
  BY <1>1 DEF SlotHdr, Filler
<1>2. CASE Found(s) # {}
  <2>1. Chosen(s) \in Experts /\ Chosen(s) - LocalExpertBase = Chosen(s)
    BY <1>2, ChosenIn DEF Experts
  <2>2. QED
    BY <1>2, <2>1 DEF SlotHdr, PopIndex
<1>3. QED
  BY <1>1, <1>2

(* A pass finds one expert: two passes that chose the same are one pass. *)
LEMMA ChosenInjective ==
    ASSUME NEW s1, NEW s2, Found(s1) # {}, Found(s2) # {}, Chosen(s1) = Chosen(s2)
    PROVE  s1 = s2
  BY ChosenIn

(* An expert keeps what the lanes of its slot did not pop. *)
LEMMA RemainingSplit ==
    ASSUME TypeOK, NEW e \in Experts
    PROVE  /\ Scheduled(e) => Remaining[e] = pending_count[e] - Popped(e)
           /\ ~Scheduled(e) => Remaining[e] = pending_count[e]
  BY DEF Remaining

(* A round moves routings from the bank to the headers, each once. *)
LEMMA RoundSplits ==
    ASSUME LocalExpertBase = 0, TypeOK, StackBound, StackShape, BuildRound
    PROVE  /\ Pending = Pending' \cup InHdr'
           /\ Pending' \cap InHdr' = {}
<1>1. /\ pending_count' = Remaining /\ pending_token' = pending_token
      /\ \A s \in Slots : hdr'[s] = SlotHdr(s, TileDone)
  BY DEF BuildRound
<1>2. \A e \in Experts : /\ pending_count[e] \in Nat /\ pending_count[e] <= TopK
                         /\ Remaining[e] \in Nat /\ Remaining[e] <= pending_count[e]
                         /\ Popped(e) \in 0 .. TokenLanes /\ Popped(e) <= pending_count[e]
  <2>1. ASSUME NEW e \in Experts
        PROVE  Remaining[e] \in Nat /\ Remaining[e] <= pending_count[e]
    <3>1. Remaining[e] \in 0 .. CountMod - 1
      BY RemainingBound
    <3>2. QED
      BY <3>1, RemainingBound
  <2>2. QED
    BY <2>1, PoppedBound DEF StackBound
<1>3. ASSUME NEW r \in InHdr'
      PROVE  /\ r \in Tokens \X Experts
             /\ \E i \in Depths : /\ Remaining[r[2]] <= i /\ i < pending_count[r[2]]
                                  /\ pending_token[r[2]][i] = r[1]
  <2>1. PICK s \in Slots, l \in Lanes : l < hdr'[s].cnt /\ r = <<hdr'[s].toks[l], hdr'[s].trig>>
    BY DEF InHdr
  <2>2. TileDone \in BOOLEAN
    BY DEF TileDone
  <2>3. Found(s) # {}
    BY <1>1, <2>1, <2>2, SlotHdrShape DEF Lanes
  <2> DEFINE e == Chosen(s)
             i == pending_count[e] - (l + 1)
  <2>4. e \in Experts /\ Scheduled(e)
    BY <2>3, ChosenIn DEF Scheduled
  <2>5. r = <<pending_token[e][i], e>> /\ l < Popped(e)
    BY <1>1, <2>1, <2>2, <2>3, SlotHdrShape
  <2>6. Remaining[e] = pending_count[e] - Popped(e)
    BY <2>4, RemainingSplit
  <2>7. i \in Depths /\ Remaining[e] <= i /\ i < pending_count[e]
    BY <1>2, <2>4, <2>5, <2>6 DEF Depths, Lanes
  <2>8. pending_token[e][i] \in Tokens
    BY <2>4, <2>7 DEF TypeOK
  <2> HIDE DEF e, i
  <2>9. QED
    BY <2>4, <2>5, <2>7, <2>8
<1>4. Pending' = {r \in Tokens \X Experts :
                    \E i \in Depths : i < Remaining[r[2]] /\ pending_token[r[2]][i] = r[1]}
  BY <1>1 DEF Pending
<1>5. Pending' \subseteq Pending
  <2>1. ASSUME NEW r \in Pending' PROVE r \in Pending
    <3>1. r \in Tokens \X Experts /\ r[2] \in Experts
      BY <1>4
    <3>2. PICK i \in Depths : i < Remaining[r[2]] /\ pending_token[r[2]][i] = r[1]
      BY <1>4
    <3>3. i < pending_count[r[2]]
      BY <1>2, <3>1, <3>2 DEF Depths
    <3>4. QED
      BY <3>1, <3>2, <3>3 DEF Pending
  <2>2. QED
    BY <2>1
<1>6. InHdr' \subseteq Pending
  <2>1. ASSUME NEW r \in InHdr' PROVE r \in Pending
    BY <1>3 DEF Pending
  <2>2. QED
    BY <2>1
<1>7. ASSUME NEW r \in Pending, r \notin Pending'
      PROVE  r \in InHdr'
  <2>1. r \in Tokens \X Experts /\ r[2] \in Experts
    BY DEF Pending
  <2>2. PICK i \in Depths : i < pending_count[r[2]] /\ pending_token[r[2]][i] = r[1]
    BY DEF Pending
  <2>3. ~(i < Remaining[r[2]])
    BY <1>4, <1>7, <2>1, <2>2
  <2> DEFINE e == r[2]
  <2>4. Scheduled(e) /\ Remaining[e] = pending_count[e] - Popped(e)
    BY <2>1, <2>2, <2>3, RemainingSplit
  <2>5. PICK s \in Slots : Found(s) # {} /\ e = Chosen(s)
    BY <2>4 DEF Scheduled
  <2> DEFINE l == pending_count[e] - 1 - i
  <2>6. e \in Experts /\ i \in Nat
    BY <2>1 DEF Depths
  <2>7. l \in Lanes /\ l < Popped(e) /\ pending_count[e] - (l + 1) = i
    BY <1>2, <2>2, <2>3, <2>4, <2>6 DEF Lanes
  <2>8. TileDone \in BOOLEAN
    BY DEF TileDone
  <2>9. l < hdr'[s].cnt /\ hdr'[s].trig = e /\ hdr'[s].toks[l] = r[1]
    <3> HIDE DEF l
    <3>1. QED
      BY <1>1, <2>2, <2>5, <2>7, <2>8, SlotHdrShape
  <2>10. r = <<hdr'[s].toks[l], hdr'[s].trig>>
    BY <2>1, <2>9
  <2> HIDE DEF l
  <2>11. QED
    BY <2>7, <2>9, <2>10 DEF InHdr
<1>8. Pending' \cap InHdr' = {}
  <2>1. ASSUME NEW r \in Pending', r \in InHdr' PROVE FALSE
    <3>1. r[2] \in Experts
      BY <1>4
    <3>2. PICK i \in Depths : i < Remaining[r[2]] /\ pending_token[r[2]][i] = r[1]
      BY <1>4
    <3>3. PICK j \in Depths : /\ Remaining[r[2]] <= j /\ j < pending_count[r[2]]
                              /\ pending_token[r[2]][j] = r[1]
      BY <1>3, <2>1
    <3>4. i < j
      BY <1>2, <3>1, <3>2, <3>3 DEF Depths
    <3>5. QED
      BY <3>1, <3>2, <3>3, <3>4 DEF StackShape
  <2>2. QED
    BY <2>1
<1>9. QED
  BY <1>5, <1>6, <1>7, <1>8

LEMMA RoundLanes ==
    ASSUME LocalExpertBase = 0, TypeOK, StackBound, StackShape, BuildRound
    PROVE  LanesDistinct'
<1> SUFFICES ASSUME NEW s1 \in Slots, NEW s2 \in Slots, NEW l1 \in Lanes, NEW l2 \in Lanes,
                    l1 < hdr'[s1].cnt, l2 < hdr'[s2].cnt,
                    hdr'[s1].toks[l1] = hdr'[s2].toks[l2],
                    hdr'[s1].trig = hdr'[s2].trig
             PROVE  s1 = s2 /\ l1 = l2
  BY DEF LanesDistinct
<1>1. /\ TileDone \in BOOLEAN
      /\ \A s \in Slots : hdr'[s] = SlotHdr(s, TileDone)
  BY DEF BuildRound, TileDone
<1>2. Found(s1) # {} /\ Found(s2) # {}
  BY <1>1, SlotHdrShape DEF Lanes
<1>3. Chosen(s1) = Chosen(s2)
  BY <1>1, <1>2, SlotHdrShape
<1>4. s1 = s2
  BY <1>2, <1>3, ChosenInjective
<1> DEFINE e == Chosen(s1)
           i1 == pending_count[e] - (l1 + 1)
           i2 == pending_count[e] - (l2 + 1)
<1>5. e \in Experts /\ l1 < Popped(e) /\ l2 < Popped(e)
  BY <1>1, <1>2, <1>4, ChosenIn, SlotHdrShape
<1>6. pending_token[e][i1] = pending_token[e][i2]
  BY <1>1, <1>2, <1>4, <1>5, SlotHdrShape
<1>7. Popped(e) <= pending_count[e] /\ pending_count[e] \in Nat /\ pending_count[e] <= TopK
      /\ Popped(e) \in Nat
  BY <1>5, PoppedBound DEF StackBound
<1>8. i1 \in Depths /\ i2 \in Depths /\ i1 < pending_count[e] /\ i2 < pending_count[e]
  BY <1>5, <1>7 DEF Depths, Lanes
<1>9. ~(i1 < i2) /\ ~(i2 < i1)
  <2> HIDE DEF e, i1, i2
  <2>1. QED
    BY <1>5, <1>6, <1>8 DEF StackShape
<1>10. l1 = l2
  BY <1>7, <1>9 DEF Lanes
<1>11. QED
  BY <1>4, <1>10

(* Ingest pushes exactly the routings of the token, each a new one. *)
LEMMA IngestPushes ==
    ASSUME LocalExpertBase = 0, TypeOK, StackBound, StackShape,
           NEW pkt \in Packets, NEW rows \in Rows(pkt), Ingest(pkt, rows)
    PROVE  /\ Pending' = Pending \cup ({t} \X pkt)
           /\ routed' = routed \cup ({t} \X pkt)
           /\ StackShape'
<1>1. rows = pkt /\ pkt \subseteq Experts /\ {e - LocalExpertBase : e \in pkt} = pkt
  BY FirstCardRows
<1>2. t < TileN /\ t' = t + 1
  BY DEF Ingest
<1>3. t < NTileMax /\ t \in Tokens
  BY <1>2, TileNType DEF TypeOK, Tokens
<1>4. ASSUME NEW e \in Experts
      PROVE  /\ pending_count[e] \in Nat /\ pending_count[e] \in Depths
             /\ (pending_count[e] + 1) % CountMod = pending_count[e] + 1
  <2>1. pending_count[e] \in Nat /\ pending_count[e] <= t
    BY DEF TypeOK, StackBound
  <2>2. pending_count[e] < NTileMax
    BY <1>3, <2>1 DEF Tokens
  <2>3. QED
    BY <2>1, <2>2, NoWrap DEF Depths
<1>5. ASSUME NEW e \in pkt
      PROVE  /\ pending_count'[e] = pending_count[e] + 1
             /\ pending_token'[e][pending_count[e]] = t
             /\ \A i \in Depths : i # pending_count[e] =>
                   pending_token'[e][i] = pending_token[e][i]
  <2>1. e \in Experts /\ e \in rows
    BY <1>1
  <2>2. pending_count'[e] = pending_count[e] + 1
    BY <1>4, <2>1 DEF Ingest
  <2>3. pending_token'[e] = [pending_token[e] EXCEPT ![pending_count[e]] = t]
    BY <2>1 DEF Ingest
  <2>4. pending_token[e] \in [Depths -> Tokens]
    BY <2>1 DEF TypeOK
  <2>5. QED
    BY <1>4, <2>1, <2>2, <2>3, <2>4
<1>6. ASSUME NEW e \in Experts, e \notin pkt
      PROVE  pending_count'[e] = pending_count[e] /\ pending_token'[e] = pending_token[e]
  BY <1>1, <1>6 DEF Ingest
<1>7. routed' = routed \cup ({t} \X pkt)
  BY <1>1 DEF Ingest
<1>8. ASSUME NEW r \in Pending' PROVE r \in Pending \cup ({t} \X pkt)
  <2>1. r \in Tokens \X Experts /\ r[2] \in Experts
    BY DEF Pending
  <2>2. PICK i \in Depths : i < pending_count'[r[2]] /\ pending_token'[r[2]][i] = r[1]
    BY DEF Pending
  <2>3. CASE r[2] \notin pkt
    BY <1>6, <2>1, <2>2, <2>3 DEF Pending
  <2>4. CASE r[2] \in pkt /\ i = pending_count[r[2]]
    BY <1>5, <2>1, <2>2, <2>4
  <2>5. CASE r[2] \in pkt /\ i # pending_count[r[2]]
    <3>1. i < pending_count[r[2]]
      BY <1>4, <1>5, <2>1, <2>2, <2>5 DEF Depths
    <3>2. pending_token[r[2]][i] = r[1]
      BY <1>5, <2>2, <2>5
    <3>3. QED
      BY <2>1, <3>1, <3>2 DEF Pending
  <2>6. QED
    BY <2>3, <2>4, <2>5
<1>9. ASSUME NEW r \in Pending PROVE r \in Pending'
  <2>1. r \in Tokens \X Experts /\ r[2] \in Experts
    BY DEF Pending
  <2>2. PICK i \in Depths : i < pending_count[r[2]] /\ pending_token[r[2]][i] = r[1]
    BY DEF Pending
  <2>3. i < pending_count'[r[2]] /\ pending_token'[r[2]][i] = r[1]
    BY <1>4, <1>5, <1>6, <2>1, <2>2 DEF Depths
  <2>4. QED
    BY <2>1, <2>3 DEF Pending
<1>10. ASSUME NEW e \in pkt PROVE <<t, e>> \in Pending'
  <2>1. e \in Experts
    BY <1>1
  <2>2. /\ pending_count[e] \in Depths /\ pending_count[e] < pending_count'[e]
        /\ pending_token'[e][pending_count[e]] = t
    BY <1>4, <1>5, <2>1
  <2>3. QED
    BY <1>3, <2>1, <2>2 DEF Pending
<1>11. Pending' = Pending \cup ({t} \X pkt)
  BY <1>8, <1>9, <1>10
<1>12. ASSUME NEW e \in Experts, NEW i \in Depths, i < pending_count'[e]
       PROVE  /\ pending_token'[e][i] < t'
              /\ \A j \in Depths : j < i => pending_token'[e][i] # pending_token'[e][j]
  <2>0. t \in Nat
    BY DEF TypeOK
  <2>1. CASE i < pending_count[e]
    <3>1. /\ pending_token'[e][i] = pending_token[e][i]
          /\ \A j \in Depths : j < i => pending_token'[e][j] = pending_token[e][j]
      BY <1>4, <1>5, <1>6, <2>1 DEF Depths
    <3>2. pending_token[e][i] \in Nat
      BY DEF TypeOK, Tokens
    <3>3. QED
      BY <1>2, <2>0, <2>1, <3>1, <3>2 DEF StackShape
  <2>2. CASE ~(i < pending_count[e])
    <3>1. e \in pkt /\ i = pending_count[e]
      BY <1>4, <1>5, <1>6, <1>12, <2>2 DEF Depths
    <3>2. pending_token'[e][i] = t
      BY <1>5, <3>1
    <3>3. ASSUME NEW j \in Depths, j < i
          PROVE  pending_token'[e][j] < t /\ pending_token'[e][j] \in Nat
      <4>1. pending_token'[e][j] = pending_token[e][j]
        BY <1>4, <1>5, <3>1, <3>3 DEF Depths
      <4>2. QED
        BY <3>1, <3>3, <4>1 DEF StackShape, TypeOK, Tokens
    <3>4. QED
      BY <1>2, <2>0, <3>2, <3>3
  <2>3. QED
    BY <2>1, <2>2
<1>13. QED
  BY <1>7, <1>11, <1>12 DEF StackShape

(* The bank and the ghosts do not change while a round is streamed. *)
LEMMA SameBank == ASSUME UNCHANGED <<pending_token, pending_count, hdr, t>>
                  PROVE  /\ Pending' = Pending /\ InHdr' = InHdr
                         /\ StackShape => StackShape'
  BY DEF Pending, InHdr, StackShape

LEMMA IInvStep ==
    ASSUME LocalExpertBase = 0, IInv, [DNext]_dvars
    PROVE  IInv'
<1>0. TypeOK /\ StackBound /\ TypeOK' /\ StackBound'
  BY TypeStep DEF IInv
<1> DEFINE Rest == /\ StackShape /\ RoutedBelow /\ EmptyBank /\ HdrDone
                   /\ Conservation /\ LanesDistinct
<1>a. Rest
  BY DEF IInv
<1>b. SUFFICES Rest'
  BY <1>0 DEF IInv
<1>1. CASE StartTile
  <2>1. /\ pc' = "ingest" /\ routed' = {} /\ sent' = {}
        /\ \A e \in Experts : pending_count'[e] = 0
    BY <1>1 DEF StartTile
  <2>2. Pending' = {} /\ Unsent' = {} /\ StackShape'
    BY <2>1 DEF Pending, Unsent, StackShape, Depths
  <2>3. QED
    BY <2>1, <2>2 DEF RoutedBelow, EmptyBank, HdrDone, Conservation, LanesDistinct
<1>2. ASSUME NEW pkt \in Packets, NEW rows \in Rows(pkt), Ingest(pkt, rows)
      PROVE  Rest'
  <2>1. pc = "ingest" /\ pc' = "ingest" /\ t' = t + 1 /\ sent' = sent /\ t \in Nat
    BY <1>0, <1>2 DEF Ingest, TypeOK
  <2>2. /\ Pending' = Pending \cup ({t} \X pkt)
        /\ routed' = routed \cup ({t} \X pkt)
        /\ StackShape'
    BY <1>0, <1>2, <1>a, IngestPushes
  <2>3. Unsent = {} /\ Unsent' = {}
    BY <2>1 DEF Unsent
  <2>4. \A r \in routed : r[1] < t /\ r[1] \in Nat
    BY <1>0, <1>a DEF RoutedBelow, TypeOK, Tokens
  <2>5. sent \cap ({t} \X pkt) = {}
    BY <1>a, <2>1, <2>4 DEF Conservation
  <2>6. RoutedBelow'
    BY <2>1, <2>2, <2>4 DEF RoutedBelow
  <2>7. Conservation'
    BY <1>a, <2>1, <2>2, <2>3, <2>5 DEF Conservation
  <2>8. QED
    BY <2>1, <2>2, <2>6, <2>7 DEF EmptyBank, HdrDone, LanesDistinct
<1>3. CASE Scan
  <2>1. UNCHANGED <<pending_token, pending_count, hdr, t, routed, sent>>
        /\ pc = "ingest" /\ pc' \in {"round", "tile"}
    BY <1>3 DEF Scan, bank, hist
  <2>2. Pending' = Pending /\ StackShape' /\ Unsent = {} /\ Unsent' = {}
    BY <1>a, <2>1, SameBank DEF Unsent
  <2>3. EmptyBank'
    BY <1>3, <2>1 DEF Scan, EmptyBank
  <2>4. QED
    BY <1>a, <2>1, <2>2, <2>3 DEF RoutedBelow, HdrDone, Conservation, LanesDistinct
<1>4. CASE BuildRound
  <2>1. /\ pc = "round" /\ pc' = "hdr" /\ UNCHANGED <<t, routed, sent, pending_token>>
        /\ pending_count' = Remaining
        /\ \A s \in Slots : hdr'[s] = SlotHdr(s, TileDone)
    BY <1>4 DEF BuildRound
  <2>2. Pending = Pending' \cup InHdr' /\ Pending' \cap InHdr' = {}
    BY <1>0, <1>4, <1>a, RoundSplits
  <2>3. Unsent = {} /\ Unsent' = InHdr'
    BY <2>1 DEF Unsent
  <2>4. Conservation'
    BY <1>a, <2>1, <2>2, <2>3 DEF Conservation
  <2>5. LanesDistinct'
    BY <1>0, <1>4, <1>a, RoundLanes
  <2>6. StackShape'
    <3>1. ASSUME NEW e \in Experts, NEW i \in Depths, i < pending_count'[e]
          PROVE  i < pending_count[e]
      <4>1. /\ Remaining[e] \in 0 .. CountMod - 1 /\ Remaining[e] <= pending_count[e]
            /\ pending_count[e] \in Nat /\ i \in Nat
        <5>1. pending_count[e] \in Nat /\ i \in Nat
          BY <1>0 DEF TypeOK, Depths
        <5>2. QED
          BY <1>0, <5>1, RemainingBound
      <4>2. QED
        BY <2>1, <3>1, <4>1
    <3>2. QED
      BY <1>a, <2>1, <3>1 DEF StackShape
  <2>7. HdrDone'
    <3>1. 0 \in Slots /\ TileDone \in BOOLEAN
      BY DEF Slots, TileDone
    <3>2. hdr'[0].done = TileDone
      BY <1>0, <2>1, <3>1, SlotHdrShape
    <3>3. QED
      BY <2>1, <3>2 DEF HdrDone, TileDone
  <2>8. QED
    BY <1>a, <2>1, <2>4, <2>5, <2>6, <2>7 DEF RoutedBelow, EmptyBank
<1>5. CASE EmitHdr
  <2>1. UNCHANGED <<pending_token, pending_count, hdr, t, routed>>
        /\ pc = "hdr" /\ pc' = "x" /\ sent' = sent \cup InHdr
    BY <1>5 DEF EmitHdr, bank
  <2>2. Pending' = Pending /\ StackShape' /\ Unsent = InHdr /\ Unsent' = {}
    BY <1>a, <2>1, SameBank DEF Unsent
  <2>3. QED
    BY <1>a, <2>1, <2>2 DEF RoutedBelow, EmptyBank, HdrDone, Conservation, LanesDistinct
<1>6. CASE StreamX
  <2>1. UNCHANGED <<pending_token, pending_count, hdr, t, routed, sent>> /\ pc = "x"
    BY <1>6 DEF StreamX, bank, hist
  <2>2. pc' \in {"x", "round", "tile"} /\ (pc' = "tile" => hdr[0].done)
    BY <1>6, <2>1 DEF StreamX
  <2>3. Pending' = Pending /\ StackShape' /\ Unsent = {} /\ Unsent' = {}
    BY <1>a, <2>1, <2>2, SameBank DEF Unsent
  <2>4. EmptyBank'
    BY <1>a, <2>1, <2>2 DEF EmptyBank, HdrDone
  <2>5. QED
    BY <1>a, <2>1, <2>2, <2>3, <2>4 DEF RoutedBelow, HdrDone, Conservation, LanesDistinct
<1>7. CASE EmitSentinel \/ StreamZero
  <2>1. UNCHANGED <<pending_token, pending_count, hdr, t, routed, sent>>
        /\ pc \in {"tile", "drain"} /\ pc' \in {"drain", "done"}
    BY <1>7 DEF EmitSentinel, StreamZero, bank, hist
  <2>2. Pending' = Pending /\ StackShape' /\ Unsent = {} /\ Unsent' = {}
    BY <1>a, <2>1, SameBank DEF Unsent
  <2>3. QED
    BY <1>a, <2>1, <2>2 DEF RoutedBelow, EmptyBank, HdrDone, Conservation, LanesDistinct
<1>8. CASE (\E s \in Slots : TakeHdr(s) \/ TakeX(s)) \/ UNCHANGED dvars
  <2>1. UNCHANGED <<pc, pending_token, pending_count, hdr, t, routed, sent>>
    BY <1>8 DEF TakeHdr, TakeX, dvars, bank, hist
  <2>2. Pending' = Pending /\ StackShape' /\ Unsent' = Unsent
    BY <1>a, <2>1, SameBank DEF Unsent
  <2>3. QED
    BY <1>a, <2>1, <2>2 DEF RoutedBelow, EmptyBank, HdrDone, Conservation, LanesDistinct
<1>9. QED
  BY <1>1, <1>2, <1>3, <1>4, <1>5, <1>6, <1>7, <1>8 DEF DNext, Dispatch, Finished

LEMMA IInvInit == DInit => IInv
<1> SUFFICES ASSUME DInit PROVE IInv
  OBVIOUS
<1>1. TypeOK /\ StackBound
  BY TypeInit
<1>2. pc = "tile" /\ routed = {} /\ sent = {} /\ \A e \in Experts : pending_count[e] = 0
  BY DEF DInit
<1>3. Pending = {} /\ Unsent = {} /\ StackShape
  BY <1>2 DEF Pending, Unsent, StackShape, Depths
<1>4. QED
  BY <1>1, <1>2, <1>3 DEF IInv, RoutedBelow, EmptyBank, HdrDone, Conservation, LanesDistinct

(* An empty bank and nothing in flight: everything routed was sent. *)
LEMMA NothingLeftOver == IInv => Conservation /\ LanesDistinct /\ AllDispatched
<1> SUFFICES ASSUME IInv PROVE AllDispatched
  BY DEF IInv
<1> SUFFICES ASSUME pc \in {"tile", "drain", "done"} PROVE sent = routed
  BY DEF AllDispatched
<1>1. Pending = {}
  BY DEF IInv, EmptyBank, Pending, Depths
<1>2. Unsent = {}
  BY DEF Unsent
<1>3. QED
  BY <1>1, <1>2 DEF IInv, Conservation

(* On the first card no routing is lost or doubled between the gate and    *)
(* the slots, no two lanes carry the same one, and a tile is closed only   *)
(* when all of it was dispatched, for any sizes and any gate.              *)
THEOREM EveryRoutingOnce ==
    ASSUME LocalExpertBase = 0
    PROVE  DSpec => [](Conservation /\ LanesDistinct /\ AllDispatched)
<1>1. DInit => IInv
  BY IInvInit
<1>2. IInv /\ [DNext]_dvars => IInv'
  BY IInvStep
<1>3. QED
  BY <1>1, <1>2, NothingLeftOver, PTL DEF DSpec

(* The invariant itself, with the shape of the bank and of the headers. *)
THEOREM DispatchInvariant ==
    ASSUME LocalExpertBase = 0
    PROVE  DSpec => []IInv
  BY IInvInit, IInvStep, PTL DEF DSpec

LEMMA PromiseStep ==
    ASSUME LocalExpertBase = 0, IInv, IInv', [DNext]_dvars
    PROVE  [Promise!Next]_<<routed, sent>>
<1> USE DEF Promise!Next
<1>1. CASE StartTile
  <2>1. sent = routed
    BY <1>1, NothingLeftOver DEF StartTile, AllDispatched
  <2>2. Promise!NextTile
    BY <1>1, <2>1 DEF StartTile, Promise!NextTile
  <2>3. QED
    BY <2>2
<1>2. ASSUME NEW pkt \in Packets, NEW rows \in Rows(pkt), Ingest(pkt, rows)
      PROVE  Promise!Next
  <2>1. pkt \subseteq Experts /\ routed' = routed \cup ({t} \X pkt) /\ sent' = sent
    BY <1>2, FirstCardRows DEF Ingest
  <2>2. t \in Tokens
    BY <1>2, TileNType DEF Ingest, IInv, TypeOK, Tokens
  <2>3. \A r \in routed : r[1] # t
    BY <2>2 DEF IInv, RoutedBelow, Tokens
  <2>4. Promise!Accept(t, pkt)
    BY <2>1, <2>3 DEF Promise!Accept
  <2>5. QED
    BY <2>1, <2>2, <2>4
<1>3. CASE EmitHdr
  <2>1. pc = "hdr" /\ sent' = sent \cup InHdr /\ routed' = routed
    BY <1>3 DEF EmitHdr
  <2>2. InHdr \subseteq routed \ sent
    BY <2>1 DEF IInv, Conservation, Unsent
  <2>3. InHdr \subseteq Tokens \X Experts
    BY <2>2 DEF IInv, TypeOK
  <2>4. Promise!Deliver(InHdr)
    BY <2>1, <2>2 DEF Promise!Deliver
  <2>5. QED
    BY <2>3, <2>4
<1>4. CASE \/ Scan \/ BuildRound \/ StreamX \/ EmitSentinel \/ StreamZero
           \/ (\E s \in Slots : TakeHdr(s) \/ TakeX(s)) \/ UNCHANGED dvars
  BY <1>4 DEF Scan, BuildRound, StreamX, EmitSentinel, StreamZero, TakeHdr, TakeX, dvars, hist
<1>5. QED
  BY <1>1, <1>2, <1>3, <1>4 DEF DNext, Dispatch, Finished

(* On the first card dispatch_core implements RoutingDelivery: every       *)
(* header write delivers only routings that were never delivered before,   *)
(* and a new tile is opened only when the last one was delivered whole.    *)
THEOREM DispatchDelivers ==
    ASSUME LocalExpertBase = 0
    PROVE  DSpec => PromiseSpec
<1>1. DInit => IInv /\ Promise!Init
  BY IInvInit DEF DInit, Promise!Init
<1>2. IInv /\ [DNext]_dvars => IInv' /\ [Promise!Next]_<<routed, sent>>
  BY IInvStep, PromiseStep
<1>3. QED
  BY <1>1, <1>2, PTL DEF DSpec, PromiseSpec, Promise!Spec, Promise!vars

--------------------------------------------------------------------------------
(* The number of rounds, on either card.                                   *)

(* The size of an index range.                                             *)
LEMMA Below ==
    ASSUME NEW n \in Nat
    PROVE  IsFiniteSet(0 .. n - 1) /\ Cardinality(0 .. n - 1) = n
<1>1. PICK m \in Int : m = n - 1
  OBVIOUS
<1>2. IsFiniteSet(0 .. m) /\ Cardinality(0 .. m) = IF 0 > m THEN 0 ELSE m - 0 + 1
  BY FS_Interval
<1>3. QED
  BY <1>1, <1>2

(* The argmax order is total: the ranks are 0 .. LocalExperts - 1, each    *)
(* that of one expert, and whoever has the lower rank has no less pending. *)
LEMMA Ranks ==
    ASSUME TypeOK
    PROVE  /\ \A e \in Experts : Rank(e) \in Experts
           /\ \A d, e \in Experts : Rank(d) = Rank(e) => d = e
           /\ \A d, e \in Experts : Rank(d) < Rank(e) => pending_count[d] >= pending_count[e]
           /\ \A s \in Experts : \E e \in Experts : Rank(e) = s
<1> DEFINE Before(e) == {d \in Experts : Ahead(d, e)}
<1>1. \A e \in Experts : pending_count[e] \in Nat
  BY DEF TypeOK
<1>2. IsFiniteSet(Experts) /\ Cardinality(Experts) = LocalExperts
  BY Below DEF Experts
<1>3. \A e \in Experts : IsFiniteSet(Before(e)) /\ Rank(e) = Cardinality(Before(e)) /\ Rank(e) \in Nat
  BY <1>2, FS_Subset, FS_CardinalityType DEF Rank
<1>4. ASSUME NEW e \in Experts
      PROVE  Rank(e) < LocalExperts
  <2>1. e \notin Before(e)
    BY <1>1 DEF Ahead, Experts
  <2>2. Before(e) \in SUBSET Experts /\ Before(e) # Experts
    BY <2>1
  <2>3. /\ Cardinality(Before(e)) <= LocalExperts
        /\ Cardinality(Experts) = Cardinality(Before(e)) => Experts = Before(e)
    BY <2>2, <1>2, FS_Subset
  <2>4. Rank(e) \in Nat /\ Rank(e) = Cardinality(Before(e))
    BY <1>3
  <2> HIDE DEF Before
  <2>5. QED
    BY <2>2, <2>3, <2>4, <1>2
<1>5. ASSUME NEW d \in Experts, NEW e \in Experts, Ahead(d, e)
      PROVE  Rank(d) < Rank(e)
  <2>1. d \in Before(e) /\ d \notin Before(d)
    BY <1>1, <1>5 DEF Ahead, Experts
  <2>2. Before(d) \in SUBSET Before(e)
    <3>1. \A f \in Experts : Ahead(f, d) => Ahead(f, e)
      BY <1>1, <1>5 DEF Ahead, Experts
    <3>2. QED
      BY <3>1
  <2>3. Before(d) # Before(e)
    BY <2>1
  <2>4. Cardinality(Before(d)) <= Cardinality(Before(e))
        /\ Cardinality(Before(d)) # Cardinality(Before(e))
    BY <2>2, <2>3, <1>3, FS_Subset
  <2>5. QED
    BY <2>4, <1>3
<1>6. \A d, e \in Experts : d = e \/ Ahead(d, e) \/ Ahead(e, d)
  BY <1>1 DEF Ahead, Experts
<1>0. \A e \in Experts : Rank(e) \in Nat
  BY <1>3
<1>7. ASSUME NEW d \in Experts, NEW e \in Experts, Rank(d) = Rank(e)
      PROVE  d = e
  <2>1. ~(Rank(d) < Rank(e)) /\ ~(Rank(e) < Rank(d))
    BY <1>7, <1>0
  <2>2. QED
    BY <2>1, <1>5, <1>6, Zenon
<1>8. ASSUME NEW d \in Experts, NEW e \in Experts, Rank(d) < Rank(e)
      PROVE  pending_count[d] >= pending_count[e]
  <2>1. Ahead(d, e)
    <3>1. d # e /\ ~(Rank(e) < Rank(d))
      BY <1>8, <1>0
    <3>2. QED
      BY <3>1, <1>5, <1>6, Zenon
  <2>2. QED
    BY <2>1, <1>1 DEF Ahead
<1>9. \A e \in Experts : Rank(e) \in Experts
  BY <1>0, <1>4 DEF Experts
<1>10. \A s \in Experts : \E e \in Experts : Rank(e) = s
  <2> DEFINE f == [e \in Experts |-> Rank(e)]
  <2>1. f \in Injection(Experts, Experts)
    BY <1>7, <1>9 DEF Injection, IsInjective
  <2>2. f \in Surjection(Experts, Experts)
    BY <2>1, <1>2, FS_Injection
  <2>3. QED
    BY <2>2 DEF Surjection
<1>11. QED
  BY <1>7, <1>8, <1>9, <1>10

(* The argmax passes schedule the experts of rank below NSlots that have   *)
(* any token, each for its own slot.                                       *)
LEMMA ScheduledRanks ==
    ASSUME TypeOK
    PROVE  /\ \A e \in Experts : Scheduled(e) <=> pending_count[e] # 0 /\ Rank(e) < NSlots
           /\ \A e \in Experts : Scheduled(e) => Found(Rank(e)) = {e} /\ Chosen(Rank(e)) = e
<1>1. ASSUME NEW e \in Experts, pending_count[e] # 0
      PROVE  Found(Rank(e)) = {e} /\ Chosen(Rank(e)) = e
  BY <1>1, Ranks DEF Found, Chosen
<1>2. ASSUME NEW e \in Experts, Scheduled(e)
      PROVE  pending_count[e] # 0 /\ Rank(e) < NSlots
  BY <1>2, ChosenIn DEF Scheduled, Slots
<1>3. ASSUME NEW e \in Experts, pending_count[e] # 0, Rank(e) < NSlots
      PROVE  Scheduled(e)
  <2>1. Rank(e) \in Slots
    BY <1>3, Ranks DEF Slots, Experts
  <2>2. QED
    BY <1>1, <1>3, <2>1, Zenon DEF Scheduled
<1>4. QED
  BY <1>1, <1>2, <1>3

(* What a round leaves an expert.                                          *)
LEMMA RoundTakes ==
    ASSUME TypeOK, NEW e \in Experts
    PROVE  /\ pending_count[e] \in Nat /\ Remaining[e] \in Nat
           /\ Scheduled(e) => Remaining[e] < pending_count[e]
           /\ ~Scheduled(e) => Remaining[e] = pending_count[e]
<1>1. pending_count[e] \in Nat /\ Remaining[e] \in Nat
  BY RemainingBound DEF TypeOK
<1>2. Scheduled(e) => pending_count[e] # 0 /\ Remaining[e] = pending_count[e] - Popped(e)
  BY ScheduledRanks, RemainingSplit
<1>3. pending_count[e] # 0 => Popped(e) >= 1
  BY <1>1 DEF Popped
<1>4. QED
  BY <1>1, <1>2, <1>3, RemainingSplit, PoppedBound

(* The places of the stacks that are taken. *)
CellsOf(count) == {c \in Experts \X Tokens : c[2] < count[c[1]]}

LEMMA CellsFinite ==
    ASSUME NEW count
    PROVE  IsFiniteSet(CellsOf(count)) /\ Cardinality(CellsOf(count)) \in Nat
<1>1. IsFiniteSet(Experts) /\ IsFiniteSet(Tokens)
  BY Below DEF Experts, Tokens
<1>2. IsFiniteSet(Experts \X Tokens)
  BY <1>1, FS_Product
<1>3. QED
  BY <1>2, FS_Subset, FS_CardinalityType DEF CellsOf

(* Not every expert with tokens gets a slot: then every slot gets one, and *)
(* the round takes a token for each.                                       *)
LEMMA FullRound ==
    ASSUME TypeOK, StackBound, NEW e \in Experts, pending_count[e] # 0, ~Scheduled(e)
    PROVE  /\ NSlots < LocalExperts
           /\ \A s \in Slots : \E d \in Experts :
                 Rank(d) = s /\ Scheduled(d) /\ pending_count[d] >= pending_count[e]
           /\ Cardinality(CellsOf(Remaining)) + NSlots <= Cardinality(CellsOf(pending_count))
           /\ NSlots * pending_count[e] < Cardinality(CellsOf(pending_count))
<1>1. NSlots <= Rank(e) /\ Rank(e) \in Experts
  BY ScheduledRanks, Ranks DEF Experts
<1>2. NSlots < LocalExperts
  BY <1>1 DEF Experts
<1>3. ASSUME NEW s \in Slots
      PROVE  \E d \in Experts : Rank(d) = s /\ Scheduled(d) /\ pending_count[d] >= pending_count[e]
  <2>1. s \in Experts /\ s < Rank(e) /\ s < NSlots
    BY <1>1, <1>2 DEF Slots, Experts
  <2>2. PICK d \in Experts : Rank(d) = s
    BY <2>1, Ranks
  <2>3. pending_count[d] >= pending_count[e]
    BY <2>1, <2>2, Ranks
  <2>4. pending_count[d] # 0
    BY <2>3 DEF TypeOK
  <2>5. QED
    BY <2>1, <2>2, <2>3, <2>4, ScheduledRanks
<1> DEFINE E(s) == CHOOSE d \in Experts : Rank(d) = s
<1>4. ASSUME NEW s \in Slots
      PROVE  E(s) \in Experts /\ Rank(E(s)) = s /\ Scheduled(E(s)) /\ pending_count[E(s)] >= pending_count[e]
  <2>1. PICK d \in Experts : Rank(d) = s /\ Scheduled(d) /\ pending_count[d] >= pending_count[e]
    BY <1>3
  <2>2. E(s) = d
    BY <2>1, Ranks
  <2>3. QED
    BY <2>1, <2>2
<1> HIDE DEF E
<1>5. \A d \in Experts : /\ pending_count[d] \in Nat /\ pending_count[d] <= NTileMax
                         /\ Remaining[d] \in Nat /\ Remaining[d] <= pending_count[d]
                         /\ Scheduled(d) => Remaining[d] < pending_count[d]
  <2>1. \A d \in Experts : pending_count[d] <= NTileMax
    BY DEF StackBound, TypeOK
  <2>2. QED
    BY <2>1, RoundTakes, RemainingBound
<1>6. IsFiniteSet(Slots) /\ Cardinality(Slots) = NSlots
  BY Below DEF Slots
<1>7. Cardinality(CellsOf(Remaining)) + NSlots <= Cardinality(CellsOf(pending_count))
  <2> DEFINE New == CellsOf(Remaining)
             Old == CellsOf(pending_count)
             top == [s \in Slots |-> <<E(s), pending_count[E(s)] - 1>>]
  <2>1. New \in SUBSET Old
    BY <1>5 DEF CellsOf, Tokens
  <2>2. ASSUME NEW s \in Slots
        PROVE  top[s] \in Old \ New
    <3>1. pending_count[E(s)] \in Nat /\ pending_count[E(s)] <= NTileMax
          /\ Remaining[E(s)] < pending_count[E(s)] /\ Remaining[E(s)] \in Nat
      BY <1>4, <1>5
    <3>2. pending_count[E(s)] - 1 \in Tokens /\ pending_count[E(s)] - 1 < pending_count[E(s)]
          /\ ~(pending_count[E(s)] - 1 < Remaining[E(s)])
      BY <3>1 DEF Tokens
    <3>3. QED
      BY <3>2, <1>4 DEF CellsOf
  <2>3. \A s1, s2 \in Slots : top[s1] = top[s2] => s1 = s2
    BY <1>4
  <2>4. top \in Injection(Slots, Old \ New)
    BY <2>2, <2>3 DEF Injection, IsInjective
  <2>5. IsFiniteSet(Old) /\ IsFiniteSet(New) /\ Cardinality(Old) \in Nat /\ Cardinality(New) \in Nat
    BY CellsFinite
  <2>6. IsFiniteSet(Old \ New) /\ Cardinality(Old \ New) = Cardinality(Old) - Cardinality(Old \cap New)
    BY <2>5, FS_Difference
  <2>7. Old \cap New = New
    BY <2>1
  <2>8. NSlots <= Cardinality(Old \ New)
    BY <2>4, <2>6, <1>6, FS_Injection
  <2> HIDE DEF New, Old
  <2>9. Cardinality(New) + NSlots <= Cardinality(Old)
    BY <2>5, <2>6, <2>7, <2>8
  <2>10. QED
    BY <2>9 DEF New, Old
<1>8. NSlots * pending_count[e] < Cardinality(CellsOf(pending_count))
  <2> DEFINE S == Slots \X (0 .. pending_count[e] - 1)
             Old == CellsOf(pending_count)
             f == [p \in S |-> <<E(p[1]), p[2]>>]
  <2>1. pending_count[e] \in Nat \ {0} /\ pending_count[e] <= NTileMax
    BY <1>5
  <2>2. IsFiniteSet(0 .. pending_count[e] - 1) /\ Cardinality(0 .. pending_count[e] - 1) = pending_count[e]
    BY <2>1, Below
  <2>3. IsFiniteSet(S) /\ Cardinality(S) = NSlots * pending_count[e]
    BY <2>2, <1>6, FS_Product
  <2>4. ASSUME NEW p \in S
        PROVE  f[p] \in Old /\ f[p] # <<e, 0>>
    <3>1. p[1] \in Slots /\ p[2] \in Nat /\ p[2] < pending_count[e]
      BY <2>1
    <3>2. E(p[1]) \in Experts /\ p[2] < pending_count[E(p[1])] /\ p[2] \in Tokens /\ Scheduled(E(p[1]))
      BY <3>1, <1>4, <1>5, <2>1 DEF Tokens
    <3>3. E(p[1]) # e
      BY <3>2
    <3>4. QED
      BY <3>2, <3>3 DEF CellsOf
  <2>5. ASSUME NEW p \in S, NEW q \in S, f[p] = f[q]
        PROVE  p = q
    <3>1. E(p[1]) = E(q[1]) /\ p[2] = q[2]
      BY <2>5
    <3>2. p[1] = q[1]
      BY <3>1, <1>4
    <3>3. QED
      BY <3>1, <3>2
  <2>6. f \in Injection(S, Old \ {<<e, 0>>})
    BY <2>4, <2>5 DEF Injection, IsInjective
  <2>7. <<e, 0>> \in Old
    BY <2>1 DEF CellsOf, Tokens
  <2>8. IsFiniteSet(Old) /\ Cardinality(Old) \in Nat
    BY CellsFinite
  <2>9. IsFiniteSet(Old \ {<<e, 0>>}) /\ Cardinality(Old \ {<<e, 0>>}) = Cardinality(Old) - 1
    BY <2>7, <2>8, FS_RemoveElement
  <2>10. Cardinality(S) <= Cardinality(Old \ {<<e, 0>>})
    BY <2>6, <2>9, FS_Injection
  <2>11. NSlots * pending_count[e] \in Nat
    BY <2>1
  <2>12. QED
    BY <2>3, <2>8, <2>9, <2>10, <2>11
<1>9. QED
  BY <1>2, <1>3, <1>7, <1>8

LEMMA CellsOfNow == Cells = CellsOf(pending_count) /\ Cells' = CellsOf(pending_count')
  BY DEF Cells, CellsOf

(* A round that leaves nothing higher than r - 1 and gives every expert    *)
(* with tokens a slot leaves at most (r - 1) * NSlots tokens.              *)
LEMMA ShortRound ==
    ASSUME TypeOK, StackBound, \A e \in Experts : pending_count[e] # 0 => Scheduled(e),
           NEW r \in Nat, \A e \in Experts : Remaining[e] <= r
    PROVE  Cardinality(CellsOf(Remaining)) <= NSlots * r
<1> DEFINE New == CellsOf(Remaining)
           f == [c \in New |-> <<Rank(c[1]), c[2]>>]
<1>1. IsFiniteSet(Slots) /\ Cardinality(Slots) = NSlots
  BY Below DEF Slots
<1>2. IsFiniteSet(0 .. r - 1) /\ Cardinality(0 .. r - 1) = r
  BY Below
<1>3. IsFiniteSet(Slots \X (0 .. r - 1)) /\ Cardinality(Slots \X (0 .. r - 1)) = NSlots * r
  BY <1>1, <1>2, FS_Product
<1>4. ASSUME NEW c \in New
      PROVE  Rank(c[1]) \in Slots /\ c[2] \in 0 .. r - 1
  <2>1. c[1] \in Experts /\ c[2] \in Tokens /\ c[2] < Remaining[c[1]]
    BY DEF CellsOf
  <2>2. Remaining[c[1]] \in Nat /\ Remaining[c[1]] <= pending_count[c[1]]
        /\ pending_count[c[1]] \in Nat /\ Remaining[c[1]] <= r
    BY <2>1, RoundTakes, RemainingBound
  <2>3. pending_count[c[1]] # 0 /\ c[2] \in 0 .. r - 1
    BY <2>1, <2>2 DEF Tokens
  <2>4. Rank(c[1]) < NSlots /\ Rank(c[1]) \in Experts
    BY <2>1, <2>3, ScheduledRanks, Ranks
  <2>5. QED
    BY <2>3, <2>4 DEF Slots, Experts
<1>5. ASSUME NEW c \in New, NEW d \in New, f[c] = f[d]
      PROVE  c = d
  <2>1. Rank(c[1]) = Rank(d[1]) /\ c[2] = d[2]
    BY <1>5
  <2>2. c[1] \in Experts /\ d[1] \in Experts /\ c = <<c[1], c[2]>> /\ d = <<d[1], d[2]>>
    BY DEF CellsOf
  <2>3. c[1] = d[1]
    BY <2>1, <2>2, Ranks
  <2>4. QED
    BY <2>1, <2>2, <2>3
<1>6. f \in Injection(New, Slots \X (0 .. r - 1))
  BY <1>4, <1>5 DEF Injection, IsInjective
<1>7. QED
  BY <1>3, <1>6, FS_Injection

(* While anything is pending a round takes one from the height and NSlots  *)
(* from the number that r rounds can serve.                                *)
LEMMA RoundServes ==
    ASSUME TypeOK, StackBound, NEW r \in Nat, \E e \in Experts : pending_count[e] # 0,
           \A e \in Experts : pending_count[e] <= r,
           Cardinality(CellsOf(pending_count)) <= NSlots * r
    PROVE  /\ r >= 1
           /\ \A e \in Experts : Remaining[e] <= r - 1
           /\ Cardinality(CellsOf(Remaining)) <= NSlots * (r - 1)
<1>1. r >= 1 /\ r - 1 \in Nat
  BY RoundTakes
<1>2. NSlots * r = NSlots * (r - 1) + NSlots /\ NSlots * (r - 1) \in Nat
  BY <1>1
<1>3. ASSUME NEW e \in Experts
      PROVE  Remaining[e] <= r - 1
  <2>1. CASE Scheduled(e)
    BY <2>1, RoundTakes
  <2>2. CASE ~Scheduled(e) /\ pending_count[e] = 0
    BY <2>2, <1>1, RoundTakes
  <2>3. CASE ~Scheduled(e) /\ pending_count[e] # 0
    <3>1. NSlots * pending_count[e] < NSlots * r
      <4>1. NSlots * pending_count[e] < Cardinality(CellsOf(pending_count))
        BY <2>3, FullRound
      <4>2. NSlots * pending_count[e] \in Nat /\ NSlots * r \in Nat
        BY RoundTakes
      <4>3. QED
        BY <4>1, <4>2, CellsFinite
    <3>2. pending_count[e] # r
      BY <3>1
    <3>3. QED
      BY <2>3, <3>2, RoundTakes
  <2>4. QED
    BY <2>1, <2>2, <2>3
<1>4. CASE \A e \in Experts : pending_count[e] # 0 => Scheduled(e)
  BY <1>1, <1>3, <1>4, ShortRound
<1>5. CASE \E e \in Experts : pending_count[e] # 0 /\ ~Scheduled(e)
  <2>1. Cardinality(CellsOf(Remaining)) + NSlots <= Cardinality(CellsOf(pending_count))
    BY <1>5, FullRound
  <2>2. Cardinality(CellsOf(Remaining)) \in Nat /\ Cardinality(CellsOf(pending_count)) \in Nat
    BY CellsFinite
  <2>3. QED
    BY <1>1, <1>2, <1>3, <2>1, <2>2
<1>6. QED
  BY <1>1, <1>3, <1>4, <1>5

(* A token adds at most LOCAL_K entries, one to a stack.                   *)
LEMMA IngestAdds ==
    ASSUME TypeOK, StackBound, NEW pkt \in Packets, NEW rows \in Rows(pkt), Ingest(pkt, rows)
    PROVE  /\ \A e \in Experts : pending_count'[e] <= pending_count[e] + 1
           /\ Cardinality(Cells') <= Cardinality(Cells) + LocalK
<1>1. t < NTileMax /\ t \in Nat
  BY TileNType DEF Ingest, TypeOK
<1>2. ASSUME NEW e \in Experts
      PROVE  /\ pending_count[e] \in Nat /\ pending_count[e] < NTileMax
             /\ pending_count'[e] = IF e \in rows THEN pending_count[e] + 1 ELSE pending_count[e]
  <2>1. pending_count[e] \in Nat /\ pending_count[e] < NTileMax
    BY <1>1 DEF TypeOK, StackBound
  <2>2. pending_count'[e] = IF e \in rows THEN (pending_count[e] + 1) % CountMod
                                          ELSE pending_count[e]
    BY DEF Ingest
  <2>3. QED
    BY <2>1, <2>2, NoWrap
<1>3. IsFiniteSet(CardExperts) /\ IsFiniteSet(pkt) /\ Cardinality(pkt) = LocalK
  <2>1. IsFiniteSet(CardExperts)
    BY FS_Interval DEF CardExperts
  <2>2. QED
    BY <2>1, FS_Subset DEF Packets
<1>4. IsFiniteSet(rows) /\ Cardinality(rows) <= LocalK
  <2>1. CASE pkt \subseteq Experts
    BY <2>1, <1>3, FS_CardinalityType DEF Rows
  <2>2. CASE rows = {}
    BY <2>2, FS_EmptySet, <1>3, FS_CardinalityType
  <2>3. CASE rows = {e % LocalExperts : e \in pkt}
    <3> DEFINE f == [e \in pkt |-> e % LocalExperts]
    <3>1. f \in Surjection(pkt, rows)
      BY <2>3 DEF Surjection
    <3>2. QED
      BY <3>1, <1>3, FS_Surjection
  <2>4. QED
    BY <2>1, <2>2, <2>3 DEF Rows
<1>5. Cardinality(Cells') <= Cardinality(Cells) + LocalK
  <2> DEFINE Old == CellsOf(pending_count)
             New == CellsOf(pending_count')
             f == [c \in New \ Old |-> c[1]]
  <2>1. Old \in SUBSET New
    BY <1>2 DEF CellsOf, Tokens
  <2>2. ASSUME NEW c \in New \ Old
        PROVE  c[1] \in rows /\ c[1] \in Experts /\ c[2] = pending_count[c[1]] /\ c = <<c[1], c[2]>>
    <3>1. /\ c[1] \in Experts /\ c[2] \in Nat /\ c = <<c[1], c[2]>>
          /\ c[2] < pending_count'[c[1]] /\ ~(c[2] < pending_count[c[1]])
      BY DEF CellsOf, Tokens
    <3>2. QED
      BY <3>1, <1>2
  <2>3. ASSUME NEW c \in New \ Old, NEW d \in New \ Old, c[1] = d[1]
        PROVE  c = d
    BY <2>2, <2>3
  <2>4. f \in Injection(New \ Old, rows)
    BY <2>2, <2>3 DEF Injection, IsInjective
  <2>5. Cardinality(New \ Old) <= LocalK
    <3>1. IsFiniteSet(New \ Old) /\ Cardinality(New \ Old) <= Cardinality(rows)
      BY <2>4, <1>4, FS_Injection
    <3> HIDE DEF New, Old
    <3>2. QED
      BY <3>1, <1>3, <1>4, FS_CardinalityType
  <2>6. IsFiniteSet(New) /\ Cardinality(Old) \in Nat /\ Cardinality(New) \in Nat
    BY CellsFinite
  <2>7. Cardinality(New \ Old) = Cardinality(New) - Cardinality(New \cap Old)
    BY <2>6, FS_Difference
  <2>8. New \cap Old = Old
    BY <2>1
  <2>9. Cells = Old /\ Cells' = New
    BY CellsOfNow
  <2> HIDE DEF New, Old
  <2>10. LocalK \in Nat
    BY <1>3, FS_CardinalityType
  <2>11. Cardinality(New) <= Cardinality(Old) + LocalK
    <3>1. Cardinality(New) - Cardinality(Old) <= LocalK
      BY <2>5, <2>7, <2>8
    <3>2. QED
      BY <3>1, <2>6, <2>10
  <2>12. QED
    BY <2>9, <2>11
<1>6. QED
  BY <1>2, <1>5

LEMMA RoundInit == DInit => RoundInv
  BY DEF DInit, RoundInv, RoundBound, RoundsFit, HdrDone

(* Steps that touch neither the bank nor the rounds. *)
LEMMA RoundKept ==
    ASSUME RoundInv, UNCHANGED <<pending_count, t, rounds>>,
           pc' \in {"ingest", "round", "hdr", "x"} => pc = pc' \/ (pc = "hdr" /\ pc' = "x"),
           pc' = "x" => hdr' = hdr,
           pc' = "hdr" => hdr' = hdr
    PROVE  RoundInv'
<1>1. Cells' = Cells
  BY DEF Cells
<1>2. QED
  BY <1>1 DEF RoundInv, RoundBound, RoundsFit, HdrDone

LEMMA RoundStep ==
    ASSUME LocalK <= NSlots, TypeOK, StackBound, RoundInv, [DNext]_dvars
    PROVE  RoundInv'
<1>0. LocalK \in Nat /\ t \in Nat /\ rounds \in Nat /\ rounds <= t /\ Cardinality(Cells) \in Nat
  BY CellsFinite, CellsOfNow, DispatchAssumption DEF TypeOK, RoundInv, RoundBound
<1>1. CASE StartTile
  <2>1. pc' = "ingest" /\ t' = 0 /\ rounds' = 0 /\ \A e \in Experts : pending_count'[e] = 0
    BY <1>1 DEF StartTile
  <2>2. Cells' = {}
    BY <2>1 DEF Cells, Tokens
  <2>3. Cardinality(Cells') = 0
    BY <2>2, FS_EmptySet
  <2>4. QED
    BY <2>1, <2>3 DEF RoundInv, RoundBound, RoundsFit, HdrDone
<1>2. ASSUME NEW pkt \in Packets, NEW rows \in Rows(pkt), Ingest(pkt, rows)
      PROVE  RoundInv'
  <2>1. pc = "ingest" /\ pc' = "ingest" /\ t' = t + 1 /\ rounds' = 0 /\ rounds = 0
    BY <1>2 DEF Ingest, RoundInv
  <2>2. /\ \A e \in Experts : pending_count'[e] <= pending_count[e] + 1
        /\ Cardinality(Cells') <= Cardinality(Cells) + LocalK
    BY <1>2, IngestAdds
  <2>3. \A e \in Experts : pending_count[e] \in Nat /\ pending_count[e] <= t
    BY RoundTakes DEF StackBound
  <2>4. \A e \in Experts : pending_count'[e] \in Nat
    BY <1>2, <2>3, NoWrap DEF Ingest
  <2>5. Cardinality(Cells) <= NSlots * t
    BY <2>1, <1>0 DEF RoundInv, RoundsFit
  <2>6. NSlots * (t + 1) = NSlots * t + NSlots /\ NSlots * t \in Nat
    BY <1>0
  <2>7. Cardinality(Cells') \in Nat
    BY CellsFinite, CellsOfNow
  <2>8. Cardinality(Cells') <= NSlots * (t' - rounds')
    BY <1>0, <2>1, <2>2, <2>5, <2>6, <2>7
  <2>9. \A e \in Experts : pending_count'[e] <= t' - rounds'
    BY <1>0, <2>1, <2>2, <2>3, <2>4
  <2>10. QED
    BY <1>0, <2>1, <2>8, <2>9 DEF RoundInv, RoundBound, RoundsFit, HdrDone
<1>3. CASE Scan
  <2>1. UNCHANGED <<pending_count, t, rounds, hdr>> /\ pc = "ingest"
        /\ pc' \in {"round", "tile"} /\ (pc' = "round" => \E e \in Experts : pending_count[e] # 0)
    BY <1>3 DEF Scan, bank, hist
  <2>2. Cells' = Cells
    BY <2>1 DEF Cells
  <2>3. QED
    BY <2>1, <2>2 DEF RoundInv, RoundBound, RoundsFit, HdrDone
<1>4. CASE BuildRound
  <2>1. /\ pc = "round" /\ pc' = "hdr" /\ pending_count' = Remaining
        /\ rounds' = rounds + 1 /\ t' = t
        /\ \A s \in Slots : hdr'[s] = SlotHdr(s, TileDone)
    BY <1>4 DEF BuildRound
  <2>2. PICK r \in Nat : r = t - rounds
    BY <1>0
  <2>3. /\ \E e \in Experts : pending_count[e] # 0
        /\ \A e \in Experts : pending_count[e] <= r
        /\ Cardinality(CellsOf(pending_count)) <= NSlots * r
    BY <2>1, <2>2, CellsOfNow DEF RoundInv, RoundsFit
  <2>4. /\ r >= 1
        /\ \A e \in Experts : Remaining[e] <= r - 1
        /\ Cardinality(CellsOf(Remaining)) <= NSlots * (r - 1)
    BY <2>3, RoundServes
  <2>5. t' - rounds' = r - 1 /\ rounds' <= t'
    BY <1>0, <2>1, <2>2, <2>4
  <2>6. RoundsFit' /\ RoundBound'
    BY <2>1, <2>4, <2>5, CellsOfNow DEF RoundsFit, RoundBound
  <2>7. hdr'[0].done = TileDone
    <3>1. 0 \in Slots
      BY DEF Slots
    <3>2. SlotHdr(0, TileDone).done = TileDone
      <4>1. CASE Found(0) = {}
        BY <4>1 DEF SlotHdr, Filler
      <4>2. CASE Found(0) # {}
        BY <4>2 DEF SlotHdr
      <4>3. QED
        BY <4>1, <4>2
    <3>3. QED
      BY <3>1, <3>2, <2>1
  <2>8. HdrDone'
    BY <2>1, <2>7 DEF HdrDone, TileDone
  <2>9. QED
    BY <2>1, <2>6, <2>8 DEF RoundInv
<1>5. CASE EmitHdr
  BY <1>5, RoundKept DEF EmitHdr, bank
<1>6. CASE StreamX
  <2>1. UNCHANGED <<pending_count, t, rounds, hdr>> /\ pc = "x" /\ pc' \in {"x", "round", "tile"}
        /\ (pc' = "round" => ~hdr[0].done)
    BY <1>6 DEF StreamX, bank, hist
  <2>2. CASE pc' = "round"
    <3>1. Cells' = Cells
      BY <2>1 DEF Cells
    <3>2. \E e \in Experts : pending_count'[e] # 0
      BY <2>1, <2>2 DEF RoundInv, HdrDone
    <3>3. QED
      BY <2>1, <2>2, <3>1, <3>2 DEF RoundInv, RoundBound, RoundsFit, HdrDone
  <2>3. CASE pc' # "round"
    BY <2>1, <2>3, RoundKept
  <2>4. QED
    BY <2>2, <2>3
<1>7. CASE EmitSentinel
  BY <1>7, RoundKept DEF EmitSentinel, bank, hist
<1>8. CASE StreamZero
  BY <1>8, RoundKept DEF StreamZero, bank, hist
<1>9. ASSUME NEW s \in Slots, TakeHdr(s) \/ TakeX(s)
      PROVE  RoundInv'
  BY <1>9, RoundKept DEF TakeHdr, TakeX, bank, hist
<1>10. CASE Finished \/ UNCHANGED dvars
  BY <1>10, RoundKept DEF Finished, dvars, bank, hist
<1>11. QED
  BY <1>1, <1>2, <1>3, <1>4, <1>5, <1>6, <1>7, <1>8, <1>9, <1>10 DEF DNext, Dispatch

(* A tile of n tokens takes at most n rounds, on either card, as long as   *)
(* there are LOCAL_K slots (moe_batch_16b.h:31 makes them equal).          *)
THEOREM RoundsBounded ==
    ASSUME LocalK <= NSlots
    PROVE  DSpec => []RoundBound
<1>1. DInit => TypeOK /\ StackBound /\ RoundInv
  BY TypeInit, RoundInit
<1>2. TypeOK /\ StackBound /\ RoundInv /\ [DNext]_dvars => (TypeOK /\ StackBound /\ RoundInv)'
  BY TypeStep, RoundStep
<1>3. RoundInv => RoundBound
  BY DEF RoundInv
<1>4. QED
  BY <1>1, <1>2, <1>3, PTL DEF DSpec
================================================================================
