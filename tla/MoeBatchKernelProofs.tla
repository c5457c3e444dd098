-------------------------- MODULE MoeBatchKernelProofs --------------------------
(***************************************************************************)
(* The batched MoE kernel computes what it should, for every number of     *)
(* tokens, experts, slots, lanes and vectors and every FIFO depth: the     *)
(* inductive invariant of MoeBatchKernel.  It numbers the rounds the       *)
(* dispatcher wrote (log) and says where in that sequence every slot and   *)
(* every accumulator is, so that a FIFO holds exactly what lies between    *)
(* its writer and its reader.  Like the second part of MoeDispatchProofs   *)
(* it is about the card whose experts start at 0.                          *)
(***************************************************************************)
EXTENDS MoeBatchKernel, MoeDispatchProofs, FoldTheorems

USE Constants

(* Beats of x a slot takes in a round. *)
RoundBeats == TokenLanes * HiddenVecs

Closes(r) == log[r].hdrs[0].done
Stops(r)  == log[r].hdrs[0].last

(* The tile the round after the r-th belongs to. *)
BaseAfter(r) ==
    IF r = 0 THEN 0 ELSE IF Closes(r) THEN log[r].base + NTileMax ELSE log[r].base

(* Lane l of slot s works in round r. *)
Works(r, s, l) == l < log[r].hdrs[s].cnt

(* The routings written for the tile that starts at b. *)
Carried(b) ==
    {p \in Tokens \X Experts : \E r \in DOMAIN log, s \in Slots, l \in Lanes :
        /\ log[r].base = b /\ Works(r, s, l)
        /\ p = <<log[r].hdrs[s].toks[l], log[r].hdrs[s].trig>>}

(* The token whose x a lane multiplies in round r. *)
Source(r, s, l) ==
    IF Stops(r) THEN Zero
    ELSE log[r].base + (IF Works(r, s, l) THEN log[r].hdrs[s].toks[l] ELSE 0)

--------------------------------------------------------------------------------
RoundRecs == [hdrs : [Slots -> Hdrs], base : Nat]
LogType == log \in Seq(RoundRecs)

(* The headers of one round, as dispatch_core builds them. *)
Alike(H) == \A s \in Slots : /\ ~H[s].last /\ H[s].trig \in Experts
                             /\ H[s].done = H[0].done
                             /\ H[s].cnt > 0 => H[s].act
HdrBuilt == pc \in {"hdr", "x"} => Alike(hdr)
LogShape ==
    \A r \in DOMAIN log :
        /\ log[r].base = BaseAfter(r - 1)
        /\ ~Stops(r) => Alike(log[r].hdrs) /\ log[r].base < N
        /\ Stops(r) => /\ \A s \in Slots : log[r].hdrs[s] = Sentinel
                       /\ log[r].base >= N /\ r = Len(log)

(* Tiles follow each other in the log. *)
LogOrder ==
    /\ \A q, r \in DOMAIN log : q <= r => log[q].base <= log[r].base
    /\ \A r \in DOMAIN log :
          IF pc \in {"tile", "ingest"} THEN log[r].base < tile_base
                                      ELSE log[r].base <= tile_base

Closed == Len(log) = 0 \/ Closes(Len(log))
InTile == pc \in {"ingest", "round", "hdr", "x"}
LogEnd ==
    /\ pc \in {"drain", "done"} <=> Len(log) > 0 /\ Stops(Len(log))
    /\ pc \in {"tile", "ingest", "round", "hdr"} => tile_base = BaseAfter(Len(log))
    /\ pc \in {"tile", "ingest"} => Closed
    /\ pc = "x" => Len(log) > 0 /\ log[Len(log)] = [hdrs |-> hdr, base |-> tile_base]
    /\ pc \in {"drain", "done"} => tile_base >= N
    /\ InTile => tile_base < N
    /\ pc \in {"x", "drain"} => lane < TokenLanes
    /\ InTile => t <= TileN
    /\ pc \in {"round", "hdr", "x"} => t = TileN

RoutesOK ==
    /\ routes \in Seq((SUBSET Experts) \ {{}})
    /\ InTile => Len(routes) = tile_base + t
    /\ ~InTile => Len(routes) = IF tile_base < N THEN tile_base ELSE N
    /\ InTile => routed = {r \in Tokens \X Experts : r[1] < t /\ r[2] \in routes[tile_base + r[1] + 1]}
    /\ InTile => sent = Carried(tile_base)

CacheOK == InTile => \A k \in Tokens : k < t => x_cache[k] = tile_base + k

(* What a round delivers was routed there by the gate; the round that      *)
(* closes a tile completes it.                                             *)
Right(r) ==
    \A s \in Slots, l \in Lanes : Works(r, s, l) =>
        /\ log[r].base + log[r].hdrs[s].toks[l] < Len(routes)
        /\ log[r].hdrs[s].trig \in routes[log[r].base + log[r].hdrs[s].toks[l] + 1]
Whole(r) ==
    \A k \in Tokens : log[r].base + k < N =>
        /\ log[r].base + k < Len(routes)
        /\ \A e \in routes[log[r].base + k + 1] :
              \E q \in 1 .. r, s \in Slots, l \in Lanes :
                 /\ log[q].base = log[r].base /\ Works(q, s, l)
                 /\ log[q].hdrs[s].toks[l] = k /\ log[q].hdrs[s].trig = e
Delivered == \A r \in DOMAIN log : Right(r) /\ (Closes(r) => Whole(r))

OnceInTile ==
    \A r1, r2 \in DOMAIN log : log[r1].base = log[r2].base =>
        \A s1, s2 \in Slots, l1, l2 \in Lanes :
            /\ Works(r1, s1, l1) /\ Works(r2, s2, l2)
            /\ log[r1].hdrs[s1].toks[l1] = log[r2].hdrs[s2].toks[l2]
            /\ log[r1].hdrs[s1].trig = log[r2].hdrs[s2].trig
            => r1 = r2 /\ s1 = s2 /\ l1 = l2

LogInv == /\ LogType /\ HdrBuilt /\ LogShape /\ LogOrder /\ LogEnd /\ RoutesOK
          /\ CacheOK /\ Delivered /\ OnceInTile

--------------------------------------------------------------------------------
(* A product, a sum of them, a packet. *)
Products(E, n) == SetToBag({[row |-> e, x |-> {n}] : e \in E})
Sums == {Products(E, n) : E \in SUBSET Experts, n \in Nat}
PacketRecs == [tok : Tokens, vec : Nat, y : [row : Int, x : SUBSET (Nat \cup {Zero})],
               act : BOOLEAN, last : BOOLEAN, done : BOOLEAN]

KTypes ==
    /\ spc \in [Slots -> {"hdr", "x", "out", "tail", "done"}]
    /\ shdr \in [Slots -> Hdrs]
    /\ x_cur \in [Slots -> Seq(Nat \cup {Zero})]
    /\ np \in [Slots -> [Halves -> Nat]]
    /\ partial \in [Halves -> [Slots -> Seq(PacketRecs)]]
    /\ apc \in [Halves -> {"tile", "acc", "flush", "drain", "done"}]
    /\ around \in [Halves -> Nat] /\ abase \in [Halves -> Nat]
    /\ aslot \in [Halves -> Slots] /\ an \in [Halves -> 0 .. RoundPackets - 1]
    /\ aover \in [Halves -> BOOLEAN] /\ asaw \in [Halves -> BOOLEAN]
    /\ y_acc \in [Halves -> [Tokens -> [HVecs -> Sums]]]
    /\ aflush \in [Halves -> Nat]
    /\ y_mem \in [Halves -> Seq(Sums)]

(* Rounds whose header slot s has read; the headers in its FIFO are the    *)
(* next ones.                                                              *)
Got(s) == Len(log) - Len(hdr_out[s])
HdrFifo(s) ==
    /\ Got(s) >= 0
    /\ \A i \in 1 .. Len(hdr_out[s]) : hdr_out[s][i] = log[Got(s) + i].hdrs[s]

(* Beats written to a slot, and read by it; the n-th of them.              *)
XWritten == IF pc \in {"x", "drain"}
            THEN (Len(log) - 1) * RoundBeats + (lane * HiddenVecs + vec)
            ELSE Len(log) * RoundBeats
XRead(s) == IF spc[s] = "x" THEN (Got(s) - 1) * RoundBeats + Len(x_cur[s])
                            ELSE Got(s) * RoundBeats
Beat(s, n) == Source(n \div RoundBeats + 1, s, (n % RoundBeats) \div HiddenVecs)
XFifo(s) ==
    /\ XRead(s) + Len(x_out[s]) = XWritten
    /\ \A i \in 1 .. Len(x_out[s]) : x_out[s][i] = Beat(s, XRead(s) + (i - 1))

(* What a slot knows is the round it works on. *)
SlotOK(s) ==
    /\ spc[s] = "hdr" => Got(s) = 0 \/ ~Stops(Got(s))
    /\ spc[s] # "hdr" => Got(s) >= 1 /\ shdr[s] = log[Got(s)].hdrs[s]
    /\ spc[s] = "x" => Len(x_cur[s]) < RoundBeats
    /\ spc[s] \in {"x", "out"} =>
          \A i \in 1 .. Len(x_cur[s]) : x_cur[s][i] = Source(Got(s), s, (i - 1) \div HiddenVecs)
    /\ spc[s] = "out" => ~Stops(Got(s)) /\ Len(x_cur[s]) = RoundBeats
                         /\ \A h \in Halves : np[s][h] <= RoundPackets
    /\ spc[s] \in {"tail", "done"} => Stops(Got(s))
    /\ spc[s] = "tail" => \A h \in Halves : np[s][h] <= 1
    /\ spc[s] = "done" => \A h \in Halves : np[s][h] = 1
SlotInv(s) == HdrFifo(s) /\ XFifo(s) /\ SlotOK(s)

--------------------------------------------------------------------------------
(* Packets a slot has written to a half, and its accumulator has read. *)
PWritten(h, s) ==
    IF spc[s] = "hdr" THEN Got(s) * RoundPackets
    ELSE (Got(s) - 1) * RoundPackets + (IF spc[s] = "x" THEN 0 ELSE np[s][h])
InRound(h, s) ==
    CASE apc[h] = "acc" -> (IF s < aslot[h] THEN RoundPackets
                            ELSE IF s = aslot[h] THEN an[h] ELSE 0)
      [] apc[h] = "drain" -> (IF s < aslot[h] THEN 1 ELSE 0)
      [] apc[h] = "done" -> 1
      [] OTHER -> 0
PRead(h, s) == around[h] * RoundPackets + InRound(h, s)
LanePacket(r, s, l, v) ==
    IF Stops(r) THEN Tail0
    ELSE [tok |-> log[r].hdrs[s].toks[l], vec |-> v,
          y |-> [row |-> log[r].hdrs[s].trig, x |-> {Source(r, s, l)}],
          act |-> log[r].hdrs[s].act /\ Works(r, s, l), last |-> FALSE, done |-> Closes(r)]
PacketAt(s, n) ==
    LET i == n % RoundPackets
    IN  LanePacket(n \div RoundPackets + 1, s, i \div HalfVecs, i % HalfVecs)
PFifo(h, s) ==
    /\ PRead(h, s) + Len(partial[h][s]) = PWritten(h, s)
    /\ \A i \in 1 .. Len(partial[h][s]) :
          partial[h][s][i] = PacketAt(s, PRead(h, s) + (i - 1))

--------------------------------------------------------------------------------
(* Lane l of slot s in round r was read by accumulator h up to vector v. *)
Gathered(h, r, s, l, v) ==
    \/ r <= around[h]
    \/ /\ r = around[h] + 1
       /\ \/ s < aslot[h]
          \/ s = aslot[h] /\ l * HalfVecs + v < an[h]
(* The experts whose product is in the sum of token k of the tile. *)
Summed(h, k, v) ==
    {e \in Experts : \E r \in DOMAIN log, s \in Slots, l \in Lanes :
        /\ log[r].base = abase[h] /\ Works(r, s, l) /\ Gathered(h, r, s, l, v)
        /\ log[r].hdrs[s].toks[l] = k /\ log[r].hdrs[s].trig = e}

AccPlace(h) ==
    /\ around[h] <= Len(log)
    /\ around[h] > 0 => ~Stops(around[h])
    /\ apc[h] # "flush" => abase[h] = BaseAfter(around[h])
    /\ apc[h] = "tile" => around[h] = 0 \/ Closes(around[h])
    /\ apc[h] = "flush" => /\ around[h] > 0 /\ Closes(around[h])
                           /\ abase[h] = log[around[h]].base
                           /\ aflush[h] < ATileN(h) * HalfVecs
                           /\ aslot[h] = 0 /\ an[h] = 0
    /\ apc[h] \in {"acc", "flush"} => abase[h] < N
    /\ apc[h] \in {"drain", "done"} => abase[h] >= N
    /\ apc[h] = "done" => around[h] + 1 = Len(log)
AccFlags(h) ==
    apc[h] = "acc" =>
        /\ an[h] > 0 => around[h] < Len(log) /\ asaw[h] = Closes(around[h] + 1)
        /\ aslot[h] > 0 => around[h] < Len(log) /\ aover[h] = Closes(around[h] + 1)
        /\ aslot[h] = 0 => ~aover[h]
AccSums(h) ==
    apc[h] \in {"acc", "flush"} =>
        \A k \in Tokens, v \in HVecs :
            y_acc[h][k][v] = Products(Summed(h, k, v), abase[h] + k)
AccRows(h) ==
    /\ Len(y_mem[h]) = (IF abase[h] < N THEN abase[h] ELSE N) * HalfVecs
                       + (IF apc[h] = "flush" THEN aflush[h] ELSE 0)
    /\ \A i \in 1 .. Len(y_mem[h]) :
          /\ (i - 1) \div HalfVecs < Len(routes)
          /\ y_mem[h][i] = Expected((i - 1) \div HalfVecs)
AccInv(h) == AccPlace(h) /\ AccFlags(h) /\ AccSums(h) /\ AccRows(h)

KInv ==
    /\ IInv /\ LogInv /\ KTypes
    /\ \A s \in Slots : SlotInv(s)
    /\ \A h \in Halves, s \in Slots : PFifo(h, s)
    /\ \A h \in Halves : AccInv(h)

--------------------------------------------------------------------------------
(* Arithmetic of positions. *)

LEMMA Sizes ==
    /\ HalfVecs \in Nat \ {0} /\ HiddenVecs \in Nat \ {0} /\ TokenLanes \in Nat \ {0}
    /\ RoundBeats \in Nat \ {0} /\ RoundPackets \in Nat \ {0}
<1>1. /\ HalfVecs \in Nat \ {0} /\ HiddenVecs \in Nat \ {0} /\ TokenLanes \in Nat \ {0}
  BY KernelAssumption, DispatchAssumption
<1>2. /\ TokenLanes * HiddenVecs \in Nat \ {0}
      /\ TokenLanes * HalfVecs \in Nat \ {0}
  BY <1>1
<1>3. QED
  BY <1>1, <1>2 DEF RoundBeats, RoundPackets

(* Sequences, whatever their elements are. *)
LEMMA SeqFacts ==
    ASSUME NEW S, NEW q \in Seq(S)
    PROVE  /\ Len(q) \in Nat /\ DOMAIN q = 1 .. Len(q)
           /\ \A i \in 1 .. Len(q) : q[i] \in S
           /\ q = <<>> <=> Len(q) = 0
  OBVIOUS

LEMMA AppendFacts ==
    ASSUME NEW S, NEW q \in Seq(S), NEW e \in S
    PROVE  /\ Append(q, e) \in Seq(S) /\ Len(Append(q, e)) = Len(q) + 1
           /\ DOMAIN Append(q, e) = 1 .. Len(q) + 1
           /\ \A i \in 1 .. Len(q) : Append(q, e)[i] = q[i]
           /\ Append(q, e)[Len(q) + 1] = e
  OBVIOUS

LEMMA TailFacts ==
    ASSUME NEW S, NEW q \in Seq(S), q # <<>>
    PROVE  /\ Tail(q) \in Seq(S) /\ Len(Tail(q)) = Len(q) - 1 /\ Len(q) >= 1
           /\ \A i \in 1 .. Len(q) - 1 : Tail(q)[i] = q[i + 1]
           /\ Head(q) = q[1] /\ Head(q) \in S
  OBVIOUS

--------------------------------------------------------------------------------
(* The log of rounds. *)

(* What a dispatcher's step does to the histories. *)
LEMMA Logged ==
    ASSUME IInv, DispatchStep, LocalExpertBase = 0
    PROVE  /\ EmitHdr => /\ log' = Append(log, [hdrs |-> hdr, base |-> tile_base])
                         /\ routes' = routes
           /\ EmitSentinel =>
                 /\ log' = Append(log, [hdrs |-> [s \in Slots |-> Sentinel], base |-> tile_base])
                 /\ routes' = routes
           /\ StartTile \/ Scan \/ BuildRound \/ StreamX \/ StreamZero =>
                 log' = log /\ routes' = routes
           /\ \A pkt \in Packets : \A rows \in Rows(pkt) :
                 Ingest(pkt, rows) => log' = log /\ routes' = Append(routes, pkt)
<1>1. TypeOK /\ t \in Nat /\ 0 \in Slots
  <2>1. TypeOK /\ 0 \in Slots
    BY DEF IInv, Slots
  <2>2. t \in 0 .. NTileMax
    BY <2>1 DEF TypeOK
  <2>3. QED
    BY <2>1, <2>2
<1>2. CASE EmitHdr
  <2>1. hdr_out'[0] = Append(hdr_out[0], hdr[0])
    BY <1>1, <1>2 DEF EmitHdr
  <2>2. hdr_out[0] \in Seq(Hdrs)
    BY <1>1 DEF TypeOK
  <2>3. hdr_out' # hdr_out
    BY <2>1, <2>2
  <2>4. pc = "hdr" /\ t' = t
    BY <1>2 DEF EmitHdr
  <2>5. QED
    BY <1>1, <1>2, <2>3, <2>4 DEF DispatchStep, Round, StartTile, Scan, BuildRound, StreamX,
       StreamZero, EmitSentinel, Ingest
<1>3. CASE EmitSentinel
  <2>1. hdr_out'[0] = Append(hdr_out[0], Sentinel)
    BY <1>1, <1>3 DEF EmitSentinel
  <2>2. hdr_out[0] \in Seq(Hdrs)
    BY <1>1 DEF TypeOK
  <2>3. hdr_out' # hdr_out
    BY <2>1, <2>2
  <2>4. pc = "tile" /\ pc' = "drain" /\ t' = t
    BY <1>3 DEF EmitSentinel
  <2>5. QED
    BY <1>1, <1>3, <2>3, <2>4 DEF DispatchStep, Round, StartTile, Scan, BuildRound, StreamX,
       StreamZero, EmitHdr, Ingest
<1>4. CASE StartTile \/ Scan \/ BuildRound \/ StreamX \/ StreamZero
  <2>1. hdr_out' = hdr_out /\ (t' = t \/ t' = 0)
    BY <1>4 DEF StartTile, Scan, BuildRound, StreamX, StreamZero, fifos
  <2>2. t' # t + 1
    BY <1>1, <2>1
  <2>3. log' = log /\ routes' = routes
    BY <2>1, <2>2 DEF DispatchStep
  <2>4. ~EmitHdr /\ ~EmitSentinel
    BY <1>4 DEF StartTile, Scan, BuildRound, StreamX, StreamZero, EmitHdr, EmitSentinel
  <2>5. \A pkt, rows : ~Ingest(pkt, rows)
    BY <1>1, <2>2 DEF Ingest
  <2>6. QED
    BY <2>3, <2>4, <2>5
<1>5. ASSUME NEW pkt \in Packets, NEW rows \in Rows(pkt), Ingest(pkt, rows)
      PROVE  log' = log /\ routes' = Append(routes, pkt)
  <2>1. hdr_out' = hdr_out /\ t' = t + 1
    BY <1>5 DEF Ingest, fifos
  <2>2. routed' = routed \cup ({t} \X pkt)
    BY <1>5, FirstCardRows DEF Ingest
  <2>3. \A r \in routed : r[1] < t /\ r[1] \in Nat
    BY DEF IInv, RoutedBelow, TypeOK, Tokens
  <2>4. routed' \ routed = {t} \X pkt
    BY <1>1, <2>2, <2>3
  <2>5. {r[2] : r \in {t} \X pkt} = pkt
    <3>1. \A r \in {t} \X pkt : r[2] \in pkt
      OBVIOUS
    <3>2. \A e \in pkt : <<t, e>> \in {t} \X pkt /\ <<t, e>>[2] = e
      OBVIOUS
    <3>3. QED
      BY <3>1, <3>2
  <2>6. QED
    BY <2>1, <2>4, <2>5 DEF DispatchStep
<1>6. ASSUME NEW pkt \in Packets, NEW rows \in Rows(pkt), Ingest(pkt, rows)
      PROVE  ~EmitHdr /\ ~EmitSentinel /\ ~(StartTile \/ Scan \/ BuildRound \/ StreamX \/ StreamZero)
  BY <1>6 DEF Ingest, StartTile, Scan, BuildRound, StreamX, StreamZero, EmitHdr, EmitSentinel
<1>7. QED
  <2>1. ASSUME NEW pkt \in Packets, NEW rows \in Rows(pkt), Ingest(pkt, rows)
        PROVE log' = log /\ routes' = Append(routes, pkt)
    BY <1>5, <2>1
  <2>2. QED
    BY <1>2, <1>3, <1>4, <2>1

(* Rounds once written stay as they are. *)
Grows == \/ log' = log
         \/ \E e \in RoundRecs : log' = Append(log, e)

LEMMA OldRounds ==
    ASSUME LogType, Grows
    PROVE  /\ LogType' /\ Len(log) \in Nat /\ Len(log') \in Nat /\ Len(log) <= Len(log')
           /\ DOMAIN log = 1 .. Len(log) /\ DOMAIN log' = 1 .. Len(log')
           /\ \A r \in 1 .. Len(log) :
                 /\ log'[r] = log[r]
                 /\ Closes(r)' = Closes(r) /\ Stops(r)' = Stops(r)
                 /\ \A s, l : Works(r, s, l)' = Works(r, s, l) /\ Source(r, s, l)' = Source(r, s, l)
           /\ \A r \in 0 .. Len(log) : BaseAfter(r)' = BaseAfter(r)
<1>1. /\ LogType' /\ Len(log) \in Nat /\ Len(log') \in Nat /\ Len(log) <= Len(log')
      /\ DOMAIN log = 1 .. Len(log) /\ DOMAIN log' = 1 .. Len(log')
  <2>1. CASE log' = log
    BY <2>1, SeqFacts DEF LogType
  <2>2. ASSUME NEW e \in RoundRecs, log' = Append(log, e)
        PROVE  /\ LogType' /\ Len(log) \in Nat /\ Len(log') \in Nat /\ Len(log) <= Len(log')
               /\ DOMAIN log = 1 .. Len(log) /\ DOMAIN log' = 1 .. Len(log')
    <3>1. Len(log) \in Nat /\ DOMAIN log = 1 .. Len(log)
      BY SeqFacts DEF LogType
    <3>2. /\ Append(log, e) \in Seq(RoundRecs) /\ Len(Append(log, e)) = Len(log) + 1
          /\ DOMAIN Append(log, e) = 1 .. Len(log) + 1
      BY AppendFacts DEF LogType
    <3>3. QED
      BY <2>2, <3>1, <3>2 DEF LogType
  <2>3. QED
    BY <2>1, <2>2 DEF Grows
<1>2. \A r \in 1 .. Len(log) : log'[r] = log[r]
  BY AppendFacts DEF LogType, Grows
<1>3. \A r \in 1 .. Len(log) :
         /\ Closes(r)' = Closes(r) /\ Stops(r)' = Stops(r)
         /\ \A s, l : Works(r, s, l)' = Works(r, s, l)
  BY <1>2 DEF Closes, Stops, Works
<1>4. \A r \in 1 .. Len(log) : \A s, l : Source(r, s, l)' = Source(r, s, l)
  BY <1>2, <1>3 DEF Source
<1>5. \A r \in 0 .. Len(log) : BaseAfter(r)' = BaseAfter(r)
  <2>1. ASSUME NEW r \in 0 .. Len(log), r # 0
        PROVE  BaseAfter(r)' = BaseAfter(r)
    BY <1>1, <1>2, <1>3, <2>1 DEF BaseAfter
  <2>2. QED
    BY <2>1 DEF BaseAfter
<1>6. QED
  BY <1>1, <1>2, <1>3, <1>4, <1>5

LEMMA Entries ==
    ASSUME LogType
    PROVE  /\ Len(log) \in Nat /\ DOMAIN log = 1 .. Len(log)
           /\ \A r \in DOMAIN log :
                 /\ log[r] \in RoundRecs
                 /\ log[r].base \in Nat /\ log[r].hdrs \in [Slots -> Hdrs]
                 /\ \A s \in Slots : /\ log[r].hdrs[s].toks \in [Lanes -> Tokens]
                                     /\ log[r].hdrs[s].cnt \in 0 .. TokenLanes
                                     /\ log[r].hdrs[s].trig \in Int
                                     /\ log[r].hdrs[s].done \in BOOLEAN
                                     /\ log[r].hdrs[s].last \in BOOLEAN
                                     /\ log[r].hdrs[s].act \in BOOLEAN
<1>1. Len(log) \in Nat /\ DOMAIN log = 1 .. Len(log)
  BY SeqFacts DEF LogType
<1>2. ASSUME NEW r \in DOMAIN log
      PROVE  log[r] \in RoundRecs
  BY <1>1, <1>2, SeqFacts DEF LogType
<1>3. ASSUME NEW r \in DOMAIN log
      PROVE  log[r].base \in Nat /\ log[r].hdrs \in [Slots -> Hdrs]
  BY <1>2 DEF RoundRecs
<1>4. ASSUME NEW r \in DOMAIN log, NEW s \in Slots
      PROVE  log[r].hdrs[s] \in Hdrs
  BY <1>3
<1>5. QED
  BY <1>1, <1>2, <1>3, <1>4 DEF Hdrs

(* Before the sentinel no round in the log stops a slot. *)
LEMMA NoStop ==
    ASSUME LogType, LogShape, LogEnd, pc \notin {"drain", "done"}
    PROVE  \A r \in DOMAIN log : ~Stops(r) /\ log[r].base < N
  BY Entries DEF LogShape, LogEnd

LEMMA LogKept ==
    ASSUME LogInv,
           UNCHANGED <<pc, tile_base, t, hdr, lane, x_cache, routed, sent, routes, log>>
    PROVE  LogInv'
<1>1. LogType' /\ HdrBuilt' /\ LogShape' /\ LogOrder'
  BY DEF LogInv, LogType, HdrBuilt, LogShape, LogOrder, Alike, Stops, BaseAfter, Closes
<1>2. LogEnd'
  BY DEF LogInv, LogEnd, Stops, BaseAfter, Closes, Closed, InTile, TileN
<1>3. RoutesOK' /\ CacheOK'
  BY DEF LogInv, RoutesOK, CacheOK, InTile, Carried, Works
<1>4. Delivered' /\ OnceInTile'
  BY DEF LogInv, Delivered, Right, Whole, OnceInTile, Works, Closes
<1>5. QED
  BY <1>1, <1>2, <1>3, <1>4 DEF LogInv

(* A routing of a built header is a new one of the tile. *)
LEMMA BuiltLane ==
    ASSUME IInv, LogInv, pc = "hdr", NEW s \in Slots, NEW l \in Lanes, l < hdr[s].cnt
    PROVE  /\ hdr[s].toks[l] \in Tokens /\ hdr[s].trig \in Experts
           /\ <<hdr[s].toks[l], hdr[s].trig>> \in InHdr
           /\ <<hdr[s].toks[l], hdr[s].trig>> \in routed
           /\ <<hdr[s].toks[l], hdr[s].trig>> \notin Carried(tile_base)
           /\ hdr[s].toks[l] < t
           /\ hdr[s].trig \in routes[tile_base + hdr[s].toks[l] + 1]
<1> DEFINE p == <<hdr[s].toks[l], hdr[s].trig>>
<1>1. p \in InHdr
  BY DEF InHdr
<1>2. Unsent = InHdr /\ InTile
  BY DEF Unsent, InTile
<1>3. p \in routed /\ p \notin sent
  BY <1>1, <1>2 DEF IInv, Conservation
<1>4. sent = Carried(tile_base)
  BY <1>2 DEF LogInv, RoutesOK
<1>5. p[1] < t /\ p[2] \in routes[tile_base + p[1] + 1] /\ p \in Tokens \X Experts
  BY <1>2, <1>3 DEF LogInv, RoutesOK
<1>6. QED
  BY <1>1, <1>3, <1>4, <1>5

LEMMA TileNNat ==
    ASSUME tile_base \in Nat, tile_base < N
    PROVE  TileN \in Nat /\ TileN >= 1 /\ TileN <= NTileMax /\ tile_base + TileN <= N
           /\ (tile_base + TileN = N \/ TileN = NTileMax)
  BY DEF TileN

LEMMA LogEmitHdr ==
    ASSUME LocalExpertBase = 0, IInv, LogInv, DispatchStep, EmitHdr
    PROVE  LogInv'
<1> DEFINE e == [hdrs |-> hdr, base |-> tile_base]
<1>0. PICK L \in Nat : L = Len(log)
  BY SeqFacts DEF LogInv, LogType
<1>1. /\ pc = "hdr" /\ pc' = "x" /\ lane' = 0 /\ sent' = sent \cup InHdr
      /\ UNCHANGED <<tile_base, t, hdr, x_cache, routed, pending_count>>
  BY DEF EmitHdr, bank
<1>2. log' = Append(log, e) /\ routes' = routes
  BY Logged
<1>3. hdr \in [Slots -> Hdrs] /\ tile_base \in Nat /\ t \in Nat
  <2>1. hdr \in [Slots -> Hdrs] /\ tile_base \in Nat /\ t \in 0 .. NTileMax
    BY DEF IInv, TypeOK
  <2>2. QED
    BY <2>1
<1>4. e \in RoundRecs
  BY <1>3 DEF RoundRecs
<1>5. LogType /\ Grows /\ L \in Nat
  BY <1>2, <1>4 DEF LogInv, Grows
<1>6. LogType' /\ Len(log') = L + 1 /\ DOMAIN log = 1 .. L /\ DOMAIN log' = 1 .. L + 1
      /\ \A r \in 1 .. L : log'[r] = log[r] /\ Closes(r)' = Closes(r) /\ Stops(r)' = Stops(r)
  BY <1>0, <1>2, <1>4, <1>5, OldRounds, AppendFacts DEF LogType
<1>7. log'[L + 1] = e
  BY <1>0, <1>2, <1>4, <1>5, AppendFacts DEF LogType
<1>8. Closes(L + 1)' = hdr[0].done /\ Stops(L + 1)' = hdr[0].last
  BY <1>7 DEF Closes, Stops
<1>9. 0 \in Slots /\ Alike(hdr) /\ ~hdr[0].last
  BY <1>1 DEF LogInv, HdrBuilt, Alike, Slots
<1>10. \A r \in 1 .. L : ~Stops(r)
  BY <1>1, <1>5, <1>6, NoStop DEF LogInv
<1>11. tile_base = BaseAfter(L) /\ tile_base < N
  BY <1>0, <1>1 DEF LogInv, LogEnd, InTile
<1>12. \A r \in 0 .. L : BaseAfter(r)' = BaseAfter(r)
  BY <1>0, <1>5, OldRounds
<1>13. LogShape'
  <2>1. ASSUME NEW r \in 1 .. L
        PROVE  /\ log'[r].base = BaseAfter(r - 1)'
               /\ ~Stops(r)' /\ Alike(log'[r].hdrs) /\ log'[r].base < N
    <3>1. log[r].base = BaseAfter(r - 1) /\ Alike(log[r].hdrs) /\ log[r].base < N
      BY <1>6, <1>10 DEF LogInv, LogShape
    <3>2. r - 1 \in 0 .. L
      BY <1>5
    <3>3. QED
      BY <1>6, <1>10, <1>12, <3>1, <3>2
  <2>2. /\ log'[L + 1].base = BaseAfter(L)'
        /\ ~Stops(L + 1)' /\ Alike(log'[L + 1].hdrs) /\ log'[L + 1].base < N
    BY <1>5, <1>7, <1>8, <1>9, <1>11, <1>12
  <2>3. ASSUME NEW r \in 1 .. L + 1
        PROVE  /\ log'[r].base = BaseAfter(r - 1)'
               /\ ~Stops(r)' /\ Alike(log'[r].hdrs) /\ log'[r].base < N
    <3>1. CASE r \in 1 .. L
      BY <2>1, <3>1
    <3>2. CASE r = L + 1
      BY <1>5, <2>2, <3>2
    <3>3. QED
      BY <1>5, <3>1, <3>2
  <2>4. QED
    BY <1>6, <2>3 DEF LogShape, Alike
<1>14. LogOrder'
  <2>1. \A r \in 1 .. L : log'[r].base <= tile_base /\ log'[r].base \in Nat
    BY <1>1, <1>5, <1>6, Entries DEF LogInv, LogOrder
  <2>2. log'[L + 1].base = tile_base
    BY <1>7
  <2>3. \A q, r \in 1 .. L : q <= r => log'[q].base <= log'[r].base
    BY <1>6 DEF LogInv, LogOrder
  <2>4. ASSUME NEW q \in 1 .. L + 1, NEW r \in 1 .. L + 1, q <= r
        PROVE  log'[q].base <= log'[r].base
    BY <1>3, <1>5, <2>1, <2>2, <2>3, <2>4
  <2>5. QED
    BY <1>1, <1>3, <1>5, <1>6, <2>1, <2>2, <2>4 DEF LogOrder
<1>15. HdrBuilt'
  BY <1>1, <1>9 DEF HdrBuilt, Alike
<1>16. LogEnd'
  <2>1. InTile /\ InTile' /\ TileN' = TileN
    BY <1>1 DEF InTile, TileN
  <2>2. t <= TileN /\ t = TileN
    BY <1>1, <2>1 DEF LogInv, LogEnd
  <2>3. log'[Len(log')] = [hdrs |-> hdr', base |-> tile_base'] /\ Len(log') > 0
    BY <1>1, <1>5, <1>6, <1>7
  <2>4. ~Stops(Len(log))'
    BY <1>6, <1>8, <1>9 DEF Stops
  <2>5. QED
    BY <1>1, <1>11, <2>1, <2>2, <2>3, <2>4 DEF LogEnd
<1>17. InHdr \subseteq Tokens \X Experts
  <2>1. Unsent = InHdr
    BY <1>1 DEF Unsent
  <2>2. InHdr \subseteq routed /\ routed \subseteq Tokens \X Experts
    BY <2>1 DEF IInv, Conservation, TypeOK
  <2>3. QED
    BY <2>2
<1>18. Carried(tile_base)' = Carried(tile_base) \cup InHdr
  <2>1. ASSUME NEW p \in Carried(tile_base)'
        PROVE  p \in Carried(tile_base) \cup InHdr
    <3>1. PICK r \in 1 .. L + 1, s \in Slots, l \in Lanes :
             /\ log'[r].base = tile_base /\ l < log'[r].hdrs[s].cnt
             /\ p = <<log'[r].hdrs[s].toks[l], log'[r].hdrs[s].trig>>
      BY <1>1, <1>6 DEF Carried, Works
    <3>2. CASE r \in 1 .. L
      BY <1>6, <3>1, <3>2 DEF Carried, Works
    <3>3. CASE r = L + 1
      BY <1>7, <3>1, <3>3 DEF InHdr
    <3>4. QED
      BY <1>5, <3>2, <3>3
  <2>2. ASSUME NEW p \in Carried(tile_base)
        PROVE  p \in Carried(tile_base)'
    <3>1. PICK r \in 1 .. L, s \in Slots, l \in Lanes :
             /\ log[r].base = tile_base /\ Works(r, s, l)
             /\ p = <<log[r].hdrs[s].toks[l], log[r].hdrs[s].trig>>
      BY <1>6 DEF Carried
    <3>2. r \in DOMAIN log' /\ log'[r] = log[r]
      BY <1>5, <1>6
    <3>3. QED
      BY <1>1, <3>1, <3>2 DEF Carried, Works
  <2>3. ASSUME NEW p \in InHdr
        PROVE  p \in Carried(tile_base)'
    <3>1. PICK s \in Slots, l \in Lanes :
             l < hdr[s].cnt /\ p = <<hdr[s].toks[l], hdr[s].trig>>
      BY DEF InHdr
    <3>2. L + 1 \in DOMAIN log'
      BY <1>5, <1>6
    <3>3. p \in Tokens \X Experts
      BY <1>17
    <3>4. QED
      BY <1>1, <1>7, <3>1, <3>2, <3>3 DEF Carried, Works
  <2>4. QED
    BY <2>1, <2>2, <2>3
<1>19. RoutesOK'
  <2>1. InTile /\ InTile'
    BY <1>1 DEF InTile
  <2>2. sent' = Carried(tile_base)'
    BY <1>1, <1>18, <2>1 DEF LogInv, RoutesOK
  <2>3. QED
    BY <1>1, <1>2, <2>1, <2>2 DEF LogInv, RoutesOK
<1>20. CacheOK'
  BY <1>1 DEF LogInv, CacheOK, InTile
<1>21. Delivered'
  <2>1. ASSUME NEW r \in 1 .. L, NEW s \in Slots, NEW l \in Lanes, Works(r, s, l)'
        PROVE  /\ (log[r].base + log[r].hdrs[s].toks[l])' < Len(routes')
               /\ log'[r].hdrs[s].trig
                     \in routes'[log'[r].base + log'[r].hdrs[s].toks[l] + 1]
    BY <1>2, <1>6, <2>1 DEF LogInv, Delivered, Right, Works
  <2>2. ASSUME NEW s \in Slots, NEW l \in Lanes, Works(L + 1, s, l)'
        PROVE  /\ tile_base + hdr[s].toks[l] < Len(routes)
               /\ hdr[s].trig \in routes[tile_base + hdr[s].toks[l] + 1]
    <3>1. l < hdr[s].cnt
      BY <1>7, <2>2 DEF Works
    <3>2. /\ hdr[s].toks[l] \in Tokens /\ hdr[s].toks[l] < t
          /\ hdr[s].trig \in routes[tile_base + hdr[s].toks[l] + 1]
      BY <1>1, <3>1, BuiltLane
    <3>3. Len(routes) = tile_base + t
      BY <1>1 DEF LogInv, RoutesOK, InTile
    <3>4. QED
      BY <1>3, <3>2, <3>3 DEF Tokens
  <2>3. ASSUME NEW r \in 1 .. L, Closes(r)', NEW k \in Tokens, log'[r].base + k < N
        PROVE  /\ log'[r].base + k < Len(routes')
               /\ \A f \in routes'[log'[r].base + k + 1] :
                     \E q \in 1 .. r, s \in Slots, l \in Lanes :
                        /\ log'[q].base = log'[r].base /\ Works(q, s, l)'
                        /\ log'[q].hdrs[s].toks[l] = k /\ log'[q].hdrs[s].trig = f
    <3>1. Closes(r) /\ log[r].base + k < N
      BY <1>6, <2>3
    <3>2. /\ log[r].base + k < Len(routes)
          /\ \A f \in routes[log[r].base + k + 1] :
               \E q \in 1 .. r, s \in Slots, l \in Lanes :
                  /\ log[q].base = log[r].base /\ Works(q, s, l)
                  /\ log[q].hdrs[s].toks[l] = k /\ log[q].hdrs[s].trig = f
      BY <1>6, <3>1 DEF LogInv, Delivered, Whole
    <3>3. \A q \in 1 .. r : log'[q] = log[q]
      BY <1>5, <1>6
    <3>4. \A q \in 1 .. r : \A s, l : Works(q, s, l)' = Works(q, s, l)
      BY <3>3 DEF Works
    <3>5. routes' = routes /\ r \in 1 .. r /\ log'[r] = log[r]
      BY <1>2, <1>6
    <3>6. QED
      BY <3>2, <3>3, <3>4, <3>5
  <2>4. ASSUME hdr[0].done, NEW k \in Tokens, tile_base + k < N
        PROVE  /\ tile_base + k < Len(routes)
               /\ \A f \in routes[tile_base + k + 1] :
                     \E q \in 1 .. L + 1, s \in Slots, l \in Lanes :
                        /\ log'[q].base = tile_base /\ Works(q, s, l)'
                        /\ log'[q].hdrs[s].toks[l] = k /\ log'[q].hdrs[s].trig = f
    <3>1. InTile /\ t = TileN
      BY <1>1 DEF InTile, LogInv, LogEnd
    <3>2. k < t
      BY <1>3, <1>11, <2>4, <3>1, TileNNat DEF Tokens, TileN
    <3>3. Len(routes) = tile_base + t /\ routes \in Seq((SUBSET Experts) \ {{}})
      BY <3>1 DEF LogInv, RoutesOK
    <3>4. \A x \in Experts : pending_count[x] = 0
      BY <1>1, <2>4 DEF IInv, HdrDone
    <3>5. Pending = {}
      BY <3>4 DEF Pending, Depths
    <3>6. routed = InHdr \cup Carried(tile_base)
      <4>1. Unsent = InHdr
        BY <1>1 DEF Unsent
      <4>2. sent = Carried(tile_base)
        BY <3>1 DEF LogInv, RoutesOK
      <4>3. QED
        BY <3>5, <4>1, <4>2 DEF IInv, Conservation
    <3>7. tile_base + k + 1 \in 1 .. Len(routes) /\ tile_base + k < Len(routes)
      BY <1>3, <3>2, <3>3 DEF Tokens
    <3>8. ASSUME NEW f \in routes[tile_base + k + 1]
          PROVE  <<k, f>> \in Carried(tile_base)'
      <4>1. f \in Experts
        BY <3>3, <3>7, SeqFacts
      <4>2. <<k, f>> \in {r \in Tokens \X Experts : r[1] < t /\ r[2] \in routes[tile_base + r[1] + 1]}
        BY <3>2, <4>1
      <4>3. <<k, f>> \in routed
        BY <3>1, <4>2 DEF LogInv, RoutesOK
      <4>4. QED
        BY <1>18, <3>6, <4>3
    <3>9. ASSUME NEW f \in routes[tile_base + k + 1]
          PROVE  \E q \in 1 .. L + 1, s \in Slots, l \in Lanes :
                        /\ log'[q].base = tile_base /\ Works(q, s, l)'
                        /\ log'[q].hdrs[s].toks[l] = k /\ log'[q].hdrs[s].trig = f
      <4>1. PICK r \in DOMAIN log', s \in Slots, l \in Lanes :
             /\ log'[r].base = tile_base /\ Works(r, s, l)'
             /\ <<k, f>> = <<log'[r].hdrs[s].toks[l], log'[r].hdrs[s].trig>>
        BY <1>1, <3>8 DEF Carried
      <4>2. QED
        BY <1>6, <4>1
    <3>10. QED
      BY <3>7, <3>9
  <2>5. \A r \in 1 .. L : Right(r)' /\ (Closes(r)' => Whole(r)')
    BY <2>1, <2>3 DEF Right, Whole
  <2>a. routes' = routes
    BY <1>2
  <2>b. log'[L + 1].base = tile_base /\ log'[L + 1].hdrs = hdr
    BY <1>7
  <2>6. Right(L + 1)'
    BY <2>2, <2>a, <2>b DEF Right
  <2>7. Closes(L + 1)' => Whole(L + 1)'
    <3>1. SUFFICES ASSUME hdr[0].done PROVE Whole(L + 1)'
      BY <1>8
    <3>2. QED
      BY <2>4, <2>a, <2>b, <3>1 DEF Whole
  <2>8. \A r \in 1 .. L + 1 : r \in 1 .. L \/ r = L + 1
    BY <1>5
  <2>9. QED
    BY <1>6, <2>5, <2>6, <2>7, <2>8 DEF Delivered
<1>22. OnceInTile'
  <2>1. ASSUME NEW r \in 1 .. L, log[r].base = tile_base, NEW s1 \in Slots, NEW l1 \in Lanes,
               NEW s2 \in Slots, NEW l2 \in Lanes, Works(r, s1, l1), l2 < hdr[s2].cnt,
               log[r].hdrs[s1].toks[l1] = hdr[s2].toks[l2],
               log[r].hdrs[s1].trig = hdr[s2].trig
        PROVE  FALSE
    <3>1. /\ <<hdr[s2].toks[l2], hdr[s2].trig>> \notin Carried(tile_base)
          /\ hdr[s2].toks[l2] \in Tokens /\ hdr[s2].trig \in Experts
      BY <1>1, <2>1, BuiltLane
    <3>2. QED
      BY <1>6, <2>1, <3>1 DEF Carried
  <2>2. ASSUME NEW r1 \in 1 .. L + 1, NEW r2 \in 1 .. L + 1, log'[r1].base = log'[r2].base,
               NEW s1 \in Slots, NEW s2 \in Slots, NEW l1 \in Lanes, NEW l2 \in Lanes,
               Works(r1, s1, l1)', Works(r2, s2, l2)',
               log'[r1].hdrs[s1].toks[l1] = log'[r2].hdrs[s2].toks[l2],
               log'[r1].hdrs[s1].trig = log'[r2].hdrs[s2].trig
        PROVE  r1 = r2 /\ s1 = s2 /\ l1 = l2
    <3>1. CASE r1 \in 1 .. L /\ r2 \in 1 .. L
      BY <1>6, <2>2, <3>1 DEF LogInv, OnceInTile, Works
    <3>2. CASE r1 \in 1 .. L /\ r2 = L + 1
      BY <1>6, <1>7, <2>1, <2>2, <3>2 DEF Works
    <3>3. CASE r1 = L + 1 /\ r2 \in 1 .. L
      BY <1>6, <1>7, <2>1, <2>2, <3>3 DEF Works
    <3>4. CASE r1 = L + 1 /\ r2 = L + 1
      BY <1>1, <1>7, <2>2, <3>4 DEF IInv, LanesDistinct, Works
    <3>5. QED
      BY <1>5, <3>1, <3>2, <3>3, <3>4
  <2>3. QED
    BY <1>6, <2>2 DEF OnceInTile
<1>23. QED
  BY <1>6, <1>13, <1>14, <1>15, <1>16, <1>19, <1>20, <1>21, <1>22 DEF LogInv

LEMMA SameLog ==
    ASSUME LogInv, log' = log
    PROVE  /\ LogType' /\ LogShape' /\ OnceInTile'
           /\ routes' = routes => Delivered'
           /\ \A r : Closes(r)' = Closes(r) /\ Stops(r)' = Stops(r) /\ BaseAfter(r)' = BaseAfter(r)
           /\ BaseAfter(Len(log))' = BaseAfter(Len(log)) /\ Stops(Len(log))' = Stops(Len(log))
           /\ Closed' = Closed /\ \A b : Carried(b)' = Carried(b)
<1>1. LogType' /\ LogShape'
  BY DEF LogInv, LogType, LogShape, Alike, Stops, BaseAfter, Closes
<1>2. OnceInTile' /\ (routes' = routes => Delivered')
  BY DEF LogInv, OnceInTile, Delivered, Right, Whole, Works, Closes
<1>3. \A b : Carried(b)' = Carried(b)
  BY DEF Carried, Works
<1>4. QED
  BY <1>1, <1>2, <1>3 DEF Stops, BaseAfter, Closes, Closed

LEMMA LogStartTile ==
    ASSUME LocalExpertBase = 0, IInv, LogInv, DispatchStep, StartTile
    PROVE  LogInv'
<1>1. /\ pc = "tile" /\ pc' = "ingest" /\ t' = 0 /\ routed' = {} /\ sent' = {} /\ tile_base < N
      /\ tile_base' = tile_base /\ log' = log /\ routes' = routes
  BY Logged DEF StartTile
<1>2. ~InTile /\ InTile'
  BY <1>1 DEF InTile
<1>3. tile_base \in Nat /\ TileN' = TileN /\ TileN \in Nat
  BY <1>1, TileNNat DEF IInv, TypeOK, TileN
<1>4. LogOrder'
  BY <1>1 DEF LogInv, LogOrder
<1>5. LogEnd'
  <2>1. Closed /\ tile_base = BaseAfter(Len(log)) /\ ~(Len(log) > 0 /\ Stops(Len(log)))
    BY <1>1 DEF LogInv, LogEnd
  <2>2. /\ Closed' /\ tile_base' = BaseAfter(Len(log))'
        /\ ~(Len(log') > 0 /\ Stops(Len(log))')
    BY <1>1, <2>1, SameLog
  <2>3. t' <= TileN'
    BY <1>1, <1>3
  <2>4. QED
    BY <1>1, <2>2, <2>3 DEF LogEnd
<1>6. Carried(tile_base)' = {}
  <2>1. \A r \in DOMAIN log : log[r].base < tile_base
    BY <1>1 DEF LogInv, LogOrder
  <2>2. \A r \in DOMAIN log : log[r].base \in Nat
    BY Entries DEF LogInv
  <2>3. \A r \in DOMAIN log : log[r].base # tile_base
    BY <1>3, <2>1, <2>2
  <2>4. QED
    BY <1>1, <2>3 DEF Carried
<1>7. RoutesOK'
  <2>1. routes \in Seq((SUBSET Experts) \ {{}}) /\ Len(routes) = tile_base
    BY <1>1, <1>2 DEF LogInv, RoutesOK
  <2>2. {r \in Tokens \X Experts : r[1] < 0 /\ r[2] \in routes[tile_base + r[1] + 1]} = {}
    BY DEF Tokens
  <2>3. routed' = {r \in Tokens \X Experts : r[1] < t' /\ r[2] \in routes'[tile_base' + r[1] + 1]}
    BY <1>1, <2>2
  <2>4. QED
    BY <1>1, <1>2, <1>3, <1>6, <2>1, <2>3 DEF RoutesOK
<1>8. CacheOK'
  BY <1>1 DEF CacheOK, Tokens
<1>9. HdrBuilt'
  BY <1>1 DEF HdrBuilt
<1>10. QED
  BY <1>1, <1>4, <1>5, <1>7, <1>8, <1>9, SameLog DEF LogInv

LEMMA LogIngest ==
    ASSUME LocalExpertBase = 0, IInv, LogInv, DispatchStep,
           NEW pkt \in Packets, NEW rows \in Rows(pkt), Ingest(pkt, rows)
    PROVE  LogInv'
<1>1. /\ pc = "ingest" /\ pc' = "ingest" /\ t < TileN /\ t' = t + 1 /\ tile_base' = tile_base
      /\ sent' = sent /\ hdr' = hdr /\ x_cache' = [x_cache EXCEPT ![t] = tile_base + t]
      /\ log' = log /\ routes' = Append(routes, pkt)
  BY Logged DEF Ingest
<1>2. InTile /\ InTile' /\ TileN' = TileN
  BY <1>1 DEF InTile, TileN
<1>3. tile_base \in Nat /\ t \in Nat /\ TileN \in Nat /\ TileN <= NTileMax /\ tile_base < N
  <2>1. tile_base \in Nat /\ t \in 0 .. NTileMax
    BY DEF IInv, TypeOK
  <2>2. tile_base < N
    BY <1>2 DEF LogInv, LogEnd
  <2>3. QED
    BY <2>1, <2>2, TileNNat
<1>4. pkt \in (SUBSET Experts) \ {{}}
  <2>1. pkt \subseteq Experts /\ Cardinality(pkt) = LocalK
    BY FirstCardRows DEF Packets
  <2>2. Cardinality({}) = 0 /\ LocalK # 0
    BY FS_EmptySet, DispatchAssumption
  <2>3. QED
    BY <2>1, <2>2
<1>5. /\ routes \in Seq((SUBSET Experts) \ {{}}) /\ Len(routes) = tile_base + t
      /\ routes' \in Seq((SUBSET Experts) \ {{}}) /\ Len(routes') = tile_base + t + 1
      /\ \A i \in 1 .. tile_base + t : routes'[i] = routes[i]
      /\ routes'[tile_base + t + 1] = pkt
  <2>1. routes \in Seq((SUBSET Experts) \ {{}}) /\ Len(routes) = tile_base + t
    BY <1>2 DEF LogInv, RoutesOK
  <2>2. QED
    BY <1>1, <1>4, <2>1, AppendFacts
<1>6. LogOrder' /\ HdrBuilt'
  BY <1>1 DEF LogInv, LogOrder, HdrBuilt
<1>7. LogEnd'
  BY <1>1, <1>2, <1>3, SameLog DEF LogInv, LogEnd
<1>8. RoutesOK'
  <2>1. routed' = routed \cup ({t} \X pkt)
    BY FirstCardRows DEF Ingest
  <2>2. routed = {r \in Tokens \X Experts : r[1] < t /\ r[2] \in routes[tile_base + r[1] + 1]}
    BY <1>2 DEF LogInv, RoutesOK
  <2>3. ASSUME NEW r \in Tokens \X Experts
        PROVE  r \in routed' <=> r[1] < t + 1 /\ r[2] \in routes'[tile_base + r[1] + 1]
    <3>1. r[1] \in Nat /\ r[1] \in Tokens /\ r[2] \in Experts /\ r = <<r[1], r[2]>>
      BY DEF Tokens
    <3>2. CASE r[1] < t
      <4>1. routes'[tile_base + r[1] + 1] = routes[tile_base + r[1] + 1]
        BY <1>3, <1>5, <3>1, <3>2
      <4>2. QED
        BY <1>3, <2>1, <2>2, <3>1, <3>2, <4>1
    <3>3. CASE r[1] = t
      BY <1>3, <1>5, <2>1, <2>2, <3>1, <3>3
    <3>4. CASE r[1] > t
      BY <1>3, <2>1, <2>2, <3>1, <3>4
    <3>5. QED
      BY <1>3, <3>1, <3>2, <3>3, <3>4
  <2>4. routed' \subseteq Tokens \X Experts
    BY <1>1, <1>3, <1>4, <2>1, <2>2 DEF Tokens
  <2>5. routed' = {r \in Tokens \X Experts : r[1] < t' /\ r[2] \in routes'[tile_base' + r[1] + 1]}
    BY <1>1, <2>3, <2>4
  <2>6. sent' = Carried(tile_base)'
    BY <1>1, <1>2, SameLog DEF LogInv, RoutesOK, Carried, Works
  <2>7. Len(routes') = tile_base' + t'
    BY <1>1, <1>3, <1>5
  <2>8. QED
    BY <1>2, <1>5, <2>5, <2>6, <2>7 DEF RoutesOK
<1>9. CacheOK'
  <2>1. x_cache \in [Tokens -> Nat]
    BY DEF IInv, TypeOK
  <2>2. ASSUME NEW k \in Tokens, k < t + 1
        PROVE  x_cache'[k] = tile_base + k
    <3>1. k < t => x_cache[k] = tile_base + k
      BY <1>2 DEF LogInv, CacheOK
    <3>2. k \in Nat
      BY DEF Tokens
    <3>3. CASE k < t
      BY <1>1, <1>3, <2>1, <3>1, <3>2, <3>3
    <3>4. CASE k = t
      BY <1>1, <1>3, <2>1, <3>4
    <3>5. QED
      BY <1>3, <2>2, <3>2, <3>3, <3>4
  <2>3. QED
    BY <1>1, <2>2 DEF CacheOK
<1>10. Delivered'
  <2>1. \A r \in DOMAIN log : \A k \in Tokens :
           log[r].base + k < tile_base + t => log[r].base + k + 1 \in 1 .. tile_base + t
    BY <1>3, Entries DEF LogInv, Tokens
  <2>2. ASSUME NEW r \in DOMAIN log
        PROVE  Right(r)'
    <3>1. Right(r)
      BY DEF LogInv, Delivered
    <3>2. ASSUME NEW s \in Slots, NEW l \in Lanes, Works(r, s, l)
          PROVE  /\ log[r].base + log[r].hdrs[s].toks[l] < Len(routes')
                 /\ log[r].hdrs[s].trig \in routes'[log[r].base + log[r].hdrs[s].toks[l] + 1]
      <4>1. /\ log[r].base + log[r].hdrs[s].toks[l] < tile_base + t
            /\ log[r].hdrs[s].trig \in routes[log[r].base + log[r].hdrs[s].toks[l] + 1]
        BY <1>5, <3>1, <3>2 DEF Right
      <4>2. log[r].hdrs[s].toks[l] \in Tokens /\ log[r].base \in Nat
        BY Entries DEF LogInv
      <4>3. log[r].base + log[r].hdrs[s].toks[l] + 1 \in 1 .. tile_base + t
        BY <2>1, <4>1, <4>2
      <4>4. routes'[log[r].base + log[r].hdrs[s].toks[l] + 1]
              = routes[log[r].base + log[r].hdrs[s].toks[l] + 1]
        BY <1>5, <4>3
      <4>5. log[r].base + log[r].hdrs[s].toks[l] < tile_base + t + 1
        BY <1>3, <4>1, <4>2 DEF Tokens
      <4>6. QED
        BY <1>5, <4>1, <4>4, <4>5
    <3>3. QED
      BY <1>1, <3>2 DEF Right, Works
  <2>3. ASSUME NEW r \in DOMAIN log, Closes(r)
        PROVE  Whole(r)'
    <3>1. Whole(r)
      BY <2>3 DEF LogInv, Delivered
    <3>2. ASSUME NEW k \in Tokens, log[r].base + k < N
          PROVE  /\ log[r].base + k < Len(routes')
                 /\ routes'[log[r].base + k + 1] = routes[log[r].base + k + 1]
      <4>1. log[r].base + k < tile_base + t
        BY <1>5, <3>1, <3>2 DEF Whole
      <4>2. log[r].base \in Nat /\ k \in Nat
        BY Entries DEF LogInv, Tokens
      <4>3. log[r].base + k + 1 \in 1 .. tile_base + t
        BY <2>1, <4>1
      <4>4. routes'[log[r].base + k + 1] = routes[log[r].base + k + 1]
        BY <1>5, <4>3
      <4>5. log[r].base + k < tile_base + t + 1
        BY <1>3, <4>1, <4>2
      <4>6. QED
        BY <1>5, <4>4, <4>5
    <3>3. log' = log
      BY <1>1
    <3>4. ASSUME NEW k \in Tokens, log[r].base + k < N
          PROVE  \A e \in routes'[log[r].base + k + 1] :
                   \E q \in 1 .. r, s \in Slots, l \in Lanes :
                      /\ log[q].base = log[r].base /\ Works(q, s, l)
                      /\ log[q].hdrs[s].toks[l] = k /\ log[q].hdrs[s].trig = e
      <4>1. \A e \in routes[log[r].base + k + 1] :
              \E q \in 1 .. r, s \in Slots, l \in Lanes :
                 /\ log[q].base = log[r].base /\ Works(q, s, l)
                 /\ log[q].hdrs[s].toks[l] = k /\ log[q].hdrs[s].trig = e
        BY <3>1, <3>4 DEF Whole
      <4>2. routes'[log[r].base + k + 1] = routes[log[r].base + k + 1]
        BY <3>2, <3>4
      <4>3. QED
        BY <4>1, <4>2
    <3>5. \A q, s, l : Works(q, s, l)' = Works(q, s, l)
      BY <3>3 DEF Works
    <3>6. QED
      BY <3>2, <3>3, <3>4, <3>5 DEF Whole
  <2>4. QED
    BY <1>1, <2>2, <2>3 DEF Delivered, Closes
<1>11. QED
  BY <1>1, <1>6, <1>7, <1>8, <1>9, <1>10, SameLog DEF LogInv

LEMMA RoutesKept ==
    ASSUME LogInv, InTile, InTile',
           UNCHANGED <<tile_base, t, routed, sent, routes, log, x_cache>>
    PROVE  RoutesOK' /\ CacheOK'
<1>1. Carried(tile_base)' = Carried(tile_base)
  BY DEF Carried, Works
<1>2. QED
  BY <1>1 DEF LogInv, RoutesOK, CacheOK

(* Something is pending when a tile is in: a token has an expert. *)
LEMMA LogScan ==
    ASSUME LocalExpertBase = 0, IInv, LogInv, DispatchStep, Scan
    PROVE  LogInv'
<1>1. /\ pc = "ingest" /\ t >= TileN /\ log' = log /\ routes' = routes
      /\ UNCHANGED <<t, hdr, x_cache, routed, sent>>
      /\ LET any_pending == \E e \in Experts : pending_count[e] # 0
         IN  /\ pc' = IF any_pending THEN "round" ELSE "tile"
             /\ tile_base' = IF any_pending THEN tile_base ELSE tile_base + NTileMax
  BY Logged DEF Scan, hist
<1>2. InTile /\ tile_base < N /\ tile_base \in Nat /\ t \in Nat /\ t <= TileN
  <2>1. InTile
    BY <1>1 DEF InTile
  <2>2. tile_base \in Nat /\ t \in 0 .. NTileMax
    BY DEF IInv, TypeOK
  <2>3. QED
    BY <2>1, <2>2 DEF LogInv, LogEnd
<1>3. t = TileN /\ t >= 1 /\ TileN \in Nat
  BY <1>1, <1>2, TileNNat
<1>4. routes \in Seq((SUBSET Experts) \ {{}}) /\ Len(routes) = tile_base + t
  BY <1>2 DEF LogInv, RoutesOK
<1>5. PICK e : e \in routes[tile_base + 1] /\ e \in Experts
  <2>1. tile_base + 1 \in 1 .. Len(routes)
    BY <1>2, <1>3, <1>4
  <2>2. routes[tile_base + 1] \in (SUBSET Experts) \ {{}}
    BY <1>4, <2>1, SeqFacts
  <2>3. QED
    BY <2>2
<1>6. <<0, e>> \in routed
  <2>1. 0 \in Tokens /\ tile_base + 0 + 1 = tile_base + 1
    BY <1>2 DEF Tokens
  <2>2. <<0, e>> \in {r \in Tokens \X Experts : r[1] < t /\ r[2] \in routes[tile_base + r[1] + 1]}
    BY <1>3, <1>5, <2>1
  <2>3. QED
    BY <1>2, <2>2 DEF LogInv, RoutesOK
<1>7. sent = {}
  <2>1. \A r \in DOMAIN log : log[r].base < tile_base /\ log[r].base \in Nat
    BY <1>1, Entries DEF LogInv, LogOrder
  <2>2. \A r \in DOMAIN log : log[r].base # tile_base
    BY <1>2, <2>1
  <2>3. QED
    BY <1>2, <2>2 DEF LogInv, RoutesOK, Carried
<1>8. <<0, e>> \in Pending
  BY <1>1, <1>6, <1>7 DEF IInv, Conservation, Unsent
<1>9. \E d \in Experts : pending_count[d] # 0
  BY <1>8 DEF Pending, Depths
<1>10. pc' = "round" /\ tile_base' = tile_base
  BY <1>1, <1>9
<1>11. InTile' /\ TileN' = TileN
  BY <1>10 DEF InTile, TileN
<1>12. LogOrder'
  BY <1>1, <1>2, <1>10, Entries DEF LogInv, LogOrder
<1>13. LogEnd'
  BY <1>1, <1>2, <1>3, <1>10, <1>11, SameLog DEF LogInv, LogEnd
<1>14. RoutesOK' /\ CacheOK' /\ HdrBuilt'
  BY <1>1, <1>2, <1>10, <1>11, RoutesKept DEF HdrBuilt
<1>15. QED
  BY <1>1, <1>12, <1>13, <1>14, SameLog DEF LogInv

LEMMA BuiltAlike ==
    ASSUME LocalExpertBase = 0, TypeOK, BuildRound
    PROVE  Alike(hdr')
<1>1. TileDone \in BOOLEAN /\ \A s \in Slots : hdr'[s] = SlotHdr(s, TileDone)
  BY DEF BuildRound, TileDone
<1>2. ASSUME NEW s \in Slots
      PROVE  /\ ~hdr'[s].last /\ hdr'[s].trig \in Experts /\ hdr'[s].done = TileDone
             /\ hdr'[s].cnt > 0 => hdr'[s].act
  <2>1. CASE Found(s) = {}
    <3>1. hdr'[s] = Filler(TileDone)
      BY <1>1, <2>1 DEF SlotHdr
    <3>2. 0 \in Experts
      BY DEF Experts
    <3>3. QED
      BY <3>1, <3>2 DEF Filler
  <2>2. CASE Found(s) # {}
    <3>1. Chosen(s) \in Experts /\ Chosen(s) - LocalExpertBase = Chosen(s)
      BY <2>2, ChosenIn DEF Experts
    <3>2. hdr'[s] = SlotHdr(s, TileDone)
      BY <1>1
    <3>3. /\ SlotHdr(s, TileDone).last = FALSE /\ SlotHdr(s, TileDone).act = TRUE
          /\ SlotHdr(s, TileDone).done = TileDone
          /\ SlotHdr(s, TileDone).trig = Chosen(s) - LocalExpertBase
      BY <2>2 DEF SlotHdr
    <3>4. QED
      BY <3>1, <3>2, <3>3
  <2>3. QED
    BY <2>1, <2>2
<1>3. 0 \in Slots
  BY DEF Slots
<1>4. QED
  BY <1>2, <1>3 DEF Alike

LEMMA LogBuildRound ==
    ASSUME LocalExpertBase = 0, IInv, LogInv, DispatchStep, BuildRound
    PROVE  LogInv'
<1>1. /\ pc = "round" /\ pc' = "hdr" /\ log' = log /\ routes' = routes
      /\ UNCHANGED <<tile_base, t, x_cache, routed, sent>>
  BY Logged DEF BuildRound
<1>2. InTile /\ InTile' /\ TileN' = TileN
  BY <1>1 DEF InTile, TileN
<1>3. HdrBuilt'
  BY BuiltAlike DEF IInv, HdrBuilt, Alike
<1>4. LogOrder'
  BY <1>1 DEF LogInv, LogOrder
<1>5. LogEnd'
  BY <1>1, <1>2, SameLog DEF LogInv, LogEnd
<1>6. RoutesOK' /\ CacheOK'
  BY <1>1, <1>2, RoutesKept
<1>7. QED
  BY <1>1, <1>3, <1>4, <1>5, <1>6, SameLog DEF LogInv

LEMMA LogStreamX ==
    ASSUME LocalExpertBase = 0, IInv, LogInv, DispatchStep, StreamX
    PROVE  LogInv'
<1>1. /\ pc = "x" /\ log' = log /\ routes' = routes /\ lane < TokenLanes
      /\ UNCHANGED <<t, hdr, x_cache, routed, sent>> /\ NextBeat
  BY Logged DEF StreamX, hist
<1>2. InTile /\ tile_base < N /\ tile_base \in Nat /\ t = TileN
      /\ lane \in 0 .. TokenLanes /\ vec \in 0 .. HiddenVecs - 1
  <2>1. InTile
    BY <1>1 DEF InTile
  <2>2. tile_base \in Nat /\ lane \in 0 .. TokenLanes /\ vec \in 0 .. HiddenVecs - 1
    BY DEF IInv, TypeOK
  <2>3. QED
    BY <1>1, <2>1, <2>2 DEF LogInv, LogEnd
<1>3. TileN \in Nat /\ TileN <= NTileMax /\ tile_base + TileN <= N
      /\ (tile_base + TileN = N \/ TileN = NTileMax)
  BY <1>2, TileNNat
<1>4. Len(log) > 0 /\ log[Len(log)] = [hdrs |-> hdr, base |-> tile_base]
  BY <1>1 DEF LogInv, LogEnd
<1>5. /\ Closes(Len(log)) = hdr[0].done /\ ~Stops(Len(log))
      /\ BaseAfter(Len(log)) = IF hdr[0].done THEN tile_base + NTileMax ELSE tile_base
  <2>1. ~Stops(Len(log))
    BY <1>1, <1>4 DEF LogInv, LogEnd
  <2>2. Closes(Len(log)) = hdr[0].done /\ log[Len(log)].base = tile_base
    BY <1>4 DEF Closes
  <2>3. QED
    BY <1>4, <2>1, <2>2 DEF BaseAfter
<1>6. ASSUME ~LastBeat
      PROVE  LogInv'
  <2>1. pc' = "x" /\ tile_base' = tile_base
    BY <1>1, <1>6 DEF StreamX
  <2>2. InTile' /\ TileN' = TileN
    BY <2>1 DEF InTile, TileN
  <2>3. lane' < TokenLanes
    BY <1>1, <1>2, <1>6 DEF NextBeat, LastBeat
  <2>4. LogEnd'
    <3>1. Len(log') > 0 /\ log'[Len(log')] = [hdrs |-> hdr', base |-> tile_base']
      BY <1>1, <1>4, <2>1
    <3>2. ~Stops(Len(log))'
      BY <1>1, <1>5, SameLog
    <3>3. t' <= TileN' /\ t' = TileN' /\ tile_base' < N
      BY <1>1, <1>2, <1>3, <2>1, <2>2
    <3>4. QED
      BY <2>1, <2>2, <2>3, <3>1, <3>2, <3>3 DEF LogEnd
  <2>5. RoutesOK' /\ CacheOK'
    BY <1>1, <1>2, <2>1, <2>2, RoutesKept
  <2>6. HdrBuilt' /\ LogOrder'
    BY <1>1, <2>1 DEF LogInv, HdrBuilt, LogOrder, Alike
  <2>7. QED
    BY <1>1, <2>4, <2>5, <2>6, SameLog DEF LogInv
<1>7. ASSUME LastBeat, ~hdr[0].done
      PROVE  LogInv'
  <2>1. pc' = "round" /\ tile_base' = tile_base
    BY <1>1, <1>7 DEF StreamX
  <2>2. InTile' /\ TileN' = TileN
    BY <2>1 DEF InTile, TileN
  <2>3. LogEnd'
    BY <1>1, <1>2, <1>5, <1>7, <2>1, <2>2, SameLog DEF LogInv, LogEnd
  <2>4. RoutesOK' /\ CacheOK'
    BY <1>1, <1>2, <2>1, <2>2, RoutesKept
  <2>5. HdrBuilt' /\ LogOrder'
    BY <1>1, <2>1 DEF LogInv, HdrBuilt, LogOrder, Alike
  <2>6. QED
    BY <1>1, <2>3, <2>4, <2>5, SameLog DEF LogInv
<1>8. ASSUME LastBeat, hdr[0].done
      PROVE  LogInv'
  <2>1. pc' = "tile" /\ tile_base' = tile_base + NTileMax
    BY <1>1, <1>8 DEF StreamX
  <2>2. ~InTile'
    BY <2>1 DEF InTile
  <2>3. LogEnd'
    <3>1. Closed' /\ BaseAfter(Len(log))' = tile_base' /\ ~Stops(Len(log))'
      BY <1>1, <1>5, <1>8, <2>1, SameLog DEF Closed
    <3>2. QED
      BY <2>1, <2>2, <3>1 DEF LogEnd
  <2>4. RoutesOK'
    <3>1. routes \in Seq((SUBSET Experts) \ {{}}) /\ Len(routes) = tile_base + TileN
      BY <1>2 DEF LogInv, RoutesOK
    <3>2. tile_base + TileN = IF tile_base + NTileMax < N THEN tile_base + NTileMax ELSE N
      BY <1>2, <1>3 DEF TileN
    <3>3. QED
      BY <1>1, <2>1, <2>2, <3>1, <3>2 DEF RoutesOK
  <2>5. CacheOK' /\ HdrBuilt'
    BY <2>1, <2>2 DEF CacheOK, HdrBuilt
  <2>6. LogOrder'
    <3>1. \A r \in DOMAIN log : log[r].base <= tile_base /\ log[r].base \in Nat
      BY <1>1, Entries DEF LogInv, LogOrder
    <3>2. \A r \in DOMAIN log : log[r].base < tile_base + NTileMax
      BY <1>2, <3>1
    <3>3. QED
      BY <1>1, <2>1, <3>2 DEF LogInv, LogOrder
  <2>7. QED
    BY <1>1, <2>3, <2>4, <2>5, <2>6, SameLog DEF LogInv
<1>9. QED
  BY <1>6, <1>7, <1>8

LEMMA LogEmitSentinel ==
    ASSUME LocalExpertBase = 0, IInv, LogInv, DispatchStep, EmitSentinel
    PROVE  LogInv'
<1> DEFINE e == [hdrs |-> [s \in Slots |-> Sentinel], base |-> tile_base]
<1>0. PICK L \in Nat : L = Len(log)
  BY SeqFacts DEF LogInv, LogType
<1>1. /\ pc = "tile" /\ pc' = "drain" /\ lane' = 0 /\ tile_base >= N
      /\ UNCHANGED <<tile_base, t, hdr, x_cache, routed, sent>>
  BY DEF EmitSentinel, bank, hist
<1>2. log' = Append(log, e) /\ routes' = routes
  BY Logged
<1>3. tile_base \in Nat
  BY DEF IInv, TypeOK
<1>4. e \in RoundRecs
  BY <1>3, FillerType DEF RoundRecs
<1>5. LogType /\ Grows
  BY <1>2, <1>4 DEF LogInv, Grows
<1>6. LogType' /\ Len(log') = L + 1 /\ DOMAIN log = 1 .. L /\ DOMAIN log' = 1 .. L + 1
      /\ \A r \in 1 .. L : log'[r] = log[r] /\ Closes(r)' = Closes(r) /\ Stops(r)' = Stops(r)
  BY <1>0, <1>2, <1>4, <1>5, OldRounds, AppendFacts DEF LogType
<1>7. log'[L + 1].base = tile_base /\ log'[L + 1].hdrs = [s \in Slots |-> Sentinel]
  BY <1>0, <1>2, <1>4, <1>5, AppendFacts DEF LogType
<1>8. ~Closes(L + 1)' /\ Stops(L + 1)'
  <2>1. 0 \in Slots
    BY DEF Slots
  <2>2. log'[L + 1].hdrs[0] = Sentinel
    BY <1>7, <2>1
  <2>3. QED
    BY <2>2 DEF Closes, Stops, Sentinel
<1>9. \A s, l : s \in Slots /\ l \in Lanes => ~Works(L + 1, s, l)'
  <2>1. \A s \in Slots : log'[L + 1].hdrs[s].cnt = 0
    BY <1>7 DEF Sentinel
  <2>2. QED
    BY <2>1 DEF Works, Lanes
<1>10. \A r \in 1 .. L : ~Stops(r)
  BY <1>1, <1>5, <1>6, NoStop DEF LogInv
<1>11. tile_base = BaseAfter(L)
  BY <1>0, <1>1 DEF LogInv, LogEnd
<1>12. \A r \in 0 .. L : BaseAfter(r)' = BaseAfter(r)
  BY <1>0, <1>5, OldRounds
<1>a. \A r \in 1 .. L + 1 : r \in 1 .. L \/ r = L + 1
  OBVIOUS
<1>13. LogShape'
  <2>1. ASSUME NEW r \in 1 .. L
        PROVE  /\ log'[r].base = BaseAfter(r - 1)'
               /\ ~Stops(r)' /\ Alike(log'[r].hdrs) /\ log'[r].base < N
    <3>1. log[r].base = BaseAfter(r - 1) /\ Alike(log[r].hdrs) /\ log[r].base < N
      BY <1>6, <1>10 DEF LogInv, LogShape
    <3>2. r - 1 \in 0 .. L
      OBVIOUS
    <3>3. QED
      BY <1>6, <1>10, <1>12, <3>1, <3>2
  <2>2. /\ log'[L + 1].base = BaseAfter(L + 1 - 1)' /\ log'[L + 1].base >= N
        /\ \A s \in Slots : log'[L + 1].hdrs[s] = Sentinel
    BY <1>1, <1>7, <1>11, <1>12
  <2>3. QED
    BY <1>6, <1>8, <1>a, <2>1, <2>2 DEF LogShape, Alike
<1>14. LogOrder'
  <2>1. \A r \in 1 .. L : log'[r].base < tile_base /\ log'[r].base \in Nat
    BY <1>1, <1>5, <1>6, Entries DEF LogInv, LogOrder
  <2>2. \A q, r \in 1 .. L : q <= r => log'[q].base <= log'[r].base
    BY <1>6 DEF LogInv, LogOrder
  <2>3. ASSUME NEW q \in 1 .. L + 1, NEW r \in 1 .. L + 1, q <= r
        PROVE  log'[q].base <= log'[r].base
    BY <1>3, <1>7, <2>1, <2>2, <2>3
  <2>4. QED
    BY <1>1, <1>3, <1>6, <1>7, <1>a, <2>1, <2>3 DEF LogOrder
<1>15. ~InTile /\ ~InTile'
  BY <1>1 DEF InTile
<1>16. LogEnd'
  <2>1. Len(log') > 0 /\ Stops(Len(log))'
    BY <1>6, <1>8 DEF Stops
  <2>2. QED
    BY <1>1, <1>15, <2>1 DEF LogEnd
<1>17. RoutesOK' /\ CacheOK' /\ HdrBuilt'
  BY <1>1, <1>2, <1>15 DEF LogInv, RoutesOK, CacheOK, HdrBuilt
<1>18. Delivered'
  <2>1. ASSUME NEW r \in 1 .. L
        PROVE  Right(r)' /\ (Closes(r)' => Whole(r)')
    <3>1. Right(r) /\ (Closes(r) => Whole(r))
      BY <1>6 DEF LogInv, Delivered
    <3>2. \A q \in 1 .. r : log'[q] = log[q] /\ \A s, l : Works(q, s, l)' = Works(q, s, l)
      BY <1>6 DEF Works
    <3>a. routes' = routes /\ r \in 1 .. r
      BY <1>2
    <3>b. log'[r] = log[r] /\ \A s, l : Works(r, s, l)' = Works(r, s, l)
      BY <3>2, <3>a
    <3>3. Right(r)'
      BY <3>1, <3>a, <3>b DEF Right
    <3>4. ASSUME Whole(r)
          PROVE  Whole(r)'
      <4>1. ASSUME NEW k \in Tokens, log[r].base + k < N
            PROVE  \A e1 \in routes[log[r].base + k + 1] :
                     \E q \in 1 .. r, s \in Slots, l \in Lanes :
                        /\ log'[q].base = log[r].base /\ Works(q, s, l)'
                        /\ log'[q].hdrs[s].toks[l] = k /\ log'[q].hdrs[s].trig = e1
        <5>1. \A e1 \in routes[log[r].base + k + 1] :
                \E q \in 1 .. r, s \in Slots, l \in Lanes :
                   /\ log[q].base = log[r].base /\ Works(q, s, l)
                   /\ log[q].hdrs[s].toks[l] = k /\ log[q].hdrs[s].trig = e1
          BY <3>4, <4>1 DEF Whole
        <5>2. QED
          BY <3>2, <5>1
      <4>2. \A k \in Tokens : log[r].base + k < N => log[r].base + k < Len(routes)
        BY <3>4 DEF Whole
      <4>3. QED
        BY <3>a, <3>b, <4>1, <4>2 DEF Whole
    <3>5. QED
      BY <1>6, <3>1, <3>3, <3>4
  <2>2. Right(L + 1)'
    BY <1>9 DEF Right
  <2>3. QED
    BY <1>6, <1>8, <1>a, <2>1, <2>2 DEF Delivered
<1>19. OnceInTile'
  <2>1. ASSUME NEW r1 \in 1 .. L + 1, NEW r2 \in 1 .. L + 1, log'[r1].base = log'[r2].base,
               NEW s1 \in Slots, NEW s2 \in Slots, NEW l1 \in Lanes, NEW l2 \in Lanes,
               Works(r1, s1, l1)', Works(r2, s2, l2)',
               log'[r1].hdrs[s1].toks[l1] = log'[r2].hdrs[s2].toks[l2],
               log'[r1].hdrs[s1].trig = log'[r2].hdrs[s2].trig
        PROVE  r1 = r2 /\ s1 = s2 /\ l1 = l2
    <3>1. r1 \in 1 .. L /\ r2 \in 1 .. L
      BY <1>9, <1>a, <2>1
    <3>2. QED
      BY <1>6, <2>1, <3>1 DEF LogInv, OnceInTile, Works
  <2>2. QED
    BY <1>6, <2>1 DEF OnceInTile
<1>20. QED
  BY <1>6, <1>13, <1>14, <1>16, <1>17, <1>18, <1>19 DEF LogInv

LEMMA LogStreamZero ==
    ASSUME LocalExpertBase = 0, IInv, LogInv, DispatchStep, StreamZero
    PROVE  LogInv'
<1>1. /\ pc = "drain" /\ pc' \in {"drain", "done"} /\ log' = log /\ routes' = routes
      /\ UNCHANGED <<tile_base, t, hdr, x_cache, routed, sent>>
      /\ NextBeat /\ (pc' = "drain" => ~LastBeat)
  BY Logged DEF StreamZero, hist
<1>2. ~InTile /\ ~InTile'
  BY <1>1 DEF InTile
<1>3. pc' = "drain" => lane' < TokenLanes
  <2>1. lane \in 0 .. TokenLanes /\ vec \in 0 .. HiddenVecs - 1 /\ lane < TokenLanes
    BY <1>1 DEF IInv, TypeOK, LogInv, LogEnd
  <2>2. QED
    BY <1>1, <2>1 DEF NextBeat, LastBeat
<1>4. LogEnd'
  <2>1. Len(log) > 0 /\ Stops(Len(log)) /\ tile_base >= N
    BY <1>1 DEF LogInv, LogEnd
  <2>2. Len(log') > 0 /\ Stops(Len(log))' /\ tile_base' >= N
    BY <1>1, <2>1, SameLog
  <2>3. QED
    BY <1>1, <1>2, <1>3, <2>2 DEF LogEnd
<1>5. RoutesOK' /\ CacheOK' /\ HdrBuilt' /\ LogOrder'
  BY <1>1, <1>2 DEF LogInv, RoutesOK, CacheOK, HdrBuilt, LogOrder
<1>6. QED
  BY <1>1, <1>4, <1>5, SameLog DEF LogInv

(* The log keeps its shape whatever the dispatcher does. *)
LEMMA LogDispatch ==
    ASSUME LocalExpertBase = 0, IInv, LogInv, DispatchStep
    PROVE  LogInv'
  BY LogStartTile, LogIngest, LogScan, LogBuildRound, LogEmitHdr, LogStreamX, LogEmitSentinel,
     LogStreamZero DEF DispatchStep, Dispatch

--------------------------------------------------------------------------------
(* The FIFOs between the dispatcher and the slots. *)

(* The place of beat v of lane l in a round. *)
LEMMA BeatPlace ==
    ASSUME NEW m \in Nat, NEW l \in Lanes, NEW v \in 0 .. HiddenVecs - 1
    PROVE  /\ l * HiddenVecs + v \in 0 .. RoundBeats - 1
           /\ m * RoundBeats + (l * HiddenVecs + v) \in Nat
           /\ \A s : Beat(s, m * RoundBeats + (l * HiddenVecs + v)) = Source(m + 1, s, l)
<1>1. HiddenVecs \in Nat \ {0} /\ RoundBeats \in Nat \ {0} /\ RoundBeats = TokenLanes * HiddenVecs
      /\ TokenLanes \in Nat \ {0}
  BY Sizes DEF RoundBeats
<1>2. l \in Nat /\ l + 1 <= TokenLanes /\ l + 1 \in Nat
  BY <1>1 DEF Lanes
<1>3. (l + 1) * HiddenVecs <= TokenLanes * HiddenVecs
  BY <1>1, <1>2, TimesLess
<1>4. (l + 1) * HiddenVecs = l * HiddenVecs + HiddenVecs /\ l * HiddenVecs \in Nat
  BY <1>1, <1>2, TimesStep
<1>5. l * HiddenVecs + v \in 0 .. RoundBeats - 1
  BY <1>1, <1>3, <1>4
<1>6. m * RoundBeats \in Nat
  BY <1>1
<1>7. /\ (m * RoundBeats + (l * HiddenVecs + v)) \div RoundBeats = m
      /\ (m * RoundBeats + (l * HiddenVecs + v)) % RoundBeats = l * HiddenVecs + v
  BY <1>1, <1>5, DivMod
<1>8. (l * HiddenVecs + v) \div HiddenVecs = l
  BY <1>1, <1>2, DivMod
<1>9. QED
  BY <1>5, <1>6, <1>7, <1>8 DEF Beat

(* The position in the x stream advances by one with every beat. *)
LEMMA BeatStep ==
    ASSUME lane \in Lanes, vec \in 0 .. HiddenVecs - 1, NextBeat
    PROVE  IF LastBeat THEN lane * HiddenVecs + vec + 1 = RoundBeats
           ELSE lane' * HiddenVecs + vec' = lane * HiddenVecs + vec + 1
<1>1. HiddenVecs \in Nat \ {0} /\ RoundBeats = TokenLanes * HiddenVecs /\ lane \in Nat
      /\ TokenLanes \in Nat
  BY Sizes DEF RoundBeats, Lanes
<1>2. (lane + 1) * HiddenVecs = lane * HiddenVecs + HiddenVecs /\ lane * HiddenVecs \in Nat
  BY <1>1, TimesStep
<1>3. CASE LastBeat
  <2>1. lane + 1 = TokenLanes /\ vec = HiddenVecs - 1
    BY <1>1, <1>3 DEF LastBeat
  <2>2. QED
    BY <1>1, <1>2, <1>3, <2>1
<1>4. CASE ~LastBeat
  <2>1. CASE vec + 1 < HiddenVecs
    BY <1>1, <1>2, <1>4, <2>1 DEF NextBeat
  <2>2. CASE ~(vec + 1 < HiddenVecs)
    <3>1. vec + 1 = HiddenVecs /\ vec' = 0 /\ lane' = lane + 1
      BY <1>1, <2>2 DEF NextBeat
    <3>2. lane' * HiddenVecs = lane * HiddenVecs + HiddenVecs
      BY <1>2, <3>1
    <3>3. QED
      BY <1>1, <1>2, <1>4, <3>1, <3>2
  <2>3. QED
    BY <2>1, <2>2
<1>5. QED
  BY <1>3, <1>4

(* What a step of the dispatcher writes to the slots. *)
Silent == hdr_out' = hdr_out /\ x_out' = x_out /\ log' = log /\ XWritten' = XWritten
NewRound == \E e \in RoundRecs :
    /\ log' = Append(log, e)
    /\ \A s \in Slots : hdr_out'[s] = Append(hdr_out[s], e.hdrs[s])
    /\ x_out' = x_out /\ XWritten' = XWritten
NewBeat == /\ hdr_out' = hdr_out /\ log' = log
           /\ \A s \in Slots : x_out'[s] = Append(x_out[s], Beat(s, XWritten))
           /\ XWritten' = XWritten + 1

LEMMA QuietWrites ==
    ASSUME LocalExpertBase = 0, IInv, LogInv, DispatchStep,
           \/ StartTile \/ Scan \/ BuildRound
           \/ \E pkt \in Packets : \E rows \in Rows(pkt) : Ingest(pkt, rows)
    PROVE  Silent
<1>1. log' = log
  BY Logged
<1>2. /\ hdr_out' = hdr_out /\ x_out' = x_out
      /\ pc \notin {"x", "drain"} /\ pc' \notin {"x", "drain"}
  BY DEF StartTile, Scan, BuildRound, Ingest, fifos
<1>3. QED
  BY <1>1, <1>2 DEF Silent, XWritten

LEMMA RoundWrites ==
    ASSUME LocalExpertBase = 0, IInv, LogInv, DispatchStep, EmitHdr \/ EmitSentinel
    PROVE  NewRound
<1>0. PICK L \in Nat : L = Len(log)
  BY SeqFacts DEF LogInv, LogType
<1>1. tile_base \in Nat /\ hdr \in [Slots -> Hdrs]
  BY DEF IInv, TypeOK
<1>2. PICK e \in RoundRecs :
         /\ log' = Append(log, e)
         /\ \A s \in Slots : hdr_out'[s] = Append(hdr_out[s], e.hdrs[s])
  <2>1. CASE EmitHdr
    <3>1. [hdrs |-> hdr, base |-> tile_base] \in RoundRecs
      BY <1>1 DEF RoundRecs
    <3>2. \A s \in Slots : hdr_out'[s] = Append(hdr_out[s], hdr[s])
      BY <2>1 DEF EmitHdr
    <3>3. QED
      BY <2>1, <3>1, <3>2, Logged
  <2>2. CASE EmitSentinel
    <3>1. [hdrs |-> [s \in Slots |-> Sentinel], base |-> tile_base] \in RoundRecs
      BY <1>1, FillerType DEF RoundRecs
    <3>2. \A s \in Slots : hdr_out'[s] = Append(hdr_out[s], Sentinel)
      BY <2>2 DEF EmitSentinel
    <3>3. QED
      BY <2>2, <3>1, <3>2, Logged
  <2>3. QED
    BY <2>1, <2>2
<1>3. x_out' = x_out /\ lane' = 0 /\ vec' = 0 /\ pc \notin {"x", "drain"} /\ pc' \in {"x", "drain"}
  BY DEF EmitHdr, EmitSentinel
<1>4. Len(log') = L + 1
  BY <1>0, <1>2, AppendFacts DEF LogInv, LogType
<1>5. XWritten' = XWritten
  <2>1. XWritten = L * RoundBeats /\ L * RoundBeats \in Nat
    BY <1>0, <1>3, Sizes DEF XWritten
  <2>2. XWritten' = (L + 1 - 1) * RoundBeats + (0 * HiddenVecs + 0)
    BY <1>3, <1>4 DEF XWritten, RoundBeats
  <2>3. L + 1 - 1 = L /\ 0 * HiddenVecs = 0
    BY Sizes
  <2>4. QED
    BY <2>1, <2>2, <2>3
<1>6. QED
  BY <1>2, <1>3, <1>5 DEF NewRound

(* The x of a lane is that of its token, or of the tile's first. *)
LEMMA CachedBeat ==
    ASSUME IInv, LogInv, pc = "x", NEW s \in Slots
    PROVE  x_cache[LaneToken(s)] = Source(Len(log), s, lane)
<1>0. PICK L \in Nat : L = Len(log)
  BY SeqFacts DEF LogInv, LogType
<1>1. InTile /\ t = TileN /\ tile_base < N /\ lane < TokenLanes /\ L > 0
      /\ log[L] = [hdrs |-> hdr, base |-> tile_base]
  <2>1. InTile
    BY DEF InTile
  <2>2. QED
    BY <1>0, <2>1 DEF LogInv, LogEnd
<1>2. tile_base \in Nat /\ lane \in Lanes /\ TileN \in Nat /\ TileN >= 1
  <2>1. tile_base \in Nat /\ lane \in 0 .. TokenLanes
    BY DEF IInv, TypeOK
  <2>2. QED
    BY <1>1, <2>1, TileNNat DEF Lanes
<1>3. ~Stops(L)
  BY <1>0, <1>1 DEF LogInv, LogEnd
<1>4. L \in DOMAIN log /\ log[L].base = tile_base /\ log[L].hdrs = hdr
  BY <1>0, <1>1, Entries DEF LogInv
<1>5. Works(L, s, lane) <=> lane < hdr[s].cnt
  BY <1>4 DEF Works
<1>6. Source(L, s, lane) = tile_base + LaneToken(s)
  BY <1>3, <1>4, <1>5 DEF Source, LaneToken
<1>7. LaneToken(s) \in Tokens /\ LaneToken(s) < t
  <2>1. CASE lane < hdr[s].cnt
    <3>1. tile_base + hdr[s].toks[lane] < Len(routes) /\ Len(routes) = tile_base + t
      BY <1>1, <1>2, <1>4, <1>5, <2>1 DEF LogInv, Delivered, Right, RoutesOK
    <3>2. hdr[s].toks[lane] \in Tokens
      BY <1>2, <1>4, Entries DEF LogInv
    <3>3. QED
      BY <1>1, <1>2, <2>1, <3>1, <3>2 DEF LaneToken, Tokens
  <2>2. CASE ~(lane < hdr[s].cnt)
    BY <1>1, <1>2, <2>2 DEF LaneToken, Tokens
  <2>3. QED
    BY <2>1, <2>2
<1>8. x_cache[LaneToken(s)] = tile_base + LaneToken(s)
  BY <1>1, <1>7 DEF LogInv, CacheOK
<1>9. QED
  BY <1>0, <1>6, <1>8

LEMMA BeatWrites ==
    ASSUME LocalExpertBase = 0, IInv, LogInv, DispatchStep, StreamX \/ StreamZero
    PROVE  NewBeat
<1>0. PICK L \in Nat : L = Len(log)
  BY SeqFacts DEF LogInv, LogType
<1>1. /\ hdr_out' = hdr_out /\ NextBeat /\ pc \in {"x", "drain"}
      /\ pc' \in {"x", "drain"} <=> ~LastBeat
  BY DEF StreamX, StreamZero
<1>2. log' = log
  BY Logged
<1>3. lane \in Lanes /\ vec \in 0 .. HiddenVecs - 1 /\ L >= 1 /\ L - 1 \in Nat
  <2>1. lane \in 0 .. TokenLanes /\ vec \in 0 .. HiddenVecs - 1
    BY DEF IInv, TypeOK
  <2>2. lane < TokenLanes /\ L > 0
    BY <1>0, <1>1 DEF LogInv, LogEnd
  <2>3. QED
    BY <2>1, <2>2 DEF Lanes
<1>4. XWritten = (L - 1) * RoundBeats + (lane * HiddenVecs + vec)
  BY <1>0, <1>1 DEF XWritten
<1>5. \A s : Beat(s, XWritten) = Source(L, s, lane)
  BY <1>3, <1>4, BeatPlace
<1>6. ASSUME NEW s \in Slots
      PROVE  x_out'[s] = Append(x_out[s], Beat(s, XWritten))
  <2>1. CASE StreamX
    <3>1. pc = "x" /\ x_out'[s] = Append(x_out[s], x_cache[LaneToken(s)])
      BY <2>1 DEF StreamX
    <3>2. QED
      BY <1>0, <1>5, <3>1, CachedBeat
  <2>2. CASE StreamZero
    <3>1. pc = "drain" /\ x_out'[s] = Append(x_out[s], Zero)
      BY <2>2 DEF StreamZero
    <3>2. Stops(L)
      BY <1>0, <3>1 DEF LogInv, LogEnd
    <3>3. QED
      BY <1>5, <3>1, <3>2 DEF Source
  <2>3. QED
    BY <2>1, <2>2
<1>7. XWritten' = XWritten + 1
  <2>1. lane * HiddenVecs + vec \in Nat /\ RoundBeats \in Nat
    BY <1>3, BeatPlace, Sizes
  <2>2. (L - 1) * RoundBeats = L * RoundBeats - RoundBeats /\ L * RoundBeats \in Int
    BY <2>1, TimesStep
  <2>3. CASE LastBeat
    <3>1. lane * HiddenVecs + vec + 1 = RoundBeats
      BY <1>1, <1>3, <2>3, BeatStep
    <3>2. XWritten' = L * RoundBeats
      BY <1>0, <1>1, <1>2, <2>3 DEF XWritten, RoundBeats
    <3>3. QED
      BY <1>4, <2>1, <2>2, <3>1, <3>2
  <2>4. CASE ~LastBeat
    <3>1. lane' * HiddenVecs + vec' = lane * HiddenVecs + vec + 1
      BY <1>1, <1>3, <2>4, BeatStep
    <3>2. XWritten' = (L - 1) * RoundBeats + (lane' * HiddenVecs + vec')
      BY <1>0, <1>1, <1>2, <2>4 DEF XWritten, RoundBeats
    <3>3. QED
      BY <1>4, <2>1, <2>2, <3>1, <3>2
  <2>5. QED
    BY <2>3, <2>4
<1>8. QED
  BY <1>1, <1>2, <1>6, <1>7 DEF NewBeat

LEMMA DispatchWrites ==
    ASSUME LocalExpertBase = 0, IInv, LogInv, DispatchStep
    PROVE  Silent \/ NewRound \/ NewBeat
  BY QuietWrites, RoundWrites, BeatWrites DEF DispatchStep, Dispatch

--------------------------------------------------------------------------------
(* Where a slot is. *)
LEMMA FifoTypes ==
    ASSUME IInv, LogInv, NEW s \in Slots
    PROVE  /\ Len(log) \in Nat /\ DOMAIN log = 1 .. Len(log)
           /\ hdr_out[s] \in Seq(Hdrs) /\ x_out[s] \in Seq(Nat \cup {Zero})
           /\ Len(hdr_out[s]) \in Nat /\ Len(x_out[s]) \in Nat
           /\ Got(s) \in Int /\ Got(s) <= Len(log) /\ 0 \in Slots
<1>1. Len(log) \in Nat /\ DOMAIN log = 1 .. Len(log)
  BY SeqFacts DEF LogInv, LogType
<1>2. hdr_out[s] \in Seq(Hdrs) /\ x_out[s] \in Seq(Nat \cup {Zero})
  BY DEF IInv, TypeOK
<1>3. Len(hdr_out[s]) \in Nat /\ Len(x_out[s]) \in Nat
  BY <1>2, SeqFacts
<1>4. QED
  BY <1>1, <1>2, <1>3 DEF Got, Slots

LEMMA SlotTypes ==
    ASSUME KTypes, NEW s \in Slots
    PROVE  /\ spc[s] \in {"hdr", "x", "out", "tail", "done"} /\ shdr[s] \in Hdrs
           /\ x_cur[s] \in Seq(Nat \cup {Zero}) /\ Len(x_cur[s]) \in Nat
           /\ \A h \in Halves : /\ np[s][h] \in Nat
                                /\ partial[h][s] \in Seq(PacketRecs)
                                /\ Len(partial[h][s]) \in Nat
<1>1. /\ spc[s] \in {"hdr", "x", "out", "tail", "done"} /\ shdr[s] \in Hdrs
      /\ x_cur[s] \in Seq(Nat \cup {Zero})
      /\ \A h \in Halves : np[s][h] \in Nat /\ partial[h][s] \in Seq(PacketRecs)
  BY DEF KTypes
<1>2. QED
  BY <1>1, SeqFacts

LEMMA SlotReach ==
    ASSUME IInv, LogInv, KTypes, NEW s \in Slots, SlotInv(s)
    PROVE  /\ Got(s) \in 0 .. Len(log)
           /\ spc[s] # "hdr" => Got(s) \in 1 .. Len(log)
           /\ Got(s) * RoundBeats \in Nat /\ Got(s) * RoundPackets \in Nat
           /\ (Got(s) - 1) * RoundPackets = Got(s) * RoundPackets - RoundPackets
           /\ (Got(s) - 1) * RoundBeats = Got(s) * RoundBeats - RoundBeats
           /\ XRead(s) \in Nat /\ XRead(s) <= Got(s) * RoundBeats
           /\ \A h \in Halves : PWritten(h, s) \in Nat /\ PWritten(h, s) <= Got(s) * RoundPackets
<1>1. /\ Len(log) \in Nat /\ Len(hdr_out[s]) \in Nat
      /\ Got(s) \in Int /\ Got(s) <= Len(log) /\ Got(s) >= 0
      /\ spc[s] # "hdr" => Got(s) >= 1
  BY FifoTypes DEF SlotInv, HdrFifo, SlotOK
<1>2. RoundBeats \in Nat \ {0} /\ RoundPackets \in Nat \ {0} /\ RoundPackets >= 1
  BY Sizes
<1>3. Got(s) \in 0 .. Len(log) /\ (spc[s] # "hdr" => Got(s) \in 1 .. Len(log))
  BY <1>1
<1>4. /\ Got(s) * RoundBeats \in Nat /\ Got(s) * RoundPackets \in Nat
      /\ (Got(s) - 1) * RoundPackets = Got(s) * RoundPackets - RoundPackets
      /\ (Got(s) - 1) * RoundBeats = Got(s) * RoundBeats - RoundBeats
  <2>1. Got(s) * RoundBeats \in Nat /\ Got(s) * RoundPackets \in Nat
    BY <1>2, <1>3
  <2>2. QED
    BY <1>2, <1>3, <2>1, TimesStep
<1>5. Got(s) >= 1 => /\ (Got(s) - 1) * RoundPackets \in Nat
                     /\ (Got(s) - 1) * RoundBeats \in Nat
  <2>1. ASSUME Got(s) >= 1 PROVE Got(s) - 1 \in Nat
    BY <1>1, <2>1
  <2>2. QED
    BY <1>2, <2>1
<1>6. Len(x_cur[s]) \in Nat /\ spc[s] \in {"hdr", "x", "out", "tail", "done"}
      /\ \A h \in Halves : np[s][h] \in Nat
  BY SlotTypes
<1>7. XRead(s) \in Nat /\ XRead(s) <= Got(s) * RoundBeats
  <2>1. spc[s] = "x" => Len(x_cur[s]) < RoundBeats
    BY DEF SlotInv, SlotOK
  <2>2. CASE spc[s] = "x"
    <3>1. PICK a \in Nat : a = (Got(s) - 1) * RoundBeats
      BY <1>1, <1>5, <2>2
    <3>2. Got(s) * RoundBeats = a + RoundBeats
      BY <1>2, <1>4, <3>1
    <3>3. XRead(s) = a + Len(x_cur[s])
      BY <2>2, <3>1 DEF XRead
    <3>4. QED
      BY <1>2, <1>6, <2>1, <2>2, <3>2, <3>3
  <2>3. CASE spc[s] # "x"
    BY <1>4, <2>3 DEF XRead
  <2>4. QED
    BY <2>2, <2>3
<1>8. ASSUME NEW h \in Halves
      PROVE  PWritten(h, s) \in Nat /\ PWritten(h, s) <= Got(s) * RoundPackets
  <2>1. np[s][h] \in Nat
    BY <1>6
  <2>2. CASE spc[s] = "hdr"
    BY <1>4, <2>2 DEF PWritten
  <2>3. CASE spc[s] = "x"
    BY <1>1, <1>2, <1>4, <1>5, <2>3 DEF PWritten
  <2>4. CASE spc[s] \in {"out", "tail", "done"}
    <3>1. np[s][h] <= RoundPackets
      BY <1>2, <2>1, <2>4 DEF SlotInv, SlotOK
    <3>2. PWritten(h, s) = (Got(s) - 1) * RoundPackets + np[s][h]
      BY <2>4 DEF PWritten
    <3>3. PICK a \in Nat : a = (Got(s) - 1) * RoundPackets
      BY <1>1, <1>5, <2>4
    <3>4. Got(s) * RoundPackets = a + RoundPackets
      BY <1>2, <1>4, <3>3
    <3>5. QED
      BY <1>2, <2>1, <3>1, <3>2, <3>3, <3>4
  <2>5. QED
    BY <1>6, <2>2, <2>3, <2>4
<1>9. QED
  BY <1>3, <1>4, <1>7, <1>8

(* A position below m rounds is in one of the first m. *)
LEMMA RoundOf ==
    ASSUME NEW b \in Nat \ {0}, NEW m \in Nat, NEW n \in Nat, n < m * b
    PROVE  n \div b + 1 \in 1 .. m
<1>1. m * b \in Nat
  OBVIOUS
<1>2. n \in 0 .. m * b - 1
  BY <1>1
<1>3. n \div b \in 0 .. m - 1
  BY <1>2, DivBound
<1>4. QED
  BY <1>3

(* What slots and accumulators know of the log does not change as it grows. *)
LEMMA OldPositions ==
    ASSUME LogType, Grows, NEW s \in Slots, NEW m \in 0 .. Len(log)
    PROVE  /\ \A n \in Nat : n < m * RoundBeats => Beat(s, n)' = Beat(s, n)
           /\ \A n \in Nat : n < m * RoundPackets => PacketAt(s, n)' = PacketAt(s, n)
<1>1. RoundBeats \in Nat \ {0} /\ RoundPackets \in Nat \ {0} /\ Len(log) \in Nat /\ m \in Nat
  BY Sizes, SeqFacts DEF LogType
<1>2. \A r \in 1 .. m : /\ log'[r] = log[r] /\ Closes(r)' = Closes(r) /\ Stops(r)' = Stops(r)
                        /\ \A l : Works(r, s, l)' = Works(r, s, l) /\ Source(r, s, l)' = Source(r, s, l)
  BY <1>1, OldRounds
<1>3. \A r \in 1 .. m : \A l, v : LanePacket(r, s, l, v)' = LanePacket(r, s, l, v)
  BY <1>2 DEF LanePacket
<1>4. ASSUME NEW n \in Nat, n < m * RoundBeats
      PROVE  Beat(s, n)' = Beat(s, n)
  <2>1. n \div RoundBeats + 1 \in 1 .. m
    BY <1>1, <1>4, RoundOf
  <2>2. QED
    BY <1>2, <2>1 DEF Beat, RoundBeats
<1>5. ASSUME NEW n \in Nat, n < m * RoundPackets
      PROVE  PacketAt(s, n)' = PacketAt(s, n)
  <2>1. n \div RoundPackets + 1 \in 1 .. m
    BY <1>1, <1>5, RoundOf
  <2>2. QED
    BY <1>3, <2>1 DEF PacketAt, RoundPackets
<1>6. QED
  BY <1>4, <1>5

--------------------------------------------------------------------------------
(* The dispatcher's steps, seen from a slot. *)

LEMMA GrowsByWrites ==
    ASSUME Silent \/ NewRound \/ NewBeat
    PROVE  Grows
  BY DEF Silent, NewRound, NewBeat, Grows

LEMMA HdrAfterDispatch ==
    ASSUME LocalExpertBase = 0, IInv, IInv', LogInv, LogInv', KTypes, NEW s \in Slots, SlotInv(s),
           Silent \/ NewRound \/ NewBeat
    PROVE  HdrFifo(s)' /\ Got(s)' = Got(s)
<1>0. PICK L \in Nat : L = Len(log)
  BY FifoTypes
<1>1. Len(hdr_out[s]) \in Nat /\ hdr_out[s] \in Seq(Hdrs) /\ DOMAIN log = 1 .. L
  BY <1>0, FifoTypes
<1>2. CASE hdr_out' = hdr_out /\ log' = log
  BY <1>2 DEF SlotInv, HdrFifo, Got
<1>3. CASE NewRound
  <2>1. PICK e \in RoundRecs : log' = Append(log, e) /\ hdr_out'[s] = Append(hdr_out[s], e.hdrs[s])
    BY <1>3 DEF NewRound
  <2>2. /\ Len(log') = L + 1 /\ log'[L + 1] = e /\ \A r \in 1 .. L : log'[r] = log[r]
    BY <1>0, <2>1, AppendFacts DEF LogInv, LogType
  <2>3. e.hdrs[s] \in Hdrs
    BY DEF RoundRecs
  <2>4. PICK k \in Nat : k = Len(hdr_out[s])
    BY <1>1
  <2>5. /\ Len(hdr_out'[s]) = k + 1 /\ hdr_out'[s][k + 1] = e.hdrs[s]
        /\ \A i \in 1 .. k : hdr_out'[s][i] = hdr_out[s][i]
    BY <1>1, <2>1, <2>3, <2>4, AppendFacts
  <2>6. Got(s) = L - k /\ Got(s)' = L - k /\ L - k >= 0
    <3>1. Got(s) = L - k /\ Got(s)' = L + 1 - (k + 1)
      BY <1>0, <2>2, <2>4, <2>5 DEF Got
    <3>2. Got(s) >= 0
      BY DEF SlotInv, HdrFifo
    <3>3. QED
      BY <3>1, <3>2
  <2>7. ASSUME NEW i \in 1 .. k + 1
        PROVE  hdr_out'[s][i] = log'[L - k + i].hdrs[s]
    <3>1. CASE i = k + 1
      BY <2>2, <2>5, <3>1
    <3>2. CASE i \in 1 .. k
      <4>1. hdr_out[s][i] = log[L - k + i].hdrs[s]
        BY <2>4, <2>6, <3>2 DEF SlotInv, HdrFifo
      <4>2. L - k + i \in 1 .. L
        BY <2>6, <3>2
      <4>3. QED
        BY <2>2, <2>5, <3>2, <4>1, <4>2
    <3>3. QED
      BY <3>1, <3>2
  <2>8. QED
    BY <2>5, <2>6, <2>7 DEF HdrFifo
<1>4. QED
  BY <1>2, <1>3 DEF Silent, NewBeat

LEMMA XAfterDispatch ==
    ASSUME LocalExpertBase = 0, IInv, IInv', LogInv, LogInv', KTypes, NEW s \in Slots, SlotInv(s),
           Silent \/ NewRound \/ NewBeat, UNCHANGED svars
    PROVE  XFifo(s)'
<1>1. Grows /\ Got(s)' = Got(s) /\ LogType
  BY GrowsByWrites, HdrAfterDispatch DEF LogInv
<1>2. XRead(s)' = XRead(s)
  BY <1>1 DEF XRead, RoundBeats, svars
<1>3. Len(x_out[s]) \in Nat /\ x_out[s] \in Seq(Nat \cup {Zero}) /\ XRead(s) \in Nat
      /\ XRead(s) + Len(x_out[s]) = XWritten /\ Len(log) \in Nat
      /\ \A i \in 1 .. Len(x_out[s]) : x_out[s][i] = Beat(s, XRead(s) + (i - 1))
  BY FifoTypes, SlotReach DEF SlotInv, XFifo
<1>4. XWritten <= Len(log) * RoundBeats /\ Len(log) * RoundBeats \in Nat /\ XWritten \in Nat
  <2>1. RoundBeats \in Nat \ {0} /\ Len(log) \in Nat
    BY <1>3, Sizes
  <2>2. Len(log) * RoundBeats \in Nat /\ (Len(log) - 1) * RoundBeats = Len(log) * RoundBeats - RoundBeats
    BY <2>1, TimesStep
  <2>3. CASE pc \in {"x", "drain"}
    <3>1. lane \in Lanes /\ vec \in 0 .. HiddenVecs - 1
      <4>1. lane \in 0 .. TokenLanes /\ vec \in 0 .. HiddenVecs - 1
        BY DEF IInv, TypeOK
      <4>2. lane < TokenLanes
        BY <2>3 DEF LogInv, LogEnd
      <4>3. QED
        BY <4>1, <4>2 DEF Lanes
    <3>2. lane * HiddenVecs + vec \in 0 .. RoundBeats - 1
      BY <3>1, BeatPlace
    <3>3. XWritten = (Len(log) - 1) * RoundBeats + (lane * HiddenVecs + vec)
      BY <2>3 DEF XWritten
    <3>4. XWritten \in Nat
      BY <1>3
    <3>5. QED
      BY <2>1, <2>2, <3>2, <3>3, <3>4
  <2>4. CASE pc \notin {"x", "drain"}
    BY <2>2, <2>4 DEF XWritten
  <2>5. QED
    BY <2>3, <2>4
<1>5. \A n \in Nat : n < XWritten => Beat(s, n)' = Beat(s, n)
  <2>1. Len(log) \in 0 .. Len(log)
    BY <1>3
  <2>2. QED
    BY <1>1, <1>4, <2>1, OldPositions
<1>6. \A i \in 1 .. Len(x_out[s]) : Beat(s, XRead(s) + (i - 1))' = Beat(s, XRead(s) + (i - 1))
  <2>1. ASSUME NEW i \in 1 .. Len(x_out[s])
        PROVE  XRead(s) + (i - 1) \in Nat /\ XRead(s) + (i - 1) < XWritten
    BY <1>3
  <2>2. QED
    BY <1>2, <1>5, <2>1
<1>7. CASE x_out' = x_out /\ XWritten' = XWritten
  BY <1>2, <1>3, <1>6, <1>7 DEF XFifo
<1>8. CASE NewBeat
  <2>0. PICK w \in Nat, k \in Nat : w = XWritten /\ k = Len(x_out[s])
    BY <1>3, <1>4
  <2>1. x_out'[s] = Append(x_out[s], Beat(s, w)) /\ XWritten' = w + 1 /\ log' = log
    BY <1>8, <2>0 DEF NewBeat
  <2>2. Beat(s, w)' = Beat(s, w)
    BY <2>1 DEF Beat, Source, Works, Stops, RoundBeats
  <2>3. Len(x_out'[s]) = k + 1 /\ x_out'[s][k + 1] = Beat(s, w)
        /\ \A i \in 1 .. k : x_out'[s][i] = x_out[s][i]
    BY <1>3, <2>0, <2>1
  <2>4. XRead(s) + k = w
    BY <1>3, <2>0
  <2>5. ASSUME NEW i \in 1 .. k + 1
        PROVE  x_out'[s][i] = Beat(s, XRead(s) + (i - 1))'
    <3>1. CASE i = k + 1
      <4>1. XRead(s)' + (i - 1) = w
        BY <1>2, <1>3, <2>4, <3>1
      <4>2. QED
        BY <2>2, <2>3, <3>1, <4>1
    <3>2. CASE i \in 1 .. k
      BY <1>3, <1>6, <2>0, <2>3, <3>2
    <3>3. QED
      BY <3>1, <3>2
  <2>6. XRead(s)' + Len(x_out'[s]) = XWritten'
    BY <1>2, <1>3, <2>1, <2>3, <2>4
  <2>7. QED
    BY <2>3, <2>5, <2>6 DEF XFifo
<1>9. QED
  BY <1>7, <1>8 DEF Silent, NewRound

LEMMA SlotAfterDispatch ==
    ASSUME LocalExpertBase = 0, IInv, IInv', LogInv, LogInv', KTypes, NEW s \in Slots, SlotInv(s),
           Silent \/ NewRound \/ NewBeat, UNCHANGED svars
    PROVE  SlotInv(s)'
<1>1. Grows /\ Got(s)' = Got(s) /\ LogType /\ HdrFifo(s)' /\ XFifo(s)'
  BY GrowsByWrites, HdrAfterDispatch, XAfterDispatch DEF LogInv
<1>2. PICK g \in 0 .. Len(log) : g = Got(s) /\ (spc[s] # "hdr" => g \in 1 .. Len(log))
  BY SlotReach
<1>3. \A r \in 1 .. Len(log) : /\ log'[r] = log[r] /\ Stops(r)' = Stops(r)
                               /\ \A l : Source(r, s, l)' = Source(r, s, l)
  BY <1>1, OldRounds
<1>4. UNCHANGED <<spc, shdr, x_cur, np>>
  BY DEF svars
<1>5. CASE spc[s] = "hdr"
  <2>1. g = 0 \/ ~Stops(g)
    BY <1>2, <1>5 DEF SlotInv, SlotOK
  <2>2. g = 0 \/ ~Stops(g)'
    <3>1. Len(log) \in Nat
      BY FifoTypes
    <3>2. CASE g # 0
      <4>1. g \in 1 .. Len(log)
        BY <3>1, <3>2
      <4>2. QED
        BY <1>3, <2>1, <3>2, <4>1
    <3>3. QED
      BY <3>2
  <2>3. Got(s)' = g
    BY <1>1, <1>2
  <2>4. QED
    BY <1>1, <1>4, <1>5, <2>2, <2>3 DEF SlotInv, SlotOK
<1>6. CASE spc[s] # "hdr"
  <2>1. /\ log'[g] = log[g] /\ Stops(g)' = Stops(g)
        /\ \A l : Source(g, s, l)' = Source(g, s, l)
    BY <1>2, <1>3, <1>6
  <2>2. Got(s)' = g
    BY <1>1, <1>2
  <2>3. QED
    BY <1>1, <1>2, <1>4, <1>6, <2>1, <2>2 DEF SlotInv, SlotOK, RoundBeats, RoundPackets
<1>7. QED
  BY <1>5, <1>6

--------------------------------------------------------------------------------
(* The FIFOs between the slots and the accumulators. *)

LEMMA AccTypes ==
    ASSUME KTypes, NEW h \in Halves
    PROVE  /\ apc[h] \in {"tile", "acc", "flush", "drain", "done"}
           /\ around[h] \in Nat /\ abase[h] \in Nat /\ aslot[h] \in Slots
           /\ an[h] \in 0 .. RoundPackets - 1 /\ aflush[h] \in Nat
           /\ aover[h] \in BOOLEAN /\ asaw[h] \in BOOLEAN
           /\ y_mem[h] \in Seq(Sums) /\ Len(y_mem[h]) \in Nat
           /\ around[h] * RoundPackets \in Nat /\ RoundPackets \in Nat \ {0}
           /\ \A s \in Slots : /\ InRound(h, s) \in 0 .. RoundPackets /\ PRead(h, s) \in Nat
                               /\ partial[h][s] \in Seq(PacketRecs)
                               /\ Len(partial[h][s]) \in Nat
<1>1. /\ apc[h] \in {"tile", "acc", "flush", "drain", "done"}
      /\ around[h] \in Nat /\ abase[h] \in Nat /\ aslot[h] \in Slots
      /\ an[h] \in 0 .. RoundPackets - 1 /\ aflush[h] \in Nat
      /\ aover[h] \in BOOLEAN /\ asaw[h] \in BOOLEAN
      /\ y_mem[h] \in Seq(Sums)
      /\ \A s \in Slots : partial[h][s] \in Seq(PacketRecs)
  BY DEF KTypes
<1>2. Len(y_mem[h]) \in Nat /\ \A s \in Slots : Len(partial[h][s]) \in Nat
  BY <1>1, SeqFacts
<1>3. RoundPackets \in Nat \ {0} /\ around[h] * RoundPackets \in Nat
  BY <1>1, Sizes
<1>4. ASSUME NEW s \in Slots
      PROVE  InRound(h, s) \in 0 .. RoundPackets /\ PRead(h, s) \in Nat
  <2>1. InRound(h, s) \in 0 .. RoundPackets
    <3>1. {0, 1, an[h], RoundPackets} \subseteq 0 .. RoundPackets
      BY <1>1, <1>3
    <3>2. CASE apc[h] = "acc"
      BY <3>1, <3>2 DEF InRound
    <3>3. CASE apc[h] = "drain"
      BY <3>1, <3>3 DEF InRound
    <3>4. CASE apc[h] = "done"
      BY <3>1, <3>4 DEF InRound
    <3>5. CASE apc[h] \in {"tile", "flush"}
      BY <3>1, <3>5 DEF InRound
    <3>6. QED
      BY <1>1, <3>2, <3>3, <3>4, <3>5
  <2>2. QED
    BY <1>3, <2>1 DEF PRead
<1>5. QED
  BY <1>1, <1>2, <1>3, <1>4

(* An accumulator reads only what was written before the log grew. *)
LEMMA PacketsKept ==
    ASSUME IInv, LogInv, KTypes, Grows, NEW s \in Slots, SlotInv(s), NEW h \in Halves, PFifo(h, s),
           NEW i \in 1 .. Len(partial[h][s]), NEW n \in Nat, n = PRead(h, s) + (i - 1)
    PROVE  PacketAt(s, n)' = PacketAt(s, n)
<1>1. Got(s) \in 0 .. Len(log) /\ PWritten(h, s) <= Got(s) * RoundPackets
      /\ Got(s) * RoundPackets \in Nat /\ PWritten(h, s) \in Nat
  BY SlotReach
<1>2. n < PWritten(h, s)
  <2>1. PRead(h, s) \in Nat /\ Len(partial[h][s]) \in Nat
    BY AccTypes
  <2>2. PRead(h, s) + Len(partial[h][s]) = PWritten(h, s)
    BY DEF PFifo
  <2>3. QED
    BY <1>1, <2>1, <2>2
<1>3. n < Got(s) * RoundPackets
  BY <1>1, <1>2
<1>4. QED
  BY <1>1, <1>3, OldPositions DEF LogInv

LEMMA PFifoAfterDispatch ==
    ASSUME LocalExpertBase = 0, IInv, IInv', LogInv, LogInv', KTypes, NEW s \in Slots, SlotInv(s),
           Silent \/ NewRound \/ NewBeat, UNCHANGED <<around, svars, partial, avars>>,
           NEW h \in Halves, PFifo(h, s)
    PROVE  PFifo(h, s)'
<1>1. Grows /\ Got(s)' = Got(s)
  BY GrowsByWrites, HdrAfterDispatch
<1>2. UNCHANGED <<spc, shdr, x_cur, np, partial, around, apc, aslot, an>>
  BY DEF svars, avars
<1>3. PRead(h, s)' = PRead(h, s) /\ PWritten(h, s)' = PWritten(h, s)
  BY <1>1, <1>2 DEF PRead, InRound, PWritten, RoundPackets
<1>4. ASSUME NEW i \in 1 .. Len(partial[h][s])
      PROVE  partial'[h][s][i] = PacketAt(s, PRead(h, s) + (i - 1))'
  <2>1. PICK n \in Nat : n = PRead(h, s) + (i - 1)
    <3>1. PRead(h, s) \in Nat /\ Len(partial[h][s]) \in Nat
      BY AccTypes
    <3>2. QED
      BY <3>1
  <2>2. partial[h][s][i] = PacketAt(s, n)
    BY <2>1 DEF PFifo
  <2>3. PacketAt(s, n)' = PacketAt(s, n)
    BY <1>1, <2>1, PacketsKept
  <2>4. n = PRead(h, s)' + (i - 1)
    BY <1>3, <2>1
  <2>5. QED
    BY <1>2, <2>2, <2>3, <2>4
<1>5. QED
  BY <1>2, <1>3, <1>4 DEF PFifo

(* What was gathered, and what the rows hold, as the log and the routes    *)
(* grow.                                                                   *)
LEMMA AccAfterDispatch ==
    ASSUME LocalExpertBase = 0, IInv, LogInv, LogInv', KTypes, NEW h \in Halves, AccInv(h),
           Silent \/ NewRound \/ NewBeat, UNCHANGED <<around, svars, partial, avars>>,
           Len(routes) <= Len(routes'), Len(routes') \in Nat,
           \A i \in 1 .. Len(routes) : routes'[i] = routes[i], Len(routes) \in Nat
    PROVE  AccInv(h)'
<1>0. PICK L \in Nat : L = Len(log)
  BY SeqFacts DEF LogInv, LogType
<1>1. Grows /\ LogType
  BY GrowsByWrites DEF LogInv
<1>2. UNCHANGED <<around, apc, abase, aslot, an, aover, asaw, y_acc, aflush, y_mem>>
  BY DEF avars
<1>3. /\ DOMAIN log = 1 .. L /\ DOMAIN log' = 1 .. Len(log') /\ L <= Len(log') /\ Len(log') \in Nat
      /\ \A r \in 1 .. L : /\ log'[r] = log[r] /\ Stops(r)' = Stops(r) /\ Closes(r)' = Closes(r)
                           /\ \A s, l : Works(r, s, l)' = Works(r, s, l)
      /\ \A r \in 0 .. L : BaseAfter(r)' = BaseAfter(r)
  BY <1>0, <1>1, OldRounds
<1>4. around[h] \in 0 .. L /\ around[h] \in Nat /\ aslot[h] \in Slots /\ an[h] \in Nat
  <2>1. around[h] \in Nat /\ aslot[h] \in Slots /\ an[h] \in 0 .. RoundPackets - 1
    BY AccTypes
  <2>2. around[h] <= L
    BY <1>0 DEF AccInv, AccPlace
  <2>3. QED
    BY <1>0, <2>1, <2>2
<1>5. AccPlace(h)'
  <2>1. apc[h] = "done" => around[h] + 1 = Len(log')
    <3>1. SUFFICES ASSUME apc[h] = "done" PROVE Len(log') = L
      BY <1>0, <3>1 DEF AccInv, AccPlace
    <3>2. L = around[h] + 1 /\ abase[h] >= N /\ abase[h] = BaseAfter(L - 1) /\ L >= 1
      BY <1>0, <1>4, <3>1 DEF AccInv, AccPlace
    <3>3. log[L].base = BaseAfter(L - 1) /\ (~Stops(L) => log[L].base < N)
      BY <1>0, <1>3, <3>2 DEF LogInv, LogShape
    <3>4. Stops(L)
      BY <3>2, <3>3, AccTypes
    <3>5. Stops(L)' /\ L \in DOMAIN log'
      BY <1>3, <3>2, <3>4
    <3>6. QED
      BY <1>3, <3>5, Zenon DEF LogInv, LogShape
  <2>2. around[h] <= Len(log')
    BY <1>3, <1>4
  <2>3. around[h] > 0 => /\ ~Stops(around[h])' /\ Closes(around[h])' = Closes(around[h])
                         /\ log'[around[h]] = log[around[h]]
    <3>1. around[h] > 0 => around[h] \in 1 .. L
      BY <1>4
    <3>2. around[h] > 0 => ~Stops(around[h])
      BY DEF AccInv, AccPlace
    <3>3. QED
      BY <1>3, <3>1, <3>2
  <2>4. BaseAfter(around[h])' = BaseAfter(around[h])'
    OBVIOUS
  <2>5. PICK a \in 0 .. L : a = around[h]
    BY <1>4
  <2>6. /\ BaseAfter(a)' = BaseAfter(a)
        /\ a > 0 => ~Stops(a)' /\ Closes(a)' = Closes(a) /\ log'[a] = log[a]
    <3>1. a > 0 => a \in 1 .. L
      BY <2>5
    <3>2. a > 0 => ~Stops(a)
      BY <2>5 DEF AccInv, AccPlace
    <3>3. QED
      BY <1>3, <3>1, <3>2
  <2>7. a = around'[h]
    BY <1>2, <2>5
  <2>8. AccPlace(h)
    BY DEF AccInv
  <2>9. ATileN(h)' = ATileN(h)
    BY <1>2 DEF ATileN
  <2>10. (apc[h] = "tile" => a = 0 \/ Closes(a)) => (apc[h] = "tile" => a = 0 \/ Closes(a)')
    BY <2>5, <2>6
  <2>11. QED
    BY <1>2, <2>1, <2>2, <2>5, <2>6, <2>7, <2>8, <2>9 DEF AccPlace
<1>6. AccFlags(h)'
  <2>1. PICK a \in 0 .. L : a = around[h] /\ a = around'[h]
    BY <1>2, <1>4
  <2>2. a < L => Closes(a + 1)' = Closes(a + 1)
    <3>1. a < L => a + 1 \in 1 .. L
      BY <2>1
    <3>2. QED
      BY <1>3, <3>1
  <2>3. a < L => a < Len(log')
    BY <1>0, <1>3, <2>1
  <2>4. AccFlags(h)
    BY DEF AccInv
  <2>5. QED
    BY <1>0, <1>2, <2>1, <2>2, <2>3, <2>4 DEF AccFlags
<1>7. AccSums(h)'
  <2>1. ASSUME apc[h] \in {"acc", "flush"}, NEW k, NEW v \in HVecs
        PROVE  Summed(h, k, v)' = Summed(h, k, v)
    <3>1. \A r, s, l : Gathered(h, r, s, l, v)' = Gathered(h, r, s, l, v)
      BY <1>2 DEF Gathered
    <3>2. ASSUME NEW r \in 1 .. Len(log'), NEW s \in Slots, NEW l \in Lanes, Gathered(h, r, s, l, v)
          PROVE  r \in 1 .. L
      <4>1. CASE r <= around[h]
        BY <1>4, <4>1
      <4>2. CASE r = around[h] + 1 /\ (s < aslot[h] \/ (s = aslot[h] /\ l * HalfVecs + v < an[h]))
        <5>1. l * HalfVecs + v >= 0 /\ s >= 0
          <6>1. HalfVecs \in Nat /\ l \in Nat /\ v \in Nat /\ s \in Nat
            BY Sizes DEF Lanes, HVecs, Slots
          <6>2. QED
            BY <6>1
        <5>2. aslot[h] > 0 \/ an[h] > 0
          <6>1. l * HalfVecs + v \in Int /\ s \in Int /\ aslot[h] \in Int
            BY <1>4, Sizes DEF Lanes, HVecs, Slots
          <6>2. QED
            BY <1>4, <4>2, <5>1, <6>1
        <5>3. around[h] < L
          <6>1. apc[h] = "flush" => aslot[h] = 0 /\ an[h] = 0
            BY DEF AccInv, AccPlace
          <6>2. apc[h] = "acc"
            BY <1>4, <2>1, <5>2, <6>1
          <6>3. QED
            BY <1>0, <5>2, <6>2 DEF AccInv, AccFlags
        <5>4. QED
          BY <1>4, <4>2, <5>3
      <4>3. QED
        BY <3>2, <4>1, <4>2 DEF Gathered
    <3>3. abase' = abase
      BY <1>2
    <3>4. \A r \in 1 .. L : r \in 1 .. Len(log')
      BY <1>3
    <3>5. ASSUME NEW e \in Experts
          PROVE  (\E r \in DOMAIN log', s \in Slots, l \in Lanes :
                    /\ log'[r].base = abase'[h] /\ Works(r, s, l)' /\ Gathered(h, r, s, l, v)'
                    /\ log'[r].hdrs[s].toks[l] = k /\ log'[r].hdrs[s].trig = e)
                 <=>
                 (\E r \in DOMAIN log, s \in Slots, l \in Lanes :
                    /\ log[r].base = abase[h] /\ Works(r, s, l) /\ Gathered(h, r, s, l, v)
                    /\ log[r].hdrs[s].toks[l] = k /\ log[r].hdrs[s].trig = e)
      BY <1>3, <3>1, <3>2, <3>3, <3>4
    <3>6. QED
      BY <3>5 DEF Summed
  <2>2. QED
    BY <1>2, <2>1 DEF AccInv, AccSums
<1>8. AccRows(h)'
  <2>1. HalfVecs \in Nat \ {0} /\ Len(y_mem[h]) \in Nat
    BY Sizes, AccTypes
  <2>2. ASSUME NEW i \in 1 .. Len(y_mem[h])
        PROVE  /\ (i - 1) \div HalfVecs < Len(routes')
               /\ Expected((i - 1) \div HalfVecs)' = Expected((i - 1) \div HalfVecs)
    <3>1. PICK n \in Nat : n = (i - 1) \div HalfVecs
      <4>1. i - 1 \in Nat
        BY <2>1
      <4>2. QED
        BY <2>1, <4>1, DivParts
    <3>2. n < Len(routes)
      BY <3>1 DEF AccInv, AccRows
    <3>3. n + 1 \in 1 .. Len(routes)
      BY <3>2
    <3>4. routes'[n + 1] = routes[n + 1]
      BY <3>3
    <3>5. QED
      BY <3>1, <3>2, <3>4 DEF Expected
  <2>3. QED
    BY <1>2, <2>2 DEF AccInv, AccRows
<1>9. QED
  BY <1>5, <1>6, <1>7, <1>8 DEF AccInv

--------------------------------------------------------------------------------
(* The invariant after a step of the dispatcher. *)

LEMMA RoutesGrow ==
    ASSUME LocalExpertBase = 0, IInv, LogInv, LogInv', DispatchStep
    PROVE  /\ Len(routes) \in Nat /\ Len(routes') \in Nat /\ Len(routes) <= Len(routes')
           /\ \A i \in 1 .. Len(routes) : routes'[i] = routes[i]
<1>1. routes \in Seq((SUBSET Experts) \ {{}}) /\ routes' \in Seq((SUBSET Experts) \ {{}})
  BY DEF LogInv, RoutesOK
<1>2. routes' = routes \/ \E pkt \in Packets : routes' = Append(routes, pkt)
  BY Logged DEF DispatchStep, Dispatch
<1>3. CASE routes' = routes
  BY <1>1, <1>3, SeqFacts
<1>4. ASSUME NEW pkt \in Packets, routes' = Append(routes, pkt)
      PROVE  /\ Len(routes) \in Nat /\ Len(routes') \in Nat /\ Len(routes) <= Len(routes')
             /\ \A i \in 1 .. Len(routes) : routes'[i] = routes[i]
  BY <1>1, <1>4
<1>5. QED
  BY <1>2, <1>3, <1>4

LEMMA TypesKept ==
    ASSUME KTypes, UNCHANGED <<around, svars, partial, avars>>
    PROVE  KTypes'
  BY DEF KTypes, svars, avars, RoundPackets

LEMMA KDispatch ==
    ASSUME LocalExpertBase = 0, KInv, IInv', DispatchStep
    PROVE  KInv'
<1>1. LogInv' /\ (Silent \/ NewRound \/ NewBeat)
  BY LogDispatch, DispatchWrites DEF KInv
<1>2. UNCHANGED <<around, svars, partial, avars>>
  BY DEF DispatchStep
<1>3. KTypes'
  BY <1>2, TypesKept DEF KInv
<1>4. ASSUME NEW s \in Slots
      PROVE  SlotInv(s)'
  BY <1>1, <1>2, SlotAfterDispatch DEF KInv
<1>5. ASSUME NEW h \in Halves, NEW s \in Slots
      PROVE  PFifo(h, s)'
  BY <1>1, <1>2, PFifoAfterDispatch DEF KInv
<1>6. ASSUME NEW h \in Halves
      PROVE  AccInv(h)'
  <2>1. /\ Len(routes) \in Nat /\ Len(routes') \in Nat /\ Len(routes) <= Len(routes')
        /\ \A i \in 1 .. Len(routes) : routes'[i] = routes[i]
    BY <1>1, RoutesGrow DEF KInv
  <2>2. QED
    BY <1>1, <1>2, <2>1, AccAfterDispatch DEF KInv
<1>7. QED
  BY <1>1, <1>3, <1>4, <1>5, <1>6 DEF KInv

--------------------------------------------------------------------------------
(* What a step leaves alone. *)

SameProgress == UNCHANGED <<log, pc, lane, vec>>
SameSlot(s) == /\ hdr_out'[s] = hdr_out[s] /\ x_out'[s] = x_out[s]
               /\ spc'[s] = spc[s] /\ shdr'[s] = shdr[s]
               /\ x_cur'[s] = x_cur[s] /\ np'[s] = np[s]

LEMMA SameRounds ==
    ASSUME log' = log
    PROVE  /\ \A r : Stops(r)' = Stops(r) /\ Closes(r)' = Closes(r) /\ BaseAfter(r)' = BaseAfter(r)
           /\ \A r, s, l : Works(r, s, l)' = Works(r, s, l) /\ Source(r, s, l)' = Source(r, s, l)
           /\ \A r, s, l, v : LanePacket(r, s, l, v)' = LanePacket(r, s, l, v)
           /\ \A s, n : Beat(s, n)' = Beat(s, n) /\ PacketAt(s, n)' = PacketAt(s, n)
<1>1. \A r : Stops(r)' = Stops(r) /\ Closes(r)' = Closes(r) /\ BaseAfter(r)' = BaseAfter(r)
  BY DEF Stops, Closes, BaseAfter
<1>2. \A r, s, l : Works(r, s, l)' = Works(r, s, l) /\ Source(r, s, l)' = Source(r, s, l)
  BY <1>1 DEF Works, Source
<1>3. ASSUME NEW r, NEW s, NEW l, NEW v
      PROVE  LanePacket(r, s, l, v)' = LanePacket(r, s, l, v)
  <2>1. /\ Stops(r)' = Stops(r) /\ Closes(r)' = Closes(r) /\ Works(r, s, l)' = Works(r, s, l)
        /\ Source(r, s, l)' = Source(r, s, l) /\ log'[r] = log[r]
    BY <1>1, <1>2
  <2>2. QED
    BY <2>1, Zenon DEF LanePacket
<1>4. \A s, n : Beat(s, n)' = Beat(s, n) /\ PacketAt(s, n)' = PacketAt(s, n)
  BY <1>2, <1>3 DEF Beat, PacketAt, RoundBeats, RoundPackets
<1>5. QED
  BY <1>1, <1>2, <1>3, <1>4

LEMMA SameSlotInv ==
    ASSUME SameProgress, NEW s \in Slots, SlotInv(s), SameSlot(s)
    PROVE  /\ SlotInv(s)' /\ Got(s)' = Got(s)
           /\ \A h : PWritten(h, s)' = PWritten(h, s)
<1>1. Got(s)' = Got(s) /\ XWritten' = XWritten
  BY DEF SameProgress, SameSlot, Got, XWritten, RoundBeats
<1>2. /\ \A r : Stops(r)' = Stops(r)
      /\ \A r, l : Source(r, s, l)' = Source(r, s, l)
      /\ \A n : Beat(s, n)' = Beat(s, n)
  BY SameRounds DEF SameProgress
<1>3. HdrFifo(s)'
  BY <1>1 DEF SlotInv, HdrFifo, SameSlot, SameProgress
<1>4. XRead(s)' = XRead(s)
  BY <1>1 DEF XRead, SameSlot, RoundBeats
<1>5. XFifo(s)'
  <2>1. PICK m : m = XRead(s)
    OBVIOUS
  <2>2. \A i \in 1 .. Len(x_out[s]) : Beat(s, m + (i - 1))' = Beat(s, m + (i - 1))
    BY <1>2
  <2>3. QED
    BY <1>1, <1>4, <2>1, <2>2 DEF SlotInv, XFifo, SameSlot
<1>6. SlotOK(s)'
  <2>1. PICK g : g = Got(s)
    OBVIOUS
  <2>2. Stops(g)' = Stops(g) /\ \A l : Source(g, s, l)' = Source(g, s, l)
    BY <1>2
  <2>3. SlotOK(s)
    BY DEF SlotInv
  <2>4. QED
    BY <1>1, <2>1, <2>2, <2>3 DEF SlotOK, SameSlot, SameProgress, RoundBeats, RoundPackets
<1>7. \A h : PWritten(h, s)' = PWritten(h, s)
  BY <1>1 DEF PWritten, SameSlot, RoundPackets
<1>8. QED
  BY <1>1, <1>3, <1>5, <1>6, <1>7 DEF SlotInv

LEMMA SamePFifo ==
    ASSUME log' = log, NEW h \in Halves, NEW s \in Slots, PFifo(h, s),
           PRead(h, s)' = PRead(h, s), PWritten(h, s)' = PWritten(h, s),
           partial'[h][s] = partial[h][s]
    PROVE  PFifo(h, s)'
<1>1. PICK m : m = PRead(h, s)
  OBVIOUS
<1>2. \A i \in 1 .. Len(partial[h][s]) : PacketAt(s, m + (i - 1))' = PacketAt(s, m + (i - 1))
  BY SameRounds
<1>3. QED
  BY <1>1, <1>2 DEF PFifo

SameAcc(h) == UNCHANGED <<apc[h], abase[h], aslot[h], an[h], aover[h], asaw[h], y_acc[h],
                          aflush[h], y_mem[h], around[h]>>

LEMMA SameSummed ==
    ASSUME log' = log, NEW h, UNCHANGED <<abase[h], around[h], aslot[h], an[h]>>
    PROVE  \A k, v : Summed(h, k, v)' = Summed(h, k, v)
<1>1. \A r, s, l, v : Gathered(h, r, s, l, v)' = Gathered(h, r, s, l, v)
  BY DEF Gathered
<1>2. QED
  BY <1>1, SameRounds DEF Summed

LEMMA SameAccInv ==
    ASSUME log' = log, routes' = routes, NEW h \in Halves, AccInv(h), SameAcc(h)
    PROVE  AccInv(h)'
<1>1. PICK a : a = around[h] /\ a = around'[h]
  BY DEF SameAcc
<1>2. /\ Stops(a)' = Stops(a) /\ Closes(a)' = Closes(a) /\ BaseAfter(a)' = BaseAfter(a)
      /\ Closes(a + 1)' = Closes(a + 1)
  BY SameRounds
<1>3. ATileN(h)' = ATileN(h)
  BY DEF ATileN, SameAcc
<1>4. AccPlace(h)'
  BY <1>1, <1>2, <1>3 DEF AccInv, AccPlace, SameAcc
<1>5. AccFlags(h)'
  BY <1>1, <1>2 DEF AccInv, AccFlags, SameAcc
<1>6. AccSums(h)'
  <2>1. \A k, v : Summed(h, k, v)' = Summed(h, k, v)
    BY SameSummed DEF SameAcc
  <2>2. QED
    BY <2>1 DEF AccInv, AccSums, SameAcc
<1>7. AccRows(h)'
  <2>1. \A n : Expected(n)' = Expected(n)
    BY DEF Expected
  <2>2. QED
    BY <2>1 DEF AccInv, AccRows, SameAcc
<1>8. QED
  BY <1>4, <1>5, <1>6, <1>7 DEF AccInv

LEMMA SameRead ==
    ASSUME UNCHANGED <<around, avars>>
    PROVE  \A h, s : PRead(h, s)' = PRead(h, s)
  BY DEF avars, PRead, InRound, RoundPackets

--------------------------------------------------------------------------------
(* The steps of a slot. *)

LEMMA KReadHdr ==
    ASSUME KInv, IInv', NEW z \in Slots, SlotReadHdr(z)
    PROVE  KInv'
<1>1. /\ spc[z] = "hdr" /\ hdr_out[z] # <<>> /\ hdr_out' = [hdr_out EXCEPT ![z] = Tail(@)]
      /\ shdr' = [shdr EXCEPT ![z] = Head(hdr_out[z])]
      /\ x_cur' = [x_cur EXCEPT ![z] = <<>>] /\ spc' = [spc EXCEPT ![z] = "x"]
      /\ UNCHANGED <<pc, tile_base, t, bank, x_cache, hdr, lane, vec, x_out, hist>>
      /\ UNCHANGED <<routes, log, around, np, partial, avars>>
  BY DEF SlotReadHdr, TakeHdr
<1>2. IInv /\ LogInv /\ KTypes /\ SlotInv(z)
  BY DEF KInv
<1>3. LogInv' /\ SameProgress
  BY <1>1, <1>2, LogKept DEF hist, SameProgress
<1>4. hdr_out \in [Slots -> Seq(Hdrs)]
  BY <1>2 DEF IInv, TypeOK
<1>5. PICK k \in Nat : k = Len(hdr_out[z])
  BY <1>2, FifoTypes
<1>6. /\ k >= 1 /\ Len(hdr_out'[z]) = k - 1 /\ hdr_out'[z] = Tail(hdr_out[z])
      /\ \A i \in 1 .. k - 1 : hdr_out'[z][i] = hdr_out[z][i + 1]
      /\ Head(hdr_out[z]) = hdr_out[z][1] /\ Head(hdr_out[z]) \in Hdrs
  BY <1>1, <1>4, <1>5, TailFacts
<1>7. PICK g \in Nat : /\ g = Got(z) /\ Got(z)' = g + 1 /\ g + 1 <= Len(log) /\ Len(log) = g + k
                       /\ Len(log) \in Nat
  <2>1. Got(z) \in 0 .. Len(log) /\ Len(log) \in Nat
    BY <1>2, SlotReach, FifoTypes
  <2>2. Got(z) = Len(log) - k /\ Got(z)' = Len(log) - (k - 1)
    BY <1>1, <1>5, <1>6 DEF Got
  <2>3. QED
    BY <1>6, <2>1, <2>2
<1>8. \A i \in 1 .. k : hdr_out[z][i] = log[g + i].hdrs[z]
  BY <1>2, <1>5, <1>7 DEF SlotInv, HdrFifo
<1>9. spc'[z] = "x" /\ x_cur'[z] = <<>> /\ Len(x_cur'[z]) = 0 /\ shdr'[z] = log[g + 1].hdrs[z]
  <2>1. spc'[z] = "x" /\ x_cur'[z] = <<>> /\ shdr'[z] = Head(hdr_out[z])
    BY <1>1, <1>2 DEF KTypes
  <2>2. hdr_out[z][1] = log[g + 1].hdrs[z]
    BY <1>6, <1>8
  <2>3. QED
    BY <1>6, <2>1, <2>2
<1>10. KTypes'
  <2>1. shdr' \in [Slots -> Hdrs] /\ spc' \in [Slots -> {"hdr", "x", "out", "tail", "done"}]
        /\ x_cur' \in [Slots -> Seq(Nat \cup {Zero})]
    BY <1>1, <1>2, <1>6 DEF KTypes
  <2>2. QED
    BY <1>1, <1>2, <2>1 DEF KTypes, avars, RoundPackets
<1>11. SlotInv(z)'
  <2>1. HdrFifo(z)'
    <3>1. ASSUME NEW i \in 1 .. k - 1
          PROVE  hdr_out'[z][i] = log[g + 1 + i].hdrs[z]
      <4>1. i + 1 \in 1 .. k /\ g + (i + 1) = g + 1 + i
        BY <1>5
      <4>2. QED
        BY <1>6, <1>8, <4>1
    <3>2. QED
      BY <1>1, <1>6, <1>7, <3>1 DEF HdrFifo
  <2>2. XRead(z)' = XRead(z) /\ XWritten' = XWritten
    <3>1. XRead(z) = g * RoundBeats
      BY <1>1, <1>7 DEF XRead
    <3>2. XRead(z)' = (g + 1 - 1) * RoundBeats + 0
      BY <1>7, <1>9 DEF XRead, RoundBeats
    <3>3. g + 1 - 1 = g /\ g * RoundBeats \in Nat
      BY <1>7, Sizes
    <3>4. XWritten' = XWritten
      BY <1>3 DEF SameProgress, XWritten, RoundBeats
    <3>5. QED
      BY <3>1, <3>2, <3>3, <3>4
  <2>3. XFifo(z)'
    <3>1. PICK m : m = XRead(z)
      OBVIOUS
    <3>2. \A i : Beat(z, m + (i - 1))' = Beat(z, m + (i - 1))
      BY <1>1, SameRounds
    <3>3. QED
      BY <1>1, <1>2, <2>2, <3>1, <3>2 DEF SlotInv, XFifo
  <2>4. SlotOK(z)'
    <3>1. Got(z)' >= 1 /\ shdr'[z] = log'[g + 1].hdrs[z] /\ 0 < RoundBeats
      BY <1>1, <1>7, <1>9, Sizes
    <3>2. \A i : i \notin 1 .. 0
      OBVIOUS
    <3>3. QED
      BY <1>7, <1>9, <3>1, <3>2 DEF SlotOK, RoundBeats
  <2>5. QED
    BY <2>1, <2>3, <2>4 DEF SlotInv
<1>12. ASSUME NEW s \in Slots, s # z
       PROVE  SlotInv(s)' /\ \A h : PWritten(h, s)' = PWritten(h, s)
  <2>1. SameSlot(s)
    BY <1>1, <1>2, <1>4, <1>12 DEF SameSlot, KTypes
  <2>2. QED
    BY <1>3, <2>1, SameSlotInv DEF KInv
<1>13. \A h \in Halves : PWritten(h, z)' = PWritten(h, z)
  <2>1. ASSUME NEW h \in Halves
        PROVE  PWritten(h, z)' = PWritten(h, z)
    <3>1. PWritten(h, z) = g * RoundPackets
      BY <1>1, <1>7 DEF PWritten
    <3>2. PWritten(h, z)' = (g + 1 - 1) * RoundPackets + 0
      BY <1>7, <1>9 DEF PWritten, RoundPackets
    <3>3. g + 1 - 1 = g /\ g * RoundPackets \in Nat
      BY <1>7, Sizes
    <3>4. QED
      BY <3>1, <3>2, <3>3
  <2>2. QED
    BY <2>1
<1>14. ASSUME NEW h \in Halves, NEW s \in Slots
       PROVE  PFifo(h, s)'
  <2>1. PWritten(h, s)' = PWritten(h, s)
    BY <1>12, <1>13
  <2>2. PRead(h, s)' = PRead(h, s)
    BY <1>1, SameRead
  <2>3. QED
    BY <1>1, <2>1, <2>2, SamePFifo DEF KInv
<1>15. ASSUME NEW h \in Halves
       PROVE  AccInv(h)'
  <2>1. SameAcc(h)
    BY <1>1 DEF SameAcc, avars
  <2>2. QED
    BY <1>1, <2>1, SameAccInv DEF KInv
<1>16. QED
  BY <1>3, <1>10, <1>11, <1>12, <1>14, <1>15 DEF KInv

LEMMA KReadX ==
    ASSUME KInv, IInv', NEW z \in Slots, SlotReadX(z)
    PROVE  KInv'
<1> DEFINE full == Len(x_cur'[z]) = TokenLanes * HiddenVecs
<1>1. /\ spc[z] = "x" /\ x_out[z] # <<>> /\ x_out' = [x_out EXCEPT ![z] = Tail(@)]
      /\ x_cur' = [x_cur EXCEPT ![z] = Append(@, Head(x_out[z]))]
      /\ IF full
         THEN /\ spc' = [spc EXCEPT ![z] = IF shdr[z].last THEN "tail" ELSE "out"]
              /\ np' = [np EXCEPT ![z] = [h \in Halves |-> 0]]
         ELSE UNCHANGED <<spc, np>>
      /\ UNCHANGED <<pc, tile_base, t, bank, x_cache, hdr, lane, vec, hdr_out, hist>>
      /\ UNCHANGED <<routes, log, around, shdr, partial, avars>>
  BY DEF SlotReadX, TakeX
<1>2. IInv /\ LogInv /\ KTypes /\ SlotInv(z)
  BY DEF KInv
<1>3. LogInv' /\ SameProgress
  BY <1>1, <1>2, LogKept DEF hist, SameProgress
<1>4. x_out \in [Slots -> Seq(Nat \cup {Zero})]
  BY <1>2 DEF IInv, TypeOK
<1>5. PICK k \in Nat, n \in Nat : k = Len(x_out[z]) /\ n = Len(x_cur[z])
  BY <1>2, FifoTypes, SlotTypes
<1>6. /\ k >= 1 /\ Len(x_out'[z]) = k - 1 /\ x_out'[z] = Tail(x_out[z])
      /\ \A i \in 1 .. k - 1 : x_out'[z][i] = x_out[z][i + 1]
      /\ Head(x_out[z]) = x_out[z][1] /\ Head(x_out[z]) \in Nat \cup {Zero}
  BY <1>1, <1>4, <1>5, TailFacts
<1>7. PICK g \in 1 .. Len(log) : /\ g = Got(z) /\ Got(z)' = g /\ Len(log) \in Nat
                                 /\ (g - 1) * RoundBeats \in Nat
                                 /\ g * RoundBeats = (g - 1) * RoundBeats + RoundBeats
  <2>1. Got(z) \in 1 .. Len(log) /\ Len(log) \in Nat
    BY <1>1, <1>2, SlotReach, FifoTypes
  <2>2. Got(z)' = Got(z)
    BY <1>1 DEF Got
  <2>3. Got(z) - 1 \in Nat /\ RoundBeats \in Nat
    BY <2>1, Sizes
  <2>4. (Got(z) - 1) * RoundBeats \in Nat
    BY <2>3
  <2>5. Got(z) * RoundBeats = (Got(z) - 1) * RoundBeats + RoundBeats
    <3>1. (Got(z) - 1 + 1) * RoundBeats = (Got(z) - 1) * RoundBeats + RoundBeats
      BY <2>3, TimesStep
    <3>2. Got(z) - 1 + 1 = Got(z)
      BY <2>1
    <3>3. QED
      BY <3>1, <3>2
  <2>6. QED
    BY <2>1, <2>2, <2>4, <2>5
<1>8. /\ n < RoundBeats /\ RoundBeats \in Nat \ {0} /\ RoundBeats = TokenLanes * HiddenVecs
      /\ HiddenVecs \in Nat \ {0}
  BY <1>1, <1>2, <1>5, Sizes DEF SlotInv, SlotOK, RoundBeats
<1>9. PICK b \in Nat : b = (g - 1) * RoundBeats
  BY <1>7
<1>10. XRead(z) = b + n
  BY <1>1, <1>5, <1>7, <1>9 DEF XRead
<1>11. x_out[z][1] = Source(g, z, n \div HiddenVecs)
  <2>1. x_out[z][1] = Beat(z, b + n)
    <3>1. x_out[z][1] = Beat(z, XRead(z) + (1 - 1))
      BY <1>2, <1>5, <1>6 DEF SlotInv, XFifo
    <3>2. XRead(z) + (1 - 1) = b + n
      BY <1>10
    <3>3. QED
      BY <3>1, <3>2
  <2>2. (b + n) \div RoundBeats = g - 1 /\ (b + n) % RoundBeats = n
    <3>1. n \in 0 .. RoundBeats - 1 /\ g - 1 \in Nat
      BY <1>7, <1>8
    <3>2. QED
      BY <1>8, <1>9, <3>1, DivMod
  <2>3. g - 1 + 1 = g
    BY <1>7
  <2>4. QED
    BY <2>1, <2>2, <2>3 DEF Beat
<1>12. /\ x_cur'[z] \in Seq(Nat \cup {Zero}) /\ Len(x_cur'[z]) = n + 1
       /\ x_cur'[z][n + 1] = x_out[z][1]
       /\ \A i \in 1 .. n : x_cur'[z][i] = x_cur[z][i]
  <2>1. x_cur'[z] = Append(x_cur[z], x_out[z][1]) /\ x_cur[z] \in Seq(Nat \cup {Zero})
    BY <1>1, <1>2, <1>6 DEF KTypes
  <2>2. QED
    BY <1>5, <1>6, <2>1, AppendFacts
<1>13. \A i \in 1 .. n + 1 : x_cur'[z][i] = Source(g, z, (i - 1) \div HiddenVecs)
  <2>1. \A i \in 1 .. n : x_cur[z][i] = Source(g, z, (i - 1) \div HiddenVecs)
    BY <1>1, <1>2, <1>5, <1>7 DEF SlotInv, SlotOK
  <2>2. \A i \in 1 .. n + 1 : i \in 1 .. n \/ i = n + 1
    OBVIOUS
  <2>3. (n + 1) - 1 = n
    OBVIOUS
  <2>4. QED
    BY <1>11, <1>12, <2>1, <2>2, <2>3
<1>14. shdr[z] = log[g].hdrs[z] /\ shdr'[z] = log'[g].hdrs[z] /\ (shdr[z].last <=> Stops(g))
  <2>1. shdr[z] = log[g].hdrs[z]
    BY <1>1, <1>2, <1>7 DEF SlotInv, SlotOK
  <2>2. g \in DOMAIN log
    BY <1>2, <1>7, FifoTypes
  <2>3. Stops(g) => shdr[z].last
    BY <1>2, <2>1, <2>2 DEF LogInv, LogShape, Sentinel
  <2>4. ~Stops(g) => ~shdr[z].last
    BY <1>2, <2>1, <2>2 DEF LogInv, LogShape, Alike
  <2>5. QED
    BY <1>1, <2>1, <2>3, <2>4
<1>15. IF full THEN /\ spc'[z] = (IF Stops(g) THEN "tail" ELSE "out")
                    /\ \A h \in Halves : np'[z][h] = 0
                    /\ n + 1 = RoundBeats
               ELSE /\ spc'[z] = "x" /\ np'[z] = np[z] /\ n + 1 < RoundBeats
  <2>1. full <=> n + 1 = RoundBeats
    BY <1>8, <1>12
  <2>2. CASE full
    <3>1. spc'[z] = IF shdr[z].last THEN "tail" ELSE "out"
      BY <1>1, <1>2, <2>2 DEF KTypes
    <3>2. np'[z] = [h \in Halves |-> 0]
      BY <1>1, <1>2, <2>2 DEF KTypes
    <3>3. QED
      BY <1>14, <2>1, <2>2, <3>1, <3>2
  <2>3. CASE ~full
    BY <1>1, <1>8, <2>1, <2>3
  <2>4. QED
    BY <2>2, <2>3
<1>16. KTypes'
  <2>1. x_cur' \in [Slots -> Seq(Nat \cup {Zero})]
    <3>1. Append(x_cur[z], Head(x_out[z])) \in Seq(Nat \cup {Zero})
      BY <1>2, <1>6, SlotTypes, AppendFacts
    <3>2. QED
      BY <1>1, <1>2, <3>1 DEF KTypes
  <2>2. /\ spc' \in [Slots -> {"hdr", "x", "out", "tail", "done"}]
        /\ np' \in [Slots -> [Halves -> Nat]]
    <3>1. [h \in Halves |-> 0] \in [Halves -> Nat]
      OBVIOUS
    <3>2. (IF shdr[z].last THEN "tail" ELSE "out") \in {"hdr", "x", "out", "tail", "done"}
      OBVIOUS
    <3>3. QED
      BY <1>1, <1>2, <3>1, <3>2, Zenon DEF KTypes
  <2>3. QED
    BY <1>1, <1>2, <2>1, <2>2 DEF KTypes, avars, RoundPackets
<1>17. SlotInv(z)'
  <2>1. HdrFifo(z)'
    BY <1>1, <1>2, <1>7 DEF SlotInv, HdrFifo
  <2>2. XRead(z)' = b + n + 1 /\ XWritten' = XWritten
    <3>1. XWritten' = XWritten
      BY <1>3 DEF SameProgress, XWritten, RoundBeats
    <3>2. CASE full
      <4>1. XRead(z)' = g * RoundBeats
        BY <1>7, <1>15, <3>2 DEF XRead, RoundBeats
      <4>2. g * RoundBeats = b + RoundBeats /\ n + 1 = RoundBeats
        BY <1>7, <1>9, <1>15, <3>2
      <4>3. QED
        BY <3>1, <4>1, <4>2
    <3>3. CASE ~full
      <4>1. XRead(z)' = b + (n + 1)
        BY <1>7, <1>9, <1>12, <1>15, <3>3 DEF XRead, RoundBeats
      <4>2. QED
        BY <3>1, <4>1
    <3>4. QED
      BY <3>2, <3>3
  <2>3. XFifo(z)'
    <3>1. XRead(z) + k = XWritten /\ \A i \in 1 .. k : x_out[z][i] = Beat(z, XRead(z) + (i - 1))
      BY <1>2, <1>5 DEF SlotInv, XFifo
    <3>2. ASSUME NEW i \in 1 .. k - 1
          PROVE  x_out'[z][i] = Beat(z, XRead(z)' + (i - 1))
      <4>1. i + 1 \in 1 .. k /\ XRead(z) + ((i + 1) - 1) = b + n + 1 + (i - 1)
        BY <1>5, <1>10
      <4>2. QED
        BY <1>6, <2>2, <3>1, <4>1
    <3>3. \A i : Beat(z, b + n + 1 + (i - 1))' = Beat(z, b + n + 1 + (i - 1))
      BY <1>1, SameRounds
    <3>4. XRead(z)' + (k - 1) = XWritten'
      <4>1. XWritten = b + n + k
        BY <1>10, <3>1
      <4>2. (b + n + 1) + (k - 1) = b + n + k
        OBVIOUS
      <4>3. QED
        BY <2>2, <4>1, <4>2
    <3>5. QED
      BY <1>6, <2>2, <3>2, <3>3, <3>4 DEF XFifo
  <2>4. SlotOK(z)'
    <3>1. Stops(g)' = Stops(g) /\ \A l : Source(g, z, l)' = Source(g, z, l)
      BY <1>1, SameRounds
    <3>2. \A i \in 1 .. Len(x_cur'[z]) : x_cur'[z][i] = Source(g, z, (i - 1) \div HiddenVecs)'
      BY <1>12, <1>13, <3>1
    <3>3. CASE full
      <4>1. /\ spc'[z] = (IF Stops(g) THEN "tail" ELSE "out") /\ \A h \in Halves : np'[z][h] = 0
            /\ Len(x_cur'[z]) = RoundBeats /\ 0 <= RoundPackets
        BY <1>12, <1>15, <3>3, Sizes
      <4>2. CASE Stops(g)
        <5>1. /\ spc'[z] = "tail" /\ Stops(Got(z))' /\ Got(z)' >= 1
              /\ shdr'[z] = log'[Got(z)'].hdrs[z] /\ \A h \in Halves : np'[z][h] <= 1
          BY <1>7, <1>14, <3>1, <4>1, <4>2
        <5>2. QED
          BY <5>1 DEF SlotOK
      <4>3. CASE ~Stops(g)
        <5>1. /\ spc'[z] = "out" /\ ~Stops(Got(z))' /\ Got(z)' >= 1
              /\ shdr'[z] = log'[Got(z)'].hdrs[z]
              /\ \A h \in Halves : np'[z][h] <= RoundPackets'
              /\ Len(x_cur'[z]) = RoundBeats'
          <6>1. RoundPackets' = RoundPackets /\ RoundBeats' = RoundBeats
            BY DEF RoundPackets, RoundBeats
          <6>2. QED
            BY <1>7, <1>14, <3>1, <4>1, <4>3, <6>1
        <5>2. \A i \in 1 .. Len(x_cur'[z]) :
                 x_cur'[z][i] = Source(Got(z), z, (i - 1) \div HiddenVecs)'
          BY <1>7, <3>2
        <5>3. QED
          BY <5>1, <5>2 DEF SlotOK
      <4>4. QED
        BY <4>2, <4>3
    <3>4. CASE ~full
      <4>1. spc'[z] = "x" /\ Len(x_cur'[z]) < RoundBeats
        BY <1>12, <1>15, <3>4
      <4>2. QED
        BY <1>7, <1>14, <3>2, <4>1 DEF SlotOK, RoundBeats
    <3>5. QED
      BY <3>3, <3>4
  <2>5. QED
    BY <2>1, <2>3, <2>4 DEF SlotInv
<1>18. ASSUME NEW s \in Slots, s # z
       PROVE  SlotInv(s)' /\ \A h : PWritten(h, s)' = PWritten(h, s)
  <2>1. SameSlot(s)
    BY <1>1, <1>2, <1>4, <1>18 DEF SameSlot, KTypes
  <2>2. QED
    BY <1>3, <2>1, SameSlotInv DEF KInv
<1>19. \A h \in Halves : PWritten(h, z)' = PWritten(h, z)
  <2>1. ASSUME NEW h \in Halves
        PROVE  PWritten(h, z)' = PWritten(h, z)
    <3>1. PWritten(h, z) = (g - 1) * RoundPackets + 0
      BY <1>1, <1>7 DEF PWritten
    <3>2. PWritten(h, z)' = (g - 1) * RoundPackets + 0
      BY <1>7, <1>15 DEF PWritten, RoundPackets
    <3>3. QED
      BY <3>1, <3>2
  <2>2. QED
    BY <2>1
<1>20. ASSUME NEW h \in Halves, NEW s \in Slots
       PROVE  PFifo(h, s)'
  <2>1. PWritten(h, s)' = PWritten(h, s)
    BY <1>18, <1>19
  <2>2. PRead(h, s)' = PRead(h, s)
    BY <1>1, SameRead
  <2>3. QED
    BY <1>1, <2>1, <2>2, SamePFifo DEF KInv
<1>21. ASSUME NEW h \in Halves
       PROVE  AccInv(h)'
  <2>1. SameAcc(h)
    BY <1>1 DEF SameAcc, avars
  <2>2. QED
    BY <1>1, <2>1, SameAccInv DEF KInv
<1>22. QED
  BY <1>3, <1>16, <1>17, <1>18, <1>20, <1>21 DEF KInv

LEMMA AppendPFifo ==
    ASSUME KTypes, log' = log, NEW h \in Halves, NEW s \in Slots, PFifo(h, s),
           PRead(h, s)' = PRead(h, s), NEW w \in Nat, PWritten(h, s) = w, PWritten(h, s)' = w + 1,
           NEW p \in PacketRecs, p = PacketAt(s, w),
           partial'[h][s] = Append(partial[h][s], p)
    PROVE  PFifo(h, s)'
<1>1. PICK m \in Nat, k \in Nat : m = PRead(h, s) /\ k = Len(partial[h][s])
  BY AccTypes
<1>2. partial[h][s] \in Seq(PacketRecs)
  BY AccTypes
<1>3. /\ Len(partial'[h][s]) = k + 1 /\ partial'[h][s][k + 1] = p
      /\ \A i \in 1 .. k : partial'[h][s][i] = partial[h][s][i]
  BY <1>1, <1>2, AppendFacts
<1>4. m + k = w /\ \A i \in 1 .. k : partial[h][s][i] = PacketAt(s, m + (i - 1))
  BY <1>1 DEF PFifo
<1>5. ASSUME NEW i \in 1 .. k + 1
      PROVE  partial'[h][s][i] = PacketAt(s, m + (i - 1))
  <2>1. CASE i \in 1 .. k
    BY <1>3, <1>4, <2>1
  <2>2. CASE i = k + 1
    <3>1. m + (i - 1) = w
      BY <1>4, <2>2
    <3>2. QED
      BY <1>3, <2>2, <3>1
  <2>3. i \in 1 .. k \/ i = k + 1
    BY <1>1
  <2>4. QED
    BY <2>1, <2>2, <2>3
<1>6. \A i : PacketAt(s, m + (i - 1))' = PacketAt(s, m + (i - 1))
  BY SameRounds
<1>7. PRead(h, s)' + (k + 1) = PWritten(h, s)'
  BY <1>1, <1>4
<1>8. QED
  BY <1>1, <1>3, <1>5, <1>6, <1>7 DEF PFifo

(* Where the packet of position n in a round comes from. *)
LEMMA PacketPlace ==
    ASSUME NEW m \in Nat, NEW n \in 0 .. RoundPackets - 1
    PROVE  /\ n \div HalfVecs \in Lanes /\ n % HalfVecs \in HVecs
           /\ n = (n \div HalfVecs) * HalfVecs + (n % HalfVecs)
           /\ m * RoundPackets + n \in Nat
           /\ \A s : PacketAt(s, m * RoundPackets + n)
                       = LanePacket(m + 1, s, n \div HalfVecs, n % HalfVecs)
<1>1. RoundPackets \in Nat \ {0} /\ HalfVecs \in Nat \ {0} /\ TokenLanes \in Nat \ {0}
      /\ RoundPackets = TokenLanes * HalfVecs
  BY Sizes DEF RoundPackets
<1>2. n \div HalfVecs \in 0 .. TokenLanes - 1
  BY <1>1, DivBound
<1>3. n % HalfVecs \in 0 .. HalfVecs - 1 /\ n = (n \div HalfVecs) * HalfVecs + (n % HalfVecs)
  <2>1. n \in Nat
    BY <1>1
  <2>2. QED
    BY <1>1, <2>1, DivParts
<1>4. m * RoundPackets + n \in Nat
  BY <1>1
<1>5. (m * RoundPackets + n) \div RoundPackets = m /\ (m * RoundPackets + n) % RoundPackets = n
  BY <1>1, DivMod
<1>6. QED
  BY <1>2, <1>3, <1>4, <1>5 DEF PacketAt, Lanes, HVecs

(* Every beat of a lane is from the same token. *)
LEMMA OneSource ==
    ASSUME KTypes, NEW s \in Slots, NEW g, NEW l \in Lanes, Len(x_cur[s]) = RoundBeats,
           \A i \in 1 .. RoundBeats : x_cur[s][i] = Source(g, s, (i - 1) \div HiddenVecs)
    PROVE  LaneX(s, l) = {Source(g, s, l)} /\ Source(g, s, l) \in Nat \cup {Zero}
<1>1. HiddenVecs \in Nat \ {0} /\ l \in Nat
  BY Sizes DEF Lanes
<1>2. ASSUME NEW v \in 1 .. HiddenVecs
      PROVE  /\ l * HiddenVecs + v \in 1 .. RoundBeats
             /\ x_cur[s][l * HiddenVecs + v] = Source(g, s, l)
  <2>1. v - 1 \in 0 .. HiddenVecs - 1
    BY <1>1
  <2>2. l * HiddenVecs + (v - 1) \in 0 .. RoundBeats - 1
    BY <2>1, BeatPlace
  <2>3. PICK a \in Nat : a = l * HiddenVecs
    BY <1>1
  <2>4. a + v \in 1 .. RoundBeats /\ (a + v) - 1 = a + (v - 1)
    BY <2>2, <2>3, Sizes
  <2>5. (l * HiddenVecs + (v - 1)) \div HiddenVecs = l
    BY <1>1, <2>1, DivMod
  <2>6. QED
    BY <2>3, <2>4, <2>5
<1>3. 1 \in 1 .. HiddenVecs
  BY <1>1
<1>4. x_cur[s][l * HiddenVecs + 1] = Source(g, s, l) /\ l * HiddenVecs + 1 \in 1 .. Len(x_cur[s])
  BY <1>2, <1>3
<1>5. Source(g, s, l) \in Nat \cup {Zero}
  <2>1. x_cur[s] \in Seq(Nat \cup {Zero})
    BY SlotTypes
  <2>2. QED
    BY <1>4, <2>1, SeqFacts
<1>6. QED
  BY <1>2, <1>3, <1>4, <1>5 DEF LaneX

(* A packet of a slot, and its type. *)
LEMMA EmittedPacket ==
    ASSUME IInv, LogInv, KTypes, NEW z \in Slots, SlotInv(z), spc[z] = "out",
           NEW l \in Lanes, NEW v \in HVecs
    PROVE  Packet(z, l, v) = LanePacket(Got(z), z, l, v) /\ Packet(z, l, v) \in PacketRecs
<1>1. PICK g \in 1 .. Len(log) : g = Got(z)
  BY SlotReach
<1>2. /\ shdr[z] = log[g].hdrs[z] /\ ~Stops(g) /\ Len(x_cur[z]) = RoundBeats
      /\ \A i \in 1 .. RoundBeats : x_cur[z][i] = Source(g, z, (i - 1) \div HiddenVecs)
  BY <1>1 DEF SlotInv, SlotOK
<1>3. g \in DOMAIN log
  BY <1>1, FifoTypes
<1>4. log[g].hdrs[z].done = Closes(g)
  <2>1. Alike(log[g].hdrs)
    BY <1>2, <1>3 DEF LogInv, LogShape
  <2>2. QED
    BY <2>1 DEF Alike, Closes
<1>5. LaneX(z, l) = {Source(g, z, l)} /\ Source(g, z, l) \in Nat \cup {Zero}
  BY <1>2, OneSource
<1>6. LaneActive(z, l) = (log[g].hdrs[z].act /\ Works(g, z, l))
  BY <1>2 DEF LaneActive, Works
<1>7. /\ log[g].hdrs[z].toks \in [Lanes -> Tokens] /\ log[g].hdrs[z].trig \in Int
      /\ log[g].hdrs[z].act \in BOOLEAN /\ log[g].hdrs[z].done \in BOOLEAN
  BY <1>3, Entries DEF LogInv
<1>8. Packet(z, l, v) = LanePacket(g, z, l, v)
  BY <1>2, <1>4, <1>5, <1>6, Zenon DEF Packet, LanePacket
<1>9. Packet(z, l, v) \in PacketRecs
  <2>1. LaneActive(z, l) \in BOOLEAN
    BY <1>6 DEF LaneActive
  <2>2. shdr[z].toks[l] \in Tokens /\ shdr[z].trig \in Int /\ shdr[z].done \in BOOLEAN
    BY <1>2, <1>7
  <2>3. v \in Nat /\ LaneX(z, l) \in SUBSET (Nat \cup {Zero})
    BY <1>5, Sizes DEF HVecs
  <2>4. QED
    BY <2>1, <2>2, <2>3 DEF Packet, PacketRecs
<1>10. QED
  BY <1>1, <1>8, <1>9

LEMMA TailPacket == Tail0 \in PacketRecs
<1>1. 0 \in Tokens
  BY DEF Tokens
<1>2. QED
  BY <1>1 DEF Tail0, PacketRecs

LEMMA Counted ==
    ASSUME KTypes, NEW z \in Slots, NEW g \in Halves, np' = [np EXCEPT ![z][g] = @ + 1]
    PROVE  /\ np'[z][g] = np[z][g] + 1 /\ \A h \in Halves : h # g => np'[z][h] = np[z][h]
           /\ \A s \in Slots : s # z => np'[s] = np[s]
           /\ np' \in [Slots -> [Halves -> Nat]]
<1>1. np \in [Slots -> [Halves -> Nat]]
  BY DEF KTypes
<1>2. np'[z][g] = np[z][g] + 1 /\ np[z][g] \in Nat
  BY <1>1
<1>3. \A h \in Halves : h # g => np'[z][h] = np[z][h]
  BY <1>1
<1>4. \A s \in Slots : s # z => np'[s] = np[s]
  BY <1>1
<1>5. np' \in [Slots -> [Halves -> Nat]]
  <2>1. [np[z] EXCEPT ![g] = @ + 1] \in [Halves -> Nat]
    BY <1>1, <1>2
  <2>2. np' = [np EXCEPT ![z] = [np[z] EXCEPT ![g] = @ + 1]]
    BY <1>1
  <2>3. QED
    BY <1>1, <2>1, <2>2
<1>6. QED
  BY <1>2, <1>3, <1>4, <1>5

(* What does not change when slot z writes a packet. *)
LEMMA WriteFrame ==
    ASSUME KInv, NEW z \in Slots, UNCHANGED <<dvars, routes, log, around, shdr, x_cur, avars>>,
           \A s \in Slots : s # z => np'[s] = np[s] /\ spc'[s] = spc[s]
    PROVE  /\ LogInv' /\ SameProgress /\ Got(z)' = Got(z)
           /\ \A s \in Slots : s # z => SlotInv(s)' /\ \A h : PWritten(h, s)' = PWritten(h, s)
           /\ HdrFifo(z)' /\ (spc[z] # "x" /\ spc'[z] # "x" => XFifo(z)')
           /\ \A h \in Halves : AccInv(h)'
           /\ \A h, s : PRead(h, s)' = PRead(h, s)
<1>1. UNCHANGED <<pc, tile_base, t, hdr, lane, vec, x_cache, routed, sent, hdr_out, x_out>>
  BY DEF dvars, fifos, hist
<1>2. LogInv' /\ SameProgress
  BY <1>1, LogKept DEF KInv, SameProgress
<1>4. ASSUME NEW s \in Slots, s # z
      PROVE  SlotInv(s)' /\ \A h : PWritten(h, s)' = PWritten(h, s)
  <2>1. np'[s] = np[s] /\ spc'[s] = spc[s]
    BY <1>4
  <2>2. SameSlot(s)
    BY <1>1, <2>1 DEF SameSlot
  <2>3. QED
    BY <1>2, <2>2, SameSlotInv DEF KInv
<1>5. Got(z)' = Got(z) /\ HdrFifo(z)'
  BY <1>1 DEF Got, HdrFifo, KInv, SlotInv
<1>6. ASSUME spc[z] # "x", spc'[z] # "x"
      PROVE  XFifo(z)'
  <2>1. XRead(z)' = XRead(z) /\ XWritten' = XWritten
    BY <1>1, <1>5, <1>6 DEF XRead, XWritten, RoundBeats
  <2>2. PICK m : m = XRead(z)
    OBVIOUS
  <2>3. \A i : Beat(z, m + (i - 1))' = Beat(z, m + (i - 1))
    BY SameRounds
  <2>4. QED
    BY <1>1, <2>1, <2>2, <2>3 DEF KInv, SlotInv, XFifo
<1>7. ASSUME NEW h \in Halves
      PROVE  AccInv(h)'
  <2>1. SameAcc(h)
    BY DEF SameAcc, avars
  <2>2. QED
    BY <2>1, SameAccInv DEF KInv
<1>8. \A h, s : PRead(h, s)' = PRead(h, s)
  BY SameRead
<1>9. QED
  BY <1>2, <1>4, <1>5, <1>6, <1>7, <1>8

(* A packet written by slot z to half g, the only thing that changes.      *)
LEMMA WritePacket ==
    ASSUME KInv, NEW z \in Slots, NEW g \in Halves, NEW w \in Nat,
           NEW p \in PacketRecs, p = PacketAt(z, w), log' = log,
           PWritten(g, z) = w, PWritten(g, z)' = w + 1,
           \A h \in Halves : h # g => PWritten(h, z)' = PWritten(h, z),
           \A s \in Slots : s # z => \A h : PWritten(h, s)' = PWritten(h, s),
           \A h, s : PRead(h, s)' = PRead(h, s),
           partial' = [partial EXCEPT ![g][z] = Append(@, p)]
    PROVE  \A h \in Halves, s \in Slots : PFifo(h, s)'
<1>1. partial \in [Halves -> [Slots -> Seq(PacketRecs)]] /\ KTypes
  BY DEF KInv, KTypes
<1>2. partial'[g][z] = Append(partial[g][z], p)
  BY <1>1
<1>3. \A h \in Halves, s \in Slots : ~(h = g /\ s = z) => partial'[h][s] = partial[h][s]
  BY <1>1
<1>4. ASSUME NEW h \in Halves, NEW s \in Slots
      PROVE  PFifo(h, s)'
  <2>1. PFifo(h, s)
    BY DEF KInv
  <2>2. CASE h = g /\ s = z
    BY <1>1, <1>2, <2>1, <2>2, AppendPFifo
  <2>3. CASE ~(h = g /\ s = z)
    <3>1. PWritten(h, s)' = PWritten(h, s) /\ PRead(h, s)' = PRead(h, s)
      BY <2>3
    <3>2. QED
      BY <1>3, <2>1, <2>3, <3>1, SamePFifo
  <2>4. QED
    BY <2>2, <2>3
<1>5. QED
  BY <1>4

LEMMA KEmit ==
    ASSUME KInv, IInv', NEW z \in Slots, NEW g \in Halves, SlotEmit(z, g)
    PROVE  KInv'
<1> DEFINE n == np[z][g]
           over == \A h \in Halves : np'[z][h] = RoundPackets
<1>1. /\ spc[z] = "out" /\ n < RoundPackets
      /\ np' = [np EXCEPT ![z][g] = @ + 1]
      /\ partial' = [partial EXCEPT ![g][z] = Append(@, Packet(z, n \div HalfVecs, n % HalfVecs))]
      /\ spc' = IF over THEN [spc EXCEPT ![z] = "hdr"] ELSE spc
      /\ UNCHANGED <<dvars, routes, log, around, shdr, x_cur, avars>>
  BY DEF SlotEmit, Written
<1>2. IInv /\ LogInv /\ KTypes /\ SlotInv(z)
  BY DEF KInv
<1>3. n \in 0 .. RoundPackets - 1 /\ RoundPackets \in Nat \ {0}
      /\ \A h \in Halves : np[z][h] \in Nat
  BY <1>1, <1>2, SlotTypes, Sizes
<1>4. /\ np'[z][g] = n + 1 /\ \A h \in Halves : h # g => np'[z][h] = np[z][h]
      /\ spc'[z] = IF over THEN "hdr" ELSE "out"
      /\ \A s \in Slots : s # z => np'[s] = np[s] /\ spc'[s] = spc[s]
      /\ np' \in [Slots -> [Halves -> Nat]]
      /\ spc' \in [Slots -> {"hdr", "x", "out", "tail", "done"}]
  <2>1. spc \in [Slots -> {"hdr", "x", "out", "tail", "done"}]
    BY <1>2 DEF KTypes
  <2>2. /\ spc'[z] = IF over THEN "hdr" ELSE "out"
        /\ \A s \in Slots : s # z => spc'[s] = spc[s]
        /\ spc' \in [Slots -> {"hdr", "x", "out", "tail", "done"}]
    <3>1. CASE over
      BY <1>1, <2>1, <3>1
    <3>2. CASE ~over
      BY <1>1, <2>1, <3>2
    <3>3. QED
      BY <3>1, <3>2
  <2>3. np' = [np EXCEPT ![z][g] = @ + 1]
    BY <1>1, <1>3
  <2>4. QED
    BY <1>2, <2>2, <2>3, Counted, Zenon
<1>5. PICK c \in 1 .. Len(log) : c = Got(z) /\ (c - 1) * RoundPackets \in Nat /\ c - 1 \in Nat
                                 /\ c * RoundPackets = (c - 1) * RoundPackets + RoundPackets
  <2>1. Got(z) \in 1 .. Len(log) /\ Len(log) \in Nat
    BY <1>1, <1>2, SlotReach, FifoTypes
  <2>2. Got(z) - 1 \in Nat
    BY <2>1
  <2>3. (Got(z) - 1) * RoundPackets \in Nat
    BY <1>3, <2>2
  <2>4. (Got(z) - 1) * RoundPackets = Got(z) * RoundPackets - RoundPackets
        /\ Got(z) * RoundPackets \in Nat
    BY <1>2, SlotReach
  <2>5. QED
    BY <1>3, <2>1, <2>2, <2>3, <2>4
<1>6. PICK b \in Nat : b = (c - 1) * RoundPackets
  BY <1>5
<1>7. /\ LogInv' /\ SameProgress /\ Got(z)' = c
      /\ \A s \in Slots : s # z => SlotInv(s)' /\ \A h : PWritten(h, s)' = PWritten(h, s)
      /\ HdrFifo(z)' /\ XFifo(z)'
      /\ \A h \in Halves : AccInv(h)'
      /\ \A h, s : PRead(h, s)' = PRead(h, s)
  <2>1. spc[z] # "x" /\ spc'[z] # "x"
    BY <1>1, <1>4
  <2>2. QED
    BY <1>1, <1>4, <1>5, <2>1, WriteFrame
<1>8. /\ ~Stops(c) /\ shdr[z] = log[c].hdrs[z] /\ Len(x_cur[z]) = RoundBeats
      /\ \A h \in Halves : np[z][h] <= RoundPackets
      /\ \A i \in 1 .. Len(x_cur[z]) : x_cur[z][i] = Source(c, z, (i - 1) \div HiddenVecs)
  BY <1>1, <1>2, <1>5 DEF SlotInv, SlotOK
<1>9. SlotInv(z)'
  <2>1. Stops(c)' = Stops(c) /\ \A l : Source(c, z, l)' = Source(c, z, l)
    BY <1>1, SameRounds
  <2>2. RoundBeats' = RoundBeats /\ RoundPackets' = RoundPackets
    BY DEF RoundBeats, RoundPackets
  <2>3. SlotOK(z)'
    <3>1. CASE over
      <4>1. spc'[z] = "hdr" /\ ~Stops(Got(z))'
        BY <1>4, <1>7, <1>8, <2>1, <3>1
      <4>2. QED
        BY <4>1 DEF SlotOK
    <3>2. CASE ~over
      <4>1. ASSUME NEW h \in Halves
            PROVE  np'[z][h] <= RoundPackets
        <5>1. CASE h = g
          BY <1>3, <1>4, <5>1
        <5>2. CASE h # g
          BY <1>4, <1>8, <5>2
        <5>3. QED
          BY <5>1, <5>2
      <4>2. /\ spc'[z] = "out" /\ Got(z)' >= 1 /\ ~Stops(Got(z))'
            /\ shdr'[z] = log'[Got(z)'].hdrs[z] /\ Len(x_cur'[z]) = RoundBeats'
            /\ \A h \in Halves : np'[z][h] <= RoundPackets'
        BY <1>1, <1>4, <1>5, <1>7, <1>8, <2>1, <2>2, <3>2, <4>1
      <4>3. \A i \in 1 .. Len(x_cur'[z]) :
               x_cur'[z][i] = Source(Got(z), z, (i - 1) \div HiddenVecs)'
        BY <1>1, <1>7, <1>8, <2>1
      <4>4. QED
        BY <4>2, <4>3 DEF SlotOK
    <3>3. QED
      BY <3>1, <3>2
  <2>4. QED
    BY <1>7, <2>3 DEF SlotInv
<1>10. \A h \in Halves : /\ PWritten(h, z) = b + np[z][h]
                         /\ PWritten(h, z)' = b + np'[z][h]
  <2>1. ASSUME NEW h \in Halves
        PROVE  PWritten(h, z) = b + np[z][h] /\ PWritten(h, z)' = b + np'[z][h]
    <3>1. PWritten(h, z) = b + np[z][h]
      BY <1>1, <1>5, <1>6 DEF PWritten
    <3>2. CASE over
      <4>1. PWritten(h, z)' = c * RoundPackets
        BY <1>4, <1>7, <3>2 DEF PWritten, RoundPackets
      <4>2. np'[z][h] = RoundPackets
        BY <3>2
      <4>3. QED
        BY <1>5, <1>6, <3>1, <4>1, <4>2
    <3>3. CASE ~over
      <4>1. PWritten(h, z)' = (c - 1) * RoundPackets + np'[z][h]
        BY <1>4, <1>7, <3>3 DEF PWritten, RoundPackets
      <4>2. QED
        BY <1>6, <3>1, <4>1
    <3>4. QED
      BY <3>2, <3>3
  <2>2. QED
    BY <2>1
<1>11. PICK p \in PacketRecs : /\ p = Packet(z, n \div HalfVecs, n % HalfVecs)
                               /\ p = PacketAt(z, b + n)
  <2>1. /\ n \div HalfVecs \in Lanes /\ n % HalfVecs \in HVecs
        /\ PacketAt(z, (c - 1) * RoundPackets + n)
             = LanePacket(c - 1 + 1, z, n \div HalfVecs, n % HalfVecs)
    BY <1>3, <1>5, PacketPlace
  <2>2. c - 1 + 1 = c
    BY <1>5
  <2>3. Packet(z, n \div HalfVecs, n % HalfVecs) = LanePacket(c, z, n \div HalfVecs, n % HalfVecs)
        /\ Packet(z, n \div HalfVecs, n % HalfVecs) \in PacketRecs
    BY <1>1, <1>2, <1>5, <2>1, EmittedPacket
  <2>4. QED
    BY <1>6, <2>1, <2>2, <2>3
<1>12. \A h \in Halves, s \in Slots : PFifo(h, s)'
  <2>1. PICK w \in Nat : w = b + n
    BY <1>3
  <2>2. PWritten(g, z) = w /\ PWritten(g, z)' = w + 1
    BY <1>3, <1>4, <1>10, <2>1
  <2>3. ASSUME NEW h \in Halves, h # g
        PROVE  PWritten(h, z)' = PWritten(h, z)
    <3>1. np'[z][h] = np[z][h]
      BY <1>4, <2>3
    <3>2. QED
      BY <1>10, <3>1
  <2>4. partial' = [partial EXCEPT ![g][z] = Append(@, p)]
    BY <1>1, <1>11
  <2>5. log' = log /\ p = PacketAt(z, w)
    BY <1>1, <1>11, <2>1
  <2>6. QED
    BY <1>7, <2>2, <2>3, <2>4, <2>5, WritePacket
<1>13. KTypes'
  <2>1. partial' \in [Halves -> [Slots -> Seq(PacketRecs)]]
    <3>1. Append(partial[g][z], p) \in Seq(PacketRecs)
      BY <1>2, SlotTypes, AppendFacts
    <3>2. QED
      BY <1>1, <1>2, <1>11, <3>1 DEF KTypes
  <2>2. QED
    BY <1>1, <1>2, <1>4, <2>1 DEF KTypes, avars, RoundPackets
<1>14. QED
  BY <1>7, <1>9, <1>12, <1>13 DEF KInv

LEMMA KTail ==
    ASSUME KInv, IInv', NEW z \in Slots, NEW g \in Halves, SlotTail(z, g)
    PROVE  KInv'
<1> DEFINE over == \A h \in Halves : np'[z][h] = 1
<1>1. /\ spc[z] = "tail" /\ np[z][g] < 1
      /\ np' = [np EXCEPT ![z][g] = @ + 1]
      /\ partial' = [partial EXCEPT ![g][z] = Append(@, Tail0)]
      /\ spc' = IF over THEN [spc EXCEPT ![z] = "done"] ELSE spc
      /\ UNCHANGED <<dvars, routes, log, around, shdr, x_cur, avars>>
  BY DEF SlotTail, Written
<1>2. IInv /\ LogInv /\ KTypes /\ SlotInv(z)
  BY DEF KInv
<1>3. np[z][g] = 0 /\ \A h \in Halves : np[z][h] \in Nat
  BY <1>1, <1>2, SlotTypes
<1>4. /\ np'[z][g] = 1 /\ \A h \in Halves : h # g => np'[z][h] = np[z][h]
      /\ spc'[z] = IF over THEN "done" ELSE "tail"
      /\ \A s \in Slots : s # z => np'[s] = np[s] /\ spc'[s] = spc[s]
      /\ np' \in [Slots -> [Halves -> Nat]]
      /\ spc' \in [Slots -> {"hdr", "x", "out", "tail", "done"}]
  <2>1. spc \in [Slots -> {"hdr", "x", "out", "tail", "done"}]
    BY <1>2 DEF KTypes
  <2>2. /\ spc'[z] = IF over THEN "done" ELSE "tail"
        /\ \A s \in Slots : s # z => spc'[s] = spc[s]
        /\ spc' \in [Slots -> {"hdr", "x", "out", "tail", "done"}]
    <3>1. CASE over
      BY <1>1, <2>1, <3>1
    <3>2. CASE ~over
      BY <1>1, <2>1, <3>2
    <3>3. QED
      BY <3>1, <3>2
  <2>3. np' = [np EXCEPT ![z][g] = @ + 1] /\ np[z][g] + 1 = 1
    BY <1>1, <1>3
  <2>4. QED
    BY <1>2, <2>2, <2>3, Counted, Zenon
<1>5. PICK c \in 1 .. Len(log) : c = Got(z) /\ c - 1 \in Nat
  <2>1. Got(z) \in 1 .. Len(log) /\ Len(log) \in Nat
    BY <1>1, <1>2, SlotReach, FifoTypes
  <2>2. QED
    BY <2>1
<1>6. PICK b \in Nat : b = (c - 1) * RoundPackets
  BY <1>5, Sizes
<1>7. /\ LogInv' /\ SameProgress /\ Got(z)' = c
      /\ \A s \in Slots : s # z => SlotInv(s)' /\ \A h : PWritten(h, s)' = PWritten(h, s)
      /\ HdrFifo(z)' /\ XFifo(z)'
      /\ \A h \in Halves : AccInv(h)'
      /\ \A h, s : PRead(h, s)' = PRead(h, s)
  <2>1. spc[z] # "x" /\ spc'[z] # "x"
    BY <1>1, <1>4
  <2>2. QED
    BY <1>1, <1>4, <1>5, <2>1, WriteFrame
<1>8. Stops(c) /\ shdr[z] = log[c].hdrs[z] /\ \A h \in Halves : np[z][h] <= 1
  BY <1>1, <1>2, <1>5 DEF SlotInv, SlotOK
<1>9. SlotInv(z)'
  <2>1. Stops(c)' = Stops(c)
    BY <1>1, SameRounds
  <2>2. /\ spc'[z] = (IF over THEN "done" ELSE "tail") /\ Got(z)' >= 1 /\ Stops(Got(z))'
        /\ shdr'[z] = log'[Got(z)'].hdrs[z]
        /\ \A h \in Halves : np'[z][h] <= 1
    BY <1>1, <1>3, <1>4, <1>5, <1>7, <1>8, <2>1
  <2>3. SlotOK(z)'
    BY <2>2 DEF SlotOK
  <2>4. QED
    BY <1>7, <2>3 DEF SlotInv
<1>10. \A h \in Halves : PWritten(h, z) = b + np[z][h] /\ PWritten(h, z)' = b + np'[z][h]
  <2>1. spc[z] = "tail" /\ spc'[z] \in {"tail", "done"}
    BY <1>1, <1>4
  <2>2. QED
    BY <1>5, <1>6, <1>7, <2>1 DEF PWritten, RoundPackets
<1>11. Tail0 = PacketAt(z, b)
  <2>1. 0 \in 0 .. RoundPackets - 1
    BY Sizes
  <2>2. PacketAt(z, (c - 1) * RoundPackets + 0)
          = LanePacket(c - 1 + 1, z, 0 \div HalfVecs, 0 % HalfVecs)
    BY <1>5, <2>1, PacketPlace
  <2>3. c - 1 + 1 = c /\ b + 0 = b
    BY <1>5
  <2>4. QED
    BY <1>6, <1>8, <2>2, <2>3 DEF LanePacket
<1>12. \A h \in Halves, s \in Slots : PFifo(h, s)'
  <2>1. PWritten(g, z) = b /\ PWritten(g, z)' = b + 1
    BY <1>3, <1>4, <1>10
  <2>2. ASSUME NEW h \in Halves, h # g
        PROVE  PWritten(h, z)' = PWritten(h, z)
    <3>1. np'[z][h] = np[z][h]
      BY <1>4, <2>2
    <3>2. QED
      BY <1>10, <3>1
  <2>3. QED
    BY <1>1, <1>7, <1>11, <2>1, <2>2, TailPacket, WritePacket
<1>13. KTypes'
  <2>1. partial' \in [Halves -> [Slots -> Seq(PacketRecs)]]
    <3>1. Append(partial[g][z], Tail0) \in Seq(PacketRecs)
      BY <1>2, TailPacket, SlotTypes, AppendFacts
    <3>2. QED
      BY <1>1, <1>2, <3>1 DEF KTypes
  <2>2. QED
    BY <1>1, <1>2, <1>4, <2>1 DEF KTypes, avars, RoundPackets
<1>14. QED
  BY <1>7, <1>9, <1>12, <1>13 DEF KInv

--------------------------------------------------------------------------------
(* The steps of an accumulator. *)

LEMMA AccFrame ==
    ASSUME KInv, NEW h \in Halves, UNCHANGED <<dvars, routes, log, svars>>,
           \A g \in Halves : g # h => SameAcc(g) /\ partial'[g] = partial[g]
    PROVE  /\ LogInv' /\ \A s \in Slots : SlotInv(s)'
           /\ \A g, s : s \in Slots => PWritten(g, s)' = PWritten(g, s)
           /\ \A g \in Halves : g # h => AccInv(g)' /\ \A s \in Slots : PFifo(g, s)'
<1>1. UNCHANGED <<pc, tile_base, t, hdr, lane, vec, x_cache, routed, sent, hdr_out, x_out,
                  spc, shdr, x_cur, np>>
  BY DEF dvars, fifos, hist, svars
<1>2. LogInv' /\ SameProgress
  BY <1>1, LogKept DEF KInv, SameProgress
<1>3. ASSUME NEW s \in Slots
      PROVE  SlotInv(s)' /\ \A g : PWritten(g, s)' = PWritten(g, s)
  <2>1. SameSlot(s)
    BY <1>1 DEF SameSlot
  <2>2. QED
    BY <1>2, <2>1, SameSlotInv DEF KInv
<1>4. ASSUME NEW g \in Halves, g # h
      PROVE  AccInv(g)' /\ \A s \in Slots : PFifo(g, s)'
  <2>1. SameAcc(g) /\ partial'[g] = partial[g]
    BY <1>4
  <2>2. AccInv(g)'
    BY <2>1, SameAccInv DEF KInv
  <2>3. \A s : PRead(g, s)' = PRead(g, s)
    BY <2>1 DEF SameAcc, PRead, InRound, RoundPackets
  <2>4. \A s \in Slots : PFifo(g, s)'
    BY <1>3, <2>1, <2>3, SamePFifo DEF KInv
  <2>5. QED
    BY <2>2, <2>4
<1>5. QED
  BY <1>2, <1>3, <1>4

LEMMA NoProducts ==
    /\ \A n : Products({}, n) = EmptyBag
    /\ EmptyBag \in Sums
<1>1. ASSUME NEW n PROVE Products({}, n) = EmptyBag
  <2>1. {[row |-> e, x |-> {n}] : e \in {}} = {}
    OBVIOUS
  <2>2. QED
    BY <2>1 DEF Products, EmptyBag
<1>2. EmptyBag \in Sums
  <2>1. Products({}, 0) = EmptyBag
    BY <1>1
  <2>2. QED
    BY <2>1 DEF Sums
<1>3. QED
  BY <1>1, <1>2

(* No round of a tile that has not begun has been read. *)
LEMMA FreshTile ==
    ASSUME KInv, NEW h \in Halves, apc[h] = "tile"
    PROVE  \A r \in DOMAIN log : r <= around[h] => log[r].base # abase[h]
<1>1. around[h] \in Nat /\ around[h] <= Len(log) /\ Len(log) \in Nat /\ DOMAIN log = 1 .. Len(log)
  BY AccTypes, Entries DEF KInv, LogInv, AccInv, AccPlace
<1>2. SUFFICES ASSUME NEW r \in DOMAIN log, r <= around[h]
               PROVE  log[r].base # abase[h]
  OBVIOUS
<1>3. around[h] \in DOMAIN log /\ around[h] # 0
  BY <1>1, <1>2
<1>4. log[r].base <= log[around[h]].base /\ log[r].base \in Nat /\ log[around[h]].base \in Nat
  BY <1>2, <1>3, Entries DEF KInv, LogInv, LogOrder
<1>5. abase[h] = log[around[h]].base + NTileMax
  <2>1. abase[h] = BaseAfter(around[h]) /\ Closes(around[h])
    BY <1>3 DEF KInv, AccInv, AccPlace
  <2>2. QED
    BY <1>3, <2>1 DEF BaseAfter
<1>6. QED
  BY <1>4, <1>5

LEMMA KTile ==
    ASSUME KInv, IInv', NEW h \in Halves, AccTile(h)
    PROVE  KInv'
<1> DEFINE more == abase[h] < N
<1>1. /\ apc[h] = "tile"
      /\ IF more THEN y_acc' = Cleared(h) /\ apc' = [apc EXCEPT ![h] = "acc"]
                 ELSE apc' = [apc EXCEPT ![h] = "drain"] /\ UNCHANGED y_acc
      /\ aslot' = [aslot EXCEPT ![h] = 0] /\ an' = [an EXCEPT ![h] = 0]
      /\ aover' = [aover EXCEPT ![h] = FALSE]
      /\ UNCHANGED <<dvars, routes, log, around, svars, partial, abase, asaw, aflush, y_mem>>
  BY DEF AccTile
<1>2. KTypes /\ AccInv(h) /\ IInv /\ LogInv
  BY DEF KInv
<1>3. 0 \in Slots /\ 0 \in 0 .. RoundPackets - 1
  BY Sizes DEF Slots
<1>4. KTypes'
  <2>1. apc' \in [Halves -> {"tile", "acc", "flush", "drain", "done"}]
    BY <1>1, <1>2, Zenon DEF KTypes
  <2>2. aslot' \in [Halves -> Slots] /\ an' \in [Halves -> 0 .. RoundPackets - 1]
        /\ aover' \in [Halves -> BOOLEAN]
    BY <1>1, <1>2, <1>3 DEF KTypes
  <2>3. y_acc' \in [Halves -> [Tokens -> [HVecs -> Sums]]]
    <3>1. [k \in Tokens |-> [v \in HVecs |-> EmptyBag]] \in [Tokens -> [HVecs -> Sums]]
      BY NoProducts
    <3>2. QED
      BY <1>1, <1>2, <3>1 DEF KTypes, Cleared
  <2>4. QED
    BY <1>1, <1>2, <2>1, <2>2, <2>3 DEF KTypes, svars, RoundPackets
<1>5. /\ apc'[h] = (IF more THEN "acc" ELSE "drain") /\ aslot'[h] = 0 /\ an'[h] = 0
      /\ aover'[h] = FALSE
      /\ more => \A k \in Tokens, v \in HVecs : y_acc'[h][k][v] = EmptyBag
  BY <1>1, <1>2 DEF KTypes, Cleared
<1>6. \A g \in Halves : g # h => SameAcc(g) /\ partial'[g] = partial[g]
  BY <1>1, <1>2 DEF KTypes, SameAcc, Cleared
<1>7. /\ LogInv' /\ \A s \in Slots : SlotInv(s)'
      /\ \A g, s : s \in Slots => PWritten(g, s)' = PWritten(g, s)
      /\ \A g \in Halves : g # h => AccInv(g)' /\ \A s \in Slots : PFifo(g, s)'
  BY <1>1, <1>6, AccFrame
<1>8. ASSUME NEW s \in Slots
      PROVE  PFifo(h, s)'
  <2>1. InRound(h, s) = 0
    BY <1>1 DEF InRound
  <2>2. InRound(h, s)' = 0
    <3>1. s \in Nat /\ ~(s < 0)
      BY DEF Slots
    <3>2. CASE more
      BY <1>5, <3>1, <3>2 DEF InRound, RoundPackets
    <3>3. CASE ~more
      BY <1>5, <3>1, <3>3 DEF InRound, RoundPackets
    <3>4. QED
      BY <3>2, <3>3
  <2>3. PRead(h, s)' = PRead(h, s)
    BY <1>1, <2>1, <2>2 DEF PRead, RoundPackets
  <2>4. QED
    BY <1>1, <1>7, <2>3, SamePFifo DEF KInv
<1>9. AccInv(h)'
  <2>1. PICK a : a = around[h] /\ a = around'[h]
    BY <1>1
  <2>2. Stops(a)' = Stops(a) /\ BaseAfter(a)' = BaseAfter(a)
    BY <1>1, SameRounds
  <2>3. abase[h] \in Nat
    BY <1>2, AccTypes
  <2>4. AccPlace(h)'
    <3>1. AccPlace(h)
      BY <1>2 DEF AccInv
    <3>2. CASE more
      BY <1>1, <1>5, <2>1, <2>2, <2>3, <3>1, <3>2 DEF AccPlace
    <3>3. CASE ~more
      BY <1>1, <1>5, <2>1, <2>2, <2>3, <3>1, <3>3 DEF AccPlace
    <3>4. QED
      BY <3>2, <3>3
  <2>5. AccFlags(h)'
    BY <1>5 DEF AccFlags
  <2>6. AccSums(h)'
    <3>1. ASSUME more, NEW k, NEW v \in HVecs
          PROVE  Summed(h, k, v)' = {}
      <4>1. ASSUME NEW r \in DOMAIN log, NEW s \in Slots, NEW l \in Lanes, Gathered(h, r, s, l, v)'
            PROVE  r <= around[h]
        <5>1. l * HalfVecs + v \in Nat /\ s \in Nat
          BY Sizes DEF Lanes, HVecs, Slots
        <5>2. QED
          BY <1>1, <1>5, <4>1, <5>1 DEF Gathered
      <4>2. \A r \in DOMAIN log : r <= around[h] => log[r].base # abase[h]
        BY <1>1, FreshTile
      <4>3. QED
        BY <1>1, <4>1, <4>2 DEF Summed
    <3>2. ASSUME more, NEW k \in Tokens, NEW v \in HVecs
          PROVE  y_acc'[h][k][v] = Products(Summed(h, k, v)', abase'[h] + k)
      BY <1>5, <3>1, <3>2, NoProducts
    <3>3. QED
      BY <1>5, <3>2 DEF AccSums
  <2>7. AccRows(h)'
    <3>1. \A n : Expected(n)' = Expected(n)
      BY <1>1 DEF Expected
    <3>2. AccRows(h) /\ apc[h] # "flush" /\ apc'[h] # "flush"
      BY <1>1, <1>2, <1>5 DEF AccInv
    <3>3. QED
      BY <1>1, <3>1, <3>2 DEF AccRows
  <2>8. QED
    BY <2>4, <2>5, <2>6, <2>7 DEF AccInv
<1>10. \A g \in Halves : AccInv(g)' /\ \A s \in Slots : PFifo(g, s)'
  BY <1>7, <1>8, <1>9
<1>11. QED
  BY <1>4, <1>7, <1>10 DEF KInv

(* At the end of a tile the sums are complete. *)
LEMMA FlushSum ==
    ASSUME KInv, NEW h \in Halves, apc[h] = "flush", NEW k \in Tokens, NEW v \in HVecs,
           abase[h] + k < N
    PROVE  abase[h] + k < Len(routes) /\ y_acc[h][k][v] = Expected(abase[h] + k)
<1>1. /\ around[h] \in DOMAIN log /\ Closes(around[h]) /\ abase[h] = log[around[h]].base
      /\ aslot[h] = 0 /\ an[h] = 0
  <2>1. around[h] \in Nat /\ Len(log) \in Nat /\ DOMAIN log = 1 .. Len(log)
    BY AccTypes, Entries DEF KInv, LogInv
  <2>2. around[h] > 0 /\ around[h] <= Len(log)
    BY DEF KInv, AccInv, AccPlace
  <2>3. QED
    BY <2>1, <2>2 DEF KInv, AccInv, AccPlace
<1>2. Whole(around[h]) /\ \A r \in DOMAIN log : Right(r)
  BY <1>1 DEF KInv, LogInv, Delivered
<1>3. \A r \in DOMAIN log, s \in Slots, l \in Lanes : Gathered(h, r, s, l, v) <=> r <= around[h]
  <2>1. ASSUME NEW r \in DOMAIN log, NEW s \in Slots, NEW l \in Lanes
        PROVE  Gathered(h, r, s, l, v) <=> r <= around[h]
    <3>1. l * HalfVecs + v \in Nat /\ s \in Nat
      BY Sizes DEF Lanes, HVecs, Slots
    <3>2. QED
      BY <1>1, <3>1 DEF Gathered
  <2>2. QED
    BY <2>1
<1>4. abase[h] + k < Len(routes)
  BY <1>1, <1>2 DEF Whole
<1>5. routes[abase[h] + k + 1] \subseteq Experts
  <2>1. routes \in Seq((SUBSET Experts) \ {{}})
    BY DEF KInv, LogInv, RoutesOK
  <2>2. abase[h] \in Nat /\ k \in Nat /\ Len(routes) \in Nat
    BY <2>1, AccTypes, SeqFacts DEF KInv, Tokens
  <2>3. abase[h] + k + 1 \in 1 .. Len(routes)
    BY <1>4, <2>2
  <2>4. routes[abase[h] + k + 1] \in (SUBSET Experts) \ {{}}
    BY <2>1, <2>3, SeqFacts
  <2>5. QED
    BY <2>4
<1>6. ASSUME NEW e \in routes[abase[h] + k + 1]
      PROVE  e \in Summed(h, k, v)
  <2>1. PICK q \in 1 .. around[h], s \in Slots, l \in Lanes :
           /\ log[q].base = log[around[h]].base /\ Works(q, s, l)
           /\ log[q].hdrs[s].toks[l] = k /\ log[q].hdrs[s].trig = e
    BY <1>1, <1>2, <1>6 DEF Whole
  <2>2. q \in DOMAIN log /\ q <= around[h]
    <3>1. DOMAIN log = 1 .. Len(log) /\ Len(log) \in Nat
      BY Entries DEF KInv, LogInv
    <3>2. QED
      BY <1>1, <3>1
  <2>3. Gathered(h, q, s, l, v)
    BY <1>3, <2>2
  <2>4. QED
    BY <1>1, <1>5, <1>6, <2>1, <2>2, <2>3 DEF Summed
<1>7. ASSUME NEW e \in Summed(h, k, v)
      PROVE  e \in routes[abase[h] + k + 1]
  <2>1. PICK r \in DOMAIN log, s \in Slots, l \in Lanes :
           /\ log[r].base = abase[h] /\ Works(r, s, l)
           /\ log[r].hdrs[s].toks[l] = k /\ log[r].hdrs[s].trig = e
    BY <1>7 DEF Summed
  <2>2. QED
    BY <1>2, <2>1 DEF Right
<1>8. Summed(h, k, v) = routes[abase[h] + k + 1]
  BY <1>6, <1>7
<1>9. y_acc[h][k][v] = Products(Summed(h, k, v), abase[h] + k)
  BY DEF KInv, AccInv, AccSums
<1>10. QED
  BY <1>4, <1>8, <1>9 DEF Expected, Products

LEMMA TimesSum ==
    ASSUME NEW b \in Nat, NEW m \in Nat, NEW n \in Nat
    PROVE  (m + n) * b = m * b + n * b /\ m * b \in Nat /\ n * b \in Nat
  OBVIOUS

LEMMA KFlush ==
    ASSUME KInv, IInv', NEW h \in Halves, AccFlush(h)
    PROVE  KInv'
<1> DEFINE f == aflush[h]
           k == f \div HalfVecs
           v == f % HalfVecs
           over == f + 1 = ATileN(h) * HalfVecs
<1>1. /\ apc[h] = "flush"
      /\ y_mem' = [y_mem EXCEPT ![h] = Append(@, y_acc[h][k][v])]
      /\ aflush' = [aflush EXCEPT ![h] = @ + 1]
      /\ IF over THEN /\ apc' = [apc EXCEPT ![h] = "tile"]
                      /\ abase' = [abase EXCEPT ![h] = @ + NTileMax]
                 ELSE UNCHANGED <<apc, abase>>
      /\ UNCHANGED <<dvars, routes, log, around, svars, partial, aslot, an, aover, asaw, y_acc>>
  BY DEF AccFlush
<1>2. KTypes /\ AccInv(h) /\ IInv /\ LogInv /\ AccPlace(h)
  BY DEF KInv, AccInv
<1>3. /\ f \in Nat /\ abase[h] \in Nat /\ abase[h] < N /\ f < ATileN(h) * HalfVecs
      /\ HalfVecs \in Nat \ {0}
  BY <1>1, <1>2, AccTypes, Sizes DEF AccPlace
<1>4. /\ ATileN(h) \in Nat /\ ATileN(h) <= NTileMax /\ abase[h] + ATileN(h) <= N
      /\ abase[h] + ATileN(h) = IF abase[h] + NTileMax < N THEN abase[h] + NTileMax ELSE N
  BY <1>3 DEF ATileN
<1>5. /\ k \in Tokens /\ v \in HVecs /\ k \in Nat /\ v \in 0 .. HalfVecs - 1
      /\ f = k * HalfVecs + v /\ abase[h] + k < N
  <2>1. ATileN(h) * HalfVecs \in Nat
    BY <1>3, <1>4
  <2>2. f \in 0 .. ATileN(h) * HalfVecs - 1
    BY <1>3, <2>1
  <2>3. k \in 0 .. ATileN(h) - 1
    BY <1>3, <1>4, <2>2, DivBound
  <2>4. v \in 0 .. HalfVecs - 1 /\ f = k * HalfVecs + v
    BY <1>3, DivParts
  <2>5. QED
    BY <1>3, <1>4, <2>3, <2>4 DEF Tokens, HVecs
<1>6. abase[h] + k < Len(routes) /\ y_acc[h][k][v] = Expected(abase[h] + k)
      /\ y_acc[h][k][v] \in Sums
  <2>1. y_acc[h][k][v] \in Sums
    BY <1>2, <1>5 DEF KTypes
  <2>2. QED
    BY <1>1, <1>5, <2>1, FlushSum
<1> HIDE DEF k, v
<1>7. PICK m \in Nat : m = Len(y_mem[h]) /\ y_mem[h] \in Seq(Sums)
  BY <1>2, AccTypes
<1>8. m = abase[h] * HalfVecs + f /\ m \div HalfVecs = abase[h] + k
  <2>1. m = abase[h] * HalfVecs + f
    BY <1>1, <1>2, <1>3, <1>7 DEF AccInv, AccRows
  <2>2. (abase[h] + k) * HalfVecs = abase[h] * HalfVecs + k * HalfVecs
        /\ abase[h] * HalfVecs \in Nat /\ k * HalfVecs \in Nat
    BY <1>3, <1>5, TimesSum
  <2>3. PICK q \in Nat : q = abase[h] + k
    BY <1>3, <1>5
  <2>4. m = q * HalfVecs + v
    BY <1>5, <2>1, <2>2, <2>3
  <2>5. m \div HalfVecs = q
    BY <1>3, <1>5, <2>4, DivMod
  <2>6. QED
    BY <2>1, <2>3, <2>5
<1>9. /\ y_mem'[h] \in Seq(Sums) /\ Len(y_mem'[h]) = m + 1
      /\ \A i \in 1 .. m : y_mem'[h][i] = y_mem[h][i]
      /\ y_mem'[h][m + 1] = y_acc[h][k][v]
  <2>1. y_mem'[h] = Append(y_mem[h], y_acc[h][k][v])
    BY <1>1, <1>2 DEF KTypes
  <2>2. QED
    BY <1>6, <1>7, <2>1, AppendFacts
<1>10. /\ aflush'[h] = f + 1
       /\ apc'[h] = (IF over THEN "tile" ELSE "flush")
       /\ abase'[h] = (IF over THEN abase[h] + NTileMax ELSE abase[h])
  <2>1. aflush'[h] = f + 1
    BY <1>1, <1>2 DEF KTypes
  <2>2. CASE over
    BY <1>1, <1>2, <2>1, <2>2 DEF KTypes
  <2>3. CASE ~over
    BY <1>1, <1>2, <2>1, <2>3 DEF KTypes
  <2>4. QED
    BY <2>2, <2>3
<1>11. KTypes'
  <2>1. y_mem' \in [Halves -> Seq(Sums)]
    <3>1. Append(y_mem[h], y_acc[h][k][v]) \in Seq(Sums)
      BY <1>6, <1>7, AppendFacts
    <3>2. QED
      BY <1>1, <1>2, <3>1 DEF KTypes
  <2>2. aflush' \in [Halves -> Nat]
    BY <1>1, <1>2, <1>3 DEF KTypes
  <2>3. apc' \in [Halves -> {"tile", "acc", "flush", "drain", "done"}]
        /\ abase' \in [Halves -> Nat]
    <3>1. CASE over
      <4>1. /\ apc' = [apc EXCEPT ![h] = "tile"]
            /\ abase' = [abase EXCEPT ![h] = abase[h] + NTileMax]
        BY <1>1, <3>1
      <4>2. abase[h] + NTileMax \in Nat
        BY <1>3, Sizes
      <4>3. /\ apc \in [Halves -> {"tile", "acc", "flush", "drain", "done"}]
            /\ abase \in [Halves -> Nat]
        BY <1>2 DEF KTypes
      <4>4. QED
        BY <4>1, <4>2, <4>3
    <3>2. CASE ~over
      BY <1>1, <1>2, <3>2 DEF KTypes
    <3>3. QED
      BY <3>1, <3>2
  <2>4. QED
    BY <1>1, <1>2, <2>1, <2>2, <2>3 DEF KTypes, svars, RoundPackets
<1>12. \A g \in Halves : g # h => SameAcc(g) /\ partial'[g] = partial[g]
  <2>1. ASSUME NEW g \in Halves, g # h
        PROVE  y_mem'[g] = y_mem[g] /\ aflush'[g] = aflush[g]
               /\ apc'[g] = apc[g] /\ abase'[g] = abase[g]
    <3>1. y_mem'[g] = y_mem[g] /\ aflush'[g] = aflush[g]
      BY <1>1, <1>2, <2>1 DEF KTypes
    <3>2. apc'[g] = apc[g] /\ abase'[g] = abase[g]
      BY <1>1, <1>2, <2>1 DEF KTypes
    <3>3. QED
      BY <3>1, <3>2
  <2>2. QED
    BY <1>1, <2>1 DEF SameAcc
<1>13. /\ LogInv' /\ \A s \in Slots : SlotInv(s)'
       /\ \A g, s : s \in Slots => PWritten(g, s)' = PWritten(g, s)
       /\ \A g \in Halves : g # h => AccInv(g)' /\ \A s \in Slots : PFifo(g, s)'
  BY <1>1, <1>12, AccFrame
<1>14. ASSUME NEW s \in Slots
       PROVE  PFifo(h, s)'
  <2>1. InRound(h, s) = 0 /\ InRound(h, s)' = 0
    BY <1>1, <1>10 DEF InRound, RoundPackets
  <2>2. PRead(h, s)' = PRead(h, s)
    BY <1>1, <2>1 DEF PRead, RoundPackets
  <2>3. QED
    BY <1>1, <1>13, <2>2, SamePFifo DEF KInv
<1>15. AccInv(h)'
  <2>1. PICK a \in Nat : a = around[h] /\ a = around'[h]
    BY <1>1, <1>2, AccTypes
  <2>2. Stops(a)' = Stops(a) /\ BaseAfter(a)' = BaseAfter(a) /\ Closes(a)' = Closes(a)
    BY <1>1, SameRounds
  <2>3. AccPlace(h)'
    <3>1. CASE over
      <4>1. BaseAfter(a) = abase[h] + NTileMax
        BY <1>1, <1>2, <2>1 DEF AccPlace, BaseAfter
      <4>2. QED
        BY <1>1, <1>2, <1>10, <2>1, <2>2, <3>1, <4>1 DEF AccPlace
    <3>2. CASE ~over
      <4>1. f + 1 < ATileN(h) * HalfVecs
        <5>1. ATileN(h) * HalfVecs \in Nat
          BY <1>3, <1>4
        <5>2. QED
          BY <1>3, <3>2, <5>1
      <4>2. ATileN(h)' = ATileN(h)
        BY <1>10, <3>2 DEF ATileN
      <4>3. QED
        BY <1>1, <1>2, <1>10, <2>1, <2>2, <3>2, <4>1, <4>2 DEF AccPlace
    <3>3. QED
      BY <3>1, <3>2
  <2>4. AccFlags(h)'
    BY <1>10 DEF AccFlags
  <2>5. AccSums(h)'
    <3>1. CASE over
      BY <1>10, <3>1 DEF AccSums
    <3>2. CASE ~over
      <4>1. \A kk, vv : Summed(h, kk, vv)' = Summed(h, kk, vv)
        BY <1>1, <1>10, <3>2, SameSummed
      <4>2. QED
        BY <1>1, <1>2, <1>10, <3>2, <4>1 DEF AccInv, AccSums
    <3>3. QED
      BY <3>1, <3>2
  <2>6. AccRows(h)'
    <3>1. Len(y_mem'[h]) = (IF abase'[h] < N THEN abase'[h] ELSE N) * HalfVecs
                           + (IF apc'[h] = "flush" THEN aflush'[h] ELSE 0)
      <4>1. CASE over
        <5>1. (abase[h] + ATileN(h)) * HalfVecs = abase[h] * HalfVecs + ATileN(h) * HalfVecs
              /\ abase[h] * HalfVecs \in Nat /\ ATileN(h) * HalfVecs \in Nat
          BY <1>3, <1>4, TimesSum
        <5>2. m + 1 = (abase[h] + ATileN(h)) * HalfVecs
          BY <1>3, <1>8, <4>1, <5>1
        <5>3. (IF abase'[h] < N THEN abase'[h] ELSE N) = abase[h] + ATileN(h)
          BY <1>3, <1>4, <1>10, <4>1
        <5>4. m + 1 \in Nat
          OBVIOUS
        <5>5. QED
          BY <1>9, <1>10, <4>1, <5>2, <5>3, <5>4
      <4>2. CASE ~over
        <5>1. abase[h] * HalfVecs \in Nat
          BY <1>3
        <5>2. QED
          BY <1>3, <1>8, <1>9, <1>10, <4>2, <5>1
      <4>3. QED
        BY <4>1, <4>2
    <3>2. ASSUME NEW i \in 1 .. m + 1
          PROVE  (i - 1) \div HalfVecs < Len(routes)
                 /\ y_mem'[h][i] = Expected((i - 1) \div HalfVecs)
      <4>1. CASE i \in 1 .. m
        BY <1>2, <1>7, <1>9, <4>1 DEF AccInv, AccRows
      <4>2. CASE i = m + 1
        <5>1. (i - 1) \div HalfVecs = abase[h] + k
          <6>1. i - 1 = m
            BY <4>2
          <6>2. QED
            BY <1>8, <6>1
        <5>2. QED
          BY <1>6, <1>9, <4>2, <5>1
      <4>3. i \in 1 .. m \/ i = m + 1
        OBVIOUS
      <4>4. QED
        BY <4>1, <4>2, <4>3
    <3>3. \A n : Expected(n)' = Expected(n)
      BY <1>1 DEF Expected
    <3>4. QED
      BY <1>1, <1>9, <3>1, <3>2, <3>3 DEF AccRows
  <2>7. QED
    BY <2>3, <2>4, <2>5, <2>6 DEF AccInv
<1>16. \A g \in Halves : AccInv(g)' /\ \A s \in Slots : PFifo(g, s)'
  BY <1>13, <1>14, <1>15
<1>17. QED
  BY <1>11, <1>13, <1>16 DEF KInv

LEMMA TakePFifo ==
    ASSUME KTypes, log' = log, NEW h \in Halves, NEW s \in Slots, PFifo(h, s),
           partial[h][s] # <<>>, partial'[h][s] = Tail(partial[h][s]),
           PRead(h, s)' = PRead(h, s) + 1, PWritten(h, s)' = PWritten(h, s)
    PROVE  PFifo(h, s)'
<1>1. PICK m \in Nat, k \in Nat : m = PRead(h, s) /\ k = Len(partial[h][s])
  BY AccTypes
<1>2. partial[h][s] \in Seq(PacketRecs)
  BY AccTypes
<1>3. /\ Len(partial'[h][s]) = k - 1 /\ k >= 1
      /\ \A i \in 1 .. k - 1 : partial'[h][s][i] = partial[h][s][i + 1]
  BY <1>1, <1>2, TailFacts
<1>4. m + k = PWritten(h, s) /\ \A i \in 1 .. k : partial[h][s][i] = PacketAt(s, m + (i - 1))
  BY <1>1 DEF PFifo
<1>5. ASSUME NEW i \in 1 .. k - 1
      PROVE  partial'[h][s][i] = PacketAt(s, (m + 1) + (i - 1))
  <2>1. i + 1 \in 1 .. k /\ m + ((i + 1) - 1) = (m + 1) + (i - 1)
    BY <1>1
  <2>2. QED
    BY <1>3, <1>4, <2>1
<1>6. \A i : PacketAt(s, (m + 1) + (i - 1))' = PacketAt(s, (m + 1) + (i - 1))
  BY SameRounds
<1>7. PRead(h, s)' = m + 1 /\ PRead(h, s)' + (k - 1) = PWritten(h, s)'
  BY <1>1, <1>3, <1>4
<1>8. QED
  BY <1>1, <1>3, <1>5, <1>6, <1>7 DEF PFifo

(* A packet that lies in a FIFO was written in the round after those the   *)
(* accumulator has finished.                                               *)
LEMMA AccHead ==
    ASSUME KInv, NEW h \in Halves, NEW z \in Slots, apc[h] \in {"acc", "drain"},
           partial[h][z] # <<>>
    PROVE  /\ around[h] + 1 \in DOMAIN log /\ around[h] < Len(log)
           /\ log[around[h] + 1].base = abase[h]
           /\ apc[h] = "acc" => ~Stops(around[h] + 1)
           /\ apc[h] = "drain" => around[h] + 1 = Len(log)
           /\ Head(partial[h][z]) = PacketAt(z, PRead(h, z))
<1>1. IInv /\ LogInv /\ KTypes /\ SlotInv(z) /\ PFifo(h, z) /\ AccPlace(h)
  BY DEF KInv, AccInv
<1>2. PICK a \in Nat, m \in Nat, k \in Nat, i \in 0 .. RoundPackets :
         /\ a = around[h] /\ m = PRead(h, z) /\ k = Len(partial[h][z]) /\ i = InRound(h, z)
  BY <1>1, AccTypes
<1>3. /\ partial[h][z] \in Seq(PacketRecs) /\ a * RoundPackets \in Nat
      /\ RoundPackets \in Nat \ {0}
  BY <1>1, <1>2, AccTypes
<1>4. k >= 1 /\ Head(partial[h][z]) = partial[h][z][1]
  BY <1>2, <1>3, TailFacts
<1>5. Head(partial[h][z]) = PacketAt(z, m)
  <2>1. 1 \in 1 .. k /\ m + (1 - 1) = m
    BY <1>2, <1>4
  <2>2. QED
    BY <1>1, <1>2, <1>4, <2>1 DEF PFifo
<1>6. PICK g \in 0 .. Len(log) : g = Got(z) /\ PWritten(h, z) \in Nat
                                /\ PWritten(h, z) <= g * RoundPackets /\ g * RoundPackets \in Nat
  BY <1>1, SlotReach
<1>7. a * RoundPackets < g * RoundPackets
  <2>1. m = a * RoundPackets + i
    BY <1>2 DEF PRead
  <2>2. m + k = PWritten(h, z)
    BY <1>1, <1>2 DEF PFifo
  <2>3. PICK c \in Nat, d \in Nat : c = a * RoundPackets /\ d = g * RoundPackets
    BY <1>3, <1>6
  <2>4. m = c + i /\ m + k <= d /\ i \in Nat
    BY <1>3, <1>6, <2>1, <2>2, <2>3
  <2>5. c < d
    BY <1>4, <2>4
  <2>6. QED
    BY <2>3, <2>5
<1>8. Len(log) \in Nat /\ DOMAIN log = 1 .. Len(log)
  BY <1>1, FifoTypes
<1>9. a < g
  <2>1. ASSUME g <= a PROVE FALSE
    <3>1. g * RoundPackets <= a * RoundPackets
      BY <1>2, <1>3, <1>6, <1>8, <2>1, TimesLess
    <3>2. QED
      BY <1>3, <1>6, <1>7, <3>1
  <2>2. QED
    BY <1>2, <1>6, <1>8, <2>1
<1>10. a + 1 \in DOMAIN log /\ a < Len(log)
  BY <1>2, <1>6, <1>8, <1>9
<1>11. log[a + 1].base = abase[h]
  <2>1. log[a + 1].base = BaseAfter((a + 1) - 1)
    BY <1>1, <1>10 DEF LogInv, LogShape
  <2>2. (a + 1) - 1 = a
    BY <1>2
  <2>3. QED
    BY <1>1, <1>2, <2>1, <2>2 DEF AccPlace
<1>12. abase[h] \in Nat /\ N \in Nat
  BY <1>1, AccTypes, DispatchAssumption
<1>13. apc[h] = "acc" => ~Stops(a + 1)
  <2>1. apc[h] = "acc" => abase[h] < N
    BY <1>1 DEF AccPlace
  <2>2. Stops(a + 1) => abase[h] >= N
    BY <1>1, <1>10, <1>11 DEF LogInv, LogShape
  <2>3. QED
    BY <1>12, <2>1, <2>2
<1>14. apc[h] = "drain" => a + 1 = Len(log)
  <2>1. apc[h] = "drain" => abase[h] >= N
    BY <1>1 DEF AccPlace
  <2>2. /\ ~Stops(a + 1) => abase[h] < N
        /\ Stops(a + 1) => a + 1 = Len(log)
    BY <1>1, <1>10, <1>11 DEF LogInv, LogShape
  <2>3. QED
    BY <1>12, <2>1, <2>2
<1>15. QED
  BY <1>2, <1>5, <1>10, <1>11, <1>13, <1>14

(* A packet read by accumulator h from slot z, the only one whose FIFO     *)
(* changes.                                                                *)
LEMMA ReadPacket ==
    ASSUME KInv, NEW h \in Halves, NEW z \in Slots, log' = log, partial[h][z] # <<>>,
           partial' = [partial EXCEPT ![h][z] = Tail(@)],
           PRead(h, z)' = PRead(h, z) + 1,
           \A s \in Slots : s # z => PRead(h, s)' = PRead(h, s),
           \A s \in Slots : PWritten(h, s)' = PWritten(h, s)
    PROVE  /\ \A s \in Slots : PFifo(h, s)'
           /\ \A g \in Halves : g # h => partial'[g] = partial[g]
           /\ partial' \in [Halves -> [Slots -> Seq(PacketRecs)]]
<1>1. partial \in [Halves -> [Slots -> Seq(PacketRecs)]] /\ KTypes
      /\ \A s \in Slots : PFifo(h, s)
  BY DEF KInv, KTypes
<1>2. Tail(partial[h][z]) \in Seq(PacketRecs)
  <2>1. partial[h][z] \in Seq(PacketRecs)
    BY <1>1
  <2>2. QED
    BY <2>1, TailFacts
<1>3. /\ partial'[h][z] = Tail(partial[h][z])
      /\ \A s \in Slots : s # z => partial'[h][s] = partial[h][s]
      /\ \A g \in Halves : g # h => partial'[g] = partial[g]
  BY <1>1
<1>4. partial' \in [Halves -> [Slots -> Seq(PacketRecs)]]
  <2>1. [partial[h] EXCEPT ![z] = Tail(@)] \in [Slots -> Seq(PacketRecs)]
    BY <1>1, <1>2
  <2>2. partial' = [partial EXCEPT ![h] = [partial[h] EXCEPT ![z] = Tail(@)]]
    BY <1>1
  <2>3. QED
    BY <1>1, <2>1, <2>2
<1>5. ASSUME NEW s \in Slots
      PROVE  PFifo(h, s)'
  <2>1. CASE s = z
    BY <1>1, <1>3, <2>1, TakePFifo
  <2>2. CASE s # z
    BY <1>1, <1>3, <2>2, SamePFifo
  <2>3. QED
    BY <2>1, <2>2
<1>6. QED
  BY <1>3, <1>4, <1>5

LEMMA KDrain ==
    ASSUME KInv, IInv', NEW h \in Halves, AccDrain(h)
    PROVE  KInv'
<1> DEFINE more == aslot[h] + 1 < NSlots
<1>1. /\ apc[h] = "drain" /\ partial[h][aslot[h]] # <<>>
      /\ partial' = [partial EXCEPT ![h][aslot[h]] = Tail(@)]
      /\ IF more THEN aslot' = [aslot EXCEPT ![h] = @ + 1] /\ UNCHANGED apc
                 ELSE apc' = [apc EXCEPT ![h] = "done"] /\ UNCHANGED aslot
      /\ UNCHANGED <<dvars, routes, log, around, svars, abase, an, aover, asaw, y_acc, aflush,
                     y_mem>>
  BY DEF AccDrain, Tails
<1>2. KTypes /\ AccInv(h) /\ IInv /\ LogInv /\ AccPlace(h)
  BY DEF KInv, AccInv
<1>3. PICK z \in Slots : z = aslot[h]
  BY <1>2, AccTypes
<1>4. NSlots \in Nat /\ Slots = 0 .. NSlots - 1
  BY DispatchAssumption DEF Slots
<1>5. /\ apc'[h] = (IF more THEN "drain" ELSE "done")
      /\ aslot'[h] = (IF more THEN z + 1 ELSE z)
      /\ \A g \in Halves : g # h => apc'[g] = apc[g] /\ aslot'[g] = aslot[g]
      /\ apc' \in [Halves -> {"tile", "acc", "flush", "drain", "done"}]
      /\ aslot' \in [Halves -> Slots]
  <2>1. apc \in [Halves -> {"tile", "acc", "flush", "drain", "done"}] /\ aslot \in [Halves -> Slots]
    BY <1>2 DEF KTypes
  <2>2. CASE more
    <3>1. z + 1 \in Slots /\ aslot' = [aslot EXCEPT ![h] = z + 1] /\ apc' = apc
      BY <1>1, <1>3, <1>4, <2>2
    <3>2. QED
      BY <1>1, <2>1, <2>2, <3>1
  <2>3. CASE ~more
    BY <1>1, <1>3, <2>1, <2>3
  <2>4. QED
    BY <2>2, <2>3
<1>6. ASSUME NEW s \in Slots
      PROVE  PRead(h, s)' = IF s = z THEN PRead(h, s) + 1 ELSE PRead(h, s)
  <2>1. InRound(h, s) = IF s < z THEN 1 ELSE 0
    BY <1>1, <1>3 DEF InRound
  <2>2. InRound(h, s)' = IF s <= z THEN 1 ELSE 0
    <3>1. CASE more
      BY <1>3, <1>4, <1>5, <3>1 DEF InRound
    <3>2. CASE ~more
      BY <1>3, <1>4, <1>5, <3>2 DEF InRound
    <3>3. QED
      BY <3>1, <3>2
  <2>3. PICK a \in Nat : a = around[h] * RoundPackets
    BY <1>2, AccTypes
  <2>4. RoundPackets' = RoundPackets
    BY DEF RoundPackets
  <2>5. PRead(h, s) = a + InRound(h, s) /\ PRead(h, s)' = a + InRound(h, s)'
    BY <1>1, <2>3, <2>4 DEF PRead
  <2>6. QED
    BY <1>4, <2>1, <2>2, <2>3, <2>5
<1>7. \A s : PWritten(h, s)' = PWritten(h, s)
  <2>1. UNCHANGED <<spc, np, hdr_out>>
    BY <1>1 DEF dvars, fifos, svars
  <2>2. QED
    BY <1>1, <2>1 DEF PWritten, Got, RoundPackets
<1>8. /\ \A s \in Slots : PFifo(h, s)'
      /\ \A g \in Halves : g # h => partial'[g] = partial[g]
      /\ partial' \in [Halves -> [Slots -> Seq(PacketRecs)]]
  <2>1. /\ PRead(h, z)' = PRead(h, z) + 1
        /\ \A s \in Slots : s # z => PRead(h, s)' = PRead(h, s)
    BY <1>6
  <2>2. partial[h][z] # <<>> /\ partial' = [partial EXCEPT ![h][z] = Tail(@)] /\ log' = log
    BY <1>1, <1>3
  <2>3. QED
    BY <1>7, <2>1, <2>2, ReadPacket
<1>9. KTypes'
  BY <1>1, <1>2, <1>5, <1>8 DEF KTypes, svars, RoundPackets
<1>10. \A g \in Halves : g # h => SameAcc(g) /\ partial'[g] = partial[g]
  BY <1>1, <1>5, <1>8 DEF SameAcc
<1>11. /\ LogInv' /\ \A s \in Slots : SlotInv(s)'
       /\ \A g \in Halves : g # h => AccInv(g)' /\ \A s \in Slots : PFifo(g, s)'
  BY <1>1, <1>10, AccFrame
<1>12. AccInv(h)'
  <2>1. PICK a : a = around[h] /\ a = around'[h]
    BY <1>1
  <2>2. Stops(a)' = Stops(a) /\ BaseAfter(a)' = BaseAfter(a)
    BY <1>1, SameRounds
  <2>3. around[h] + 1 = Len(log)
    BY <1>1, <1>3, AccHead
  <2>4. apc'[h] \in {"drain", "done"}
    BY <1>5
  <2>5. AccPlace(h)'
    BY <1>1, <1>2, <2>1, <2>2, <2>3, <2>4 DEF AccPlace
  <2>6. AccFlags(h)' /\ AccSums(h)'
    BY <2>4 DEF AccFlags, AccSums
  <2>7. AccRows(h)'
    <3>1. \A n : Expected(n)' = Expected(n)
      BY <1>1 DEF Expected
    <3>2. AccRows(h) /\ apc[h] # "flush" /\ apc'[h] # "flush"
      BY <1>1, <1>2, <2>4 DEF AccInv
    <3>3. QED
      BY <1>1, <3>1, <3>2 DEF AccRows
  <2>8. QED
    BY <2>5, <2>6, <2>7 DEF AccInv
<1>13. \A g \in Halves : AccInv(g)' /\ \A s \in Slots : PFifo(g, s)'
  BY <1>8, <1>11, <1>12
<1>14. QED
  BY <1>9, <1>11, <1>13 DEF KInv

--------------------------------------------------------------------------------
(* An accumulator reads a packet: the three ways its place moves. *)

(* To the next packet of the slot, to the next slot, to the next round. *)
MidSlot(h) ==
    /\ an[h] + 1 < RoundPackets /\ an'[h] = an[h] + 1
    /\ apc'[h] = "acc" /\ aslot'[h] = aslot[h] /\ around'[h] = around[h]
    /\ aover'[h] = aover[h]
NextSlot(h) ==
    /\ an[h] + 1 = RoundPackets /\ an'[h] = 0
    /\ apc'[h] = "acc" /\ aslot'[h] = aslot[h] + 1 /\ around'[h] = around[h]
    /\ aover'[h] = Closes(around[h] + 1)
NextRound(h) ==
    /\ an[h] + 1 = RoundPackets /\ an'[h] = 0
    /\ aslot[h] + 1 = NSlots /\ aslot'[h] = 0 /\ around'[h] = around[h] + 1
    /\ apc'[h] = (IF Closes(around[h] + 1) THEN "flush" ELSE "acc")
    /\ aover'[h] = Closes(around[h] + 1) /\ aflush'[h] = 0

LEMMA ReadMoves ==
    ASSUME KTypes, NEW h \in Halves, apc[h] = "acc",
           MidSlot(h) \/ NextSlot(h) \/ NextRound(h), NEW s \in Slots
    PROVE  PRead(h, s)' = IF s = aslot[h] THEN PRead(h, s) + 1 ELSE PRead(h, s)
<1>1. PICK z \in Slots, n \in 0 .. RoundPackets - 1, r \in Nat :
         z = aslot[h] /\ n = an[h] /\ r = around[h]
  BY AccTypes
<1>9. PICK a \in Nat : a = r * RoundPackets
  BY <1>1, AccTypes
<1>2. RoundPackets' = RoundPackets /\ RoundPackets \in Nat \ {0}
  BY Sizes DEF RoundPackets
<1>3. Slots = 0 .. NSlots - 1 /\ NSlots \in Nat
  BY DispatchAssumption DEF Slots
<1>4. /\ InRound(h, s) = (IF s < z THEN RoundPackets ELSE IF s = z THEN n ELSE 0)
      /\ PRead(h, s) = a + InRound(h, s)
  BY <1>1, <1>9 DEF InRound, PRead
<1>5. CASE MidSlot(h)
  <2>1. InRound(h, s)' = (IF s < z THEN RoundPackets ELSE IF s = z THEN n + 1 ELSE 0)
    BY <1>1, <1>2, <1>5 DEF MidSlot, InRound
  <2>2. PRead(h, s)' = a + InRound(h, s)'
    BY <1>1, <1>9, <1>2, <1>5 DEF MidSlot, PRead
  <2>3. QED
    BY <1>1, <1>2, <1>3, <1>4, <2>1, <2>2
<1>6. CASE NextSlot(h)
  <2>1. InRound(h, s)' = (IF s < z + 1 THEN RoundPackets ELSE 0)
    <3>1. /\ apc'[h] = "acc" /\ aslot'[h] = z + 1 /\ an'[h] = 0
      BY <1>1, <1>6 DEF NextSlot
    <3>2. QED
      BY <1>2, <3>1 DEF InRound
  <2>2. PRead(h, s)' = a + InRound(h, s)'
    BY <1>1, <1>9, <1>2, <1>6 DEF NextSlot, PRead
  <2>3. n + 1 = RoundPackets
    BY <1>1, <1>6 DEF NextSlot
  <2>4. QED
    BY <1>1, <1>2, <1>3, <1>4, <2>1, <2>2, <2>3
<1>7. CASE NextRound(h)
  <2>1. apc'[h] \in {"flush", "acc"} /\ aslot'[h] = 0 /\ an'[h] = 0 /\ around'[h] = r + 1
        /\ n + 1 = RoundPackets /\ z + 1 = NSlots
    BY <1>1, <1>7 DEF NextRound
  <2>2. InRound(h, s)' = 0
    <3>1. ~(s < 0)
      BY <1>3
    <3>2. QED
      BY <1>2, <2>1, <3>1 DEF InRound
  <2>3. (r + 1) * RoundPackets = a + RoundPackets
    BY <1>9, <1>2, TimesStep
  <2>4. PRead(h, s)' = a + RoundPackets
    BY <1>1, <1>2, <2>1, <2>2, <2>3 DEF PRead
  <2>5. s < z \/ s = z
    BY <1>1, <1>3, <2>1
  <2>6. n + 1 = RoundPackets
    BY <2>1
  <2>7. CASE s = z
    BY <1>1, <1>2, <1>3, <1>4, <2>4, <2>6, <2>7
  <2>8. CASE s < z
    <3>1. s # z
      BY <1>3, <2>8
    <3>2. QED
      BY <1>1, <1>4, <2>4, <2>8, <3>1
  <2>9. QED
    BY <2>5, <2>7, <2>8
<1>8. QED
  BY <1>5, <1>6, <1>7

(* The place of a lane's vector in a slot's round. *)
LEMMA LanePlace ==
    ASSUME NEW l \in Lanes, NEW v \in HVecs
    PROVE  /\ l * HalfVecs + v \in 0 .. RoundPackets - 1
           /\ (l * HalfVecs + v) \div HalfVecs = l /\ (l * HalfVecs + v) % HalfVecs = v
<1>1. HalfVecs \in Nat \ {0} /\ TokenLanes \in Nat \ {0} /\ l \in Nat /\ v \in 0 .. HalfVecs - 1
  BY Sizes DEF Lanes, HVecs
<1>2. l + 1 <= TokenLanes
  BY <1>1 DEF Lanes
<1>3. (l + 1) * HalfVecs <= TokenLanes * HalfVecs
  BY <1>1, <1>2, TimesLess
<1>4. PICK a \in Nat, b \in Nat : a = l * HalfVecs /\ b = TokenLanes * HalfVecs
  BY <1>1
<1>5. (l + 1) * HalfVecs = a + HalfVecs
  BY <1>1, <1>4, TimesStep
<1>6. a + v \in 0 .. b - 1
  BY <1>1, <1>3, <1>4, <1>5
<1>7. QED
  BY <1>1, <1>4, <1>6, DivMod DEF RoundPackets

LEMMA GatherMoves ==
    ASSUME KTypes, NEW h \in Halves, MidSlot(h) \/ NextSlot(h) \/ NextRound(h),
           NEW r \in Nat, NEW s \in Slots, NEW l \in Lanes, NEW v \in HVecs
    PROVE  Gathered(h, r, s, l, v)' <=>
             \/ Gathered(h, r, s, l, v)
             \/ /\ r = around[h] + 1 /\ s = aslot[h]
                /\ l = an[h] \div HalfVecs /\ v = an[h] % HalfVecs
<1>1. PICK z \in Slots, n \in 0 .. RoundPackets - 1, a \in Nat :
         z = aslot[h] /\ n = an[h] /\ a = around[h]
  BY AccTypes
<1>2. Slots = 0 .. NSlots - 1 /\ NSlots \in Nat /\ RoundPackets \in Nat \ {0}
  BY Sizes, DispatchAssumption DEF Slots
<1>3. PICK i \in 0 .. RoundPackets - 1 : i = l * HalfVecs + v
  BY LanePlace
<1>4. i = n <=> l = n \div HalfVecs /\ v = n % HalfVecs
  <2>1. i = n => l = n \div HalfVecs /\ v = n % HalfVecs
    BY <1>3, LanePlace
  <2>2. n = (n \div HalfVecs) * HalfVecs + (n % HalfVecs)
    BY PacketPlace
  <2>3. QED
    BY <1>3, <2>1, <2>2
<1>5. Gathered(h, r, s, l, v) <=> r <= a \/ (r = a + 1 /\ (s < z \/ (s = z /\ i < n)))
  BY <1>1, <1>3 DEF Gathered
<1>6. Gathered(h, r, s, l, v)' <=>
         r <= a \/ (r = a + 1 /\ (s < z \/ (s = z /\ (i < n \/ i = n))))
  <2>1. PICK z1, n1, a1 : z1 = aslot'[h] /\ n1 = an'[h] /\ a1 = around'[h]
    OBVIOUS
  <2>2. Gathered(h, r, s, l, v)' <=> r <= a1 \/ (r = a1 + 1 /\ (s < z1 \/ (s = z1 /\ i < n1)))
    BY <1>3, <2>1 DEF Gathered
  <2>3. CASE MidSlot(h)
    <3>1. z1 = z /\ n1 = n + 1 /\ a1 = a
      BY <1>1, <2>1, <2>3 DEF MidSlot
    <3>2. QED
      BY <1>1, <1>2, <1>3, <2>2, <3>1
  <2>4. CASE NextSlot(h)
    <3>1. z1 = z + 1 /\ n1 = 0 /\ a1 = a /\ n + 1 = RoundPackets
      BY <1>1, <2>1, <2>4 DEF NextSlot
    <3>2. QED
      BY <1>1, <1>2, <1>3, <2>2, <3>1
  <2>5. CASE NextRound(h)
    <3>1. z1 = 0 /\ n1 = 0 /\ a1 = a + 1 /\ n + 1 = RoundPackets /\ z + 1 = NSlots
      BY <1>1, <2>1, <2>5 DEF NextRound
    <3>2. QED
      BY <1>1, <1>2, <1>3, <2>2, <3>1
  <2>6. QED
    BY <2>3, <2>4, <2>5
<1>7. QED
  BY <1>1, <1>4, <1>5, <1>6

(* A set grows, and so does the bag of it. *)
LEMMA OneMore ==
    ASSUME NEW E \in SUBSET Experts, NEW e \in Experts, e \notin E, NEW n \in Nat
    PROVE  Products(E, n) (+) SetToBag({[row |-> e, x |-> {n}]}) = Products(E \cup {e}, n)
<1> DEFINE Row(d) == [row |-> d, x |-> {n}]
           S == {Row(d) : d \in E}
<1>1. Row(e) \notin S
  <2>1. \A d : Row(d) = Row(e) => d = e
    OBVIOUS
  <2>2. QED
    BY <2>1
<1>2. {Row(d) : d \in E \cup {e}} = S \cup {Row(e)}
  OBVIOUS
<1> HIDE DEF Row, S
<1>3. SetToBag(S) (+) SetToBag({Row(e)}) = SetToBag(S \cup {Row(e)})
  BY <1>1 DEF SetToBag, (+), BagToSet
<1>4. QED
  BY <1>2, <1>3 DEF Row, S, Products

LEMMA Once ==
    ASSUME OnceInTile, NEW q \in DOMAIN log, NEW r \in DOMAIN log, log[q].base = log[r].base,
           NEW s \in Slots, NEW z \in Slots, NEW m \in Lanes, NEW l \in Lanes,
           Works(q, s, m), Works(r, z, l), log[q].hdrs[s].toks[m] = log[r].hdrs[z].toks[l],
           log[q].hdrs[s].trig = log[r].hdrs[z].trig
    PROVE  q = r /\ s = z /\ m = l
  BY DEF OnceInTile

(* Accumulator h reads packet p: vector v of lane l of slot z in round r. *)
Reading(h, r, z, l, v, p) ==
    /\ apc[h] = "acc" /\ partial[h][z] # <<>> /\ p = Head(partial[h][z])
    /\ r = around[h] + 1 /\ z = aslot[h] /\ l = an[h] \div HalfVecs /\ v = an[h] % HalfVecs

(* What the accumulator knows of the packet it reads. *)
LEMMA HeadPacket ==
    ASSUME KInv, NEW h \in Halves, NEW r, NEW z, NEW l, NEW v, NEW p, Reading(h, r, z, l, v, p)
    PROVE  /\ r \in DOMAIN log /\ r \in Nat /\ around[h] < Len(log) /\ around[h] \in Nat
           /\ log[r].base = abase[h] /\ ~Stops(r) /\ Closes(r) \in BOOLEAN
           /\ z \in Slots /\ l \in Lanes /\ v \in HVecs
           /\ ~p.last /\ p.done = Closes(r) /\ (p.act <=> Works(r, z, l))
           /\ p.tok = log[r].hdrs[z].toks[l] /\ p.tok \in Tokens /\ p.vec = v
           /\ Works(r, z, l) => /\ log[r].hdrs[z].trig \in Experts
                                /\ p.y = [row |-> log[r].hdrs[z].trig, x |-> {abase[h] + p.tok}]
<1> /\ apc[h] = "acc" /\ partial[h][z] # <<>> /\ p = Head(partial[h][z])
    /\ r = around[h] + 1 /\ z = aslot[h] /\ l = an[h] \div HalfVecs /\ v = an[h] % HalfVecs
  BY DEF Reading
<1>1. LogInv /\ KTypes
  BY DEF KInv
<1>2. z \in Slots /\ around[h] \in Nat /\ an[h] \in 0 .. RoundPackets - 1
  BY <1>1, AccTypes
<1>3. /\ r \in DOMAIN log /\ r \in Nat /\ around[h] < Len(log)
      /\ log[r].base = abase[h] /\ ~Stops(r) /\ p = PacketAt(z, PRead(h, z))
  BY <1>2, AccHead
<1>4. l \in Lanes /\ v \in HVecs /\ p = LanePacket(r, z, l, v)
  <2>1. PRead(h, z) = around[h] * RoundPackets + an[h]
    <3>1. z \in Int
      BY <1>2 DEF Slots
    <3>2. InRound(h, z) = an[h]
      BY <3>1 DEF InRound
    <3>3. QED
      BY <3>2 DEF PRead
  <2>2. l \in Lanes /\ v \in HVecs
        /\ PacketAt(z, around[h] * RoundPackets + an[h]) = LanePacket(around[h] + 1, z, l, v)
    BY <1>2, PacketPlace
  <2>3. QED
    BY <1>3, <2>1, <2>2
<1>5. /\ log[r].hdrs[z].toks \in [Lanes -> Tokens] /\ log[r].hdrs[z].cnt \in 0 .. TokenLanes
      /\ log[r].hdrs[z].act \in BOOLEAN /\ log[r].hdrs[0].done \in BOOLEAN
  <2>1. 0 \in Slots
    BY DEF Slots
  <2>2. QED
    BY <1>1, <1>2, <1>3, <2>1, Entries DEF LogInv
<1>6. Alike(log[r].hdrs)
  BY <1>1, <1>3 DEF LogInv, LogShape
<1>7. Works(r, z, l) => log[r].hdrs[z].act
  <2>1. l \in Nat
    BY <1>4 DEF Lanes
  <2>2. Works(r, z, l) => log[r].hdrs[z].cnt > 0
    BY <1>5, <2>1 DEF Works
  <2>3. QED
    BY <1>2, <1>6, <2>2 DEF Alike
<1>8. /\ p.last = FALSE /\ p.done = Closes(r)
      /\ p.act = (log[r].hdrs[z].act /\ Works(r, z, l))
      /\ p.tok = log[r].hdrs[z].toks[l] /\ p.vec = v
      /\ p.y = [row |-> log[r].hdrs[z].trig, x |-> {Source(r, z, l)}]
  <2>1. p = [tok |-> log[r].hdrs[z].toks[l], vec |-> v,
             y |-> [row |-> log[r].hdrs[z].trig, x |-> {Source(r, z, l)}],
             act |-> log[r].hdrs[z].act /\ Works(r, z, l), last |-> FALSE, done |-> Closes(r)]
    BY <1>3, <1>4, Zenon DEF LanePacket
  <2>2. PICK k, y, a, f, d :
           /\ k = log[r].hdrs[z].toks[l] /\ a = (log[r].hdrs[z].act /\ Works(r, z, l))
           /\ y = [row |-> log[r].hdrs[z].trig, x |-> {Source(r, z, l)}]
           /\ f = FALSE /\ d = Closes(r)
    BY Zenon
  <2>3. p = [tok |-> k, vec |-> v, y |-> y, act |-> a, last |-> f, done |-> d]
    BY <2>1, <2>2, Zenon
  <2>4. p.tok = k /\ p.vec = v /\ p.y = y /\ p.act = a /\ p.last = f /\ p.done = d
    BY <2>3
  <2>5. QED
    BY <2>2, <2>4, Zenon
<1>9. (p.act <=> Works(r, z, l)) /\ ~p.last
  <2>1. Works(r, z, l) \in BOOLEAN
    BY DEF Works
  <2>2. (log[r].hdrs[z].act /\ Works(r, z, l)) = Works(r, z, l)
    BY <1>7, <2>1, Zenon
  <2>3. QED
    BY <1>8, <2>2, Zenon
<1>10. Works(r, z, l) => log[r].hdrs[z].trig \in Experts
                         /\ Source(r, z, l) = abase[h] + log[r].hdrs[z].toks[l]
  BY <1>2, <1>3, <1>6 DEF Alike, Source
<1>11. p.tok \in Tokens /\ Closes(r) \in BOOLEAN
  BY <1>4, <1>5, <1>8, Zenon DEF Closes
<1>12. QED
  BY <1>2, <1>3, <1>4, <1>8, <1>9, <1>10, <1>11, Zenon

(* The sums after the packet: its product is new, and only where it goes.  *)
LEMMA SumMoves ==
    ASSUME KInv, NEW h \in Halves, NEW r, NEW z, NEW l, NEW v, NEW p, Reading(h, r, z, l, v, p),
           log' = log, abase'[h] = abase[h], MidSlot(h) \/ NextSlot(h) \/ NextRound(h),
           y_acc' = Add(h, p)
    PROVE  /\ \A k \in Tokens, w \in HVecs :
                 y_acc'[h][k][w] = Products(Summed(h, k, w)', abase[h] + k)
           /\ \A g \in Halves : g # h => y_acc'[g] = y_acc[g]
           /\ y_acc' \in [Halves -> [Tokens -> [HVecs -> Sums]]]
<1> apc[h] = "acc" /\ r = around[h] + 1 /\ z = aslot[h]
    /\ l = an[h] \div HalfVecs /\ v = an[h] % HalfVecs
  BY DEF Reading
<1> DEFINE e == log[r].hdrs[z].trig
           hit == Works(r, z, l)
<1>1. /\ r \in DOMAIN log /\ r \in Nat /\ log[r].base = abase[h]
      /\ z \in Slots /\ l \in Lanes /\ v \in HVecs
      /\ (p.act <=> hit) /\ p.tok = log[r].hdrs[z].toks[l] /\ p.tok \in Tokens /\ p.vec = v
      /\ hit => e \in Experts /\ p.y = [row |-> e, x |-> {abase[h] + p.tok}]
  <2>1. /\ r \in DOMAIN log /\ r \in Nat /\ log[r].base = abase[h]
        /\ z \in Slots /\ l \in Lanes /\ v \in HVecs
        /\ (p.act <=> Works(r, z, l)) /\ p.tok = log[r].hdrs[z].toks[l]
        /\ p.tok \in Tokens /\ p.vec = v
        /\ Works(r, z, l) => /\ log[r].hdrs[z].trig \in Experts
                             /\ p.y = [row |-> log[r].hdrs[z].trig, x |-> {abase[h] + p.tok}]
    BY HeadPacket
  <2>2. QED
    BY <2>1, Zenon
<1>2. /\ LogInv /\ KTypes /\ AccSums(h) /\ DOMAIN log \subseteq Nat /\ abase[h] \in Nat
      /\ y_acc \in [Halves -> [Tokens -> [HVecs -> Sums]]] /\ around[h] \in Nat
  <2>1. LogInv /\ KTypes /\ AccSums(h)
    BY DEF KInv, AccInv
  <2>2. DOMAIN log = 1 .. Len(log) /\ Len(log) \in Nat
    BY <2>1, Entries DEF LogInv
  <2>3. abase[h] \in Nat /\ around[h] \in Nat
    BY <2>1, AccTypes
  <2>4. y_acc \in [Halves -> [Tokens -> [HVecs -> Sums]]]
    BY <2>1 DEF KTypes
  <2>5. QED
    BY <2>1, <2>2, <2>3, <2>4
<1>3. z \in Int /\ an[h] \in Nat /\ an[h] = l * HalfVecs + v
  <2>1. an[h] \in 0 .. RoundPackets - 1
    BY <1>2, AccTypes
  <2>2. an[h] = l * HalfVecs + v
    BY <2>1, PacketPlace
  <2>3. an[h] \in Nat
    BY <2>1, Sizes
  <2>4. z \in Int
    <3>1. z \in Slots
      BY <1>1, Zenon
    <3>2. Slots \subseteq Int
      BY DEF Slots
    <3>3. QED
      BY <3>1, <3>2
  <2>5. QED
    BY <2>2, <2>3, <2>4
<1>4. ASSUME NEW k \in Tokens, NEW w \in HVecs
      PROVE  Summed(h, k, w)' = Summed(h, k, w)
                \cup (IF hit /\ k = p.tok /\ w = v THEN {e} ELSE {})
  <2>1. \A q \in DOMAIN log, s \in Slots, m \in Lanes :
           Gathered(h, q, s, m, w)' <=> \/ Gathered(h, q, s, m, w)
                                        \/ q = r /\ s = z /\ m = l /\ w = v
    BY <1>2, GatherMoves
  <2>2. Summed(h, k, w)' =
          {d \in Experts : \E q \in DOMAIN log, s \in Slots, m \in Lanes :
              /\ log[q].base = abase[h] /\ Works(q, s, m) /\ Gathered(h, q, s, m, w)'
              /\ log[q].hdrs[s].toks[m] = k /\ log[q].hdrs[s].trig = d}
    <3>1. \A q, s, m : Works(q, s, m)' = Works(q, s, m)
      BY SameRounds
    <3>2. QED
      BY <3>1 DEF Summed
  <2>3. ASSUME NEW d \in Summed(h, k, w)'
        PROVE  d \in Summed(h, k, w) \/ (hit /\ k = p.tok /\ w = v /\ d = e)
    <3>1. d \in Experts
      BY <2>2
    <3>2. PICK q \in DOMAIN log, s \in Slots, m \in Lanes :
              /\ log[q].base = abase[h] /\ Works(q, s, m) /\ Gathered(h, q, s, m, w)'
              /\ log[q].hdrs[s].toks[m] = k /\ log[q].hdrs[s].trig = d
      BY <2>2
    <3>3. CASE Gathered(h, q, s, m, w)
      BY <3>1, <3>2, <3>3 DEF Summed
    <3>4. CASE q = r /\ s = z /\ m = l /\ w = v
      BY <1>1, <3>2, <3>4, Zenon
    <3>5. QED
      BY <2>1, <3>2, <3>3, <3>4
  <2>4. ASSUME NEW d \in Summed(h, k, w)
        PROVE  d \in Summed(h, k, w)'
    BY <2>1, <2>2 DEF Summed
  <2>5. ASSUME hit, k = p.tok, w = v
        PROVE  e \in Summed(h, k, w)'
    BY <1>1, <2>1, <2>2, <2>5, Zenon
  <2>6. QED
    BY <2>3, <2>4, <2>5
<1>5. hit => e \notin Summed(h, p.tok, v)
  <2>1. SUFFICES ASSUME hit, e \in Summed(h, p.tok, v)
                 PROVE  FALSE
    OBVIOUS
  <2>2. PICK q \in DOMAIN log, s \in Slots, m \in Lanes :
           /\ log[q].base = abase[h] /\ Works(q, s, m) /\ Gathered(h, q, s, m, v)
           /\ log[q].hdrs[s].toks[m] = p.tok /\ log[q].hdrs[s].trig = e
    BY <2>1 DEF Summed
  <2>3. q = r /\ s = z /\ m = l
    <3>1. OnceInTile
      BY <1>2 DEF LogInv
    <3>2. log[q].base = log[r].base /\ Works(r, z, l)
          /\ log[q].hdrs[s].toks[m] = log[r].hdrs[z].toks[l]
          /\ log[q].hdrs[s].trig = log[r].hdrs[z].trig
      BY <1>1, <2>1, <2>2, Zenon
    <3>3. r \in DOMAIN log /\ z \in Slots /\ l \in Lanes /\ Works(q, s, m)
      BY <1>1, <2>2, Zenon
    <3>4. QED
      BY <3>1, <3>2, <3>3, Once
  <2>4. Gathered(h, r, z, l, v)
    BY <2>2, <2>3
  <2>5. ~(r <= around[h]) /\ ~(z < z) /\ ~(l * HalfVecs + v < an[h])
    BY <1>2, <1>3
  <2>6. QED
    BY <2>4, <2>5 DEF Gathered
<1>6. /\ ~hit => y_acc' = y_acc
      /\ hit => \E R, C, B :
            /\ B = y_acc[h][p.tok][v] (+) SetToBag({p.y})
            /\ C = [y_acc[h][p.tok] EXCEPT ![v] = B]
            /\ R = [y_acc[h] EXCEPT ![p.tok] = C]
            /\ y_acc' = [y_acc EXCEPT ![h] = R]
  <2>1. ~hit => y_acc' = y_acc
    BY <1>1, Zenon DEF Add
  <2>2. hit => y_acc' = [y_acc EXCEPT ![h][p.tok][p.vec] = @ (+) SetToBag({p.y})]
    BY <1>1, Zenon DEF Add
  <2>3. QED
    BY <1>1, <2>1, <2>2, Zenon
<1> HIDE DEF e, hit
<1>7. CASE ~hit
  <2>1. y_acc' = y_acc
    BY <1>6, <1>7
  <2>2. ASSUME NEW k \in Tokens, NEW w \in HVecs
        PROVE  y_acc'[h][k][w] = Products(Summed(h, k, w)', abase[h] + k)
    <3>1. Summed(h, k, w)' = Summed(h, k, w)
      BY <1>4, <1>7
    <3>2. QED
      BY <1>2, <2>1, <3>1 DEF AccSums
  <2>3. QED
    BY <1>2, <2>1, <2>2
<1>8. CASE hit
  <2>10. PICK k0 \in Tokens : k0 = p.tok
    BY <1>1, Zenon
  <2>1. PICK R, C, B :
           /\ k0 = p.tok /\ B = y_acc[h][k0][v] (+) SetToBag({p.y})
           /\ C = [y_acc[h][k0] EXCEPT ![v] = B] /\ R = [y_acc[h] EXCEPT ![k0] = C]
           /\ y_acc' = [y_acc EXCEPT ![h] = R]
    BY <1>6, <1>8, <2>10
  <2>2. B = Products(Summed(h, k0, v)', abase[h] + k0)
    <3>1. PICK E \in SUBSET Experts, n \in Nat : E = Summed(h, k0, v) /\ n = abase[h] + k0
      <4>1. Summed(h, k0, v) \in SUBSET Experts
        BY DEF Summed
      <4>2. abase[h] + k0 \in Nat
        BY <1>2 DEF Tokens
      <4>3. QED
        BY <4>1, <4>2
    <3>2. e \in Experts /\ e \notin E /\ p.y = [row |-> e, x |-> {n}]
      BY <1>1, <1>5, <1>8, <2>1, <3>1, Zenon
    <3>3. y_acc[h][k0][v] = Products(E, n)
      BY <1>1, <1>2, <3>1, Zenon DEF AccSums
    <3>4. B = Products(E \cup {e}, n)
      <4>1. Products(E, n) (+) SetToBag({[row |-> e, x |-> {n}]}) = Products(E \cup {e}, n)
        BY <3>2, OneMore
      <4>2. B = y_acc[h][k0][v] (+) SetToBag({p.y})
        BY <2>1
      <4>3. QED
        BY <3>2, <3>3, <4>1, <4>2
    <3>5. Summed(h, k0, v)' = E \cup {e}
      BY <1>1, <1>4, <1>8, <2>1, <3>1, Zenon
    <3>6. QED
      BY <3>1, <3>4, <3>5
  <2>3. B \in Sums
    <3>1. Summed(h, k0, v)' \in SUBSET Experts /\ abase[h] + k0 \in Nat
      BY <1>2 DEF Summed, Tokens
    <3>2. QED
      BY <2>2, <3>1 DEF Sums
  <2>4. y_acc[h] \in [Tokens -> [HVecs -> Sums]] /\ y_acc[h][k0] \in [HVecs -> Sums]
    BY <1>2
  <2>5. /\ C \in [HVecs -> Sums] /\ C[v] = B
        /\ \A w \in HVecs : w # v => C[w] = y_acc[h][k0][w]
    BY <1>1, <2>1, <2>3, <2>4, Zenon
  <2>6. /\ R \in [Tokens -> [HVecs -> Sums]] /\ R[k0] = C
        /\ \A k \in Tokens : k # k0 => R[k] = y_acc[h][k]
    BY <2>1, <2>4, <2>5, Zenon
  <2>7. /\ y_acc' \in [Halves -> [Tokens -> [HVecs -> Sums]]] /\ y_acc'[h] = R
        /\ \A g \in Halves : g # h => y_acc'[g] = y_acc[g]
    <3>1. y_acc' = [y_acc EXCEPT ![h] = R]
      BY <2>1
    <3>2. QED
      BY <1>2, <2>6, <3>1
  <2>8. ASSUME NEW k \in Tokens, NEW w \in HVecs
        PROVE  y_acc'[h][k][w] = Products(Summed(h, k, w)', abase[h] + k)
    <3>1. CASE k = k0 /\ w = v
      BY <2>2, <2>5, <2>6, <2>7, <3>1
    <3>2. CASE ~(k = k0 /\ w = v)
      <4>1. Summed(h, k, w)' = Summed(h, k, w)
        <5>1. ~(hit /\ k = p.tok /\ w = v)
          BY <2>10, <3>2
        <5>2. QED
          BY <1>4, <5>1
      <4>2. y_acc'[h][k][w] = y_acc[h][k][w]
        BY <2>5, <2>6, <2>7, <3>2
      <4>3. QED
        BY <1>2, <4>1, <4>2 DEF AccSums
    <3>3. QED
      BY <3>1, <3>2
  <2>9. QED
    BY <2>7, <2>8
<1>9. QED
  BY <1>7, <1>8

(* The step itself, with the flags it reads resolved. *)
LEMMA ReadCases ==
    ASSUME KInv, NEW h \in Halves, AccRead(h)
    PROVE  /\ apc[h] = "acc" /\ partial[h][aslot[h]] # <<>>
           /\ partial' = [partial EXCEPT ![h][aslot[h]] = Tail(@)]
           /\ UNCHANGED <<dvars, routes, log, svars, abase, y_mem>>
           /\ y_acc' = Add(h, Head(partial[h][aslot[h]]))
           /\ asaw' = [asaw EXCEPT ![h] = Closes(around[h] + 1)]
           /\ \/ /\ an[h] + 1 # RoundPackets /\ an' = [an EXCEPT ![h] = @ + 1]
                 /\ UNCHANGED <<aslot, apc, aover, aflush, around>>
              \/ an[h] + 1 = RoundPackets /\ AfterSlot(h, Closes(around[h] + 1))
<1>1. apc[h] = "acc" /\ partial[h][aslot[h]] # <<>>
  BY DEF AccRead
<1>2. PICK r, z, l, v, p :
         Reading(h, r, z, l, v, p) /\ r = around[h] + 1 /\ z = aslot[h] /\ p = Head(partial[h][z])
  BY <1>1 DEF Reading
<1>3. /\ ~p.last /\ p.done = Closes(r) /\ Closes(r) \in BOOLEAN /\ z \in Slots
  <2>1. Reading(h, r, z, l, v, p)
    BY <1>2
  <2>2. Closes(r) \in BOOLEAN /\ z \in Slots
    BY <2>1, HeadPacket
  <2>3. ~p.last /\ p.done = Closes(r)
    BY <2>1, HeadPacket
  <2>4. QED
    BY <2>2, <2>3
<1>4. KTypes /\ AccFlags(h)
  BY DEF KInv, AccInv
<1>5. PICK saw : saw = IF an[h] = 0 THEN p.done ELSE asaw[h]
  OBVIOUS
<1>6. an[h] \in 0 .. RoundPackets - 1 /\ aover[h] \in BOOLEAN /\ z \in Nat
  BY <1>3, <1>4, AccTypes DEF Slots
<1>7. saw = Closes(r)
  BY <1>1, <1>2, <1>3, <1>4, <1>5, <1>6 DEF AccFlags
<1>8. (aover[h] \/ saw) = Closes(r)
  <2>1. aover[h] => Closes(r)
    <3>1. CASE aslot[h] = 0
      BY <1>1, <1>4, <3>1 DEF AccFlags
    <3>2. CASE aslot[h] > 0
      <4>1. aover[h] = Closes(r)
        BY <1>1, <1>2, <1>4, <3>2 DEF AccFlags
      <4>2. QED
        BY <4>1
    <3>3. QED
      BY <1>2, <1>6, <3>1, <3>2
  <2>2. QED
    BY <1>3, <1>6, <1>7, <2>1
<1>9. /\ partial' = [partial EXCEPT ![h][aslot[h]] = Tail(@)]
      /\ UNCHANGED <<dvars, routes, log, svars, abase, y_mem>>
      /\ y_acc' = Add(h, p) /\ asaw' = [asaw EXCEPT ![h] = saw]
      /\ IF an[h] + 1 = RoundPackets
         THEN AfterSlot(h, aover[h] \/ saw)
         ELSE /\ an' = [an EXCEPT ![h] = @ + 1]
              /\ UNCHANGED <<aslot, apc, aover, aflush, around>>
  BY <1>2, <1>3, <1>5 DEF AccRead
<1>10. AfterSlot(h, aover[h] \/ saw) => AfterSlot(h, Closes(r))
  BY <1>8
<1>11. QED
  BY <1>1, <1>2, <1>7, <1>9, <1>10

LEMMA ReadPlaces ==
    ASSUME KInv, NEW h \in Halves, AccRead(h)
    PROVE  /\ MidSlot(h) \/ NextSlot(h) \/ NextRound(h)
           /\ asaw'[h] = Closes(around[h] + 1)
           /\ aslot' \in [Halves -> Slots] /\ an' \in [Halves -> 0 .. RoundPackets - 1]
           /\ apc' \in [Halves -> {"tile", "acc", "flush", "drain", "done"}]
           /\ around' \in [Halves -> Nat] /\ aflush' \in [Halves -> Nat]
           /\ aover' \in [Halves -> BOOLEAN] /\ asaw' \in [Halves -> BOOLEAN]
           /\ \A g \in Halves : g # h =>
                 /\ UNCHANGED <<apc[g], aslot[g], an[g], aover[g], asaw[g], aflush[g], around[g]>>
<1>1. PICK c : c = Closes(around[h] + 1)
  OBVIOUS
<1>2. /\ asaw' = [asaw EXCEPT ![h] = c] /\ apc[h] = "acc"
      /\ \/ /\ an[h] + 1 # RoundPackets /\ an' = [an EXCEPT ![h] = @ + 1]
            /\ UNCHANGED <<aslot, apc, aover, aflush, around>>
         \/ an[h] + 1 = RoundPackets /\ AfterSlot(h, c)
  BY <1>1, ReadCases
<1>3. /\ apc \in [Halves -> {"tile", "acc", "flush", "drain", "done"}]
      /\ around \in [Halves -> Nat] /\ aslot \in [Halves -> Slots]
      /\ an \in [Halves -> 0 .. RoundPackets - 1] /\ aflush \in [Halves -> Nat]
      /\ aover \in [Halves -> BOOLEAN] /\ asaw \in [Halves -> BOOLEAN]
  BY DEF KInv, KTypes
<1>4. c \in BOOLEAN
  <2>1. partial[h][aslot[h]] # <<>> /\ apc[h] = "acc"
    BY ReadCases
  <2>2. PICK r, z, l, v, p : Reading(h, r, z, l, v, p) /\ r = around[h] + 1
    BY <2>1 DEF Reading
  <2>3. QED
    BY <1>1, <2>2, HeadPacket
<1>5. RoundPackets \in Nat \ {0} /\ Slots = 0 .. NSlots - 1 /\ NSlots \in Nat \ {0}
  BY Sizes, DispatchAssumption DEF Slots
<1>6. /\ asaw'[h] = c /\ asaw' \in [Halves -> BOOLEAN]
      /\ \A g \in Halves : g # h => asaw'[g] = asaw[g]
  BY <1>2, <1>3, <1>4
<1>7. CASE an[h] + 1 # RoundPackets
  <2>1. an' = [an EXCEPT ![h] = @ + 1] /\ UNCHANGED <<aslot, apc, aover, aflush, around>>
    BY <1>2, <1>7
  <2>2. an[h] + 1 \in 0 .. RoundPackets - 1 /\ an[h] + 1 < RoundPackets
    BY <1>3, <1>5, <1>7
  <2>3. /\ an'[h] = an[h] + 1 /\ an' \in [Halves -> 0 .. RoundPackets - 1]
        /\ \A g \in Halves : g # h => an'[g] = an[g]
    BY <1>3, <2>1, <2>2
  <2>4. MidSlot(h)
    BY <1>2, <2>1, <2>2, <2>3 DEF MidSlot
  <2>5. QED
    BY <1>1, <1>3, <1>6, <2>1, <2>3, <2>4
<1>8. CASE an[h] + 1 = RoundPackets
  <2>1. AfterSlot(h, c)
    BY <1>2, <1>8
  <2>2. /\ an'[h] = 0 /\ an' \in [Halves -> 0 .. RoundPackets - 1]
        /\ aover'[h] = c /\ aover' \in [Halves -> BOOLEAN]
        /\ \A g \in Halves : g # h => an'[g] = an[g] /\ aover'[g] = aover[g]
    BY <1>3, <1>4, <1>5, <2>1 DEF AfterSlot
  <2>3. CASE aslot[h] + 1 < NSlots
    <3>1. aslot' = [aslot EXCEPT ![h] = @ + 1] /\ UNCHANGED <<apc, aflush, around>>
      BY <2>1, <2>3 DEF AfterSlot
    <3>2. aslot[h] + 1 \in Slots
      BY <1>3, <1>5, <2>3
    <3>3. /\ aslot'[h] = aslot[h] + 1 /\ aslot' \in [Halves -> Slots]
          /\ \A g \in Halves : g # h => aslot'[g] = aslot[g]
      BY <1>3, <3>1, <3>2
    <3>4. NextSlot(h)
      BY <1>1, <1>2, <1>8, <2>2, <3>1, <3>3 DEF NextSlot
    <3>5. QED
      BY <1>1, <1>3, <1>6, <2>2, <3>1, <3>3, <3>4
  <2>4. CASE ~(aslot[h] + 1 < NSlots)
    <3>1. PICK w : w = IF c THEN "flush" ELSE "acc"
      OBVIOUS
    <3>2. /\ aslot' = [aslot EXCEPT ![h] = 0] /\ apc' = [apc EXCEPT ![h] = w]
          /\ aflush' = [aflush EXCEPT ![h] = 0] /\ around' = [around EXCEPT ![h] = around[h] + 1]
      BY <2>1, <2>4, <3>1 DEF AfterSlot
    <3>3. /\ aslot'[h] = 0 /\ apc'[h] = w /\ aflush'[h] = 0 /\ around'[h] = around[h] + 1
          /\ \A g \in Halves : g # h => /\ aslot'[g] = aslot[g] /\ apc'[g] = apc[g]
                                        /\ aflush'[g] = aflush[g] /\ around'[g] = around[g]
      BY <1>3, <3>2
    <3>4. aslot' \in [Halves -> Slots] /\ aflush' \in [Halves -> Nat]
          /\ around' \in [Halves -> Nat]
          /\ apc' \in [Halves -> {"tile", "acc", "flush", "drain", "done"}]
      <4>1. w \in {"flush", "acc"} /\ 0 \in Slots /\ around[h] + 1 \in Nat
        BY <1>3, <1>5, <3>1
      <4>2. QED
        BY <1>3, <3>2, <4>1
    <3>5. aslot[h] + 1 = NSlots
      BY <1>3, <1>5, <2>4
    <3>6. NextRound(h)
      BY <1>1, <1>8, <2>2, <3>1, <3>3, <3>5 DEF NextRound
    <3>7. QED
      BY <1>1, <1>6, <2>2, <3>3, <3>4, <3>6
  <2>5. QED
    BY <2>3, <2>4
<1>9. QED
  BY <1>7, <1>8

LEMMA KRead ==
    ASSUME KInv, IInv', NEW h \in Halves, AccRead(h)
    PROVE  KInv'
<1>1. /\ apc[h] = "acc" /\ partial[h][aslot[h]] # <<>>
      /\ partial' = [partial EXCEPT ![h][aslot[h]] = Tail(@)]
      /\ UNCHANGED <<dvars, routes, log, svars, abase, y_mem>>
      /\ y_acc' = Add(h, Head(partial[h][aslot[h]]))
  BY ReadCases
<1>2. KTypes /\ AccInv(h) /\ IInv /\ LogInv /\ AccPlace(h) /\ AccFlags(h)
  BY DEF KInv, AccInv
<1>3. PICK r, z, l, v, p :
         Reading(h, r, z, l, v, p) /\ r = around[h] + 1 /\ z = aslot[h] /\ p = Head(partial[h][z])
  BY <1>1 DEF Reading
<1>4. /\ r \in DOMAIN log /\ r \in Nat /\ around[h] < Len(log) /\ around[h] \in Nat
      /\ log[r].base = abase[h] /\ ~Stops(r) /\ Closes(r) \in BOOLEAN /\ z \in Slots
  <2>1. /\ r \in DOMAIN log /\ r \in Nat /\ around[h] < Len(log) /\ around[h] \in Nat
        /\ ~Stops(r) /\ Closes(r) \in BOOLEAN /\ z \in Slots
    BY <1>3, HeadPacket
  <2>2. log[r].base = abase[h]
    BY <1>1, <1>3, <2>1, AccHead
  <2>3. QED
    BY <2>1, <2>2
<1>5. /\ MidSlot(h) \/ NextSlot(h) \/ NextRound(h)
      /\ asaw'[h] = Closes(r)
      /\ \A g \in Halves : g # h =>
            UNCHANGED <<apc[g], aslot[g], an[g], aover[g], asaw[g], aflush[g], around[g]>>
  BY <1>3, ReadPlaces
<1>6. /\ \A k \in Tokens, w \in HVecs :
            y_acc'[h][k][w] = Products(Summed(h, k, w)', abase[h] + k)
      /\ \A g \in Halves : g # h => y_acc'[g] = y_acc[g]
      /\ y_acc' \in [Halves -> [Tokens -> [HVecs -> Sums]]]
  <2>1. y_acc' = Add(h, p) /\ abase'[h] = abase[h] /\ log' = log
    BY <1>1, <1>3
  <2>2. QED
    BY <1>3, <1>5, <2>1, SumMoves
<1>7. \A s \in Slots : PRead(h, s)' = IF s = z THEN PRead(h, s) + 1 ELSE PRead(h, s)
  BY <1>1, <1>2, <1>3, <1>5, ReadMoves
<1>8. \A s : PWritten(h, s)' = PWritten(h, s)
  <2>1. UNCHANGED <<spc, np, hdr_out>>
    BY <1>1 DEF dvars, fifos, svars
  <2>2. QED
    BY <1>1, <2>1 DEF PWritten, Got, RoundPackets
<1>9. /\ \A s \in Slots : PFifo(h, s)'
      /\ \A g \in Halves : g # h => partial'[g] = partial[g]
      /\ partial' \in [Halves -> [Slots -> Seq(PacketRecs)]]
  <2>1. /\ PRead(h, z)' = PRead(h, z) + 1
        /\ \A s \in Slots : s # z => PRead(h, s)' = PRead(h, s)
    BY <1>4, <1>7
  <2>2. partial[h][z] # <<>> /\ partial' = [partial EXCEPT ![h][z] = Tail(@)] /\ log' = log
    BY <1>1, <1>3
  <2>3. QED
    BY <1>4, <1>8, <2>1, <2>2, ReadPacket
<1>10. KTypes'
  <2>1. /\ aslot' \in [Halves -> Slots] /\ an' \in [Halves -> 0 .. RoundPackets - 1]
        /\ apc' \in [Halves -> {"tile", "acc", "flush", "drain", "done"}]
        /\ around' \in [Halves -> Nat] /\ aflush' \in [Halves -> Nat]
        /\ aover' \in [Halves -> BOOLEAN] /\ asaw' \in [Halves -> BOOLEAN]
    BY ReadPlaces
  <2>2. UNCHANGED <<spc, shdr, x_cur, np, abase, y_mem>>
    BY <1>1 DEF svars
  <2>3. QED
    BY <1>2, <1>6, <1>9, <2>1, <2>2 DEF KTypes, RoundPackets
<1>11. \A g \in Halves : g # h => SameAcc(g) /\ partial'[g] = partial[g]
  BY <1>1, <1>5, <1>6, <1>9 DEF SameAcc
<1>12. /\ LogInv' /\ \A s \in Slots : SlotInv(s)'
       /\ \A g \in Halves : g # h => AccInv(g)' /\ \A s \in Slots : PFifo(g, s)'
  BY <1>1, <1>11, AccFrame
<1>13. /\ \A a : Stops(a)' = Stops(a) /\ BaseAfter(a)' = BaseAfter(a) /\ Closes(a)' = Closes(a)
       /\ log' = log /\ abase'[h] = abase[h] /\ y_mem'[h] = y_mem[h]
  BY <1>1, SameRounds
<1>14. abase[h] \in Nat /\ abase[h] < N /\ abase[h] = BaseAfter(around[h]) /\ Len(log) \in Nat
       /\ DOMAIN log = 1 .. Len(log) /\ RoundPackets \in Nat \ {0} /\ NSlots \in Nat \ {0}
       /\ an[h] \in Nat /\ aslot[h] \in Nat
  <2>1. abase[h] \in Nat /\ an[h] \in 0 .. RoundPackets - 1
    BY <1>2, AccTypes
  <2>2. Len(log) \in Nat /\ DOMAIN log = 1 .. Len(log)
    BY <1>2, FifoTypes, <1>4
  <2>3. aslot[h] \in Nat
    BY <1>3, <1>4 DEF Slots
  <2>4. QED
    BY <1>1, <1>2, <2>1, <2>2, <2>3, Sizes, DispatchAssumption DEF AccPlace
<1>15. AccPlace(h)' /\ AccFlags(h)'
  <2>1. CASE MidSlot(h)
    <3>1. apc'[h] = "acc" /\ around'[h] = around[h] /\ aslot'[h] = aslot[h] /\ aover'[h] = aover[h]
      BY <2>1 DEF MidSlot
    <3>2. AccPlace(h)'
      BY <1>1, <1>2, <1>13, <3>1 DEF AccPlace
    <3>3. AccFlags(h)'
      BY <1>1, <1>2, <1>3, <1>4, <1>5, <1>13, <3>1 DEF AccFlags
    <3>4. QED
      BY <3>2, <3>3
  <2>2. CASE NextSlot(h)
    <3>1. apc'[h] = "acc" /\ around'[h] = around[h] /\ aslot'[h] = aslot[h] + 1 /\ an'[h] = 0
          /\ aover'[h] = Closes(r)
      BY <1>3, <2>2 DEF NextSlot
    <3>2. AccPlace(h)'
      BY <1>1, <1>2, <1>13, <3>1 DEF AccPlace
    <3>3. aslot'[h] # 0
      BY <1>14, <3>1
    <3>4. AccFlags(h)'
      BY <1>3, <1>4, <1>13, <3>1, <3>3 DEF AccFlags
    <3>5. QED
      BY <3>2, <3>4
  <2>3. CASE NextRound(h)
    <3>1. /\ around'[h] = r /\ aslot'[h] = 0 /\ an'[h] = 0 /\ aover'[h] = Closes(r)
          /\ aflush'[h] = 0 /\ apc'[h] = (IF Closes(r) THEN "flush" ELSE "acc")
      BY <1>3, <2>3 DEF NextRound
    <3>2. r > 0 /\ r <= Len(log)
      BY <1>3, <1>4, <1>14
    <3>3. CASE Closes(r)
      <4>1. apc'[h] = "flush"
        BY <3>1, <3>3
      <4>2. 0 < (ATileN(h) * HalfVecs)'
        <5>1. ATileN(h)' \in Nat \ {0}
          BY <1>13, <1>14, DispatchAssumption DEF ATileN
        <5>2. HalfVecs \in Nat \ {0}
          BY Sizes
        <5>3. QED
          BY <5>1, <5>2
      <4>3. AccPlace(h)'
        BY <1>4, <1>13, <1>14, <3>1, <3>2, <3>3, <4>1, <4>2 DEF AccPlace
      <4>4. QED
        BY <4>1, <4>3 DEF AccFlags
    <3>4. CASE ~Closes(r)
      <4>1. apc'[h] = "acc"
        BY <3>1, <3>4
      <4>2. BaseAfter(r) = abase[h]
        BY <1>4, <3>2, <3>4 DEF BaseAfter
      <4>3. AccPlace(h)'
        BY <1>4, <1>13, <1>14, <3>1, <3>2, <4>1, <4>2 DEF AccPlace
      <4>4. AccFlags(h)'
        BY <3>1, <3>4, <4>1 DEF AccFlags
      <4>5. QED
        BY <4>3, <4>4
    <3>5. QED
      BY <3>3, <3>4
  <2>4. QED
    BY <1>5, <2>1, <2>2, <2>3
<1>16. AccSums(h)'
  BY <1>6, <1>13 DEF AccSums
<1>17. AccRows(h)'
  <2>1. apc'[h] = "flush" => aflush'[h] = 0
    BY <1>5 DEF MidSlot, NextSlot, NextRound
  <2>2. \A n : Expected(n)' = Expected(n)
    BY <1>1 DEF Expected
  <2>3. AccRows(h) /\ routes' = routes
    BY <1>1, <1>2 DEF AccInv
  <2>4. QED
    BY <1>1, <1>13, <2>1, <2>2, <2>3 DEF AccRows
<1>18. \A g \in Halves : AccInv(g)' /\ \A s \in Slots : PFifo(g, s)'
  BY <1>9, <1>12, <1>15, <1>16, <1>17 DEF AccInv
<1>19. QED
  BY <1>10, <1>12, <1>18 DEF KInv

--------------------------------------------------------------------------------
(* The invariant holds from the start, and for ever. *)

LEMMA LogInit ==
    ASSUME KInit
    PROVE  LogInv
<1>1. /\ log = <<>> /\ routes = <<>> /\ pc = "tile" /\ tile_base = 0 /\ t = 0
      /\ Len(log) = 0 /\ DOMAIN log = {} /\ Len(routes) = 0
  BY DEF KInit, DInit
<1>2. N \in Nat /\ NTileMax \in Nat
  BY DispatchAssumption
<1>3. LogType /\ HdrBuilt /\ LogShape /\ LogOrder
  <2>1. LogType
    BY <1>1 DEF LogType
  <2>2. QED
    BY <1>1, <2>1 DEF HdrBuilt, LogShape, LogOrder
<1>4. LogEnd
  BY <1>1, <1>2 DEF LogEnd, Closed, InTile, BaseAfter
<1>5. RoutesOK
  <2>1. routes \in Seq((SUBSET Experts) \ {{}}) /\ ~InTile
    BY <1>1 DEF InTile
  <2>2. Len(routes) = IF tile_base < N THEN tile_base ELSE N
    BY <1>1, <1>2
  <2>3. QED
    BY <2>1, <2>2 DEF RoutesOK
<1>6. CacheOK /\ Delivered /\ OnceInTile
  BY <1>1 DEF CacheOK, InTile, Delivered, OnceInTile
<1>7. QED
  BY <1>3, <1>4, <1>5, <1>6 DEF LogInv

LEMMA KTypesInit ==
    ASSUME KInit
    PROVE  KTypes
<1>1. 0 \in Slots /\ 0 \in 0 .. RoundPackets - 1
  BY Sizes DEF Slots
<1>2. Filler(FALSE) \in Hdrs
  <2>1. IInv /\ hdr = [s \in Slots |-> Filler(FALSE)]
    BY IInvInit DEF KInit, DInit
  <2>2. hdr \in [Slots -> Hdrs]
    BY <2>1 DEF IInv, TypeOK
  <2>3. hdr[0] = Filler(FALSE) /\ hdr[0] \in Hdrs
    BY <1>1, <2>1, <2>2
  <2>4. QED
    BY <2>3
<1>3. y_acc \in [Halves -> [Tokens -> [HVecs -> Sums]]]
  <2>1. [k \in Tokens |-> [v \in HVecs |-> EmptyBag]] \in [Tokens -> [HVecs -> Sums]]
    BY NoProducts
  <2>2. QED
    BY <2>1 DEF KInit
<1>4. /\ spc \in [Slots -> {"hdr", "x", "out", "tail", "done"}]
      /\ shdr \in [Slots -> Hdrs]
      /\ x_cur \in [Slots -> Seq(Nat \cup {Zero})]
      /\ np \in [Slots -> [Halves -> Nat]]
  <2>1. spc \in [Slots -> {"hdr", "x", "out", "tail", "done"}]
    BY DEF KInit
  <2>2. shdr \in [Slots -> Hdrs]
    BY <1>2 DEF KInit
  <2>3. x_cur \in [Slots -> Seq(Nat \cup {Zero})]
    BY DEF KInit
  <2>4. np \in [Slots -> [Halves -> Nat]]
    BY DEF KInit
  <2>5. QED
    BY <2>1, <2>2, <2>3, <2>4
<1>5. /\ partial \in [Halves -> [Slots -> Seq(PacketRecs)]]
      /\ y_mem \in [Halves -> Seq(Sums)]
  BY DEF KInit
<1>6. /\ apc \in [Halves -> {"tile", "acc", "flush", "drain", "done"}]
      /\ around \in [Halves -> Nat] /\ abase \in [Halves -> Nat]
      /\ aslot \in [Halves -> Slots] /\ an \in [Halves -> 0 .. RoundPackets - 1]
      /\ aover \in [Halves -> BOOLEAN] /\ asaw \in [Halves -> BOOLEAN]
      /\ aflush \in [Halves -> Nat]
  BY <1>1 DEF KInit
<1>7. QED
  BY <1>3, <1>4, <1>5, <1>6 DEF KTypes

LEMMA KInvInit ==
    ASSUME KInit
    PROVE  KInv
<1>1. IInv /\ LogInv /\ KTypes
  BY IInvInit, LogInit, KTypesInit DEF KInit
<1>2. Len(log) = 0 /\ DOMAIN log = {} /\ pc = "tile"
  BY DEF KInit, DInit
<1>3. 0 * RoundBeats = 0 /\ 0 * RoundPackets = 0 /\ 0 * HalfVecs = 0
  BY Sizes
<1>4. ASSUME NEW s \in Slots
      PROVE  SlotInv(s) /\ Got(s) = 0 /\ spc[s] = "hdr"
  <2>1. hdr_out[s] = <<>> /\ x_out[s] = <<>> /\ spc[s] = "hdr"
    BY DEF KInit, DInit
  <2>2. Len(hdr_out[s]) = 0 /\ Len(x_out[s]) = 0
    BY <2>1
  <2>3. Got(s) = 0 /\ HdrFifo(s)
    BY <1>2, <2>2 DEF Got, HdrFifo
  <2>4. XFifo(s)
    BY <1>2, <1>3, <2>1, <2>2, <2>3 DEF XFifo, XRead, XWritten
  <2>5. SlotOK(s)
    BY <2>1, <2>3 DEF SlotOK
  <2>6. QED
    BY <2>1, <2>3, <2>4, <2>5 DEF SlotInv
<1>5. ASSUME NEW h \in Halves
      PROVE  apc[h] = "tile" /\ around[h] = 0 /\ abase[h] = 0 /\ Len(y_mem[h]) = 0
             /\ \A s \in Slots : Len(partial[h][s]) = 0
  BY <1>5 DEF KInit
<1>6. ASSUME NEW h \in Halves, NEW s \in Slots
      PROVE  PFifo(h, s)
  <2>1. PRead(h, s) = 0
    BY <1>3, <1>5 DEF PRead, InRound
  <2>2. PWritten(h, s) = 0
    BY <1>3, <1>4 DEF PWritten
  <2>3. QED
    BY <1>5, <2>1, <2>2 DEF PFifo
<1>7. ASSUME NEW h \in Halves
      PROVE  AccInv(h)
  <2>1. AccPlace(h)
    BY <1>2, <1>5 DEF AccPlace, BaseAfter
  <2>2. AccFlags(h) /\ AccSums(h)
    BY <1>5 DEF AccFlags, AccSums
  <2>3. AccRows(h)
    <3>1. (IF abase[h] < N THEN abase[h] ELSE N) = 0
      BY <1>5, DispatchAssumption
    <3>2. QED
      BY <1>3, <1>5, <3>1 DEF AccRows
  <2>4. QED
    BY <2>1, <2>2, <2>3 DEF AccInv
<1>8. QED
  BY <1>1, <1>4, <1>6, <1>7 DEF KInv

(* Every step of the kernel is a step of the dispatcher and its FIFOs, or  *)
(* leaves them alone.                                                      *)
LEMMA KernelStep ==
    ASSUME [KNext]_kvars
    PROVE  [DNext]_dvars
<1>1. CASE DispatchStep
  BY <1>1 DEF DispatchStep, DNext
<1>2. ASSUME NEW s \in Slots, Slot(s)
      PROVE  [DNext]_dvars
  <2>1. SlotReadHdr(s) => TakeHdr(s)
    BY DEF SlotReadHdr
  <2>2. SlotReadX(s) => TakeX(s)
    BY DEF SlotReadX
  <2>3. \A h \in Halves : SlotEmit(s, h) \/ SlotTail(s, h) => UNCHANGED dvars
    BY DEF SlotEmit, SlotTail
  <2>4. QED
    BY <1>2, <2>1, <2>2, <2>3 DEF Slot, DNext
<1>3. ASSUME NEW h \in Halves, Accumulate(h)
      PROVE  UNCHANGED dvars
  BY <1>3 DEF Accumulate, AccTile, AccRead, AccFlush, AccDrain
<1>4. KFinished \/ UNCHANGED kvars => UNCHANGED dvars
  BY DEF KFinished, kvars
<1>5. QED
  BY <1>1, <1>2, <1>3, <1>4 DEF KNext

LEMMA KStutter ==
    ASSUME KInv, IInv', UNCHANGED kvars
    PROVE  KInv'
<1>1. UNCHANGED <<dvars, routes, log, around, svars, partial, avars>>
  BY DEF kvars
<1>2. "a" \in Halves
  BY DEF Halves
<1>3. \A h \in Halves : SameAcc(h) /\ partial'[h] = partial[h]
  BY <1>1 DEF SameAcc, avars
<1>4. KTypes'
  BY <1>1, TypesKept DEF KInv
<1>5. /\ LogInv' /\ \A s \in Slots : SlotInv(s)'
      /\ \A g, s : s \in Slots => PWritten(g, s)' = PWritten(g, s)
      /\ \A g \in Halves : g # "a" => AccInv(g)' /\ \A s \in Slots : PFifo(g, s)'
  BY <1>1, <1>2, <1>3, AccFrame
<1>6. ASSUME NEW h \in Halves
      PROVE  AccInv(h)' /\ \A s \in Slots : PFifo(h, s)'
  <2>1. AccInv(h)'
    BY <1>1, <1>3, SameAccInv DEF KInv
  <2>2. \A s : PRead(h, s)' = PRead(h, s)
    BY <1>1, SameRead
  <2>3. \A s \in Slots : PFifo(h, s)'
    BY <1>1, <1>3, <1>5, <2>2, SamePFifo DEF KInv
  <2>4. QED
    BY <2>1, <2>3
<1>7. QED
  BY <1>4, <1>5, <1>6 DEF KInv

LEMMA KInvStep ==
    ASSUME LocalExpertBase = 0, KInv, [KNext]_kvars
    PROVE  KInv'
<1>1. IInv'
  <2>1. IInv /\ [DNext]_dvars
    BY KernelStep DEF KInv
  <2>2. QED
    BY <2>1, IInvStep
<1>2. CASE DispatchStep
  BY <1>1, <1>2, KDispatch
<1>3. ASSUME NEW s \in Slots, Slot(s)
      PROVE  KInv'
  <2>1. CASE SlotReadHdr(s)
    BY <1>1, <2>1, KReadHdr
  <2>2. CASE SlotReadX(s)
    BY <1>1, <2>2, KReadX
  <2>3. ASSUME NEW h \in Halves, SlotEmit(s, h)
        PROVE  KInv'
    BY <1>1, <2>3, KEmit
  <2>4. ASSUME NEW h \in Halves, SlotTail(s, h)
        PROVE  KInv'
    BY <1>1, <2>4, KTail
  <2>5. QED
    BY <1>3, <2>1, <2>2, <2>3, <2>4 DEF Slot
<1>4. ASSUME NEW h \in Halves, Accumulate(h)
      PROVE  KInv'
  <2>1. CASE AccTile(h)
    BY <1>1, <2>1, KTile
  <2>2. CASE AccRead(h)
    BY <1>1, <2>2, KRead
  <2>3. CASE AccFlush(h)
    BY <1>1, <2>3, KFlush
  <2>4. CASE AccDrain(h)
    BY <1>1, <2>4, KDrain
  <2>5. QED
    BY <1>4, <2>1, <2>2, <2>3, <2>4 DEF Accumulate
<1>5. CASE KFinished \/ UNCHANGED kvars
  BY <1>1, <1>5, KStutter DEF KFinished
<1>6. QED
  BY <1>2, <1>3, <1>4, <1>5 DEF KNext

--------------------------------------------------------------------------------
(* What the invariant says of y_mem and of the end. *)

LEMMA RowsExact ==
    ASSUME KInv
    PROVE  OutputExact
<1>1. ASSUME NEW h \in Halves
      PROVE  \A i \in DOMAIN y_mem[h] : y_mem[h][i] = Expected((i - 1) \div HalfVecs)
  <2>1. DOMAIN y_mem[h] = 1 .. Len(y_mem[h])
    <3>1. y_mem[h] \in Seq(Sums)
      BY AccTypes DEF KInv
    <3>2. QED
      BY <3>1, SeqFacts
  <2>2. QED
    BY <2>1 DEF KInv, AccInv, AccRows
<1>2. QED
  BY <1>1 DEF OutputExact

LEMMA NothingStays ==
    ASSUME KInv
    PROVE  NothingLeft
<1>1. SUFFICES ASSUME AllReturned
               PROVE  /\ \A s \in Slots : hdr_out[s] = <<>> /\ x_out[s] = <<>>
                      /\ \A h \in Halves, s \in Slots : partial[h][s] = <<>>
                      /\ \A h \in Halves : Len(y_mem[h]) = N * HalfVecs
  BY DEF NothingLeft
<1>2. IInv /\ LogInv /\ KTypes /\ pc = "done"
  BY <1>1 DEF KInv, AllReturned
<1>3. PICK w \in Nat : w = Len(log) /\ DOMAIN log = 1 .. w /\ w * RoundBeats \in Nat
                       /\ w * RoundPackets \in Nat
  <2>1. Len(log) \in Nat /\ DOMAIN log = 1 .. Len(log)
    BY <1>2, Entries DEF LogInv
  <2>2. Len(log) * RoundBeats \in Nat /\ Len(log) * RoundPackets \in Nat
    BY <2>1, Sizes
  <2>3. QED
    BY <2>1, <2>2, Zenon
<1>4. ASSUME NEW s \in Slots
      PROVE  /\ hdr_out[s] = <<>> /\ x_out[s] = <<>> /\ Got(s) = w /\ w >= 1
             /\ spc[s] = "done" /\ \A h \in Halves : np[s][h] = 1
  <2>1. spc[s] = "done" /\ SlotInv(s)
    BY <1>1 DEF AllReturned, KInv
  <2>2. Got(s) \in 1 .. w
    BY <1>2, <1>3, <2>1, SlotReach
  <2>3. Got(s) = w
    <3>1. Stops(Got(s))
      BY <2>1 DEF SlotInv, SlotOK
    <3>2. QED
      BY <1>2, <1>3, <2>2, <3>1 DEF LogInv, LogShape
  <2>4. hdr_out[s] = <<>>
    <3>1. hdr_out[s] \in Seq(Hdrs) /\ Len(hdr_out[s]) \in Nat
      BY <1>2, FifoTypes
    <3>2. Len(hdr_out[s]) = 0
      BY <1>3, <2>3, <3>1 DEF Got
    <3>3. QED
      BY <3>1, <3>2, SeqFacts
  <2>5. x_out[s] = <<>>
    <3>1. x_out[s] \in Seq(Nat \cup {Zero}) /\ Len(x_out[s]) \in Nat
      BY <1>2, FifoTypes
    <3>2. XRead(s) = w * RoundBeats /\ XWritten = w * RoundBeats
      BY <1>2, <1>3, <2>1, <2>3 DEF XRead, XWritten
    <3>3. XRead(s) + Len(x_out[s]) = XWritten
      BY <2>1 DEF SlotInv, XFifo
    <3>4. PICK a \in Nat : a = w * RoundBeats
      BY <1>3
    <3>5. Len(x_out[s]) = 0
      BY <3>1, <3>2, <3>3, <3>4
    <3>6. QED
      BY <3>1, <3>5, SeqFacts
  <2>6. \A h \in Halves : np[s][h] = 1
    BY <2>1 DEF SlotInv, SlotOK
  <2>7. QED
    BY <2>1, <2>2, <2>3, <2>4, <2>5, <2>6
<1>5. ASSUME NEW h \in Halves, NEW s \in Slots
      PROVE  partial[h][s] = <<>>
  <2>1. apc[h] = "done" /\ AccPlace(h) /\ PFifo(h, s)
    BY <1>1 DEF AllReturned, KInv, AccInv
  <2>2. around[h] + 1 = w /\ around[h] \in Nat
    BY <1>2, <1>3, <2>1, AccTypes DEF AccPlace
  <2>3. PRead(h, s) = around[h] * RoundPackets + 1
    BY <2>1 DEF PRead, InRound
  <2>4. PWritten(h, s) = (w - 1) * RoundPackets + 1
    BY <1>4 DEF PWritten
  <2>5. w - 1 = around[h]
    BY <1>3, <2>2
  <2>6. PICK a \in Nat : a = around[h] * RoundPackets
    BY <2>2, Sizes
  <2>7. partial[h][s] \in Seq(PacketRecs) /\ Len(partial[h][s]) \in Nat
    BY <1>2, AccTypes
  <2>8. PRead(h, s) + Len(partial[h][s]) = PWritten(h, s)
    BY <2>1 DEF PFifo
  <2>9. PRead(h, s) = a + 1 /\ PWritten(h, s) = a + 1
    BY <2>3, <2>4, <2>5, <2>6
  <2>10. Len(partial[h][s]) = 0
    <3>1. PICK m \in Nat : m = Len(partial[h][s])
      BY <2>7
    <3>2. (a + 1) + m = a + 1
      BY <2>8, <2>9, <3>1
    <3>3. m = 0
      BY <3>2
    <3>4. QED
      BY <3>1, <3>3
  <2>11. QED
    BY <2>7, <2>10, SeqFacts
<1>6. ASSUME NEW h \in Halves
      PROVE  Len(y_mem[h]) = N * HalfVecs
  <2>1. apc[h] = "done" /\ AccPlace(h) /\ AccRows(h) /\ abase[h] \in Nat
    BY <1>1, <1>2, AccTypes DEF AllReturned, KInv, AccInv
  <2>2. ~(abase[h] < N)
    BY <2>1, DispatchAssumption DEF AccPlace
  <2>3. Len(y_mem[h]) = N * HalfVecs + 0
    BY <2>1, <2>2 DEF AccRows
  <2>4. N * HalfVecs \in Nat
    BY Sizes, DispatchAssumption
  <2>5. QED
    BY <2>3, <2>4
<1>7. QED
  BY <1>4, <1>5, <1>6

--------------------------------------------------------------------------------
(* Whatever a run of the kernel does, its dispatcher does what MoeDispatch *)
(* says: what is proved of DSpec holds inside the kernel.                  *)
THEOREM KernelDispatches == KSpec => DSpec
<1>1. KInit => DInit
  BY DEF KInit
<1>2. [KNext]_kvars => [DNext]_dvars
  BY KernelStep
<1>3. QED
  BY <1>1, <1>2, PTL DEF KSpec, DSpec

(* Every vector in y_mem is the sum of exactly the products of its token   *)
(* with the experts the gate routed it to, for every size of the kernel.   *)
THEOREM KernelOutputExact ==
    ASSUME LocalExpertBase = 0
    PROVE  KSpec => []OutputExact
<1>1. KInit => KInv
  BY KInvInit
<1>2. KInv /\ [KNext]_kvars => KInv'
  BY KInvStep
<1>3. KInv => OutputExact
  BY RowsExact
<1>4. QED
  BY <1>1, <1>2, <1>3, PTL DEF KSpec

(* When the kernel returns, no FIFO holds anything for the next call to    *)
(* read, and y is complete.                                                *)
THEOREM KernelNothingLeft ==
    ASSUME LocalExpertBase = 0
    PROVE  KSpec => []NothingLeft
<1>1. KInit => KInv
  BY KInvInit
<1>2. KInv /\ [KNext]_kvars => KInv'
  BY KInvStep
<1>3. KInv => NothingLeft
  BY NothingStays
<1>4. QED
  BY <1>1, <1>2, <1>3, PTL DEF KSpec
================================================================================
