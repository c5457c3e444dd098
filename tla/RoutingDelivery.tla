---------------------------- MODULE RoutingDelivery ----------------------------
(***************************************************************************)
(* What the dispatcher of a batched MoE kernel promises, without its       *)
(* pending bank, slots or rounds.  Tokens of one tile are accepted, each   *)
(* with the experts it was routed to; routings are handed to the compute   *)
(* slots in batches; a batch never holds a routing that was handed over    *)
(* before, and the tile is closed only when nothing is left.               *)
(***************************************************************************)
EXTENDS Naturals

CONSTANTS Token,   \* tile-relative token ids
          Expert   \* rows of the expert weight memory of this card

VARIABLES routed,  \* routings <<token, expert>> accepted in the open tile
          sent     \* those of them handed to the compute slots

vars == <<routed, sent>>

Init == routed = {} /\ sent = {}

(* A token enters the tile once, with the set of experts it goes to. *)
Accept(t, E) ==
    /\ \A r \in routed : r[1] # t
    /\ routed' = routed \cup ({t} \X E)
    /\ UNCHANGED sent

Deliver(B) ==
    /\ B \subseteq routed \ sent
    /\ sent' = sent \cup B
    /\ UNCHANGED routed

NextTile ==
    /\ sent = routed
    /\ routed' = {} /\ sent' = {}

Next ==
    \/ \E t \in Token, E \in SUBSET Expert : Accept(t, E)
    \/ \E B \in SUBSET (Token \X Expert) : Deliver(B)
    \/ NextTile

Spec == Init /\ [][Next]_vars
================================================================================
