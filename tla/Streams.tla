-------------------------------- MODULE Streams --------------------------------
(***************************************************************************)
(* What the scripts of a kernel's tasks (Dataflow) are built from: blocking *)
(* reads and writes of a TAPA stream, and counted loops.                   *)
(***************************************************************************)
EXTENDS Naturals, Sequences

(* stream.read(), of a datum the code takes for m, and stream.write(m). *)
R(c, m) == <<[dir |-> "r", ch |-> c, msg |-> m]>>
W(c, m) == <<[dir |-> "w", ch |-> c, msg |-> m]>>

(* q[1], then q[2], and so on to q[n]. *)
InTurn(n, q) ==
    LET upTo[i \in 0 .. n] == IF i = 0 THEN <<>> ELSE upTo[i - 1] \o q[i] IN upTo[n]

(* for (i = 1; i <= n; i++) Body(i) *)
Loop(n, Body(_)) == InTurn(n, [i \in 1 .. n |-> Body(i)])
================================================================================
