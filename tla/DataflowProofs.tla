----------------------------- MODULE DataflowProofs -----------------------------
(***************************************************************************)
(* Why the tasks of a kernel go on to the end, each read taking the datum  *)
(* it is meant for, whatever their order and the depths of their streams.  *)
(*                                                                         *)
(* 1. For every network with one reader and one writer per stream: a step  *)
(*    of one task neither stops another nor changes what its step does, so *)
(*    one schedule stands for all of them.                                 *)
(* 2. For every network whose scripts are the parts the tasks take in one  *)
(*    sequence of exchanges, a choreography: they are sound.               *)
(* 3. A compute slot of moe_batch_16b (MoeSlot) is such a network, for     *)
(*    every size, every depth and every number of rounds.                  *)
(* 4. So is the BM25 indexer (Bm25Indexer), for every number of channels   *)
(*    and all batches.                                                     *)
(***************************************************************************)
EXTENDS Dataflow, MoeSlot, Bm25Indexer, FoldTheorems, FiniteSetTheorems, TLAPS

--------------------------------------------------------------------------------
(* 1. One schedule stands for all.                                          *)

Ops(r, k) == DOMAIN Script[r][k]

(* Shape of a state: every task inside its script, every stream a          *)
(* sequence no longer than its depth.                                      *)
NetType ==
    /\ run \in Run
    /\ pos \in [Task -> Nat]
    /\ \A k \in Task : pos[k] <= Len(Script[run][k])
    /\ DOMAIN fifo = Chan
    /\ fifo = [c \in Chan |-> fifo[c]]
    /\ \A c \in Chan : \E S : fifo[c] \in Seq(S)
    /\ \A c \in Chan : Len(fifo[c]) <= Depth[run][c]

(* What a step of task k does to the positions and to the streams.         *)
PosAfter(k, p) == [p EXCEPT ![k] = @ + 1]
Passed(k, q) == IF Op(k).dir = "r" THEN Tail(q) ELSE Append(q, Op(k).msg)
FifoAfter(k, f) == [f EXCEPT ![Op(k).ch] = Passed(k, @)]

(* What WellFormed says of the kernel of this run. *)
LEMMA ThisKernel ==
    ASSUME WellFormed, run \in Run
    PROVE  /\ \A c \in Chan : Depth[run][c] \in Nat \ {0}
           /\ \A k \in Task : /\ Len(Script[run][k]) \in Nat
                              /\ DOMAIN Script[run][k] = 1 .. Len(Script[run][k])
                              /\ \A i \in DOMAIN Script[run][k] :
                                    /\ Script[run][k][i].ch \in Chan
                                    /\ Script[run][k][i].dir \in {"r", "w"}
           /\ \A j, k \in Task : \A dir \in {"r", "w"} :
                 j # k => Ends(run, j, dir) \cap Ends(run, k, dir) = {}
<1> DEFINE ends == {<<k, dir, Ends(run, k, dir)>> : k \in Task, dir \in {"r", "w"}}
<1>1. \A e, f \in ends : e[1] # f[1] /\ e[2] = f[2] => e[3] \cap f[3] = {}
  BY DEF WellFormed, AllEnds, Task
<1>2. ASSUME NEW j \in Task, NEW k \in Task, NEW dir \in {"r", "w"}, j # k
      PROVE  Ends(run, j, dir) \cap Ends(run, k, dir) = {}
  <2>1. <<j, dir, Ends(run, j, dir)>> \in ends /\ <<k, dir, Ends(run, k, dir)>> \in ends
    OBVIOUS
  <2> HIDE DEF ends
  <2>2. QED
    BY <1>1, <1>2, <2>1
<1>3. QED
  BY <1>2 DEF WellFormed, Task, Chan

LEMMA SameKernel == run' = run => Task' = Task /\ Chan' = Chan
  BY DEF Task, Chan

LEMMA CurrentOp ==
    ASSUME WellFormed, NetType, NEW k \in Task, ~Returned(k)
    PROVE  /\ pos[k] + 1 \in Ops(run, k)
           /\ Op(k).ch \in Chan
           /\ Op(k).dir \in {"r", "w"}
           /\ Op(k).ch \in Ends(run, k, Op(k).dir)
<1>1. /\ Len(Script[run][k]) \in Nat
      /\ DOMAIN Script[run][k] = 1 .. Len(Script[run][k])
      /\ pos[k] \in Nat /\ pos[k] <= Len(Script[run][k])
  BY ThisKernel DEF NetType
<1>2. pos[k] + 1 \in DOMAIN Script[run][k]
  BY <1>1 DEF Returned
<1>3. Op(k).ch \in Chan /\ Op(k).dir \in {"r", "w"}
  BY <1>2, ThisKernel DEF NetType, Op
<1>4. Op(k).ch \in Ends(run, k, Op(k).dir)
  BY <1>2 DEF Ends, Op
<1>5. QED
  BY <1>2, <1>3, <1>4 DEF Ops

(* Two tasks meet at a stream only as its writer and its reader. *)
LEMMA OneEndEach ==
    ASSUME WellFormed, NetType, NEW j \in Task, NEW k \in Task, j # k,
           ~Returned(j), ~Returned(k), Op(j).ch = Op(k).ch
    PROVE  Op(j).dir # Op(k).dir
<1>1. Op(j).ch \in Ends(run, j, Op(j).dir) /\ Op(k).ch \in Ends(run, k, Op(k).dir)
      /\ Op(j).dir \in {"r", "w"} /\ run \in Run
  BY CurrentOp DEF NetType
<1>2. QED
  BY <1>1, ThisKernel

(* A step is: the task can go on, and the state becomes what it makes it.  *)
LEMMA StepIs ==
    ASSUME WellFormed, NetType, NEW k \in Task
    PROVE  Step(k) <=> /\ Can(k)
                       /\ run' = run
                       /\ pos' = PosAfter(k, pos)
                       /\ fifo' = FifoAfter(k, fifo)
<1>1. Can(k) => Op(k).dir \in {"r", "w"}
  BY CurrentOp DEF Can
<1>2. QED
  BY <1>1 DEF Step, Read, Write, Advance, PosAfter, FifoAfter, Passed

LEMMA TailOfAppend ==
    ASSUME NEW S, NEW q \in Seq(S), q # <<>>, NEW m
    PROVE  Tail(Append(q, m)) = Append(Tail(q), m)
<1> DEFINE T == S \cup {m}
<1>1. q \in Seq(T) /\ m \in T
  OBVIOUS
<1>2. QED
  BY <1>1

(* No task takes another's turn: what can go on still can after a step of  *)
(* another task, with the same operation before it.                        *)
THEOREM Persistence ==
    ASSUME WellFormed, NetType, NEW j \in Task, NEW k \in Task, j # k, Can(k), Step(j)
    PROVE  Can(k)' /\ Op(k)' = Op(k)
<1>1. /\ Can(j) /\ run' = run /\ pos' = PosAfter(j, pos) /\ fifo' = FifoAfter(j, fifo)
  BY StepIs
<1>2. pos'[k] = pos[k]
  BY <1>1 DEF PosAfter, NetType
<1>3. Op(k)' = Op(k) /\ ~Returned(k)'
  BY <1>1, <1>2 DEF Op, Returned, Can
<1> DEFINE c == Op(k).ch
<1>4. c \in Chan /\ Op(j).ch \in Chan /\ Op(k).dir \in {"r", "w"} /\ Op(j).dir \in {"r", "w"}
  BY <1>1, CurrentOp DEF Can
<1>5. CASE Op(j).ch # c
  <2>1. fifo'[c] = fifo[c]
    BY <1>1, <1>4, <1>5 DEF FifoAfter, NetType
  <2>2. QED
    BY <1>1, <1>3, <2>1 DEF Can
<1>6. CASE Op(j).ch = c
  <2>1. Op(j).dir # Op(k).dir
    BY <1>1, <1>6, OneEndEach DEF Can
  <2>2. PICK S : fifo[c] \in Seq(S)
    BY <1>4 DEF NetType
  <2>3. CASE Op(k).dir = "r"
    <3>1. fifo'[c] = Append(fifo[c], Op(j).msg)
      BY <1>1, <1>4, <1>6, <2>1, <2>3 DEF FifoAfter, Passed, NetType
    <3>2. fifo'[c] # <<>>
      BY <2>2, <3>1
    <3>3. QED
      BY <1>3, <2>3, <3>2 DEF Can
  <2>4. CASE Op(k).dir = "w"
    <3>1. fifo[c] # <<>> /\ fifo'[c] = Tail(fifo[c])
      BY <1>1, <1>4, <1>6, <2>1, <2>4 DEF FifoAfter, Passed, NetType, Can
    <3>2. Len(fifo'[c]) = Len(fifo[c]) - 1 /\ Len(fifo[c]) \in Nat
      BY <2>2, <3>1
    <3>3. Len(fifo[c]) < Depth[run][c] /\ Depth[run][c] \in Nat
      BY <1>4, <2>4, ThisKernel DEF Can, NetType
    <3>4. QED
      BY <1>1, <1>3, <2>4, <3>2, <3>3 DEF Can
  <2>5. QED
    BY <1>4, <2>3, <2>4
<1>7. QED
  BY <1>5, <1>6

(* The order of two steps does not matter: both orders lead to the same    *)
(* positions and the same contents of every stream.                        *)
THEOREM Commutation ==
    ASSUME WellFormed, NetType, NEW j \in Task, NEW k \in Task, j # k, Can(j), Can(k)
    PROVE  /\ PosAfter(j, PosAfter(k, pos)) = PosAfter(k, PosAfter(j, pos))
           /\ FifoAfter(j, FifoAfter(k, fifo)) = FifoAfter(k, FifoAfter(j, fifo))
<1>1. PosAfter(j, PosAfter(k, pos)) = PosAfter(k, PosAfter(j, pos))
  BY DEF PosAfter, NetType
<1> DEFINE c == Op(k).ch
<1>2. /\ c \in Chan /\ Op(j).ch \in Chan
      /\ Op(k).dir \in {"r", "w"} /\ Op(j).dir \in {"r", "w"}
  BY CurrentOp DEF Can
<1>3. fifo = [d \in Chan |-> fifo[d]]
  BY DEF NetType
<1>4. CASE Op(j).ch # c
  <2> DEFINE d == Op(j).ch
             both == [fifo EXCEPT ![c] = Passed(k, fifo[c]), ![d] = Passed(j, fifo[d])]
  <2>1. FifoAfter(k, FifoAfter(j, fifo)) = both
    BY <1>2, <1>3, <1>4 DEF FifoAfter
  <2>2. FifoAfter(j, FifoAfter(k, fifo)) = both
    BY <1>2, <1>3, <1>4 DEF FifoAfter
  <2>3. QED
    BY <1>1, <2>1, <2>2
<1>5. CASE Op(j).ch = c
  <2>1. Op(j).dir # Op(k).dir
    BY <1>5, OneEndEach DEF Can
  <2>2. PICK S : fifo[c] \in Seq(S)
    BY <1>2 DEF NetType
  <2>3. fifo[c] # <<>>
    BY <1>2, <1>5, <2>1 DEF Can
  <2>4. \A m : Tail(Append(fifo[c], m)) = Append(Tail(fifo[c]), m)
    BY <2>2, <2>3, TailOfAppend
  <2>5. Passed(j, Passed(k, fifo[c])) = Passed(k, Passed(j, fifo[c]))
    BY <1>2, <2>1, <2>4 DEF Passed
  <2>6. FifoAfter(k, FifoAfter(j, fifo)) = [fifo EXCEPT ![c] = Passed(k, Passed(j, fifo[c]))]
    BY <1>2, <1>3, <1>5 DEF FifoAfter
  <2>7. FifoAfter(j, FifoAfter(k, fifo)) = [fifo EXCEPT ![c] = Passed(j, Passed(k, fifo[c]))]
    BY <1>2, <1>3, <1>5 DEF FifoAfter
  <2>8. QED
    BY <1>1, <2>5, <2>6, <2>7
<1>6. QED
  BY <1>4, <1>5

(* NetType holds in every reachable state of a well-formed network, so the *)
(* two theorems apply to all of them.                                      *)
LEMMA NetTypeStep == ASSUME WellFormed, NetType, [Next]_vars PROVE NetType'
<1>1. CASE UNCHANGED vars
  BY <1>1, SameKernel DEF NetType, vars
<1>2. ASSUME NEW k \in Task, Step(k) PROVE NetType'
  <2>1. Can(k) /\ run' = run /\ pos' = PosAfter(k, pos) /\ fifo' = FifoAfter(k, fifo)
    BY <1>2, StepIs
  <2>1a. Task' = Task /\ Chan' = Chan
    BY <2>1, SameKernel
  <2> DEFINE c == Op(k).ch
  <2>2. /\ c \in Chan /\ Op(k).dir \in {"r", "w"} /\ run \in Run
        /\ pos[k] + 1 \in DOMAIN Script[run][k]
    BY <2>1, CurrentOp DEF Can, Ops, NetType
  <2>3. pos' \in [Task -> Nat] /\ \A i \in Task : pos'[i] <= Len(Script[run'][i])
    BY <2>1a, <2>1, <2>2, ThisKernel DEF PosAfter, NetType
  <2>4. /\ fifo'[c] = Passed(k, fifo[c])
        /\ \A d \in Chan : d # c => fifo'[d] = fifo[d]
        /\ DOMAIN fifo' = Chan /\ fifo' = [d \in Chan |-> fifo'[d]]
    BY <2>1a, <2>1, <2>2 DEF FifoAfter, NetType
  <2>5. PICK S : fifo[c] \in Seq(S)
    BY <2>2 DEF NetType
  <2>6. Len(fifo[c]) \in Nat /\ Len(fifo[c]) <= Depth[run][c] /\ Depth[run][c] \in Nat
    BY <2>2, <2>5, ThisKernel DEF NetType
  <2>7. CASE Op(k).dir = "r"
    <3>1. fifo[c] # <<>> /\ fifo'[c] = Tail(fifo[c])
      BY <2>1, <2>4, <2>7 DEF Can, Passed
    <3>2. fifo'[c] \in Seq(S) /\ Len(fifo'[c]) <= Depth[run][c]
      BY <2>5, <2>6, <3>1
    <3>3. QED
      BY <2>1a, <2>1, <2>2, <2>3, <2>4, <3>2 DEF NetType
  <2>8. CASE Op(k).dir = "w"
    <3>1. Len(fifo[c]) < Depth[run][c] /\ fifo'[c] = Append(fifo[c], Op(k).msg)
      BY <2>1, <2>4, <2>8 DEF Can, Passed
    <3> DEFINE T == S \cup {Op(k).msg}
    <3>2. fifo[c] \in Seq(T) /\ Op(k).msg \in T
      BY <2>5
    <3> HIDE DEF T
    <3>3. fifo'[c] \in Seq(T) /\ Len(fifo'[c]) <= Depth[run][c]
      BY <2>6, <3>1, <3>2
    <3>4. QED
      BY <2>1a, <2>1, <2>2, <2>3, <2>4, <3>3 DEF NetType
  <2>9. QED
    BY <2>2, <2>7, <2>8
<1>3. QED
  BY <1>1, <1>2 DEF Next, Finished

LEMMA NetTypeInit == ASSUME WellFormed, Init PROVE NetType
<1>1. \A c \in Chan : fifo[c] \in Seq({}) /\ Len(fifo[c]) = 0 /\ Depth[run][c] \in Nat \ {0}
  BY ThisKernel DEF Init
<1>2. pos \in [Task -> Nat] /\ \A k \in Task : pos[k] = 0 /\ Len(Script[run][k]) \in Nat
  BY ThisKernel DEF Init
<1>3. QED
  BY <1>1, <1>2 DEF Init, NetType

(* In every execution of a well-formed network no stream ever exceeds its  *)
(* depth, and a step of one task leaves every other task that could go on  *)
(* able to, at the same operation.                                         *)
Independent ==
    \A j, k \in Task : j # k /\ Can(k) /\ Step(j) => Can(k)' /\ Op(k)' = Op(k)

THEOREM TasksIndependent ==
    ASSUME WellFormed
    PROVE  Spec => []NetType /\ [][Independent]_vars
<1>1. Init => NetType
  BY NetTypeInit
<1>2. NetType /\ [Next]_vars => NetType'
  BY NetTypeStep
<1>3. NetType => Independent
  BY Persistence DEF Independent
<1>4. QED
  BY <1>1, <1>2, <1>3, PTL DEF Spec

--------------------------------------------------------------------------------
(***************************************************************************)
(* What one schedule shows of all.  Positions alone tell how often a       *)
(* stream was written and read, and so whether a task can go on and which  *)
(* datum it takes.                                                         *)
(***************************************************************************)

Is(r, k, n, dir, c) == Script[r][k][n].dir = dir /\ Script[r][k][n].ch = c

(* How many of the first n operations of task k are of that kind. *)
Times(r, k, dir, c, n) == Cardinality({i \in 1 .. n : Is(r, k, i, dir, c)})

(* An operation's number among those of its kind. *)
Number(r, k, n) == Times(r, k, Script[r][k][n].dir, Script[r][k][n].ch, n)

(* How often stream c was written, or read, when the tasks are at p. *)
End(r, dir, c) == CHOOSE k \in DOMAIN Script[r] : c \in Ends(r, k, dir)
Total(r, p, dir, c) ==
    IF \E k \in DOMAIN Script[r] : c \in Ends(r, k, dir)
    THEN Times(r, End(r, dir, c), dir, c, p[End(r, dir, c)])
    ELSE 0

Places(r) == {p \in [DOMAIN Script[r] -> Nat] : \A k \in DOMAIN Script[r] : p[k] <= Len(Script[r][k])}

CanAt(r, p, k) ==
    /\ p[k] < Len(Script[r][k])
    /\ LET op == Script[r][k][p[k] + 1]
       IN  IF op.dir = "r" THEN Total(r, p, "r", op.ch) < Total(r, p, "w", op.ch)
           ELSE Total(r, p, "w", op.ch) < Total(r, p, "r", op.ch) + Depth[r][op.ch]

(* No task can go on. *)
Blocked(r, p) == \A k \in DOMAIN Script[r] : ~CanAt(r, p, k)

(* The n-th datum read from a stream is taken for the n-th written. *)
Pair(r, j, n, k, m) ==
    /\ Script[r][j][n].dir = "w" /\ Script[r][k][m].dir = "r"
    /\ Script[r][j][n].ch = Script[r][k][m].ch
    /\ Number(r, j, n) = Number(r, k, m)
MatchedUpTo(r, p) ==
    \A j, k \in DOMAIN Script[r] : \A n \in 1 .. p[j], m \in 1 .. p[k] :
        Pair(r, j, n, k, m) => Script[r][j][n].msg = Script[r][k][m].msg
Ended(r) == [k \in DOMAIN Script[r] |-> Len(Script[r][k])]
Matched(r) == MatchedUpTo(r, Ended(r))

(* A stream is read as often as it is written. *)
Balanced(r) ==
    \A c \in DOMAIN Depth[r] : Total(r, Ended(r), "w", c) = Total(r, Ended(r), "r", c)

(* A stream holds what was written and not yet read, in that order. *)
Carries(r, p, c, q) ==
    /\ Total(r, p, "r", c) + Len(q) = Total(r, p, "w", c)
    /\ \A i \in 1 .. Len(q) : \E j \in DOMAIN Script[r] : \E n \in 1 .. p[j] :
          /\ Is(r, j, n, "w", c)
          /\ Number(r, j, n) = Total(r, p, "r", c) + i
          /\ q[i] = Script[r][j][n].msg
NetInv == NetType /\ \A c \in Chan : Carries(run, pos, c, fifo[c])

(* No other state is blocked than the one in which all have returned. *)
OnlyEnds(r) == \A p \in Places(r) : Blocked(r, p) => p = Ended(r)

(* A task that can go on here can where others are further on. *)
OnTheWay == \A p \in Places(run) : Blocked(run, p) => \A k \in Task : pos[k] <= p[k]

--------------------------------------------------------------------------------
LEMMA TimesIs ==
    ASSUME NEW r, NEW k, NEW dir, NEW c, NEW n \in Nat
    PROVE  /\ Times(r, k, dir, c, n) \in Nat
           /\ Times(r, k, dir, c, 0) = 0
           /\ Times(r, k, dir, c, n + 1) =
                 Times(r, k, dir, c, n) + (IF Is(r, k, n + 1, dir, c) THEN 1 ELSE 0)
           /\ \A m \in 0 .. n : Times(r, k, dir, c, m) <= Times(r, k, dir, c, n)
<1> DEFINE S(m) == {i \in 1 .. m : Is(r, k, i, dir, c)}
<1>1. \A m \in Nat : IsFiniteSet(S(m)) /\ Cardinality(S(m)) \in Nat
  <2> TAKE m \in Nat
  <2>1. IsFiniteSet(1 .. m)
    BY FS_Interval
  <2>2. IsFiniteSet(S(m))
    BY <2>1, FS_Subset
  <2> QED
    BY <2>2, FS_CardinalityType
<1>2. S(0) = {}
  OBVIOUS
<1>3. ASSUME Is(r, k, n + 1, dir, c) PROVE Cardinality(S(n + 1)) = Cardinality(S(n)) + 1
  <2>1. S(n + 1) = S(n) \cup {n + 1} /\ n + 1 \notin S(n)
    BY <1>3
  <2> HIDE DEF S
  <2>2. Cardinality(S(n + 1)) = Cardinality(S(n)) + 1
    BY <1>1, <2>1, FS_AddElement
  <2> QED
    BY <2>2
<1>4. ASSUME ~Is(r, k, n + 1, dir, c) PROVE Cardinality(S(n + 1)) = Cardinality(S(n))
  <2>1. S(n + 1) = S(n)
    BY <1>4
  <2> QED
    BY <2>1
<1>5. ASSUME NEW m \in 0 .. n PROVE Cardinality(S(m)) <= Cardinality(S(n))
  <2>1. S(m) \subseteq S(n)
    BY <1>5
  <2> HIDE DEF S
  <2> QED
    BY <1>1, <2>1, FS_Subset
<1>6. Cardinality(S(0)) = 0
  BY <1>2, FS_EmptySet
<1>7. Times(r, k, dir, c, n + 1) =
          Times(r, k, dir, c, n) + (IF Is(r, k, n + 1, dir, c) THEN 1 ELSE 0)
  BY <1>1, <1>3, <1>4 DEF Times
<1> QED
  BY <1>1, <1>5, <1>6, <1>7 DEF Times

(* An end of a stream is one task's, *)
LEMMA OneTaskEach ==
    ASSUME WellFormed, NEW r \in Run, NEW dir \in {"r", "w"}, NEW c,
           NEW j \in DOMAIN Script[r], c \in Ends(r, j, dir),
           NEW k \in DOMAIN Script[r], c \in Ends(r, k, dir)
    PROVE  j = k
<1> DEFINE ends == {<<i, d, Ends(r, i, d)>> : i \in DOMAIN Script[r], d \in {"r", "w"}}
<1>1. \A e, f \in ends : e[1] # f[1] /\ e[2] = f[2] => e[3] \cap f[3] = {}
  BY DEF WellFormed, AllEnds
<1>2. <<j, dir, Ends(r, j, dir)>> \in ends /\ <<k, dir, Ends(r, k, dir)>> \in ends
  OBVIOUS
<1> HIDE DEF ends
<1> QED
  BY <1>1, <1>2

(* which makes all operations there. *)
LEMMA TotalOf ==
    ASSUME WellFormed, NEW r \in Run, NEW p, NEW dir \in {"r", "w"}, NEW c,
           NEW k \in DOMAIN Script[r], c \in Ends(r, k, dir)
    PROVE  Total(r, p, dir, c) = Times(r, k, dir, c, p[k])
<1>1. End(r, dir, c) \in DOMAIN Script[r] /\ c \in Ends(r, End(r, dir, c), dir)
  BY DEF End
<1>2. End(r, dir, c) = k
  BY <1>1, OneTaskEach
<1> QED
  BY <1>2 DEF Total

LEMMA TotalNat ==
    ASSUME WellFormed, NEW r \in Run, NEW p \in Places(r), NEW dir \in {"r", "w"}, NEW c
    PROVE  Total(r, p, dir, c) \in Nat
<1>1. CASE \E k \in DOMAIN Script[r] : c \in Ends(r, k, dir)
  <2>1. PICK k \in DOMAIN Script[r] : c \in Ends(r, k, dir)
    BY <1>1
  <2>2. p[k] \in Nat
    BY DEF Places
  <2> QED
    BY <2>1, <2>2, TotalOf, TimesIs
<1>2. CASE ~\E k \in DOMAIN Script[r] : c \in Ends(r, k, dir)
  BY <1>2 DEF Total
<1> QED
  BY <1>1, <1>2

(* Further on, no fewer. *)
LEMMA TotalGrows ==
    ASSUME WellFormed, NEW r \in Run, NEW p \in Places(r), NEW q \in Places(r),
           \A k \in DOMAIN Script[r] : p[k] <= q[k],
           NEW dir \in {"r", "w"}, NEW c
    PROVE  Total(r, p, dir, c) <= Total(r, q, dir, c)
<1>1. CASE \E k \in DOMAIN Script[r] : c \in Ends(r, k, dir)
  <2>1. PICK k \in DOMAIN Script[r] : c \in Ends(r, k, dir)
    BY <1>1
  <2>2. p[k] \in Nat /\ q[k] \in Nat /\ p[k] \in 0 .. q[k]
    BY DEF Places
  <2>3. Total(r, p, dir, c) = Times(r, k, dir, c, p[k])
    BY <2>1, TotalOf
  <2>4. Total(r, q, dir, c) = Times(r, k, dir, c, q[k])
    BY <2>1, TotalOf
  <2>5. Times(r, k, dir, c, p[k]) <= Times(r, k, dir, c, q[k])
    BY <2>2, TimesIs
  <2> QED
    BY <2>3, <2>4, <2>5
<1>2. CASE ~\E k \in DOMAIN Script[r] : c \in Ends(r, k, dir)
  BY <1>2 DEF Total
<1> QED
  BY <1>1, <1>2

(* An operation is one more of its kind, and of no other. *)
LEMMA TotalNext ==
    ASSUME WellFormed, NEW r \in Run, NEW p \in Places(r), NEW k \in DOMAIN Script[r],
           p[k] < Len(Script[r][k]), NEW dir \in {"r", "w"}, NEW c
    PROVE  Total(r, [p EXCEPT ![k] = @ + 1], dir, c) =
               Total(r, p, dir, c) + (IF Is(r, k, p[k] + 1, dir, c) THEN 1 ELSE 0)
<1> DEFINE q == [p EXCEPT ![k] = @ + 1]
<1>1. p[k] \in Nat /\ q[k] = p[k] + 1 /\ \A j \in DOMAIN Script[r] : j # k => q[j] = p[j]
  BY DEF Places
<1>2. Len(Script[r][k]) \in Nat /\ DOMAIN Script[r][k] = 1 .. Len(Script[r][k])
  BY DEF WellFormed
<1>3. p[k] + 1 \in DOMAIN Script[r][k]
  BY <1>1, <1>2
<1>4. Is(r, k, p[k] + 1, dir, c) => c \in Ends(r, k, dir)
  BY <1>3 DEF Is, Ends
<1>5. Total(r, p, dir, c) \in Nat
  BY TotalNat
<1> HIDE DEF q
<1>6. ASSUME c \in Ends(r, k, dir)
      PROVE  Total(r, q, dir, c) = Total(r, p, dir, c) + (IF Is(r, k, p[k] + 1, dir, c) THEN 1 ELSE 0)
  <2>1. Total(r, p, dir, c) = Times(r, k, dir, c, p[k])
    BY <1>6, TotalOf
  <2>2. Total(r, q, dir, c) = Times(r, k, dir, c, q[k])
    BY <1>6, TotalOf
  <2>0. p[k] \in Nat
    BY <1>1
  <2>3. Times(r, k, dir, c, p[k] + 1) =
            Times(r, k, dir, c, p[k]) + (IF Is(r, k, p[k] + 1, dir, c) THEN 1 ELSE 0)
    BY <2>0, TimesIs
  <2> QED
    BY <1>1, <2>1, <2>2, <2>3
<1>7. ASSUME c \notin Ends(r, k, dir), \E j \in DOMAIN Script[r] : c \in Ends(r, j, dir)
      PROVE  Total(r, q, dir, c) = Total(r, p, dir, c) + (IF Is(r, k, p[k] + 1, dir, c) THEN 1 ELSE 0)
  <2>1. PICK j \in DOMAIN Script[r] : c \in Ends(r, j, dir)
    BY <1>7
  <2>2. Total(r, p, dir, c) = Times(r, j, dir, c, p[j])
    BY <2>1, TotalOf
  <2>3. Total(r, q, dir, c) = Times(r, j, dir, c, q[j])
    BY <2>1, TotalOf
  <2>4. q[j] = p[j]
    BY <1>1, <1>7, <2>1
  <2> QED
    BY <1>4, <1>5, <1>7, <2>2, <2>3, <2>4
<1>8. ASSUME ~\E j \in DOMAIN Script[r] : c \in Ends(r, j, dir)
      PROVE  Total(r, q, dir, c) = Total(r, p, dir, c) + (IF Is(r, k, p[k] + 1, dir, c) THEN 1 ELSE 0)
  BY <1>4, <1>8 DEF Total
<1> QED
  BY <1>6, <1>7, <1>8 DEF q

LEMMA InScript ==
    ASSUME WellFormed, NEW r \in Run, NEW p \in Places(r), NEW k \in DOMAIN Script[r]
    PROVE  /\ p[k] \in Nat /\ p[k] <= Len(Script[r][k]) /\ Len(Script[r][k]) \in Nat
           /\ DOMAIN Script[r][k] = 1 .. Len(Script[r][k])
           /\ \A n \in 1 .. p[k] : n \in DOMAIN Script[r][k]
           /\ p[k] < Len(Script[r][k]) => p[k] + 1 \in DOMAIN Script[r][k]
           /\ p[k] < Len(Script[r][k]) => [p EXCEPT ![k] = @ + 1] \in Places(r)
<1>1. p \in [DOMAIN Script[r] -> Nat] /\ p[k] \in Nat /\ p[k] <= Len(Script[r][k])
  BY DEF Places
<1>2. Len(Script[r][k]) \in Nat /\ DOMAIN Script[r][k] = 1 .. Len(Script[r][k])
  BY DEF WellFormed
<1>3. ASSUME p[k] < Len(Script[r][k]) PROVE [p EXCEPT ![k] = @ + 1] \in Places(r)
  <2> DEFINE q == [p EXCEPT ![k] = @ + 1]
  <2>1. q \in [DOMAIN Script[r] -> Nat]
    BY <1>1
  <2>2. \A j \in DOMAIN Script[r] : q[j] <= Len(Script[r][j])
    BY <1>1, <1>2, <1>3 DEF Places
  <2> QED
    BY <2>1, <2>2 DEF Places
<1> QED
  BY <1>1, <1>2, <1>3

(* Numbers run up to the total, *)
LEMMA NumberIn ==
    ASSUME WellFormed, NEW r \in Run, NEW p \in Places(r), NEW k \in DOMAIN Script[r],
           NEW dir \in {"r", "w"}, NEW c, NEW n \in 1 .. p[k], Is(r, k, n, dir, c)
    PROVE  /\ Number(r, k, n) \in Nat /\ Number(r, k, n) <= Total(r, p, dir, c)
           /\ c \in Ends(r, k, dir)
<1>1. n \in DOMAIN Script[r][k] /\ p[k] \in Nat /\ n \in 0 .. p[k] /\ n \in Nat
  <2>1. n \in DOMAIN Script[r][k]
    BY InScript
  <2>2. p[k] \in Nat
    BY InScript
  <2> QED
    BY <2>1, <2>2
<1>2. c \in Ends(r, k, dir)
  BY <1>1 DEF Is, Ends
<1>3. Total(r, p, dir, c) = Times(r, k, dir, c, p[k])
  BY <1>2, TotalOf
<1>4. Number(r, k, n) = Times(r, k, dir, c, n)
  BY DEF Number, Is
<1> QED
  BY <1>1, <1>2, <1>3, <1>4, TimesIs

(* the next operation has the next one, *)
LEMMA NextNumber ==
    ASSUME WellFormed, NEW r \in Run, NEW p \in Places(r), NEW k \in DOMAIN Script[r],
           p[k] < Len(Script[r][k]), NEW dir \in {"r", "w"}, NEW c, Is(r, k, p[k] + 1, dir, c)
    PROVE  Number(r, k, p[k] + 1) = Total(r, p, dir, c) + 1 /\ c \in Ends(r, k, dir)
<1>1. p[k] \in Nat /\ p[k] + 1 \in DOMAIN Script[r][k]
  BY InScript
<1>2. c \in Ends(r, k, dir)
  BY <1>1 DEF Is, Ends
<1>3. Total(r, p, dir, c) = Times(r, k, dir, c, p[k])
  BY <1>2, TotalOf
<1>4. Number(r, k, p[k] + 1) = Times(r, k, dir, c, p[k] + 1)
  BY DEF Number, Is
<1>5. Times(r, k, dir, c, p[k] + 1) =
          Times(r, k, dir, c, p[k]) + (IF Is(r, k, p[k] + 1, dir, c) THEN 1 ELSE 0)
  BY <1>1, TimesIs
<1> QED
  BY <1>2, <1>3, <1>4, <1>5

(* and no two operations of a kind have the same.                          *)
LEMMA NumberOnce ==
    ASSUME WellFormed, NEW r \in Run, NEW dir \in {"r", "w"}, NEW c,
           NEW j \in DOMAIN Script[r], NEW n \in DOMAIN Script[r][j], Is(r, j, n, dir, c),
           NEW k \in DOMAIN Script[r], NEW m \in DOMAIN Script[r][k], Is(r, k, m, dir, c),
           Number(r, j, n) = Number(r, k, m)
    PROVE  j = k /\ n = m
<1>2. c \in Ends(r, j, dir) /\ c \in Ends(r, k, dir)
  BY DEF Is, Ends
<1>3. j = k
  BY <1>2, OneTaskEach
<1>4. n \in Nat \ {0} /\ m \in Nat \ {0}
  BY <1>3 DEF WellFormed
<1>5. ASSUME NEW a \in Nat \ {0}, NEW b \in Nat \ {0}, a < b, Is(r, k, b, dir, c)
      PROVE  Times(r, k, dir, c, a) # Times(r, k, dir, c, b)
  <2>1. b - 1 \in Nat /\ (b - 1) + 1 = b /\ a \in 0 .. b - 1
    BY <1>5
  <2>2. Times(r, k, dir, c, (b - 1) + 1) =
            Times(r, k, dir, c, b - 1) + (IF Is(r, k, (b - 1) + 1, dir, c) THEN 1 ELSE 0)
    BY <2>1, TimesIs
  <2>3. Times(r, k, dir, c, a) <= Times(r, k, dir, c, b - 1)
        /\ Times(r, k, dir, c, a) \in Nat /\ Times(r, k, dir, c, b - 1) \in Nat
    BY <2>1, TimesIs
  <2> QED
    BY <1>5, <2>1, <2>2, <2>3
<1>6. Times(r, k, dir, c, n) = Times(r, k, dir, c, m)
  BY <1>3 DEF Number, Is
<1> QED
  BY <1>3, <1>4, <1>5, <1>6

--------------------------------------------------------------------------------
LEMMA CarriesNext ==
    ASSUME WellFormed, NEW r \in Run, NEW p \in Places(r), NEW k \in DOMAIN Script[r],
           p[k] < Len(Script[r][k]), NEW c, NEW S, NEW q \in Seq(S), Carries(r, p, c, q)
    PROVE  LET op == Script[r][k][p[k] + 1]
               after == [p EXCEPT ![k] = @ + 1]
           IN  /\ op.ch # c => Carries(r, after, c, q)
               /\ Is(r, k, p[k] + 1, "r", c) /\ q # <<>> => Carries(r, after, c, Tail(q))
               /\ Is(r, k, p[k] + 1, "w", c) => Carries(r, after, c, Append(q, op.msg))
<1> DEFINE op == Script[r][k][p[k] + 1]
           after == [p EXCEPT ![k] = @ + 1]
           Got == Total(r, p, "r", c)
           Put == Total(r, p, "w", c)
           Held(s, x, i) == \E j \in DOMAIN Script[r] : \E n \in 1 .. s[j] :
                               /\ Is(r, j, n, "w", c) /\ Number(r, j, n) = i
                               /\ x = Script[r][j][n].msg
<1>1. Got \in Nat /\ Put \in Nat /\ Len(q) \in Nat /\ Got + Len(q) = Put
  BY TotalNat DEF Carries
<1>2. /\ Total(r, after, "r", c) = Got + (IF Is(r, k, p[k] + 1, "r", c) THEN 1 ELSE 0)
      /\ Total(r, after, "w", c) = Put + (IF Is(r, k, p[k] + 1, "w", c) THEN 1 ELSE 0)
  BY TotalNext
<1>3. ASSUME NEW x, NEW i, Held(p, x, i) PROVE Held(after, x, i)
  <2>1. \A j \in DOMAIN Script[r] : p[j] \in Nat /\ (after[j] = p[j] \/ after[j] = p[j] + 1)
    BY DEF Places
  <2>2. \A j \in DOMAIN Script[r] : 1 .. p[j] \subseteq 1 .. after[j]
    BY <2>1
  <2> HIDE DEF after
  <2> QED
    BY <1>3, <2>2
<1>4. \A i \in 1 .. Len(q) : Held(p, q[i], Got + i)
  BY DEF Carries
<1>5. ASSUME NEW s \in Seq(S \cup {op.msg}), NEW m \in Nat,
             Total(r, after, "r", c) = m, m + Len(s) = Total(r, after, "w", c),
             \A i \in 1 .. Len(s) : Held(after, s[i], m + i)
      PROVE  Carries(r, after, c, s)
  BY <1>5 DEF Carries
<1>6. q \in Seq(S \cup {op.msg})
  OBVIOUS
<1>7. after[k] = p[k] + 1 /\ p[k] \in Nat
  BY DEF Places
<1> HIDE DEF after, Got, Put, Held
<1>8. ASSUME op.ch # c PROVE Carries(r, after, c, q)
  <2>1. Total(r, after, "r", c) = Got /\ Total(r, after, "w", c) = Put
    BY <1>1, <1>2, <1>8 DEF Is
  <2> QED
    BY <1>1, <1>3, <1>4, <1>5, <1>6, <2>1
<1>9. ASSUME Is(r, k, p[k] + 1, "r", c), q # <<>> PROVE Carries(r, after, c, Tail(q))
  <2>1. Total(r, after, "r", c) = Got + 1 /\ Total(r, after, "w", c) = Put
    BY <1>1, <1>2, <1>9 DEF Is
  <2>2. /\ Tail(q) \in Seq(S \cup {op.msg}) /\ Len(Tail(q)) = Len(q) - 1 /\ Len(q) >= 1
        /\ \A i \in 1 .. Len(Tail(q)) : Tail(q)[i] = q[i + 1] /\ i + 1 \in 1 .. Len(q)
    BY <1>6, <1>9
  <2>3. \A i \in 1 .. Len(Tail(q)) : Held(after, Tail(q)[i], (Got + 1) + i)
    <3> TAKE i \in 1 .. Len(Tail(q))
    <3>1. Held(after, q[i + 1], Got + (i + 1))
      BY <1>3, <1>4, <2>2
    <3>2. Got + (i + 1) = (Got + 1) + i
      BY <1>1
    <3> QED
      BY <2>2, <3>1, <3>2
  <2>4. Got + 1 \in Nat /\ (Got + 1) + Len(Tail(q)) = Put
    BY <1>1, <2>2
  <2> QED
    BY <1>5, <2>1, <2>2, <2>3, <2>4
<1>10. ASSUME Is(r, k, p[k] + 1, "w", c) PROVE Carries(r, after, c, Append(q, op.msg))
  <2> DEFINE s == Append(q, op.msg)
  <2>1. Total(r, after, "r", c) = Got /\ Total(r, after, "w", c) = Put + 1
    BY <1>1, <1>2, <1>10 DEF Is
  <2>2. s \in Seq(S \cup {op.msg}) /\ Len(s) = Len(q) + 1 /\ s[Len(q) + 1] = op.msg
        /\ \A i \in 1 .. Len(q) : s[i] = q[i]
    BY <1>6
  <2>3. Number(r, k, p[k] + 1) = Put + 1
    BY <1>10, NextNumber DEF Put
  <2>4. Held(after, op.msg, Put + 1)
    BY <1>7, <1>10, <2>3 DEF Held
  <2> HIDE DEF s
  <2>5. \A i \in 1 .. Len(s) : Held(after, s[i], Got + i)
    <3> TAKE i \in 1 .. Len(s)
    <3>1. CASE i \in 1 .. Len(q)
      BY <1>3, <1>4, <2>2, <3>1
    <3>2. CASE i = Len(q) + 1
      <4>1. Got + i = Put + 1
        BY <1>1, <3>2
      <4> QED
        BY <2>2, <2>4, <3>2, <4>1
    <3> QED
      BY <1>1, <2>2, <3>1, <3>2
  <2>6. Got + Len(s) = Put + 1
    BY <1>1, <2>2
  <2> QED
    BY <1>1, <1>5, <2>1, <2>2, <2>5, <2>6 DEF s
<1> QED
  BY <1>8, <1>9, <1>10 DEF after

LEMMA PosPlaces == NetType => pos \in Places(run) /\ run \in Run /\ Task = DOMAIN Script[run]
  BY DEF NetType, Places, Task

LEMMA NetInvInit == ASSUME WellFormed, Init PROVE NetInv
<1>1. NetType
  BY NetTypeInit
<1>2. ASSUME NEW c \in Chan PROVE Carries(run, pos, c, fifo[c])
  <2>1. ASSUME NEW dir \in {"r", "w"} PROVE Total(run, pos, dir, c) = 0
    <3>1. CASE \E k \in DOMAIN Script[run] : c \in Ends(run, k, dir)
      <4>1. PICK k \in DOMAIN Script[run] : c \in Ends(run, k, dir)
        BY <3>1
      <4>2. pos[k] = 0 /\ run \in Run
        BY DEF Init, Task
      <4>3. Total(run, pos, dir, c) = Times(run, k, dir, c, pos[k])
        BY <4>1, <4>2, TotalOf
      <4>4. Times(run, k, dir, c, 0) = 0
        BY TimesIs
      <4> QED
        BY <4>2, <4>3, <4>4
    <3> QED
      BY <3>1 DEF Total
  <2>2. fifo[c] = <<>> /\ Len(fifo[c]) = 0
    BY DEF Init
  <2> QED
    BY <2>1, <2>2 DEF Carries
<1> QED
  BY <1>1, <1>2 DEF NetInv

LEMMA NetInvStep == ASSUME WellFormed, NetInv, [Next]_vars PROVE NetInv'
<1>1. NetType'
  BY NetTypeStep DEF NetInv
<1>2. CASE UNCHANGED vars
  BY <1>1, <1>2, SameKernel DEF NetInv, vars
<1>3. ASSUME NEW k \in Task, Step(k) PROVE NetInv'
  <2>1. /\ Can(k) /\ run' = run /\ pos' = [pos EXCEPT ![k] = @ + 1] /\ fifo' = FifoAfter(k, fifo)
        /\ NetType
    BY <1>3, StepIs DEF NetInv, PosAfter
  <2>2. Task' = Task /\ Chan' = Chan /\ pos \in Places(run) /\ run \in Run
        /\ Task = DOMAIN Script[run]
    BY <2>1, SameKernel, PosPlaces
  <2>3. pos[k] < Len(Script[run][k]) /\ Op(k) = Script[run][k][pos[k] + 1]
    BY <2>1, <2>2, InScript DEF Can, Returned, Op
  <2>4. Op(k).ch \in Chan /\ Op(k).dir \in {"r", "w"}
    BY <2>1, CurrentOp DEF Can
  <2>5. ASSUME NEW c \in Chan PROVE Carries(run, pos', c, fifo'[c])
    <3>1. PICK S : fifo[c] \in Seq(S)
      BY <2>1 DEF NetType
    <3>2. Carries(run, pos, c, fifo[c])
      BY DEF NetInv
    <3> DEFINE q == fifo[c]
               p == pos
               after == [p EXCEPT ![k] = @ + 1]
    <3>3. /\ Op(k).ch # c => Carries(run, after, c, q)
          /\ Is(run, k, pos[k] + 1, "r", c) /\ q # <<>> => Carries(run, after, c, Tail(q))
          /\ Is(run, k, pos[k] + 1, "w", c) => Carries(run, after, c, Append(q, Op(k).msg))
      BY <2>2, <2>3, <3>1, <3>2, CarriesNext
    <3>4. fifo'[c] = IF c = Op(k).ch THEN Passed(k, fifo[c]) ELSE fifo[c]
      BY <2>1 DEF FifoAfter, NetType
    <3>5. Op(k).ch = c => Is(run, k, pos[k] + 1, Op(k).dir, c)
      BY <2>3 DEF Is
    <3>6. Op(k).ch = c /\ Op(k).dir = "r" => q # <<>>
      BY <2>1 DEF Can
    <3> HIDE DEF q
    <3> QED
      BY <2>1, <2>4, <3>3, <3>4, <3>5, <3>6 DEF Passed, q
  <2> QED
    BY <1>1, <2>1, <2>2, <2>5 DEF NetInv
<1> QED
  BY <1>2, <1>3 DEF Next, Finished

(* Positions tell whether a task can go on, *)
LEMMA CanGoOn ==
    ASSUME WellFormed, NetInv, NEW k \in Task
    PROVE  Can(k) <=> CanAt(run, pos, k)
<1>1. NetType /\ pos \in Places(run) /\ run \in Run /\ Task = DOMAIN Script[run]
  BY PosPlaces DEF NetInv
<1>2. pos[k] \in Nat /\ Len(Script[run][k]) \in Nat /\ pos[k] <= Len(Script[run][k])
  BY <1>1, InScript
<1>3. Returned(k) <=> ~(pos[k] < Len(Script[run][k]))
  BY <1>2 DEF Returned
<1>4. ASSUME ~Returned(k) PROVE Can(k) <=> CanAt(run, pos, k)
  <2> DEFINE c == Op(k).ch
  <2>1. c \in Chan /\ Op(k).dir \in {"r", "w"} /\ Op(k) = Script[run][k][pos[k] + 1]
    BY <1>1, <1>4, CurrentOp DEF Op
  <2>2. Total(run, pos, "r", c) + Len(fifo[c]) = Total(run, pos, "w", c)
    BY <2>1 DEF NetInv, Carries
  <2>3. PICK S : fifo[c] \in Seq(S)
    BY <1>1, <2>1 DEF NetType
  <2>4. Len(fifo[c]) \in Nat /\ (fifo[c] # <<>> <=> Len(fifo[c]) > 0)
    BY <2>3
  <2>5. Total(run, pos, "r", c) \in Nat /\ Total(run, pos, "w", c) \in Nat
    BY <1>1, TotalNat
  <2>6. Depth[run][c] \in Nat
    BY <1>1, <2>1, ThisKernel
  <2> HIDE DEF c
  <2>7. fifo[c] # <<>> <=> Total(run, pos, "r", c) < Total(run, pos, "w", c)
    BY <2>2, <2>4, <2>5
  <2>8. Len(fifo[c]) < Depth[run][c]
        <=> Total(run, pos, "w", c) < Total(run, pos, "r", c) + Depth[run][c]
    BY <2>2, <2>4, <2>5, <2>6
  <2> QED
    BY <1>3, <1>4, <2>1, <2>7, <2>8 DEF Can, CanAt, c
<1> QED
  BY <1>3, <1>4 DEF Can, CanAt

(* and a task that can go on still can when only the others are further.   *)
LEMMA StillCan ==
    ASSUME WellFormed, NEW r \in Run, NEW p \in Places(r), NEW q \in Places(r),
           \A j \in DOMAIN Script[r] : p[j] <= q[j],
           NEW k \in DOMAIN Script[r], p[k] = q[k], CanAt(r, p, k)
    PROVE  CanAt(r, q, k)
<1> DEFINE op == Script[r][k][p[k] + 1]
           c == op.ch
<1>1. p[k] < Len(Script[r][k])
  BY DEF CanAt
<1>2. p[k] + 1 \in DOMAIN Script[r][k]
  BY <1>1, InScript
<1>3. op.dir \in {"r", "w"} /\ c \in DOMAIN Depth[r] /\ Depth[r][c] \in Nat
  BY <1>2 DEF WellFormed
<1>4. c \in Ends(r, k, op.dir)
  BY <1>2 DEF Ends
<1>5. Total(r, q, op.dir, c) = Total(r, p, op.dir, c)
  <2>1. Total(r, q, op.dir, c) = Times(r, k, op.dir, c, q[k])
    BY <1>3, <1>4, TotalOf
  <2>2. Total(r, p, op.dir, c) = Times(r, k, op.dir, c, p[k])
    BY <1>3, <1>4, TotalOf
  <2> QED
    BY <2>1, <2>2
<1>6. \A dir \in {"r", "w"} : /\ Total(r, p, dir, c) <= Total(r, q, dir, c)
                              /\ Total(r, p, dir, c) \in Nat /\ Total(r, q, dir, c) \in Nat
  BY TotalGrows, TotalNat
<1>7. IF op.dir = "r" THEN Total(r, p, "r", c) < Total(r, p, "w", c)
      ELSE Total(r, p, "w", c) < Total(r, p, "r", c) + Depth[r][c]
  BY DEF CanAt
<1> HIDE DEF c, op
<1>8. IF op.dir = "r" THEN Total(r, q, "r", c) < Total(r, q, "w", c)
      ELSE Total(r, q, "w", c) < Total(r, q, "r", c) + Depth[r][c]
  BY <1>3, <1>5, <1>6, <1>7
<1> QED
  BY <1>1, <1>8 DEF CanAt, c, op

LEMMA OnTheWayStep == ASSUME WellFormed, NetInv, OnTheWay, [Next]_vars PROVE OnTheWay'
<1>1. CASE UNCHANGED vars
  BY <1>1, SameKernel DEF OnTheWay, vars
<1>2. ASSUME NEW k \in Task, Step(k) PROVE OnTheWay'
  <2>1. NetType /\ pos \in Places(run) /\ run \in Run /\ Task = DOMAIN Script[run]
    BY PosPlaces DEF NetInv
  <2>2. Can(k) /\ run' = run /\ pos' = [pos EXCEPT ![k] = @ + 1]
    BY <1>2, <2>1, StepIs DEF PosAfter
  <2>3. ASSUME NEW p \in Places(run), Blocked(run, p), NEW j \in Task
        PROVE  pos'[j] <= p[j]
    <3>1. \A i \in Task : pos[i] <= p[i]
      BY <2>3 DEF OnTheWay
    <3>2. pos[j] \in Nat /\ p[j] \in Nat
      BY <2>1 DEF Places
    <3>3. CASE j # k
      BY <2>1, <2>2, <3>1, <3>3 DEF Places
    <3>4. CASE j = k
      <4>1. CanAt(run, pos, k)
        BY <2>2, CanGoOn
      <4>2. pos[k] # p[k]
        BY <2>1, <2>3, <3>1, <4>1, StillCan DEF Blocked
      <4>3. pos'[k] = pos[k] + 1
        BY <2>1, <2>2 DEF Places
      <4> QED
        BY <3>1, <3>2, <3>4, <4>2, <4>3
    <3> QED
      BY <3>3, <3>4
  <2> QED
    BY <2>2, <2>3, SameKernel DEF OnTheWay
<1> QED
  BY <1>1, <1>2 DEF Next, Finished

(* What the tasks have read so far is what they took it for. *)
LEMMA MatchedStep ==
    ASSUME WellFormed, NetInv, Aligned, MatchedUpTo(run, pos), [Next]_vars
    PROVE  MatchedUpTo(run, pos)'
<1>1. CASE UNCHANGED vars
  BY <1>1 DEF MatchedUpTo, vars
<1>2. ASSUME NEW i \in Task, Step(i) PROVE MatchedUpTo(run, pos)'
  <2>1. NetType /\ pos \in Places(run) /\ run \in Run /\ Task = DOMAIN Script[run]
    BY PosPlaces DEF NetInv
  <2>2. Can(i) /\ run' = run /\ pos' = [pos EXCEPT ![i] = @ + 1]
    BY <1>2, <2>1, StepIs DEF PosAfter
  <2> DEFINE new == pos[i] + 1
  <2>3. pos[i] < Len(Script[run][i]) /\ new \in DOMAIN Script[run][i] /\ pos[i] \in Nat
    <3>1. pos[i] <= Len(Script[run][i]) /\ Len(Script[run][i]) \in Nat /\ pos[i] \in Nat
      BY <2>1, InScript
    <3>2. pos[i] < Len(Script[run][i])
      BY <2>2, <3>1 DEF Can, Returned
    <3> QED
      BY <2>1, <3>1, <3>2, InScript
  <2>4. Op(i) = Script[run][i][new] /\ Op(i).dir \in {"r", "w"} /\ Op(i).ch \in Chan
    BY <2>1, <2>2, CurrentOp DEF Can, Op
  <2>5. \A j \in Task : \A n \in 1 .. pos'[j] : n \in 1 .. pos[j] \/ (j = i /\ n = new)
    <3>1. \A j \in Task : pos[j] \in Nat /\ pos'[j] = IF j = i THEN pos[j] + 1 ELSE pos[j]
      BY <2>1, <2>2 DEF Places
    <3> QED
      BY <3>1
  <2> HIDE DEF new
  <2>6. ASSUME NEW j \in Task, NEW k \in Task, NEW n \in 1 .. pos'[j], NEW m \in 1 .. pos'[k],
               Pair(run, j, n, k, m)
        PROVE  Script[run][j][n].msg = Script[run][k][m].msg
    <3> DEFINE c == Script[run][j][n].ch
    <3>1. Is(run, j, n, "w", c) /\ Is(run, k, m, "r", c) /\ Number(run, j, n) = Number(run, k, m)
      BY <2>6 DEF Pair, Is
    <3>2. CASE n \in 1 .. pos[j] /\ m \in 1 .. pos[k]
      BY <2>1, <2>6, <3>2 DEF MatchedUpTo
    <3>3. CASE n \in 1 .. pos[j] /\ k = i /\ m = new
      <4>1. Op(i).ch = c /\ Op(i).dir = "r"
        BY <2>4, <3>1, <3>3 DEF Is
      <4>2. Number(run, i, new) = Total(run, pos, "r", c) + 1
        BY <2>1, <2>3, <3>1, <3>3, NextNumber DEF new
      <4>3. Carries(run, pos, c, fifo[c]) /\ c \in Chan /\ fifo[c] # <<>>
        BY <2>2, <2>4, <4>1 DEF NetInv, Can
      <4>4. PICK S : fifo[c] \in Seq(S)
        BY <2>1, <4>3 DEF NetType
      <4>5. 1 \in 1 .. Len(fifo[c]) /\ Head(fifo[c]) = fifo[c][1]
        BY <4>3, <4>4
      <4>6a. PICK a \in DOMAIN Script[run] : \E b \in 1 .. pos[a] :
               /\ Is(run, a, b, "w", c) /\ Number(run, a, b) = Total(run, pos, "r", c) + 1
               /\ fifo[c][1] = Script[run][a][b].msg
        BY <4>3, <4>5 DEF Carries
      <4>6. PICK b \in 1 .. pos[a] :
               /\ Is(run, a, b, "w", c) /\ Number(run, a, b) = Total(run, pos, "r", c) + 1
               /\ fifo[c][1] = Script[run][a][b].msg
        BY <4>6a
      <4>7. b \in DOMAIN Script[run][a] /\ n \in DOMAIN Script[run][j]
        BY <2>1, <3>3, InScript
      <4>8. a = j /\ b = n
        <5>1. Number(run, a, b) = Number(run, j, n)
          BY <3>1, <3>3, <4>2, <4>6
        <5> QED
          BY <2>1, <3>1, <4>6, <4>7, <5>1, NumberOnce
      <4>9. Head(fifo[c]) = Op(i).msg
        BY <2>2, <4>1, <4>3 DEF Aligned, Can
      <4> QED
        BY <2>4, <3>3, <4>5, <4>6, <4>8, <4>9
    <3>4. CASE j = i /\ n = new
      <4>1. Number(run, i, new) = Total(run, pos, "w", c) + 1
        BY <2>1, <2>3, <3>1, <3>4, NextNumber DEF new
      <4>2. m \in 1 .. pos[k]
        <5>1. ~(k = i /\ m = new)
          BY <3>1, <3>4 DEF Is
        <5> QED
          BY <2>5, <5>1
      <4>3. Number(run, k, m) <= Total(run, pos, "r", c) /\ Number(run, k, m) \in Nat
        BY <2>1, <3>1, <4>2, NumberIn
      <4>4. c \in Chan
        BY <2>4, <3>4
      <4>5. PICK S : fifo[c] \in Seq(S)
        BY <2>1, <4>4 DEF NetType
      <4>6. Total(run, pos, "r", c) + Len(fifo[c]) = Total(run, pos, "w", c)
            /\ Len(fifo[c]) \in Nat
        BY <4>4, <4>5 DEF NetInv, Carries
      <4>7. Total(run, pos, "r", c) \in Nat /\ Total(run, pos, "w", c) \in Nat
        BY <2>1, TotalNat
      <4>8. Number(run, k, m) = Total(run, pos, "w", c) + 1
        <5>1. Number(run, j, n) = Number(run, i, new)
          BY <3>4
        <5> HIDE DEF c
        <5> QED
          BY <3>1, <4>1, <5>1
      <4> HIDE DEF c
      <4> QED
        BY <4>3, <4>6, <4>7, <4>8
    <3> QED
      BY <2>5, <3>2, <3>3, <3>4
  <2> QED
    BY <2>1, <2>2, <2>6 DEF MatchedUpTo
<1> QED
  BY <1>1, <1>2 DEF Next, Finished

--------------------------------------------------------------------------------
LEMMA AtTheEnd ==
    ASSUME WellFormed, NetInv, AllReturned
    PROVE  pos = Ended(run) /\ Blocked(run, pos)
<1>1. pos \in Places(run) /\ run \in Run /\ Task = DOMAIN Script[run] /\ NetType
  BY PosPlaces DEF NetInv
<1>2. \A k \in Task : pos[k] = Len(Script[run][k])
  BY DEF AllReturned, Returned
<1>3. pos = Ended(run)
  BY <1>1, <1>2 DEF Ended, Places
<1>4. \A k \in Task : ~(pos[k] < Len(Script[run][k]))
  BY <1>1, <1>2, InScript
<1> QED
  BY <1>1, <1>3, <1>4 DEF Blocked, CanAt

(* What the scripts of a run must be for all of its schedules to be sound. *)
Sound(r) == Matched(r) /\ Balanced(r) /\ OnlyEnds(r)

(* No task can go on, and one has not returned. *)
Stuck == ~AllReturned /\ \A k \in Task : ~Can(k)

LEMMA ShownAtTheEnd ==
    ASSUME WellFormed, NetInv, OnTheWay, MatchedUpTo(run, pos), Drained, AllReturned
    PROVE  Sound(run)
<1>1. pos = Ended(run) /\ pos \in Places(run) /\ run \in Run /\ Task = DOMAIN Script[run]
      /\ Chan = DOMAIN Depth[run]
  BY AtTheEnd, PosPlaces DEF NetInv, Chan
<1>2. Matched(run)
  BY <1>1 DEF Matched
<1>3. Balanced(run)
  <2>1. ASSUME NEW c \in Chan PROVE Total(run, pos, "w", c) = Total(run, pos, "r", c)
    <3>1. fifo[c] = <<>> /\ Len(fifo[c]) = 0
      BY DEF Drained
    <3>2. Total(run, pos, "r", c) \in Nat
      BY <1>1, TotalNat
    <3> QED
      BY <3>1, <3>2 DEF NetInv, Carries
  <2> QED
    BY <1>1, <2>1 DEF Balanced
<1>4. OnlyEnds(run)
  <2> SUFFICES ASSUME NEW p \in Places(run), Blocked(run, p) PROVE p = Ended(run)
    BY DEF OnlyEnds
  <2>1. \A k \in Task : pos[k] <= p[k]
    BY DEF OnTheWay
  <2>2. \A k \in Task : p[k] = Len(Script[run][k])
    <3> TAKE k \in Task
    <3>1. p[k] \in Nat /\ p[k] <= Len(Script[run][k]) /\ Len(Script[run][k]) \in Nat
      BY <1>1, InScript
    <3>2. pos[k] = Len(Script[run][k])
      BY DEF AllReturned, Returned
    <3> QED
      BY <2>1, <3>1, <3>2
  <2> QED
    BY <1>1, <2>2 DEF Places, Ended
<1> QED
  BY <1>2, <1>3, <1>4 DEF Sound

LEMMA SoundRuns ==
    ASSUME WellFormed, NetInv, Sound(run)
    PROVE  Aligned /\ Drained /\ ~Stuck
<1>1. NetType /\ pos \in Places(run) /\ run \in Run /\ Task = DOMAIN Script[run]
      /\ Chan = DOMAIN Depth[run]
  BY PosPlaces DEF NetInv, Chan
<1>2. Aligned
  <2> SUFFICES ASSUME NEW k \in Task, ~Returned(k), Op(k).dir = "r", fifo[Op(k).ch] # <<>>
               PROVE  Head(fifo[Op(k).ch]) = Op(k).msg
    BY DEF Aligned
  <2> DEFINE c == Op(k).ch
             m == pos[k] + 1
  <2>1. c \in Chan /\ m \in DOMAIN Script[run][k] /\ Op(k) = Script[run][k][m]
    BY <1>1, CurrentOp DEF Op, Ops
  <2>2. Is(run, k, m, "r", c)
    BY <2>1 DEF Is
  <2>3. pos[k] < Len(Script[run][k])
    <3>1. pos[k] \in Nat /\ pos[k] <= Len(Script[run][k]) /\ Len(Script[run][k]) \in Nat
      BY <1>1, InScript
    <3> QED
      BY <3>1 DEF Returned
  <2>4. Number(run, k, m) = Total(run, pos, "r", c) + 1
    BY <1>1, <2>2, <2>3, NextNumber
  <2>5. PICK S : fifo[c] \in Seq(S)
    BY <1>1, <2>1 DEF NetType
  <2>6. 1 \in 1 .. Len(fifo[c]) /\ Head(fifo[c]) = fifo[c][1]
    BY <2>5
  <2>7a. PICK a \in DOMAIN Script[run] : \E b \in 1 .. pos[a] :
           /\ Is(run, a, b, "w", c) /\ Number(run, a, b) = Total(run, pos, "r", c) + 1
           /\ fifo[c][1] = Script[run][a][b].msg
    BY <2>1, <2>6 DEF NetInv, Carries
  <2>7. PICK b \in 1 .. pos[a] :
           /\ Is(run, a, b, "w", c) /\ Number(run, a, b) = Total(run, pos, "r", c) + 1
           /\ fifo[c][1] = Script[run][a][b].msg
    BY <2>7a
  <2>8. Pair(run, a, b, k, m)
    BY <2>2, <2>4, <2>7 DEF Pair, Is
  <2>9. b \in 1 .. Ended(run)[a] /\ m \in 1 .. Ended(run)[k]
    <3>1. b \in DOMAIN Script[run][a] /\ DOMAIN Script[run][a] = 1 .. Len(Script[run][a])
          /\ DOMAIN Script[run][k] = 1 .. Len(Script[run][k])
      BY <1>1, <2>7, InScript
    <3> QED
      BY <1>1, <2>1, <3>1 DEF Ended
  <2> HIDE DEF c, m
  <2>10. Script[run][a][b].msg = Script[run][k][m].msg
    BY <1>1, <2>8, <2>9 DEF Sound, Matched, MatchedUpTo
  <2> QED
    BY <2>1, <2>6, <2>7, <2>10 DEF c
<1>3. Drained
  <2> SUFFICES ASSUME AllReturned, NEW c \in Chan PROVE fifo[c] = <<>>
    BY DEF Drained
  <2>1. pos = Ended(run)
    BY AtTheEnd
  <2>2. Total(run, pos, "w", c) = Total(run, pos, "r", c)
    BY <1>1, <2>1 DEF Sound, Balanced
  <2>3. Total(run, pos, "r", c) + Len(fifo[c]) = Total(run, pos, "w", c)
        /\ Total(run, pos, "r", c) \in Nat
    BY <1>1, TotalNat DEF NetInv, Carries
  <2>4. PICK S : fifo[c] \in Seq(S)
    BY <1>1 DEF NetType
  <2>5. Len(fifo[c]) \in Nat
    BY <2>4
  <2>6. Len(fifo[c]) = 0
    BY <2>2, <2>3, <2>5
  <2> QED
    BY <2>4, <2>6
<1>4. ~Stuck
  <2> SUFFICES ASSUME \A k \in Task : ~Can(k) PROVE AllReturned
    BY DEF Stuck
  <2>1. Blocked(run, pos)
    BY <1>1, CanGoOn DEF Blocked
  <2>2. pos = Ended(run)
    BY <1>1, <2>1 DEF Sound, OnlyEnds
  <2> QED
    BY <1>1, <2>2 DEF Ended, AllReturned, Returned
<1> QED
  BY <1>2, <1>3, <1>4

(* If one schedule of a kernel's tasks leads to the end of them all, and   *)
(* on the way every read takes the datum it is meant for and nothing is    *)
(* left behind, then the scripts of the kernel are sound ...               *)
THEOREM OneScheduleShows ==
    ASSUME WellFormed
    PROVE  Init /\ [][Next1]_vars /\ []Aligned /\ []Drained => [](AllReturned => Sound(run))
<1>1. Init => NetInv /\ OnTheWay /\ MatchedUpTo(run, pos)
  <2> SUFFICES ASSUME Init PROVE NetInv /\ OnTheWay /\ MatchedUpTo(run, pos)
    OBVIOUS
  <2>1. \A k \in Task : pos[k] = 0
    BY DEF Init
  <2>2. \A p \in Places(run) : \A k \in Task : p[k] \in Nat
    BY DEF Places, Task
  <2>3. \A k \in Task : 1 .. pos[k] = {}
    BY <2>1
  <2>4. OnTheWay
    BY <2>1, <2>2 DEF OnTheWay
  <2>5. MatchedUpTo(run, pos)
    BY <2>3 DEF MatchedUpTo, Task
  <2> QED
    BY <2>4, <2>5, NetInvInit
<1>2. [Next1]_vars => [Next]_vars
  BY DEF Next1, Next
<1>3. NetInv /\ OnTheWay /\ MatchedUpTo(run, pos) /\ Aligned /\ [Next1]_vars
      => (NetInv /\ OnTheWay /\ MatchedUpTo(run, pos))'
  BY <1>2, NetInvStep, OnTheWayStep, MatchedStep
<1>4. NetInv /\ OnTheWay /\ MatchedUpTo(run, pos) /\ Drained => (AllReturned => Sound(run))
  BY ShownAtTheEnd
<1> QED
  BY <1>1, <1>3, <1>4, PTL

(* ... and then, in every interleaving of the concurrent tasks, every read *)
(* takes the datum it is meant for, nothing is left behind, and the kernel *)
(* never stops before all of its tasks have returned.                      *)
THEOREM SoundInEveryOrder ==
    ASSUME WellFormed
    PROVE  Spec => [](Sound(run) => Aligned /\ Drained /\ ~Stuck)
<1>1. Init => NetInv
  BY NetInvInit
<1>2. NetInv /\ [Next]_vars => NetInv'
  BY NetInvStep
<1>3. NetInv => (Sound(run) => Aligned /\ Drained /\ ~Stuck)
  BY SoundRuns
<1> QED
  BY <1>1, <1>2, <1>3, PTL DEF Spec

--------------------------------------------------------------------------------
(* 2. Sequences, their joining, and what a loop of them is.                 *)

IsSeq(s) == \E S : s \in Seq(S)
AreSeqs(n, q) == \A i \in 1 .. n : IsSeq(q[i])

LEMMA EmptyIsSeq == IsSeq(<<>>)
<1>1. <<>> \in Seq({})
  OBVIOUS
<1> QED
  BY <1>1, Zenon DEF IsSeq

LEMMA OneIsSeq == ASSUME NEW x PROVE IsSeq(<<x>>)
<1>1. <<x>> \in Seq({x})
  OBVIOUS
<1> QED
  BY <1>1, Zenon DEF IsSeq

LEMMA BothIn == ASSUME NEW a, IsSeq(a), NEW b, IsSeq(b) PROVE \E S : a \in Seq(S) /\ b \in Seq(S)
<1>1. PICK S : a \in Seq(S)
  BY DEF IsSeq
<1>2. PICK T : b \in Seq(T)
  BY DEF IsSeq
<1> DEFINE U == S \cup T
<1>3. a \in Seq(U) /\ b \in Seq(U)
  BY <1>1, <1>2
<1> QED
  BY <1>3

(* One sequence after another, as the provers see it. *)
a \odot b == a \o b

LEMMA Join ==
    ASSUME NEW a, IsSeq(a), NEW b, IsSeq(b)
    PROVE  /\ IsSeq(a \odot b)
           /\ a \odot <<>> = a /\ <<>> \odot a = a
<1>1. PICK S : a \in Seq(S) /\ b \in Seq(S)
  BY BothIn
<1>2. a \o b \in Seq(S)
  BY <1>1
<1>3. a \o <<>> = a /\ <<>> \o a = a
  BY <1>1, ConcatEmptySeq
<1> QED
  BY <1>2, <1>3 DEF IsSeq, \odot

LEMMA JoinLen ==
    ASSUME NEW a, IsSeq(a), NEW b, IsSeq(b)
    PROVE  /\ Len(a \odot b) = Len(a) + Len(b)
           /\ \A i \in 1 .. Len(a) + Len(b) : (a
                 \odot b)[i] = IF i <= Len(a) THEN a[i] ELSE b[i - Len(a)]
           /\ Len(a) \in Nat /\ Len(b) \in Nat
<1>1. PICK S : a \in Seq(S) /\ b \in Seq(S)
  BY BothIn
<1> QED
  BY <1>1, ConcatProperties DEF \odot

LEMMA JoinAssoc ==
    ASSUME NEW a, IsSeq(a), NEW b, IsSeq(b), NEW c, IsSeq(c)
    PROVE  (a \odot b) \odot c = a \odot (b \odot c)
<1>1. PICK S : a \in Seq(S) /\ b \in Seq(S)
  BY BothIn
<1>2. PICK T : c \in Seq(T)
  BY DEF IsSeq
<1> DEFINE U == S \cup T
<1>3. a \in Seq(U) /\ b \in Seq(U) /\ c \in Seq(U)
  BY <1>1, <1>2
<1> QED
  BY <1>3, ConcatAssociative DEF \odot

Runs(n, q, h) == h[0] = <<>> /\ \A i \in 1 .. n : h[i] = h[i - 1] \odot q[i]

LEMMA OneAlphabet ==
    ASSUME NEW n \in Nat, NEW q, AreSeqs(n, q)
    PROVE  \E S : \A i \in 1 .. n : q[i] \in Seq(S)
<1> DEFINE S == UNION {Range(q[i]) : i \in 1 .. n}
<1>1. ASSUME NEW i \in 1 .. n PROVE q[i] \in Seq(S)
  <2>1. PICK T : q[i] \in Seq(T)
    BY DEF AreSeqs, IsSeq
  <2>2. \A j \in 1 .. Len(q[i]) : q[i][j] \in Range(q[i])
    BY <2>1 DEF Range
  <2>3. Range(q[i]) \subseteq S
    OBVIOUS
  <2> HIDE DEF S
  <2>4. \A j \in 1 .. Len(q[i]) : q[i][j] \in S
    BY <2>2, <2>3
  <2>5. Len(q[i]) \in Nat /\ q[i] = [j \in 1 .. Len(q[i]) |-> q[i][j]]
    BY <2>1
  <2> QED
    BY <2>4, <2>5, IsASeq
<1> HIDE DEF S
<1> QED
  BY <1>1

(* Any table of the partial results shows what InTurn is. *)
LEMMA InTurnByTable ==
    ASSUME NEW n \in Nat, NEW q, NEW h, Runs(n, q, h)
    PROVE  InTurn(n, q) = h[n]
<1> DEFINE Table(f) == f = [i \in 0 .. n |-> IF i = 0 THEN <<>> ELSE f[i - 1] \odot q[i]]
           g == [i \in 0 .. n |-> h[i]]
           t == CHOOSE f : Table(f)
<1>1. Table(g)
  <2>1. \A i \in 0 .. n : i # 0 => i \in 1 .. n /\ i - 1 \in 0 .. n
    OBVIOUS
  <2>2. \A i \in 0 .. n : h[i] = IF i = 0 THEN <<>> ELSE g[i - 1] \odot q[i]
    BY <2>1 DEF Runs
  <2> QED
    BY <2>2
<1> HIDE DEF Table, g
<1>2. Table(t)
  BY <1>1
<1> HIDE DEF t
<1>3. SameStep(n, t, h)
  <2>1. t[0] = <<>>
    BY <1>2 DEF Table
  <2>2. \A i \in 1 .. n : i \in 0 .. n /\ i # 0
    OBVIOUS
  <2>3. \A i \in 1 .. n : t[i] = t[i - 1] \odot q[i]
    BY <1>2, <2>2 DEF Table
  <2> QED
    BY <2>1, <2>3 DEF Runs, SameStep
<1>4. t[n] = h[n]
  BY <1>3, SameSteps DEF SameUpTo
<1> QED
  BY <1>4 DEF InTurn, t, Table, \odot

LEMMA InTurnTable ==
    ASSUME NEW n \in Nat, NEW q, AreSeqs(n, q)
    PROVE  \E h : Runs(n, q, h) /\ \A i \in 0 .. n : IsSeq(h[i])
<1>1. PICK S : \A i \in 1 .. n : q[i] \in Seq(S)
  BY OneAlphabet
<1> DEFINE V == Seq(S)
           step == [x \in (1 .. n) \X V |-> x[2] \odot q[x[1]]]
<1>2. <<>> \in V
  OBVIOUS
<1>3. ASSUME NEW i \in 1 .. n, NEW v \in V
      PROVE  step[<<i, v>>] = v \odot q[i] /\ step[<<i, v>>] \in V
  <2>1. v \odot q[i] \in V
    BY <1>1 DEF \odot
  <2> QED
    BY <2>1
<1> HIDE DEF V, step
<1>4. StaysIn(V, step, n)
  BY <1>3 DEF StaysIn
<1>5. PICK h \in [0 .. n -> V] : Iterates(<<>>, step, n, h)
  BY <1>2, <1>4, Iterate
<1>6. \A i \in 1 .. n : i - 1 \in 0 .. n
  OBVIOUS
<1>7. \A i \in 1 .. n : h[i] = h[i - 1] \odot q[i]
  BY <1>3, <1>5, <1>6 DEF Iterates
<1>8. \A i \in 0 .. n : IsSeq(h[i])
  BY <1>5 DEF IsSeq, V
<1> QED
  BY <1>5, <1>7, <1>8 DEF Runs, Iterates

LEMMA InTurnIs ==
    ASSUME NEW n \in Nat, NEW q, AreSeqs(n, q)
    PROVE  /\ IsSeq(InTurn(n, q))
           /\ InTurn(0, q) = <<>>
           /\ n # 0 => InTurn(n, q) = InTurn(n - 1, q) \odot q[n] /\ IsSeq(InTurn(n - 1, q))
<1>1. PICK h : Runs(n, q, h) /\ \A i \in 0 .. n : IsSeq(h[i])
  BY InTurnTable
<1>2. \A m \in 0 .. n : InTurn(m, q) = h[m]
  <2> TAKE m \in 0 .. n
  <2>0. m \in Nat /\ \A i \in 1 .. m : i \in 1 .. n
    OBVIOUS
  <2>1. Runs(m, q, h)
    BY <1>1, <2>0 DEF Runs
  <2> QED
    BY <2>0, <2>1, InTurnByTable
<1>3. n # 0 => n - 1 \in 0 .. n /\ n \in 1 .. n
  OBVIOUS
<1>4. 0 \in 0 .. n /\ n \in 0 .. n
  OBVIOUS
<1> QED
  BY <1>1, <1>2, <1>3, <1>4 DEF Runs

LEMMA InTurnNext ==
    ASSUME NEW n \in Nat, NEW q, AreSeqs(n + 1, q)
    PROVE  /\ InTurn(n + 1, q) = InTurn(n, q) \odot q[n + 1]
           /\ IsSeq(InTurn(n, q)) /\ IsSeq(q[n + 1]) /\ AreSeqs(n, q)
<1>1. n + 1 \in Nat /\ n + 1 # 0 /\ (n + 1) - 1 = n /\ n + 1 \in 1 .. n + 1
      /\ \A i \in 1 .. n : i \in 1 .. n + 1
  OBVIOUS
<1>2. IsSeq(q[n + 1]) /\ AreSeqs(n, q)
  BY <1>1 DEF AreSeqs
<1> QED
  BY <1>1, <1>2, InTurnIs

LEMMA InTurnSame ==
    ASSUME NEW n \in Nat, NEW q, NEW p, AreSeqs(n, q), \A i \in 1 .. n : p[i] = q[i]
    PROVE  InTurn(n, p) = InTurn(n, q)
<1>1. PICK h : Runs(n, q, h)
  BY InTurnTable
<1>2. Runs(n, p, h)
  BY <1>1 DEF Runs
<1> QED
  BY <1>1, <1>2, InTurnByTable

LEMMA InTurnNothing ==
    ASSUME NEW n \in Nat, NEW q, \A i \in 1 .. n : q[i] = <<>>
    PROVE  InTurn(n, q) = <<>>
<1> DEFINE h == [i \in 0 .. n |-> <<>>]
<1>1. <<>> \odot <<>> = <<>>
  BY Join, EmptyIsSeq
<1>2. \A i \in 1 .. n : i \in 0 .. n /\ i - 1 \in 0 .. n
  OBVIOUS
<1>3. h[0] = <<>> /\ h[n] = <<>> /\ \A i \in 1 .. n : h[i] = <<>> /\ h[i - 1] = <<>>
  BY <1>2
<1> HIDE DEF h
<1>4. Runs(n, q, h)
  BY <1>1, <1>3 DEF Runs
<1> QED
  BY <1>3, <1>4, InTurnByTable

(* p is what follows the first a of q. *)
Follows(p, q, a, b) == \A i \in 1 .. b : p[i] = q[a + i]

LEMMA InTurnSplit ==
    ASSUME NEW a \in Nat, NEW b \in Nat, NEW q, AreSeqs(a + b, q), NEW p, Follows(p, q, a, b)
    PROVE  InTurn(a + b, q) = InTurn(a, q) \odot InTurn(b, p)
<1> USE DEF Follows
<1> DEFINE S == {n \in Nat : n <= b => InTurn(a + n, q) = InTurn(a, q) \odot InTurn(n, p)}
<1>0. AreSeqs(a, q) /\ AreSeqs(b, p)
  <2>1. \A i \in 1 .. b : a + i \in 1 .. a + b
    OBVIOUS
  <2>2. \A i \in 1 .. a : i \in 1 .. a + b
    OBVIOUS
  <2> QED
    BY <2>1, <2>2 DEF AreSeqs
<1>1. 0 \in S
  <2>1. InTurn(0, p) = <<>> /\ IsSeq(InTurn(a, q))
    BY <1>0, InTurnIs
  <2>2. a + 0 = a
    OBVIOUS
  <2>3. InTurn(a + 0, q) = InTurn(a, q) \odot InTurn(0, p)
    BY <2>1, <2>2, Join
  <2> QED
    BY <2>3
<1>2. ASSUME NEW n \in Nat, n \in S PROVE n + 1 \in S
  <2> SUFFICES ASSUME n + 1 <= b PROVE InTurn(a + (n + 1), q) = InTurn(a, q) \odot InTurn(n + 1, p)
    OBVIOUS
  <2>1. a + n \in Nat /\ a + (n + 1) = (a + n) + 1 /\ n + 1 \in 1 .. b /\ n <= b
        /\ (\A i \in 1 .. (a + n) + 1 : i \in 1 .. a + b) /\ (\A i \in 1 .. n + 1 : i \in 1 .. b)
    OBVIOUS
  <2>2. AreSeqs((a + n) + 1, q) /\ AreSeqs(n + 1, p)
    BY <1>0, <2>1 DEF AreSeqs
  <2>3. InTurn((a + n) + 1, q) = InTurn(a + n, q) \odot q[(a + n) + 1]
    BY <2>1, <2>2, InTurnNext
  <2>4. InTurn(n + 1, p) = InTurn(n, p) \odot p[n + 1] /\ IsSeq(InTurn(n, p)) /\ IsSeq(p[n + 1])
    BY <2>2, InTurnNext
  <2>5. p[n + 1] = q[(a + n) + 1]
    BY <2>1
  <2>6. InTurn(a + n, q) = InTurn(a, q) \odot InTurn(n, p)
    BY <1>2, <2>1
  <2>7. IsSeq(InTurn(a, q))
    BY <1>0, InTurnIs
  <2>8. PICK x, y, z : x = InTurn(a, q) /\ y = InTurn(n, p) /\ z = p[n + 1]
    OBVIOUS
  <2>9. IsSeq(x) /\ IsSeq(y) /\ IsSeq(z)
    BY <2>4, <2>7, <2>8
  <2>10. InTurn((a + n) + 1, q) = (x \odot y) \odot z /\ InTurn(n + 1, p) = y \odot z
    BY <2>3, <2>4, <2>5, <2>6, <2>8
  <2>11. (x \odot y) \odot z = x \odot (y \odot z)
    BY ONLY <2>9, JoinAssoc
  <2> QED
    BY <2>1, <2>8, <2>10, <2>11
<1>3. b \in S
  <2> HIDE DEF S
  <2> QED
    BY <1>1, <1>2, Numbers
<1> QED
  BY <1>3

(* One loop around another is one loop. *)
(* o runs through q in a pieces of b. *)
Nested(o, p, q, a, b) ==
    /\ AreSeqs(a * b, q)
    /\ \A i \in 1 .. a : o[i] = InTurn(b, p[i])
    /\ \A i \in 1 .. a : \A j \in 1 .. b : p[i][j] = q[(i - 1) * b + j]

LEMMA InTurnNest ==
    ASSUME NEW a \in Nat, NEW b \in Nat, NEW q, NEW o, NEW p, Nested(o, p, q, a, b)
    PROVE  InTurn(a, o) = InTurn(a * b, q)
<1> USE DEF Nested
<1> DEFINE S == {n \in Nat : n <= a => InTurn(n, o) = InTurn(n * b, q) /\ AreSeqs(n, o)}
<1>1. 0 \in S
  <2>1. AreSeqs(0, o) /\ AreSeqs(0, q) /\ 0 * b = 0 /\ 0 <= a
    BY DEF AreSeqs
  <2>2. InTurn(0, o) = <<>> /\ InTurn(0 * b, q) = <<>>
    BY <2>1, InTurnIs
  <2> QED
    BY <2>1, <2>2
<1>2. ASSUME NEW n \in Nat, n \in S PROVE n + 1 \in S
  <2> SUFFICES ASSUME n + 1 <= a
               PROVE  InTurn(n + 1, o) = InTurn((n + 1) * b, q) /\ AreSeqs(n + 1, o)
    OBVIOUS
  <2> DEFINE c == n * b
  <2>1. c \in Nat /\ (n + 1) * b = c + b /\ n + 1 \in 1 .. a /\ n <= a /\ (n + 1) - 1 = n
    OBVIOUS
  <2>2. (n + 1) * b <= a * b
    BY TimesLess
  <2>2a. a * b \in Nat
    OBVIOUS
  <2> HIDE DEF c
  <2> DEFINE m == a * b
  <2>3. c + b <= m /\ m \in Nat
    BY <2>1, <2>2, <2>2a
  <2> HIDE DEF m
  <2>4. AreSeqs(c + b, q)
    <3>1. \A i \in 1 .. c + b : i \in 1 .. m
      BY <2>1, <2>3
    <3> QED
      BY <3>1 DEF AreSeqs, m
  <2>5. \A j \in 1 .. b : p[n + 1][j] = q[c + j]
    BY <2>1 DEF c
  <2>6. InTurn(c + b, q) = InTurn(c, q) \odot InTurn(b, p[n + 1])
    <3>1. PICK r : r = p[n + 1]
      OBVIOUS
    <3>2. Follows(r, q, c, b)
      BY <2>5, <3>1 DEF Follows
    <3>3. PICK d : d = c
      OBVIOUS
    <3>4. d \in Nat /\ b \in Nat /\ AreSeqs(d + b, q) /\ Follows(r, q, d, b)
      BY <2>1, <2>4, <3>2, <3>3
    <3>5. InTurn(d + b, q) = InTurn(d, q) \odot InTurn(b, r)
      BY ONLY <3>4, InTurnSplit
    <3> QED
      BY <3>1, <3>3, <3>5
  <2>7. AreSeqs(b, p[n + 1])
    <3>1. \A j \in 1 .. b : c + j \in 1 .. c + b
      BY <2>1
    <3> QED
      BY <2>4, <2>5, <3>1 DEF AreSeqs
  <2>8. o[n + 1] = InTurn(b, p[n + 1])
    BY <2>1
  <2>9. IsSeq(o[n + 1])
    BY <2>7, <2>8, InTurnIs
  <2>10. InTurn(n, o) = InTurn(c, q) /\ AreSeqs(n, o)
    BY <1>2, <2>1 DEF c
  <2>11. AreSeqs(n + 1, o)
    <3>1. \A i \in 1 .. n + 1 : i \in 1 .. n \/ i = n + 1
      OBVIOUS
    <3> QED
      BY <2>9, <2>10, <3>1 DEF AreSeqs
  <2>12. InTurn(n + 1, o) = InTurn(n, o) \odot o[n + 1]
    BY <2>11, InTurnNext
  <2> HIDE DEF S
  <2> QED
    BY <2>1, <2>6, <2>8, <2>10, <2>11, <2>12
<1>3. a \in S
  <2> HIDE DEF S
  <2> QED
    BY <1>1, <1>2, Numbers
<1> QED
  BY <1>3

--------------------------------------------------------------------------------
(* A choreography: exchanges in an order in which they could all happen, a  *)
(* datum written and read at once.  A task takes part in the exchanges on its*)
(* streams, o those it writes and i those it reads.                         *)

Send(c, m) == <<[ch |-> c, msg |-> m]>>
Does(o, i, x) == IF x.ch \in o THEN W(x.ch, x.msg) ELSE IF x.ch \in i THEN R(x.ch, x.msg) ELSE <<>>
Part(o, i, t) == InTurn(Len(t), [n \in 1 .. Len(t) |-> Does(o, i, t[n])])

(* at[n], how many of its operations a task has done after n exchanges. *)
TakesPart(s, at, o, i, t) ==
    /\ at \in [0 .. Len(t) -> Nat]
    /\ at[0] = 0
    /\ Len(s) = at[Len(t)] /\ DOMAIN s = 1 .. Len(s)
    /\ \A n \in 1 .. Len(t) :
          IF t[n].ch \in o \cup i
          THEN /\ at[n] = at[n - 1] + 1
               /\ s[at[n]].dir = (IF t[n].ch \in o THEN "w" ELSE "r")
               /\ s[at[n]].ch = t[n].ch /\ s[at[n]].msg = t[n].msg
          ELSE at[n] = at[n - 1]

LEMMA DoesIs ==
    ASSUME NEW o, NEW i, NEW x
    PROVE  /\ IsSeq(Does(o, i, x))
           /\ Len(Does(o, i, x)) = IF x.ch \in o \cup i THEN 1 ELSE 0
           /\ x.ch \in o \cup i => /\ Does(o, i, x)[1].dir = (IF x.ch \in o THEN "w" ELSE "r")
                                   /\ Does(o, i, x)[1].ch = x.ch
                                   /\ Does(o, i, x)[1].msg = x.msg
<1>1. CASE x.ch \in o
  <2>1. Does(o, i, x) = <<[dir |-> "w", ch |-> x.ch, msg |-> x.msg]>>
    BY <1>1 DEF Does, W
  <2> QED
    BY <1>1, <2>1, OneIsSeq
<1>2. CASE x.ch \notin o /\ x.ch \in i
  <2>1. Does(o, i, x) = <<[dir |-> "r", ch |-> x.ch, msg |-> x.msg]>>
    BY <1>2 DEF Does, R
  <2> QED
    BY <1>2, <2>1, OneIsSeq
<1>3. CASE x.ch \notin o /\ x.ch \notin i
  BY <1>3, EmptyIsSeq DEF Does
<1> QED
  BY <1>1, <1>2, <1>3

LEMMA PartTable ==
    ASSUME NEW o, NEW i, NEW t, IsSeq(t)
    PROVE  \E at : TakesPart(Part(o, i, t), at, o, i, t)
<1> DEFINE N == Len(t)
           q == [n \in 1 .. N |-> Does(o, i, t[n])]
           at == [n \in 0 .. N |-> Len(InTurn(n, q))]
           s == Part(o, i, t)
<1>1. N \in Nat
  BY DEF IsSeq
<1>2. AreSeqs(N, q)
  BY DoesIs DEF AreSeqs
<1>3. s = InTurn(N, q)
  BY DEF Part
<1> HIDE DEF s
<1>4. \A n \in 1 .. N : q[n] = Does(o, i, t[n])
  OBVIOUS
<1> HIDE DEF q
<1>5. ASSUME NEW n \in 0 .. N
      PROVE  /\ n \in Nat /\ AreSeqs(n, q) /\ IsSeq(InTurn(n, q)) /\ at[n] = Len(InTurn(n, q))
             /\ at[n] \in Nat
  <2>1. n \in Nat /\ \A m \in 1 .. n : m \in 1 .. N
    BY <1>1
  <2>2. AreSeqs(n, q)
    BY <1>2, <2>1 DEF AreSeqs
  <2>3. IsSeq(InTurn(n, q))
    BY <2>1, <2>2, InTurnIs
  <2>4. Len(InTurn(n, q)) \in Nat
    BY <2>3, JoinLen
  <2> QED
    BY <2>1, <2>2, <2>3, <2>4
<1>6. at \in [0 .. N -> Nat]
  BY <1>5
<1>7. at[0] = 0
  <2>1. InTurn(0, q) = <<>> /\ 0 \in 0 .. N
    BY <1>1, <1>2, InTurnIs
  <2> QED
    BY <2>1
<1>8. IsSeq(s) /\ Len(s) = at[N]
  <2>1. N \in 0 .. N
    BY <1>1
  <2> QED
    BY <1>3, <1>5, <2>1
<1>8a. DOMAIN s = 1 .. Len(s)
  BY <1>8 DEF IsSeq
<1>9. ASSUME NEW n \in 1 .. N
      PROVE  IF t[n].ch \in o \cup i
             THEN /\ at[n] = at[n - 1] + 1
                  /\ s[at[n]].dir = (IF t[n].ch \in o THEN "w" ELSE "r")
                  /\ s[at[n]].ch = t[n].ch /\ s[at[n]].msg = t[n].msg
             ELSE at[n] = at[n - 1]
  <2>1. n \in 0 .. N /\ n - 1 \in 0 .. N /\ n - 1 \in Nat /\ (n - 1) + 1 = n
    BY <1>1
  <2>2. PICK a, d : a = InTurn(n - 1, q) /\ d = Does(o, i, t[n])
    OBVIOUS
  <2>3. IsSeq(a) /\ IsSeq(d) /\ Len(a) = at[n - 1] /\ at[n - 1] \in Nat /\ AreSeqs(n, q)
    BY <1>5, <2>1, <2>2, DoesIs
  <2>4. InTurn(n, q) = a \odot d
    BY <1>4, <2>1, <2>2, <2>3, InTurnNext
  <2>5. /\ Len(d) = IF t[n].ch \in o \cup i THEN 1 ELSE 0
        /\ t[n].ch \in o \cup i => /\ d[1].dir = (IF t[n].ch \in o THEN "w" ELSE "r")
                                   /\ d[1].ch = t[n].ch /\ d[1].msg = t[n].msg
    <3>1. PICK x : x = t[n]
      OBVIOUS
    <3>2. d = Does(o, i, x)
      BY <2>2, <3>1
    <3>3. /\ Len(d) = IF x.ch \in o \cup i THEN 1 ELSE 0
          /\ x.ch \in o \cup i => /\ d[1].dir = (IF x.ch \in o THEN "w" ELSE "r")
                                  /\ d[1].ch = x.ch /\ d[1].msg = x.msg
      BY <3>2, DoesIs
    <3> QED
      BY <3>1, <3>3
  <2>6. at[n] = Len(a \odot d) /\ Len(a \odot d) = Len(a) + Len(d)
    BY <1>5, <2>1, <2>3, <2>4, JoinLen
  <2>7. ASSUME t[n].ch \in o \cup i PROVE s[at[n]] = d[1]
    <3>1. Len(d) = 1 /\ Len(a) + 1 \in 1 .. Len(a) + Len(d) /\ ~(Len(a) + 1 <= Len(a)) /\ (Len(a) + 1) - Len(a) = 1
      BY <2>3, <2>5, <2>7
    <3>2. (a \odot d)[Len(a) + 1] = d[1]
      <4>1. PICK j : j = Len(a) + 1
        OBVIOUS
      <4>2. j \in 1 .. Len(a) + Len(d) /\ ~(j <= Len(a)) /\ j - Len(a) = 1
        BY <3>1, <4>1
      <4>3. (a \odot d)[j] = IF j <= Len(a) THEN a[j] ELSE d[j - Len(a)]
        BY <2>3, <4>2, JoinLen
      <4>4. (a \odot d)[j] = d[1]
        BY <4>2, <4>3
      <4> QED
        BY <4>1, <4>4
    <3>3. PICK p : p = [m \in 1 .. N - n |-> q[n + m]]
      OBVIOUS
    <3>4. n \in Nat /\ N - n \in Nat /\ n + (N - n) = N
      BY <1>1
    <3>5. Follows(p, q, n, N - n)
      BY <3>3 DEF Follows
    <3>6. PICK l \in Nat : l = N - n /\ n + l = N
      BY <3>4
    <3>7. AreSeqs(n + l, q) /\ Follows(p, q, n, l)
      BY <1>2, <3>5, <3>6
    <3>8. InTurn(n + l, q) = InTurn(n, q) \odot InTurn(l, p)
      BY <3>4, <3>7, InTurnSplit
    <3>9. PICK b, e : b = InTurn(n, q) /\ e = InTurn(l, p)
      OBVIOUS
    <3>10. s = b \odot e /\ b = a \odot d
      BY <1>3, <2>4, <3>6, <3>8, <3>9
    <3>11. AreSeqs(l, p)
      <4>1. \A m \in 1 .. l : n + m \in 1 .. n + l
        BY <3>4
      <4> QED
        BY <3>7, <4>1 DEF AreSeqs, Follows
    <3>12. IsSeq(b) /\ IsSeq(e)
      BY <1>5, <2>1, <3>9, <3>11, InTurnIs
    <3>13. at[n] = Len(a) + 1 /\ at[n] = Len(b) /\ Len(b) \in Nat /\ Len(b) # 0 /\ Len(e) \in Nat
      BY <1>5, <2>1, <2>3, <2>6, <3>1, <3>9, <3>12, JoinLen
    <3>14. at[n] \in 1 .. Len(b) + Len(e) /\ at[n] <= Len(b)
      BY <3>13
    <3>15. (b \odot e)[at[n]] = b[at[n]]
      BY <3>12, <3>14, JoinLen
    <3> QED
      BY <3>2, <3>10, <3>13, <3>15
  <2> HIDE DEF at
  <2>8. CASE t[n].ch \in o \cup i
    BY <2>3, <2>5, <2>6, <2>7, <2>8
  <2>9. CASE t[n].ch \notin o \cup i
    BY <2>3, <2>5, <2>6, <2>9
  <2> QED
    BY <2>8, <2>9
<1>10. TakesPart(s, at, o, i, t)
  <2> HIDE DEF at
  <2> QED
    BY <1>6, <1>7, <1>8, <1>8a, <1>9 DEF TakesPart
<1> QED
  BY <1>10 DEF s

(* The scripts of a run are the parts of t, with by[c] the writer and to[c] *)
(* the reader of stream c.                                                  *)

Ours(by, k) == {c \in DOMAIN by : by[c] = k}

Choreography(r, t, by, to) ==
    /\ IsSeq(t)
    /\ \A c \in DOMAIN Depth[r] : Depth[r][c] \in Nat \ {0}
    /\ by \in [DOMAIN Depth[r] -> DOMAIN Script[r]]
    /\ to \in [DOMAIN Depth[r] -> DOMAIN Script[r]]
    /\ \A c \in DOMAIN Depth[r] : by[c] # to[c]
    /\ \A n \in 1 .. Len(t) : t[n].ch \in DOMAIN Depth[r]
    /\ \A k \in DOMAIN Script[r] : Script[r][k] = Part(Ours(by, k), Ours(to, k), t)
Choreographed(r) == \E t, by, to : Choreography(r, t, by, to)

Side(by, to, dir) == IF dir = "w" THEN by ELSE to

(* The same, seen from the positions: after n exchanges task k has done    *)
(* at[k][n] operations.                                                    *)
Paced(r, t, by, to, at) ==
    /\ Choreography(r, t, by, to)
    /\ \A k \in DOMAIN Script[r] :
          TakesPart(Script[r][k], at[k], Ours(by, k), Ours(to, k), t)

LEMMA Pace ==
    ASSUME NEW r, NEW t, NEW by, NEW to, Choreography(r, t, by, to)
    PROVE  \E at : Paced(r, t, by, to, at)
<1> DEFINE Good(k, a) == TakesPart(Script[r][k], a, Ours(by, k), Ours(to, k), t)
           at == [k \in DOMAIN Script[r] |-> CHOOSE a : Good(k, a)]
<1>1. ASSUME NEW k \in DOMAIN Script[r] PROVE Good(k, at[k])
  <2>1. Script[r][k] = Part(Ours(by, k), Ours(to, k), t) /\ IsSeq(t)
    BY DEF Choreography
  <2>2. \E a : Good(k, a)
    BY <2>1, PartTable
  <2>3. at[k] = CHOOSE a : Good(k, a)
    OBVIOUS
  <2> HIDE DEF at, Good
  <2> QED
    BY <2>2, <2>3
<1> HIDE DEF at
<1>2. Paced(r, t, by, to, at)
  BY <1>1 DEF Paced
<1> QED
  BY <1>2

LEMMA PacedLen ==
    ASSUME NEW r, NEW t, NEW by, NEW to, NEW at, Paced(r, t, by, to, at)
    PROVE  /\ Len(t) \in Nat
           /\ \A k \in DOMAIN Script[r] :
                 /\ at[k][0] = 0
                 /\ \A n \in 0 .. Len(t) : at[k][n] \in Nat
                 /\ Len(Script[r][k]) = at[k][Len(t)] /\ Len(Script[r][k]) \in Nat
                 /\ DOMAIN Script[r][k] = 1 .. Len(Script[r][k])
<1>1. Len(t) \in Nat
  BY DEF Paced, Choreography, IsSeq
<1>2. Len(t) \in 0 .. Len(t)
  BY <1>1
<1>3. ASSUME NEW k \in DOMAIN Script[r]
      PROVE  /\ at[k][0] = 0
             /\ \A n \in 0 .. Len(t) : at[k][n] \in Nat
             /\ Len(Script[r][k]) = at[k][Len(t)] /\ Len(Script[r][k]) \in Nat
             /\ DOMAIN Script[r][k] = 1 .. Len(Script[r][k])
  BY <1>2 DEF Paced, TakesPart
<1> QED
  BY <1>1, <1>3

(* What exchange n does to the position of task k. *)
Moves(r, t, by, to, at, n, k) ==
    /\ \A dir \in {"r", "w"} : Side(by, to, dir)[t[n].ch] = k =>
          /\ at[k][n] = at[k][n - 1] + 1
          /\ Is(r, k, at[k][n], dir, t[n].ch)
          /\ Script[r][k][at[k][n]].msg = t[n].msg
    /\ (\A dir \in {"r", "w"} : Side(by, to, dir)[t[n].ch] # k) => at[k][n] = at[k][n - 1]

LEMMA PacedStep ==
    ASSUME NEW r, NEW t, NEW by, NEW to, NEW at, Paced(r, t, by, to, at),
           NEW n \in 1 .. Len(t), NEW k \in DOMAIN Script[r]
    PROVE  /\ n \in Nat /\ n \in 0 .. Len(t) /\ n - 1 \in 0 .. Len(t) /\ n - 1 \in Nat /\ (n - 1) + 1 = n
           /\ at[k][n] \in Nat /\ at[k][n - 1] \in Nat
           /\ t[n].ch \in DOMAIN Depth[r]
           /\ Moves(r, t, by, to, at, n, k)
<1>1. Len(t) \in Nat /\ \A m \in 0 .. Len(t) : at[k][m] \in Nat
  BY PacedLen
<1>2. n \in Nat /\ n \in 0 .. Len(t) /\ n - 1 \in 0 .. Len(t) /\ n - 1 \in Nat /\ (n - 1) + 1 = n
  BY <1>1
<1>3. PICK c : c = t[n].ch
  OBVIOUS
<1>4. c \in DOMAIN Depth[r] /\ by[c] # to[c] /\ DOMAIN by = DOMAIN Depth[r] /\ DOMAIN to = DOMAIN Depth[r]
  BY <1>3 DEF Paced, Choreography
<1>5. (c \in Ours(by, k) <=> by[c] = k) /\ (c \in Ours(to, k) <=> to[c] = k)
  BY <1>4 DEF Ours
<1>6. IF c \in Ours(by, k) \cup Ours(to, k)
      THEN /\ at[k][n] = at[k][n - 1] + 1
           /\ Script[r][k][at[k][n]].dir = (IF c \in Ours(by, k) THEN "w" ELSE "r")
           /\ Script[r][k][at[k][n]].ch = c /\ Script[r][k][at[k][n]].msg = t[n].msg
      ELSE at[k][n] = at[k][n - 1]
  <2>1. TakesPart(Script[r][k], at[k], Ours(by, k), Ours(to, k), t)
    BY DEF Paced
  <2> QED
    BY <1>3, <2>1 DEF TakesPart
<1>7. ASSUME NEW dir \in {"r", "w"}, Side(by, to, dir)[c] = k
      PROVE  /\ at[k][n] = at[k][n - 1] + 1
             /\ Is(r, k, at[k][n], dir, c)
             /\ Script[r][k][at[k][n]].msg = t[n].msg
  <2>1. CASE dir = "w"
    BY <1>5, <1>6, <1>7, <2>1 DEF Side, Is
  <2>2. CASE dir = "r"
    BY <1>4, <1>5, <1>6, <1>7, <2>2 DEF Side, Is
  <2> QED
    BY <2>1, <2>2
<1>8. ASSUME \A dir \in {"r", "w"} : Side(by, to, dir)[c] # k PROVE at[k][n] = at[k][n - 1]
  <2>1. by[c] # k /\ to[c] # k
    BY <1>8 DEF Side
  <2> QED
    BY <1>5, <1>6, <2>1
<1> QED
  BY <1>1, <1>2, <1>3, <1>4, <1>7, <1>8 DEF Moves

(* Positions only grow. *)
LEMMA PacedGrows ==
    ASSUME NEW r, NEW t, NEW by, NEW to, NEW at, Paced(r, t, by, to, at),
           NEW k \in DOMAIN Script[r], NEW m \in 0 .. Len(t), NEW n \in m .. Len(t)
    PROVE  at[k][m] <= at[k][n]
<1> DEFINE S == {i \in Nat : m + i <= Len(t) => at[k][m] <= at[k][m + i]}
<1>0. Len(t) \in Nat /\ \A i \in 0 .. Len(t) : at[k][i] \in Nat
  BY PacedLen
<1>1. 0 \in S
  <2>1. m + 0 = m
    BY <1>0
  <2> QED
    BY <1>0, <2>1
<1>2. ASSUME NEW i \in Nat, i \in S PROVE i + 1 \in S
  <2> SUFFICES ASSUME m + (i + 1) <= Len(t) PROVE at[k][m] <= at[k][m + (i + 1)]
    OBVIOUS
  <2>1. PICK x : x = m + (i + 1)
    OBVIOUS
  <2>2. x \in 1 .. Len(t) /\ x - 1 = m + i /\ m + i <= Len(t) /\ x - 1 \in 0 .. Len(t) /\ x \in 0 .. Len(t)
    BY <1>0, <2>1
  <2>3. at[k][x] = at[k][x - 1] + 1 \/ at[k][x] = at[k][x - 1]
    <3>1. Moves(r, t, by, to, at, x, k)
      BY <2>2, PacedStep
    <3>2. CASE \E dir \in {"r", "w"} : Side(by, to, dir)[t[x].ch] = k
      BY <3>1, <3>2 DEF Moves
    <3>3. CASE \A dir \in {"r", "w"} : Side(by, to, dir)[t[x].ch] # k
      BY <3>1, <3>3 DEF Moves
    <3> QED
      BY <3>2, <3>3
  <2>4. at[k][m] <= at[k][x - 1]
    BY <1>2, <2>2
  <2>5. at[k][x] \in Nat /\ at[k][x - 1] \in Nat /\ at[k][m] \in Nat
    BY <1>0, <2>2
  <2> QED
    BY <2>1, <2>3, <2>4, <2>5
<1>3. n - m \in S
  <2> HIDE DEF S
  <2>1. n - m \in Nat
    BY <1>0
  <2> QED
    BY <1>1, <1>2, <2>1, Numbers
<1>4. m + (n - m) = n /\ n <= Len(t)
  BY <1>0
<1> QED
  BY <1>3, <1>4

(* Operation m of task k is its part in exchange n. *)
PartIn(r, t, by, to, at, k, m, n) ==
    /\ at[k][n] = m /\ at[k][n - 1] = m - 1
    /\ Script[r][k][m].msg = t[n].msg
    /\ \E dir \in {"r", "w"} : Side(by, to, dir)[t[n].ch] = k /\ Is(r, k, m, dir, t[n].ch)

(* Every operation of a task is its part in one of the exchanges. *)
LEMMA PartOf ==
    ASSUME NEW r, NEW t, NEW by, NEW to, NEW at, Paced(r, t, by, to, at),
           NEW k \in DOMAIN Script[r], NEW m \in 1 .. Len(Script[r][k])
    PROVE  \E n \in 1 .. Len(t) : PartIn(r, t, by, to, at, k, m, n)
<1> DEFINE Found(x) == \E n \in 1 .. Len(t) : PartIn(r, t, by, to, at, k, x, n)
           S == {i \in Nat : i <= Len(t) => \A x \in 1 .. at[k][i] : Found(x)}
<1>0. Len(t) \in Nat /\ (\A i \in 0 .. Len(t) : at[k][i] \in Nat) /\ at[k][0] = 0
      /\ Len(Script[r][k]) = at[k][Len(t)]
  BY PacedLen
<1>1. 0 \in S
  BY <1>0
<1>2. ASSUME NEW i \in Nat, i \in S PROVE i + 1 \in S
  <2> SUFFICES ASSUME i + 1 <= Len(t), NEW x \in 1 .. at[k][i + 1] PROVE Found(x)
    OBVIOUS
  <2>1. PICK n : n = i + 1
    OBVIOUS
  <2>2. n \in 1 .. Len(t) /\ n - 1 = i /\ i <= Len(t) /\ i \in 0 .. Len(t)
    BY <1>0, <2>1
  <2>3. CASE x \in 1 .. at[k][i]
    BY <1>2, <2>2, <2>3
  <2>4. CASE x \notin 1 .. at[k][i]
    <3>1. at[k][n] \in Nat /\ at[k][i] \in Nat
      BY <1>0, <2>2
    <3>2. at[k][n] # at[k][n - 1]
      BY <2>1, <2>2, <2>4
    <3>2a. Moves(r, t, by, to, at, n, k)
      BY <2>2, PacedStep
    <3>3. PICK dir \in {"r", "w"} : Side(by, to, dir)[t[n].ch] = k
      BY <3>2, <3>2a DEF Moves
    <3>4. /\ at[k][n] = at[k][n - 1] + 1
          /\ Is(r, k, at[k][n], dir, t[n].ch)
          /\ Script[r][k][at[k][n]].msg = t[n].msg
      BY <3>2a, <3>3 DEF Moves
    <3>5. x = at[k][n] /\ x - 1 = at[k][n - 1]
      <4>1. PICK b, a : b = at[k][n] /\ a = at[k][n - 1]
        OBVIOUS
      <4>2. x \in 1 .. b /\ x \notin 1 .. a
        BY <2>1, <2>2, <2>4, <4>1
      <4>3. b = a + 1 /\ a \in Nat /\ b \in Nat
        BY <2>2, <3>1, <3>4, <4>1
      <4> QED
        BY <4>1, <4>2, <4>3
    <3>6. PartIn(r, t, by, to, at, k, x, n)
      BY <3>3, <3>4, <3>5 DEF PartIn
    <3> QED
      BY <2>2, <3>6
  <2> QED
    BY <2>3, <2>4
<1>3. Len(t) \in S
  <2> HIDE DEF S
  <2> QED
    BY <1>0, <1>1, <1>2, Numbers
<1> HIDE DEF Found
<1>4. Found(m)
  BY <1>0, <1>3
<1> QED
  BY <1>4 DEF Found

(* Scripts that are the parts of one sequence of exchanges make a kernel.  *)
LEMMA ChoreographyForms ==
    ASSUME \A r \in Run : Choreographed(r)
    PROVE  WellFormed
<1> SUFFICES ASSUME NEW r \in Run
             PROVE  /\ \A c \in DOMAIN Depth[r] : Depth[r][c] \in Nat \ {0}
                    /\ \A k \in DOMAIN Script[r] :
                          /\ Len(Script[r][k]) \in Nat
                          /\ DOMAIN Script[r][k] = 1 .. Len(Script[r][k])
                          /\ \A i \in DOMAIN Script[r][k] :
                                /\ Script[r][k][i].ch \in DOMAIN Depth[r]
                                /\ Script[r][k][i].dir \in {"r", "w"}
                    /\ \A e, f \in AllEnds(r) : e[1] # f[1] /\ e[2] = f[2] => e[3] \cap f[3] = {}
  BY DEF WellFormed
<1>1. PICK t, by, to : Choreography(r, t, by, to)
  BY DEF Choreographed
<1>2. PICK at : Paced(r, t, by, to, at)
  BY <1>1, Pace
<1>3. \A c \in DOMAIN Depth[r] : Depth[r][c] \in Nat \ {0}
  BY <1>1 DEF Choreography
<1>4. ASSUME NEW k \in DOMAIN Script[r]
      PROVE  Len(Script[r][k]) \in Nat /\ DOMAIN Script[r][k] = 1 .. Len(Script[r][k])
  BY <1>2, PacedLen
<1>5. ASSUME NEW k \in DOMAIN Script[r], NEW i \in DOMAIN Script[r][k]
      PROVE  \E c \in DOMAIN Depth[r] : \E dir \in {"r", "w"} :
                /\ Script[r][k][i].ch = c /\ Script[r][k][i].dir = dir
                /\ Side(by, to, dir)[c] = k
  <2>1. i \in 1 .. Len(Script[r][k])
    BY <1>4
  <2>2. PICK n \in 1 .. Len(t) : PartIn(r, t, by, to, at, k, i, n)
    BY <1>2, <2>1, PartOf
  <2>3. t[n].ch \in DOMAIN Depth[r]
    BY <1>1 DEF Choreography
  <2> QED
    BY <2>2, <2>3 DEF Is, PartIn
<1>6. ASSUME NEW k \in DOMAIN Script[r], NEW dir \in {"r", "w"}, NEW c \in Ends(r, k, dir)
      PROVE  Side(by, to, dir)[c] = k
  <2>1. PICK i \in DOMAIN Script[r][k] : Script[r][k][i].dir = dir /\ c = Script[r][k][i].ch
    BY DEF Ends
  <2> QED
    BY <1>5, <2>1
<1> DEFINE ends == {<<k, dir, Ends(r, k, dir)>> : k \in DOMAIN Script[r], dir \in {"r", "w"}}
<1>7. ASSUME NEW e \in ends, NEW f \in ends, e[1] # f[1], e[2] = f[2], NEW c \in e[3] \cap f[3]
      PROVE  FALSE
  <2>1. PICK k \in DOMAIN Script[r], d \in {"r", "w"} : e = <<k, d, Ends(r, k, d)>>
    OBVIOUS
  <2>2. PICK j \in DOMAIN Script[r], b \in {"r", "w"} : f = <<j, b, Ends(r, j, b)>>
    OBVIOUS
  <2> HIDE DEF ends
  <2>3. k # j /\ d = b /\ c \in Ends(r, k, d) /\ c \in Ends(r, j, d)
    BY <1>7, <2>1, <2>2
  <2>4. Side(by, to, d)[c] = k /\ Side(by, to, d)[c] = j
    BY <1>6, <2>3
  <2> QED
    BY <2>3, <2>4
<1>8. \A e, f \in ends : e[1] # f[1] /\ e[2] = f[2] => e[3] \cap f[3] = {}
  <2> HIDE DEF ends
  <2> QED
    BY <1>7
<1>9. \A k \in DOMAIN Script[r] :
                          /\ Len(Script[r][k]) \in Nat
                          /\ DOMAIN Script[r][k] = 1 .. Len(Script[r][k])
                          /\ \A i \in DOMAIN Script[r][k] :
                                /\ Script[r][k][i].ch \in DOMAIN Depth[r]
                                /\ Script[r][k][i].dir \in {"r", "w"}
  BY <1>4, <1>5
<1> QED
  BY <1>3, <1>8, <1>9 DEF AllEnds

(* How many of the first n exchanges are on stream c. *)
On(t, i, c) == t[i].ch = c
Seen(t, c, n) == Cardinality({i \in 1 .. n : On(t, i, c)})

LEMMA SeenIs ==
    ASSUME NEW t, NEW c, NEW n \in Nat
    PROVE  /\ Seen(t, c, n) \in Nat
           /\ Seen(t, c, 0) = 0
           /\ Seen(t, c, n + 1) = Seen(t, c, n) + (IF On(t, n + 1, c) THEN 1 ELSE 0)
           /\ \A m \in 0 .. n : Seen(t, c, m) <= Seen(t, c, n)
<1> DEFINE S(m) == {i \in 1 .. m : On(t, i, c)}
<1>1. \A m \in Nat : IsFiniteSet(S(m)) /\ Cardinality(S(m)) \in Nat
  <2> TAKE m \in Nat
  <2>1. IsFiniteSet(1 .. m)
    BY FS_Interval
  <2>2. IsFiniteSet(S(m))
    BY <2>1, FS_Subset
  <2> QED
    BY <2>2, FS_CardinalityType
<1>2. S(0) = {}
  OBVIOUS
<1>3. ASSUME On(t, n + 1, c) PROVE Cardinality(S(n + 1)) = Cardinality(S(n)) + 1
  <2>1. S(n + 1) = S(n) \cup {n + 1} /\ n + 1 \notin S(n)
    BY <1>3
  <2> HIDE DEF S
  <2>2. Cardinality(S(n + 1)) = Cardinality(S(n)) + 1
    BY <1>1, <2>1, FS_AddElement
  <2> QED
    BY <2>2
<1>4. ASSUME ~On(t, n + 1, c) PROVE Cardinality(S(n + 1)) = Cardinality(S(n))
  <2>1. S(n + 1) = S(n)
    BY <1>4
  <2> QED
    BY <2>1
<1>5. ASSUME NEW m \in 0 .. n PROVE Cardinality(S(m)) <= Cardinality(S(n))
  <2>1. S(m) \subseteq S(n)
    BY <1>5
  <2> HIDE DEF S
  <2> QED
    BY <1>1, <2>1, FS_Subset
<1>6. Cardinality(S(0)) = 0
  BY <1>2, FS_EmptySet
<1>7. Seen(t, c, n + 1) = Seen(t, c, n) + (IF On(t, n + 1, c) THEN 1 ELSE 0)
  BY <1>1, <1>3, <1>4 DEF Seen
<1> QED
  BY <1>1, <1>5, <1>6, <1>7 DEF Seen

(* After n exchanges each end of a stream was used as often. *)
LEMMA TimesSeen ==
    ASSUME NEW r, NEW t, NEW by, NEW to, NEW at, Paced(r, t, by, to, at),
           NEW k \in DOMAIN Script[r], NEW dir \in {"r", "w"}, NEW c \in DOMAIN Depth[r],
           Side(by, to, dir)[c] = k, NEW n \in 0 .. Len(t)
    PROVE  Times(r, k, dir, c, at[k][n]) = Seen(t, c, n)
<1> DEFINE S == {i \in Nat : i <= Len(t) => Times(r, k, dir, c, at[k][i]) = Seen(t, c, i)}
<1>0. Len(t) \in Nat /\ (\A i \in 0 .. Len(t) : at[k][i] \in Nat) /\ at[k][0] = 0
  BY PacedLen
<1>1. 0 \in S
  <2>1. 0 \in Nat
    OBVIOUS
  <2>2. Times(r, k, dir, c, 0) = 0
    BY <2>1, TimesIs
  <2>3. Seen(t, c, 0) = 0
    BY <2>1, SeenIs
  <2> QED
    BY <1>0, <2>2, <2>3
<1>2. ASSUME NEW i \in Nat, i \in S PROVE i + 1 \in S
  <2> SUFFICES ASSUME i + 1 <= Len(t) PROVE Times(r, k, dir, c, at[k][i + 1]) = Seen(t, c, i + 1)
    OBVIOUS
  <2>1. PICK x : x = i + 1
    OBVIOUS
  <2>2. x \in 1 .. Len(t) /\ x - 1 = i /\ i <= Len(t) /\ i \in 0 .. Len(t)
    BY <1>0, <2>1
  <2>3. Moves(r, t, by, to, at, x, k)
    BY <2>2, PacedStep
  <2>4. PICK a, b : a = at[k][i] /\ b = at[k][x]
    OBVIOUS
  <2>5. a \in Nat
    BY <1>0, <2>2, <2>4
  <2>6. Times(r, k, dir, c, a) = Seen(t, c, i)
    BY <1>2, <2>2, <2>4
  <2>7. Times(r, k, dir, c, a + 1) = Times(r, k, dir, c, a) + (IF Is(r, k, a + 1, dir, c) THEN 1 ELSE 0)
        /\ Times(r, k, dir, c, a) \in Nat
    BY <2>5, TimesIs
  <2>8. Seen(t, c, x) = Seen(t, c, i) + (IF On(t, x, c) THEN 1 ELSE 0)
    BY <2>1, SeenIs
  <2>9. CASE t[x].ch = c
    <3>1. b = a + 1 /\ Is(r, k, b, dir, c)
      BY <2>2, <2>3, <2>4, <2>9 DEF Moves
    <3> QED
      BY <2>1, <2>4, <2>6, <2>7, <2>8, <2>9, <3>1 DEF On
  <2>10. CASE t[x].ch # c /\ \E d \in {"r", "w"} : Side(by, to, d)[t[x].ch] = k
    <3>1. PICK d \in {"r", "w"} : Side(by, to, d)[t[x].ch] = k
      BY <2>10
    <3>2. b = a + 1 /\ Is(r, k, b, d, t[x].ch)
      BY <2>2, <2>3, <2>4, <3>1 DEF Moves
    <3>3. ~Is(r, k, b, dir, c)
      BY <2>10, <3>2 DEF Is
    <3> QED
      BY <2>1, <2>4, <2>6, <2>7, <2>8, <2>10, <3>2, <3>3 DEF On
  <2>11. CASE t[x].ch # c /\ \A d \in {"r", "w"} : Side(by, to, d)[t[x].ch] # k
    <3>1. b = a
      BY <2>2, <2>3, <2>4, <2>11 DEF Moves
    <3>2. Seen(t, c, x) = Seen(t, c, i)
      BY <2>6, <2>7, <2>8, <2>11 DEF On
    <3> QED
      BY <2>1, <2>4, <2>6, <3>1, <3>2
  <2> QED
    BY <2>9, <2>10, <2>11
<1>3. n \in S
  <2> HIDE DEF S
  <2>1. n \in Nat
    BY <1>0
  <2> QED
    BY <1>1, <1>2, <2>1, Numbers
<1> QED
  BY <1>0, <1>3

(* The task at an end of a stream makes all the operations there. *)
LEMMA TotalAt ==
    ASSUME WellFormed, NEW r \in Run, NEW t, NEW by, NEW to, NEW at, Paced(r, t, by, to, at),
           NEW p \in Places(r), NEW dir \in {"r", "w"}, NEW c \in DOMAIN Depth[r],
           NEW k \in DOMAIN Script[r], Side(by, to, dir)[c] = k
    PROVE  Total(r, p, dir, c) = Times(r, k, dir, c, p[k])
<1>1. CASE c \in Ends(r, k, dir)
  BY <1>1, TotalOf
<1>2. CASE c \notin Ends(r, k, dir)
  <2>1. ASSUME NEW j \in DOMAIN Script[r], c \in Ends(r, j, dir) PROVE j = k
    <3>1. PICK i \in DOMAIN Script[r][j] : Script[r][j][i].dir = dir /\ c = Script[r][j][i].ch
      BY <2>1 DEF Ends
    <3>2. i \in 1 .. Len(Script[r][j])
      BY PacedLen
    <3>3. PICK n \in 1 .. Len(t) : PartIn(r, t, by, to, at, j, i, n)
      BY <3>2, PartOf
    <3> QED
      BY <3>1, <3>3 DEF Is, PartIn
  <2>2. Total(r, p, dir, c) = 0
    BY <1>2, <2>1 DEF Total
  <2>3. {i \in 1 .. p[k] : Is(r, k, i, dir, c)} = {}
    <3>1. \A i \in 1 .. p[k] : i \in DOMAIN Script[r][k]
      BY InScript
    <3> QED
      BY <1>2, <3>1 DEF Is, Ends
  <2>4. Times(r, k, dir, c, p[k]) = 0
    BY <2>3, FS_EmptySet DEF Times
  <2> QED
    BY <2>2, <2>4
<1> QED
  BY <1>1, <1>2

LEMMA ChoreographyMatched ==
    ASSUME WellFormed, NEW r \in Run, Choreographed(r)
    PROVE  Matched(r)
<1>1. PICK t, by, to : Choreography(r, t, by, to)
  BY DEF Choreographed
<1>2. PICK at : Paced(r, t, by, to, at)
  BY <1>1, Pace
<1> SUFFICES ASSUME NEW j \in DOMAIN Script[r], NEW k \in DOMAIN Script[r],
                    NEW n \in 1 .. Len(Script[r][j]), NEW m \in 1 .. Len(Script[r][k]),
                    Pair(r, j, n, k, m)
             PROVE  Script[r][j][n].msg = Script[r][k][m].msg
  BY DEF Matched, MatchedUpTo, Ended
<1>3a. PICK x \in 1 .. Len(t) : PartIn(r, t, by, to, at, j, n, x)
  BY <1>2, PartOf
<1>4a. PICK y \in 1 .. Len(t) : PartIn(r, t, by, to, at, k, m, y)
  BY <1>2, PartOf
<1>3. PICK c : c = t[x].ch
  OBVIOUS
<1>4. /\ Side(by, to, "w")[c] = j /\ at[j][x] = n /\ Is(r, j, n, "w",
                c) /\ Script[r][j][n].msg = t[x].msg
      /\ t[y].ch = c
      /\ Side(by, to, "r")[c] = k /\ at[k][y] = m /\ Is(r, k, m, "r",
            c) /\ Script[r][k][m].msg = t[y].msg
  BY <1>3, <1>3a, <1>4a DEF Pair, Is, PartIn
<1>5. c \in DOMAIN Depth[r]
  BY <1>1, <1>3 DEF Choreography
<1>6. Len(t) \in Nat /\ x \in 0 .. Len(t) /\ y \in 0 .. Len(t)
  BY <1>2, PacedLen
<1>7. Times(r, j, "w", c, n) = Seen(t, c, x)
  BY <1>2, <1>4, <1>5, <1>6, TimesSeen
<1>8. Times(r, k, "r", c, m) = Seen(t, c, y)
  BY <1>2, <1>4, <1>5, <1>6, TimesSeen
<1>9. Number(r, j, n) = Times(r, j, "w", c, n) /\ Number(r, k, m) = Times(r, k, "r", c, m)
  BY <1>4 DEF Number, Is
<1>10. Seen(t, c, x) = Seen(t, c, y)
  BY <1>7, <1>8, <1>9 DEF Pair
<1>11. ASSUME NEW a \in 1 .. Len(t), NEW b \in 1 .. Len(t), a < b, t[b].ch = c
       PROVE  Seen(t, c, a) # Seen(t, c, b)
  <2>1. b - 1 \in Nat /\ (b - 1) + 1 = b /\ a \in 0 .. b - 1 /\ b \in Nat /\ a \in Nat
    BY <1>6, <1>11
  <2>2. PICK e \in Nat : e = b - 1 /\ e + 1 = b /\ a \in 0 .. e
    BY <2>1
  <2>3. /\ Seen(t, c, e + 1) = Seen(t, c, e) + (IF On(t, e + 1, c) THEN 1 ELSE 0)
        /\ Seen(t, c, a) <= Seen(t, c, e) /\ Seen(t, c, e) \in Nat
    BY <2>2, SeenIs
  <2>4. Seen(t, c, a) \in Nat
    BY <2>1, SeenIs
  <2> QED
    BY <1>11, <2>2, <2>3, <2>4 DEF On
<1>12. x = y
  BY <1>3, <1>4, <1>6, <1>10, <1>11
<1> QED
  BY <1>4, <1>12

LEMMA ChoreographyBalanced ==
    ASSUME WellFormed, NEW r \in Run, Choreographed(r)
    PROVE  Balanced(r)
<1>1. PICK t, by, to : Choreography(r, t, by, to)
  BY DEF Choreographed
<1>2. PICK at : Paced(r, t, by, to, at)
  BY <1>1, Pace
<1>3. Ended(r) \in Places(r)
  BY <1>2, PacedLen DEF Ended, Places
<1>4. ASSUME NEW c \in DOMAIN Depth[r], NEW dir \in {"r", "w"}
      PROVE  Total(r, Ended(r), dir, c) = Seen(t, c, Len(t))
  <2>1. PICK k \in DOMAIN Script[r] : Side(by, to, dir)[c] = k
    BY <1>1 DEF Choreography, Side
  <2>2. Total(r, Ended(r), dir, c) = Times(r, k, dir, c, Ended(r)[k])
    BY <1>2, <1>3, <2>1, TotalAt
  <2>3. Ended(r)[k] = at[k][Len(t)] /\ Len(t) \in 0 .. Len(t)
    BY <1>2, PacedLen DEF Ended
  <2>4. Times(r, k, dir, c, at[k][Len(t)]) = Seen(t, c, Len(t))
    BY <1>2, <2>1, <2>3, TimesSeen
  <2> QED
    BY <2>2, <2>3, <2>4
<1> QED
  BY <1>4 DEF Balanced

(* The exchange a task that has not returned is at. *)
IsAt(r, t, by, to, at, p, k, x) ==
    /\ k \in DOMAIN Script[r] /\ p[k] < Len(Script[r][k])
    /\ PartIn(r, t, by, to, at, k, p[k] + 1, x)

(* Nobody is before exchange n: then everybody has done its part in the    *)
(* ones before n, and in n too if it is not at n.                          *)
LEMMA NobodyBefore ==
    ASSUME WellFormed, NEW r \in Run, NEW t, NEW by, NEW to, NEW at, Paced(r, t, by, to, at),
           NEW p \in Places(r), NEW n \in 1 .. Len(t),
           \A x \in 1 .. Len(t) : \A k : IsAt(r, t, by, to, at, p, k, x) => n <= x,
           NEW j \in DOMAIN Script[r]
    PROVE  /\ at[j][n - 1] <= p[j]
           /\ ~IsAt(r, t, by, to, at, p, j, n) => at[j][n] <= p[j]
<1>1. Len(t) \in Nat /\ (\A i \in 0 .. Len(t) : at[j][i] \in Nat)
      /\ Len(Script[r][j]) = at[j][Len(t)]
  BY PacedLen
<1>2. p[j] \in Nat /\ p[j] <= Len(Script[r][j]) /\ Len(Script[r][j]) \in Nat
  BY InScript
<1>3. n - 1 \in 0 .. Len(t) /\ n \in 0 .. Len(t)
  BY <1>1
<1>4. CASE p[j] = Len(Script[r][j])
  <2>1. Len(t) \in (n - 1) .. Len(t) /\ Len(t) \in n .. Len(t)
    BY <1>1
  <2> QED
    BY <1>1, <1>3, <1>4, <2>1, PacedGrows
<1>5. CASE p[j] # Len(Script[r][j])
  <2>1. p[j] < Len(Script[r][j]) /\ p[j] + 1 \in 1 .. Len(Script[r][j])
    BY <1>2, <1>5
  <2>2. PICK x \in 1 .. Len(t) : PartIn(r, t, by, to, at, j, p[j] + 1, x)
    BY <2>1, PartOf
  <2>3. IsAt(r, t, by, to, at, p, j, x)
    BY <2>1, <2>2 DEF IsAt
  <2>4. n <= x
    BY <2>3
  <2>5. at[j][x - 1] = p[j]
    BY <1>2, <2>2 DEF PartIn
  <2>6. PICK y : y = x - 1
    OBVIOUS
  <2>7. y \in (n - 1) .. Len(t) /\ (n # x => y \in n .. Len(t))
    BY <1>1, <2>4, <2>6
  <2>8. at[j][n - 1] <= at[j][y]
    BY <1>3, <2>7, PacedGrows
  <2>9. n # x => at[j][n] <= at[j][y]
    BY <1>3, <2>7, PacedGrows
  <2> QED
    BY <2>3, <2>5, <2>6, <2>8, <2>9
<1> QED
  BY <1>4, <1>5

(* Whoever is at the earliest exchange of all: the writer can go on, and   *)
(* so can the reader when the writer is not there with it.                 *)
LEMMA EarliestCan ==
    ASSUME WellFormed, NEW r \in Run, NEW t, NEW by, NEW to, NEW at, Paced(r, t, by, to, at),
           NEW p \in Places(r), NEW n \in 1 .. Len(t),
           \A x \in 1 .. Len(t) : \A i : IsAt(r, t, by, to, at, p, i, x) => n <= x,
           NEW k, IsAt(r, t, by, to, at, p, k, n)
    PROVE  \E j \in DOMAIN Script[r] : CanAt(r, p, j)
<1>1. PICK c : c = t[n].ch
  OBVIOUS
<1>2. c \in DOMAIN Depth[r] /\ Depth[r][c] \in Nat \ {0}
  BY <1>1 DEF Paced, Choreography
<1>3. /\ Side(by, to, "w")[c] \in DOMAIN Script[r] /\ Side(by, to, "r")[c] \in DOMAIN Script[r]
  BY <1>2 DEF Paced, Choreography, Side
<1>4. PICK a \in DOMAIN Script[r], b \in DOMAIN Script[r] :
        Side(by, to, "w")[c] = a /\ Side(by, to, "r")[c] = b
  BY <1>3
<1>5. Len(t) \in Nat /\ n - 1 \in 0 .. Len(t) /\ n \in 0 .. Len(t) /\ n - 1 \in Nat /\ (n - 1) + 1 = n
  BY PacedLen
<1>6. /\ Total(r, p, "w", c) = Times(r, a, "w", c, p[a])
      /\ Total(r, p, "r", c) = Times(r, b, "r", c, p[b])
  BY <1>2, <1>4, TotalAt
<1>7. PICK before, after : before = Seen(t, c, n - 1) /\ after = Seen(t, c, n)
  OBVIOUS
<1>8. before \in Nat /\ after = before + 1
  <2>1. PICK e \in Nat : e = n - 1 /\ e + 1 = n
    BY <1>5
  <2>2. Seen(t, c, e) \in Nat /\ Seen(t, c, e + 1) = Seen(t, c, e) + (IF On(t, e + 1, c) THEN 1 ELSE 0)
    BY <2>1, SeenIs
  <2>3. On(t, e + 1, c)
    BY <1>1, <2>1 DEF On
  <2> QED
    BY <1>7, <2>1, <2>2, <2>3
<1>9. ASSUME NEW dir \in {"r", "w"}, NEW j \in DOMAIN Script[r], Side(by, to, dir)[c] = j
      PROVE  /\ Times(r, j, dir, c, at[j][n - 1]) = before
             /\ Times(r, j, dir, c, at[j][n]) = after
             /\ before <= Times(r, j, dir, c, p[j]) /\ Times(r, j, dir, c, p[j]) \in Nat
             /\ ~IsAt(r, t, by, to, at, p, j, n) => after <= Times(r, j, dir, c, p[j])
             /\ IsAt(r, t, by, to, at, p, j, n) =>
                   p[j] < Len(Script[r][j]) /\ Is(r, j, p[j] + 1, dir, c) /\ Times(r, j, dir, c,
                        p[j]) = before
  <2>1. /\ Times(r, j, dir, c, at[j][n - 1]) = before
        /\ Times(r, j, dir, c, at[j][n]) = after
    BY <1>2, <1>5, <1>7, <1>9, TimesSeen
  <2>2. at[j][n - 1] \in Nat /\ at[j][n] \in Nat /\ p[j] \in Nat
    <3>1. p[j] \in Nat
      BY InScript
    <3>2. \A i \in 0 .. Len(t) : at[j][i] \in Nat
      BY PacedLen
    <3> QED
      BY <1>5, <3>1, <3>2
  <2>3. at[j][n - 1] <= p[j] /\ (~IsAt(r, t, by, to, at, p, j, n) => at[j][n] <= p[j])
    BY NobodyBefore
  <2>4. at[j][n - 1] \in 0 .. p[j] /\ (~IsAt(r, t, by, to, at, p, j, n) => at[j][n] \in 0 .. p[j])
    BY <2>2, <2>3
  <2>5. /\ Times(r, j, dir, c, p[j]) \in Nat
        /\ \A m \in 0 .. p[j] : Times(r, j, dir, c, m) <= Times(r, j, dir, c, p[j])
    BY <2>2, TimesIs
  <2>6. ASSUME IsAt(r, t, by, to, at, p, j, n)
        PROVE  p[j] < Len(Script[r][j]) /\ Is(r, j, p[j] + 1, dir, c) /\ Times(r, j, dir, c,
                        p[j]) = before
    <3>1. p[j] < Len(Script[r][j]) /\ at[j][n - 1] = p[j] /\ at[j][n] = p[j] + 1
      BY <2>2, <2>6 DEF IsAt, PartIn
    <3>2. Moves(r, t, by, to, at, n, j)
      BY PacedStep
    <3>3. Is(r, j, at[j][n], dir, c)
      BY <1>1, <1>9, <3>2 DEF Moves
    <3> QED
      BY <2>1, <3>1, <3>3
  <2> QED
    BY <2>1, <2>4, <2>5, <2>6
<1>10. CASE IsAt(r, t, by, to, at, p, a, n)
  <2>1. p[a] < Len(Script[r][a]) /\ Is(r, a, p[a] + 1, "w", c) /\ Times(r, a, "w", c, p[a]) = before
    BY <1>4, <1>9, <1>10
  <2>2. before <= Times(r, b, "r", c, p[b]) /\ Times(r, b, "r", c, p[b]) \in Nat
    BY <1>4, <1>9
  <2>3. Total(r, p, "w", c) < Total(r, p, "r", c) + Depth[r][c]
    BY <1>2, <1>6, <1>8, <2>1, <2>2
  <2>4. CanAt(r, p, a)
    BY <2>1, <2>3 DEF CanAt, Is
  <2> QED
    BY <2>4
<1>11. CASE ~IsAt(r, t, by, to, at, p, a, n)
  <2>1. k \in DOMAIN Script[r] /\ Moves(r, t, by, to, at, n, k)
    BY PacedStep DEF IsAt
  <2>2. p[k] \in Nat /\ at[k][n] = p[k] + 1 /\ at[k][n - 1] = p[k]
    <3>1. p[k] \in Nat
      BY <2>1, InScript
    <3> QED
      BY <3>1 DEF IsAt, PartIn
  <2>3. PICK dir \in {"r", "w"} : Side(by, to, dir)[c] = k
    BY <1>1, <2>1, <2>2 DEF Moves
  <2>4. k = b
    BY <1>4, <1>11, <2>3
  <2>5. p[b] < Len(Script[r][b]) /\ Is(r, b, p[b] + 1, "r", c) /\ Times(r, b, "r", c, p[b]) = before
    BY <1>4, <1>9, <2>4
  <2>6. after <= Times(r, a, "w", c, p[a]) /\ Times(r, a, "w", c, p[a]) \in Nat
    BY <1>4, <1>9, <1>11
  <2>7. Total(r, p, "r", c) < Total(r, p, "w", c)
    BY <1>6, <1>8, <2>5, <2>6
  <2>8. CanAt(r, p, b)
    BY <2>5, <2>7 DEF CanAt, Is
  <2> QED
    BY <2>8
<1> QED
  BY <1>10, <1>11

LEMMA ChoreographyEnds ==
    ASSUME WellFormed, NEW r \in Run, Choreographed(r)
    PROVE  OnlyEnds(r)
<1>1. PICK t, by, to : Choreography(r, t, by, to)
  BY DEF Choreographed
<1>2. PICK at : Paced(r, t, by, to, at)
  BY <1>1, Pace
<1> SUFFICES ASSUME NEW p \in Places(r), Blocked(r, p), p # Ended(r) PROVE FALSE
  BY DEF OnlyEnds
<1>3. PICK k \in DOMAIN Script[r] : p[k] # Len(Script[r][k])
  BY DEF Ended, Places
<1>4. p[k] < Len(Script[r][k]) /\ p[k] + 1 \in 1 .. Len(Script[r][k])
  <2>1. p[k] \in Nat /\ p[k] <= Len(Script[r][k]) /\ Len(Script[r][k]) \in Nat
    BY InScript
  <2> QED
    BY <1>3, <2>1
<1>5. PICK x \in 1 .. Len(t) : PartIn(r, t, by, to, at, k, p[k] + 1, x)
  BY <1>2, <1>4, PartOf
<1> DEFINE X == {y \in 1 .. Len(t) : \E i : IsAt(r, t, by, to, at, p, i, y)}
<1>6. x \in X
  BY <1>4, <1>5 DEF IsAt
<1>7. X \subseteq Nat /\ X # {}
  BY <1>6
<1>8. PICK n \in X : \A y \in X : n <= y
  <2> DEFINE f == [y \in X |-> y]
  <2>1. IsFiniteSet(X)
    <3>1. IsFiniteSet(1 .. Len(t)) /\ X \subseteq 1 .. Len(t)
      BY <1>2, PacedLen, FS_Interval
    <3> QED
      BY <3>1, FS_Subset
  <2> HIDE DEF X
  <2>2. \A y \in X : f[y] = y /\ f[y] \in Int
    BY <1>7
  <2> HIDE DEF f
  <2>3. \E m \in X : \A y \in X : f[m] <= f[y]
    BY <1>7, <2>1, <2>2, LeastExists
  <2> QED
    BY <2>2, <2>3
<1>9. \E j \in DOMAIN Script[r] : CanAt(r, p, j)
  <2>1. PICK i : IsAt(r, t, by, to, at, p, i, n)
    BY <1>8
  <2>2. \A y \in 1 .. Len(t) : \A j : IsAt(r, t, by, to, at, p, j, y) => n <= y
    BY <1>8
  <2> QED
    BY <1>2, <1>8, <2>1, <2>2, EarliestCan
<1> QED
  BY <1>9 DEF Blocked

(* A kernel whose tasks take the parts of one sequence of exchanges works  *)
(* in every interleaving, at every depth.                                  *)
THEOREM ChoreographySound ==
    ASSUME \A r \in Run : Choreographed(r)
    PROVE  Spec => [](Aligned /\ Drained /\ ~Stuck)
<1>1. WellFormed
  BY ChoreographyForms
<1>2. Init => NetInv
  BY <1>1, NetInvInit
<1>3. NetInv /\ [Next]_vars => NetInv'
  BY <1>1, NetInvStep
<1>4. NetInv => Aligned /\ Drained /\ ~Stuck
  <2> SUFFICES ASSUME NetInv PROVE Sound(run)
    BY <1>1, SoundRuns
  <2>1. run \in Run
    BY DEF NetInv, NetType
  <2> QED
    BY <1>1, <2>1, ChoreographyMatched, ChoreographyBalanced, ChoreographyEnds DEF Sound
<1> QED
  BY <1>2, <1>3, <1>4, PTL DEF Spec

--------------------------------------------------------------------------------
(* How parts compose: what a task does of a sequence is what it does of each*)
(* of its pieces.                                                           *)

(* s is what a task with ends o and i does of the exchanges t. *)
IsPart(o, i, t, s) == IsSeq(t) /\ IsSeq(s) /\ Part(o, i, t) = s

LEMMA PartJoin ==
    ASSUME NEW o, NEW i, NEW a, NEW x, IsPart(o, i, a, x), NEW b, NEW y, IsPart(o, i, b, y)
    PROVE  IsPart(o, i, a \odot b, x \odot y)
<1> DEFINE la == Len(a)
           lb == Len(b)
           t == a \odot b
           q == [n \in 1 .. Len(t) |-> Does(o, i, t[n])]
           qa == [n \in 1 .. la |-> Does(o, i, a[n])]
           qb == [n \in 1 .. lb |-> Does(o, i, b[n])]
<1>1. IsSeq(a) /\ IsSeq(b) /\ IsSeq(x) /\ IsSeq(y)
  BY DEF IsPart
<1>2. IsSeq(t) /\ IsSeq(x \odot y)
  BY <1>1, Join
<1>3. Len(t) = la + lb /\ la \in Nat /\ lb \in Nat
      /\ \A n \in 1 .. la + lb : t[n] = IF n <= la THEN a[n] ELSE b[n - la]
  BY <1>1, JoinLen
<1> HIDE DEF t, la, lb
<1>4. AreSeqs(la + lb, q)
  BY <1>3, DoesIs DEF AreSeqs
<1>5. \A n \in 1 .. la : qa[n] = q[n]
  BY <1>3
<1>6. Follows(qb, q, la, lb)
  <2>1. ASSUME NEW n \in 1 .. lb PROVE qb[n] = q[la + n]
    <3>1. PICK m : m = la + n
      OBVIOUS
    <3>2. m \in 1 .. la + lb /\ ~(m <= la) /\ m - la = n
      BY <1>3, <3>1
    <3>3. t[m] = b[n]
      BY <1>3, <3>2
    <3>4. q[m] = Does(o, i, t[m])
      BY <1>3, <3>2
    <3> QED
      BY <3>1, <3>3, <3>4
  <2> QED
    BY <2>1 DEF Follows
<1>7. Part(o, i, t) = InTurn(la + lb, q)
  BY <1>3 DEF Part
<1>8. Part(o, i, a) = InTurn(la, qa) /\ Part(o, i, b) = InTurn(lb, qb)
  BY DEF Part, la, lb
<1> HIDE DEF q, qa, qb
<1>9. InTurn(la + lb, q) = InTurn(la, q) \odot InTurn(lb, qb)
  <2>1. PICK m \in Nat, n \in Nat : m = la /\ n = lb
    BY <1>3
  <2>2. AreSeqs(m + n, q) /\ Follows(qb, q, m, n)
    BY <1>4, <1>6, <2>1
  <2>3. InTurn(m + n, q) = InTurn(m, q) \odot InTurn(n, qb)
    BY ONLY <2>2, InTurnSplit
  <2> QED
    BY <2>1, <2>3
<1>10. InTurn(la, qa) = InTurn(la, q)
  <2>1. AreSeqs(la, q)
    <3>1. \A n \in 1 .. la : n \in 1 .. la + lb
      BY <1>3
    <3> QED
      BY <1>4, <3>1 DEF AreSeqs
  <2> QED
    BY <1>3, <1>5, <2>1, InTurnSame
<1>11. Part(o, i, a) = x /\ Part(o, i, b) = y
  BY DEF IsPart
<1>12. Part(o, i, t) = x \odot y
  BY <1>7, <1>8, <1>9, <1>10, <1>11
<1> QED
  BY <1>2, <1>12 DEF IsPart, t

LEMMA PartEmpty == ASSUME NEW o, NEW i PROVE IsPart(o, i, <<>>, <<>>)
<1>1. Len(<<>>) = 0
  OBVIOUS
<1>2. PICK q : q = [n \in 1 .. Len(<<>>) |-> Does(o, i, <<>>[n])]
  OBVIOUS
<1>3. AreSeqs(0, q)
  BY DEF AreSeqs
<1>4. InTurn(0, q) = <<>>
  BY <1>3, InTurnIs
<1> QED
  BY <1>1, <1>2, <1>4, EmptyIsSeq DEF IsPart, Part

LEMMA PartOne ==
    ASSUME NEW o, NEW i, NEW x
    PROVE  IsPart(o, i, <<x>>, Does(o, i, x))
<1>1. Len(<<x>>) = 1 /\ <<x>>[1] = x /\ 1 \in Nat /\ 1 # 0 /\ 1 - 1 = 0
  OBVIOUS
<1>2. PICK q : q = [n \in 1 .. Len(<<x>>) |-> Does(o, i, <<x>>[n])]
  OBVIOUS
<1>3. q[1] = Does(o, i, x)
  BY <1>1, <1>2
<1>4. IsSeq(q[1])
  BY <1>3, DoesIs
<1>5. AreSeqs(1, q)
  BY <1>4 DEF AreSeqs
<1>6. InTurn(1, q) = InTurn(0, q) \odot q[1] /\ InTurn(0, q) = <<>>
  BY <1>1, <1>5, InTurnIs
<1>7. <<>> \odot q[1] = q[1]
  BY <1>4, EmptyIsSeq, Join
<1>8. Part(o, i, <<x>>) = q[1]
  BY <1>1, <1>2, <1>6, <1>7 DEF Part
<1> QED
  BY <1>3, <1>4, <1>8, OneIsSeq DEF IsPart

(* Of one exchange a task does its end, if it has one. *)
LEMMA PartWrite ==
    ASSUME NEW o, NEW i, NEW c \in o, NEW m
    PROVE  IsPart(o, i, Send(c, m), W(c, m))
<1>1. PICK x : x = [ch |-> c, msg |-> m]
  OBVIOUS
<1>2. Does(o, i, x) = W(c, m) /\ Send(c, m) = <<x>>
  BY <1>1 DEF Does, Send
<1> QED
  BY <1>2, PartOne

LEMMA PartRead ==
    ASSUME NEW o, NEW i, NEW c \in i, c \notin o, NEW m
    PROVE  IsPart(o, i, Send(c, m), R(c, m))
<1>1. PICK x : x = [ch |-> c, msg |-> m]
  OBVIOUS
<1>2. Does(o, i, x) = R(c, m) /\ Send(c, m) = <<x>>
  BY <1>1 DEF Does, Send
<1> QED
  BY <1>2, PartOne

LEMMA PartNone ==
    ASSUME NEW o, NEW i, NEW c, c \notin i, c \notin o, NEW m
    PROVE  IsPart(o, i, Send(c, m), <<>>)
<1>1. PICK x : x = [ch |-> c, msg |-> m]
  OBVIOUS
<1>2. Does(o, i, x) = <<>> /\ Send(c, m) = <<x>>
  BY <1>1 DEF Does, Send
<1> QED
  BY <1>2, PartOne

(* A task that has no end in some exchanges. *)
LEMMA PartLeft ==
    ASSUME NEW o, NEW i, NEW a, NEW x, IsPart(o, i, a, x), NEW b, IsPart(o, i, b, <<>>)
    PROVE  IsPart(o, i, a \odot b, x)
<1>1. IsPart(o, i, a \odot b, x \odot <<>>)
  BY PartJoin
<1>2. x \odot <<>> = x
  BY Join, EmptyIsSeq DEF IsPart
<1> QED
  BY <1>1, <1>2

LEMMA PartRight ==
    ASSUME NEW o, NEW i, NEW a, IsPart(o, i, a, <<>>), NEW b, NEW x, IsPart(o, i, b, x)
    PROVE  IsPart(o, i, a \odot b, x)
<1>1. IsPart(o, i, a \odot b, <<>> \odot x)
  BY PartJoin
<1>2. <<>> \odot x = x
  BY Join, EmptyIsSeq DEF IsPart
<1> QED
  BY <1>1, <1>2

(* A loop of exchanges is a loop of the task. *)
LEMMA PartTurns ==
    ASSUME NEW o, NEW i, NEW n \in Nat, NEW q, NEW p, \A j \in 1 .. n : IsPart(o, i, q[j], p[j])
    PROVE  IsPart(o, i, InTurn(n, q), InTurn(n, p))
<1> DEFINE S == {m \in Nat : m <= n => IsPart(o, i, InTurn(m, q), InTurn(m, p))}
<1>0. \A m \in Nat : m <= n => AreSeqs(m, q) /\ AreSeqs(m, p)
  BY DEF AreSeqs, IsPart
<1>1. 0 \in S
  <2>1. 0 \in Nat /\ 0 <= n
    OBVIOUS
  <2>2. AreSeqs(0, q) /\ AreSeqs(0, p)
    BY <1>0, <2>1
  <2>3. InTurn(0, q) = <<>> /\ InTurn(0, p) = <<>>
    BY <2>1, <2>2, InTurnIs
  <2> QED
    BY <2>3, PartEmpty
<1>2. ASSUME NEW m \in Nat, m \in S PROVE m + 1 \in S
  <2> SUFFICES ASSUME m + 1 <= n PROVE IsPart(o, i, InTurn(m + 1, q), InTurn(m + 1, p))
    OBVIOUS
  <2>1. m + 1 \in Nat /\ m + 1 \in 1 .. n /\ m <= n
    OBVIOUS
  <2>2. AreSeqs(m + 1, q) /\ AreSeqs(m + 1, p)
    BY <1>0, <2>1
  <2>3. InTurn(m + 1, q) = InTurn(m, q) \odot q[m + 1]
    BY <2>2, InTurnNext
  <2>4. InTurn(m + 1, p) = InTurn(m, p) \odot p[m + 1]
    BY <2>2, InTurnNext
  <2>5. IsPart(o, i, InTurn(m, q), InTurn(m, p))
    BY <1>2, <2>1
  <2>6. PICK a, b, c, d : a = InTurn(m, q) /\ b = InTurn(m, p) /\ c = q[m + 1] /\ d = p[m + 1]
    OBVIOUS
  <2>7. IsPart(o, i, c, d)
    BY <2>1, <2>6
  <2>8. IsPart(o, i, a \odot c, b \odot d)
    BY <2>5, <2>6, <2>7, PartJoin
  <2> QED
    BY <2>3, <2>4, <2>6, <2>8
<1>3. n \in S
  <2> HIDE DEF S
  <2> QED
    BY <1>1, <1>2, Numbers
<1> QED
  BY <1>3

LEMMA PartIdle ==
    ASSUME NEW o, NEW i, NEW n \in Nat, NEW q, \A j \in 1 .. n : IsPart(o, i, q[j], <<>>)
    PROVE  IsPart(o, i, InTurn(n, q), <<>>)
<1>1. PICK p : p = [j \in 1 .. n |-> <<>>]
  OBVIOUS
<1>2. \A j \in 1 .. n : p[j] = <<>> /\ IsPart(o, i, q[j], p[j])
  BY <1>1
<1>3. InTurn(n, p) = <<>>
  BY <1>2, InTurnNothing
<1> QED
  BY <1>2, <1>3, PartTurns

--------------------------------------------------------------------------------
(* 3. The compute slot: who writes and who reads its streams ...            *)

SlotWriter ==
    [hdr |-> "source", x |-> "source", dequant |-> "dequant",
     dequant_fwd |-> "dqsplit", w1_dq |-> "dqsplit", w3_dq |-> "dqsplit",
     w2_dq_a |-> "dqsplit", w2_dq_b |-> "dqsplit",
     hdr1 |-> "xsplit", hdr3 |-> "xsplit", hdrS |-> "xsplit",
     trig1 |-> "xsplit", trig3 |-> "xsplit", x1 |-> "xsplit", x3 |-> "xsplit",
     w1 |-> "load1", w3 |-> "load3", acc1 |-> "proj1", acc3 |-> "proj3",
     scale_a |-> "swiglu", scale_b |-> "swiglu", inter_a |-> "swiglu", inter_b |-> "swiglu",
     partial_a |-> "proj1", partial_b |-> "proj3"]
SlotReader ==
    [hdr |-> "xsplit", x |-> "xsplit", dequant |-> "dqsplit",
     dequant_fwd |-> "dqsink", w1_dq |-> "proj1", w3_dq |-> "proj3",
     w2_dq_a |-> "proj1", w2_dq_b |-> "proj3",
     hdr1 |-> "proj1", hdr3 |-> "proj3", hdrS |-> "swiglu",
     trig1 |-> "load1", trig3 |-> "load3", x1 |-> "proj1", x3 |-> "proj3",
     w1 |-> "proj1", w3 |-> "proj3", acc1 |-> "swiglu", acc3 |-> "swiglu",
     scale_a |-> "proj1", scale_b |-> "proj3", inter_a |-> "proj1", inter_b |-> "proj3",
     partial_a |-> "accA", partial_b |-> "accB"]

LEMMA SlotOut ==
    /\ Ours(SlotWriter, "source") = {"hdr", "x"}
    /\ Ours(SlotWriter, "dequant") = {"dequant"}
    /\ Ours(SlotWriter, "dqsplit") = {"dequant_fwd", "w1_dq", "w3_dq", "w2_dq_a", "w2_dq_b"}
    /\ Ours(SlotWriter, "dqsink") = {}
    /\ Ours(SlotWriter, "xsplit") = {"hdr1", "hdr3", "hdrS", "trig1", "trig3", "x1", "x3"}
    /\ Ours(SlotWriter, "load1") = {"w1"} /\ Ours(SlotWriter, "load3") = {"w3"}
    /\ Ours(SlotWriter, "proj1") = {"acc1", "partial_a"}
    /\ Ours(SlotWriter, "proj3") = {"acc3", "partial_b"}
    /\ Ours(SlotWriter, "swiglu") = {"scale_a", "scale_b", "inter_a", "inter_b"}
    /\ Ours(SlotWriter, "accA") = {} /\ Ours(SlotWriter, "accB") = {}
  BY DEF Ours, SlotWriter

LEMMA SlotIn ==
    /\ Ours(SlotReader, "source") = {} /\ Ours(SlotReader, "dequant") = {}
    /\ Ours(SlotReader, "dqsplit") = {"dequant"}
    /\ Ours(SlotReader, "dqsink") = {"dequant_fwd"}
    /\ Ours(SlotReader, "xsplit") = {"hdr", "x"}
    /\ Ours(SlotReader, "load1") = {"trig1"} /\ Ours(SlotReader, "load3") = {"trig3"}
    /\ Ours(SlotReader, "proj1") = {"w1_dq", "w2_dq_a", "hdr1", "x1", "w1", "scale_a", "inter_a"}
    /\ Ours(SlotReader, "proj3") = {"w3_dq", "w2_dq_b", "hdr3", "x3", "w3", "scale_b", "inter_b"}
    /\ Ours(SlotReader, "swiglu") = {"hdrS", "acc1", "acc3"}
    /\ Ours(SlotReader, "accA") = {"partial_a"} /\ Ours(SlotReader, "accB") = {"partial_b"}
  BY DEF Ours, SlotReader

LEMMA SlotEnds ==
    /\ SlotWriter \in [DOMAIN SlotDepth -> DOMAIN SlotScript(0)]
    /\ SlotReader \in [DOMAIN SlotDepth -> DOMAIN SlotScript(0)]
    /\ \A c \in DOMAIN SlotDepth : SlotWriter[c] # SlotReader[c]
  BY DEF SlotWriter, SlotReader, SlotDepth, Chan2, Chan4, Chan8, SlotScript

(* ... and the order in which all of it can happen.                         *)

(* One datum to each of two streams. *)
Both(c, d, m) == Send(c, m) \odot Send(d, m)

ForParam(i) ==
    CASE i \in Params(1) -> Send("w1_dq", <<i>>)
      [] i \in Params(2) -> Send("w3_dq", <<i>>)
      [] i \in Params(3) -> Both("w2_dq_a", "w2_dq_b", <<i>>)
Dequantise == Loop(3 * ParamsEach, LAMBDA i :
    Send("dequant", <<i>>) \odot Send("dequant_fwd", <<i>>) \odot ForParam(i))
Announce(r) ==
    Send("hdr", <<r>>) \odot Send("hdr1", <<r>>) \odot Send("hdr3", <<r>>)
    \odot Send("hdrS", <<r>>) \odot Send("trig1", <<r>>) \odot Send("trig3", <<r>>)
FanOut(r) == Loop(Lanes * HiddenVecs, LAMBDA i :
    Send("x", <<r, i>>) \odot Send("x1", <<r, i>>) \odot Send("x3", <<r, i>>))
RowWeights(r, row) == Loop(HiddenVecs, LAMBDA v :
    Both("w1", "w3", <<r, (row - 1) * HiddenVecs + v>>))
RowResults(r, row) == Loop(Lanes, LAMBDA l : Both("acc1", "acc3", <<r, row, l>>))
FirstStage(r) == Loop(W1Rows, LAMBDA row : RowWeights(r, row) \odot RowResults(r, row))
Scales(r) == Loop(Lanes, LAMBDA l : Both("scale_a", "scale_b", <<r, l>>))
Inter(r) == Loop(Lanes * HalfBeats, LAMBDA i : Both("inter_a", "inter_b", <<r, i>>))
SecondStage(r) == Loop(W2Rows * InterVecs, LAMBDA i :
    Both("w1", "w3", <<r, W1Rows * HiddenVecs + i>>))
Partials(r) == Loop(Lanes * HalfVecs, LAMBDA i : Both("partial_a", "partial_b", <<r, i>>))
Work(n, r) ==
    IF r = n THEN Both("partial_a", "partial_b", <<r, 0>>)
    ELSE FirstStage(r) \odot (Scales(r) \odot Inter(r) \odot SecondStage(r)) \odot Partials(r)
Round(n, r) == Announce(r) \odot FanOut(r) \odot Work(n, r)
SlotPlan(n) == Dequantise \odot Loop(n, LAMBDA r : Round(n, r))

XSplitTurn(r) ==
    R("hdr", <<r>>) \odot W("hdr1", <<r>>) \odot W("hdr3", <<r>>) \odot W("hdrS", <<r>>)
    \odot W("trig1", <<r>>) \odot W("trig3", <<r>>)
    \odot InTurn(Lanes * HiddenVecs, [i \in 1 .. Lanes * HiddenVecs |->
           R("x", <<r, i>>) \odot W("x1", <<r, i>>) \odot W("x3", <<r, i>>)])
LEMMA XSplitIs ==
    ASSUME NEW n
    PROVE  XSplit(n) = InTurn(n, [r \in 1 .. n |-> XSplitTurn(r)])
  BY DEF XSplit, XSplitTurn, Loop, \odot

ProjTurn(m, hdr, x, w, acc, scale, inter, part, n, r) ==
        R(hdr, <<r>>) \odot InTurn(Lanes * HiddenVecs, [i \in 1 .. Lanes * HiddenVecs |->
                        R(x, <<r, i>>)])
        \odot IF r = n THEN W(part, <<r, 0>>)
           ELSE Stage0(r, w, acc) \odot Stage1(r, w, scale, inter)
                \odot InTurn(Lanes * HalfVecs, [i \in 1 .. Lanes * HalfVecs |-> W(part, <<r, i>>)])
LEMMA ProjIs ==
    ASSUME NEW dq, NEW dq2, NEW m, NEW hdr, NEW x, NEW w, NEW acc, NEW scale, NEW inter, NEW part, NEW n
    PROVE  Proj(dq, dq2, m, hdr, x, w, acc, scale, inter, part, n) =
              InTurn(ParamsEach, [i \in 1 .. ParamsEach |-> R(dq, <<(m - 1) * ParamsEach + i>>)])
    \odot InTurn(ParamsEach, [i \in 1 .. ParamsEach |-> R(dq2, <<2 * ParamsEach + i>>)])
    \odot InTurn(n, [r \in 1 .. n |-> ProjTurn(m, hdr, x, w, acc, scale, inter, part, n, r)])
  BY DEF Proj, ProjTurn, Loop, \odot

(* The parts of the exchanges of two streams at a time.                     *)

(* Of a datum sent to two streams a task takes one, both or none. *)
LEMMA BothNone ==
    ASSUME NEW o, NEW i, NEW c, NEW d, c \notin o \cup i, d \notin o \cup i, NEW m
    PROVE  IsPart(o, i, Both(c, d, m), <<>>)
<1>1. IsPart(o, i, Send(c, m), <<>>)
  BY PartNone
<1>2. IsPart(o, i, Send(d, m), <<>>)
  BY PartNone
<1> QED
  BY <1>1, <1>2, PartLeft DEF Both

LEMMA BothOne ==
    ASSUME NEW o, NEW i, NEW c, NEW d, NEW e \in {c, d}, NEW s, NEW m, IsPart(o, i, Send(e, m), s),
           \A f \in {c, d} : f # e => f \notin o \cup i, c # d
    PROVE  IsPart(o, i, Both(c, d, m), s)
<1>1. CASE e = c
  <2>1. IsPart(o, i, Send(d, m), <<>>)
    BY <1>1, PartNone
  <2> QED
    BY <1>1, <2>1, PartLeft DEF Both
<1>2. CASE e = d
  <2>1. IsPart(o, i, Send(c, m), <<>>)
    BY <1>2, PartNone
  <2> QED
    BY <1>2, <2>1, PartRight DEF Both
<1> QED
  BY <1>1, <1>2

LEMMA BothRead ==
    ASSUME NEW o, NEW i, NEW c, NEW d, NEW e \in {c, d}, NEW m, e \in i, e \notin o,
           \A f \in {c, d} : f # e => f \notin o \cup i, c # d
    PROVE  IsPart(o, i, Both(c, d, m), R(e, m))
  BY PartRead, BothOne

LEMMA BothWrite ==
    ASSUME NEW o, NEW i, NEW c, NEW d, NEW e \in {c, d}, NEW m, e \in o,
           \A f \in {c, d} : f # e => f \notin o \cup i, c # d
    PROVE  IsPart(o, i, Both(c, d, m), W(e, m))
  BY PartWrite, BothOne

LEMMA BothReads ==
    ASSUME NEW o, NEW i, NEW c \in i, NEW d \in i, NEW m, c \notin o, d \notin o
    PROVE  IsPart(o, i, Both(c, d, m), R(c, m) \odot R(d, m))
<1>1. IsPart(o, i, Send(c, m), R(c, m))
  BY PartRead
<1>2. IsPart(o, i, Send(d, m), R(d, m))
  BY PartRead
<1> QED
  BY <1>1, <1>2, PartJoin DEF Both

LEMMA BothWrites ==
    ASSUME NEW o, NEW i, NEW c \in o, NEW d \in o, NEW m
    PROVE  IsPart(o, i, Both(c, d, m), W(c, m) \odot W(d, m))
<1>1. IsPart(o, i, Send(c, m), W(c, m))
  BY PartWrite
<1>2. IsPart(o, i, Send(d, m), W(d, m))
  BY PartWrite
<1> QED
  BY <1>1, <1>2, PartJoin DEF Both

LEMMA SlotSizes ==
    ASSUME SlotAssumption
    PROVE  /\ Lanes \in Nat /\ HiddenVecs \in Nat /\ W1Rows \in Nat /\ W2Rows \in Nat /\ InterVecs \in Nat
           /\ HalfVecs \in Nat /\ ParamsEach \in Nat /\ 3 * ParamsEach \in Nat
           /\ Lanes * HiddenVecs \in Nat /\ Lanes * HalfBeats \in Nat /\ Lanes * HalfVecs \in Nat
           /\ W2Rows * InterVecs \in Nat /\ W1Rows * HiddenVecs \in Nat
  BY DEF SlotAssumption, HalfBeats

LEMMA ScalesIdle ==
    ASSUME SlotAssumption, NEW o, NEW i, (o \cup i) \cap {"scale_a", "scale_b"} = {}, NEW r
    PROVE  IsPart(o, i, Scales(r), <<>>)
<1>1. PICK q : q = [l \in 1 .. Lanes |-> Both("scale_a", "scale_b", <<r, l>>)]
  OBVIOUS
<1>2. \A l \in 1 .. Lanes : IsPart(o, i, q[l], <<>>)
  BY <1>1, BothNone
<1>3. Scales(r) = InTurn(Lanes, q)
  BY <1>1 DEF Scales, Loop
<1> QED
  BY <1>2, <1>3, SlotSizes, PartIdle

LEMMA InterIdle ==
    ASSUME SlotAssumption, NEW o, NEW i, (o \cup i) \cap {"inter_a", "inter_b"} = {}, NEW r
    PROVE  IsPart(o, i, Inter(r), <<>>)
<1>1. PICK q : q = [j \in 1 .. Lanes * HalfBeats |-> Both("inter_a", "inter_b", <<r, j>>)]
  OBVIOUS
<1>2. \A j \in 1 .. Lanes * HalfBeats : IsPart(o, i, q[j], <<>>)
  BY <1>1, BothNone
<1>3. Inter(r) = InTurn(Lanes * HalfBeats, q)
  BY <1>1 DEF Inter, Loop
<1> QED
  BY <1>2, <1>3, SlotSizes, PartIdle

LEMMA SecondStageIdle ==
    ASSUME SlotAssumption, NEW o, NEW i, (o \cup i) \cap {"w1", "w3"} = {}, NEW r
    PROVE  IsPart(o, i, SecondStage(r), <<>>)
<1>1. PICK q : q = [j \in 1 .. W2Rows * InterVecs |-> Both("w1", "w3", <<r, W1Rows * HiddenVecs + j>>)]
  OBVIOUS
<1>2. \A j \in 1 .. W2Rows * InterVecs : IsPart(o, i, q[j], <<>>)
  BY <1>1, BothNone
<1>3. SecondStage(r) = InTurn(W2Rows * InterVecs, q)
  BY <1>1 DEF SecondStage, Loop
<1> QED
  BY <1>2, <1>3, SlotSizes, PartIdle

LEMMA PartialsIdle ==
    ASSUME SlotAssumption, NEW o, NEW i, (o \cup i) \cap {"partial_a", "partial_b"} = {}, NEW r
    PROVE  IsPart(o, i, Partials(r), <<>>)
<1>1. PICK q : q = [j \in 1 .. Lanes * HalfVecs |-> Both("partial_a", "partial_b", <<r, j>>)]
  OBVIOUS
<1>2. \A j \in 1 .. Lanes * HalfVecs : IsPart(o, i, q[j], <<>>)
  BY <1>1, BothNone
<1>3. Partials(r) = InTurn(Lanes * HalfVecs, q)
  BY <1>1 DEF Partials, Loop
<1> QED
  BY <1>2, <1>3, SlotSizes, PartIdle

LEMMA ScalesRead ==
    ASSUME SlotAssumption, NEW o, NEW i, NEW r, NEW c,
           c \in {"scale_a", "scale_b"}, c \in i, c \notin o, \A f \in {"scale_a",
                        "scale_b"} : f # c => f \notin o \cup i
    PROVE  IsPart(o, i, Scales(r), InTurn(Lanes, [l \in 1 .. Lanes |-> R(c, <<r, l>>)]))
<1>1. PICK q, p : /\ q = [l \in 1 .. Lanes |-> Both("scale_a", "scale_b", <<r, l>>)]
                  /\ p = [l \in 1 .. Lanes |-> R(c, <<r, l>>)]
  OBVIOUS
<1>2. \A l \in 1 .. Lanes : IsPart(o, i, q[l], p[l])
  BY <1>1, BothRead
<1>3. Scales(r) = InTurn(Lanes, q)
  BY <1>1 DEF Scales, Loop
<1>4. IsPart(o, i, InTurn(Lanes, q), InTurn(Lanes, p))
  BY <1>2, SlotSizes, PartTurns
<1> QED
  BY <1>1, <1>3, <1>4

LEMMA ScalesWrites ==
    ASSUME SlotAssumption, NEW o, NEW i, NEW r,
           "scale_a" \in o, "scale_b" \in o
    PROVE  IsPart(o, i, Scales(r), InTurn(Lanes, [l \in 1 .. Lanes |-> W("scale_a", <<r, l>>)
                    \odot W("scale_b", <<r, l>>)]))
<1>1. PICK q, p : /\ q = [l \in 1 .. Lanes |-> Both("scale_a", "scale_b", <<r, l>>)]
                  /\ p = [l \in 1 .. Lanes |-> W("scale_a", <<r, l>>) \odot W("scale_b", <<r, l>>)]
  OBVIOUS
<1>2. \A l \in 1 .. Lanes : IsPart(o, i, q[l], p[l])
  BY <1>1, BothWrites
<1>3. Scales(r) = InTurn(Lanes, q)
  BY <1>1 DEF Scales, Loop
<1>4. IsPart(o, i, InTurn(Lanes, q), InTurn(Lanes, p))
  BY <1>2, SlotSizes, PartTurns
<1> QED
  BY <1>1, <1>3, <1>4

LEMMA InterRead ==
    ASSUME SlotAssumption, NEW o, NEW i, NEW r, NEW c,
           c \in {"inter_a", "inter_b"}, c \in i, c \notin o, \A f \in {"inter_a",
                        "inter_b"} : f # c => f \notin o \cup i
    PROVE  IsPart(o, i, Inter(r), InTurn(Lanes * HalfBeats, [j \in 1 .. Lanes * HalfBeats |->
                    R(c, <<r, j>>)]))
<1>1. PICK q, p : /\ q = [j \in 1 .. Lanes * HalfBeats |-> Both("inter_a", "inter_b", <<r, j>>)]
                  /\ p = [j \in 1 .. Lanes * HalfBeats |-> R(c, <<r, j>>)]
  OBVIOUS
<1>2. \A j \in 1 .. Lanes * HalfBeats : IsPart(o, i, q[j], p[j])
  BY <1>1, BothRead
<1>3. Inter(r) = InTurn(Lanes * HalfBeats, q)
  BY <1>1 DEF Inter, Loop
<1>4. IsPart(o, i, InTurn(Lanes * HalfBeats, q), InTurn(Lanes * HalfBeats, p))
  BY <1>2, SlotSizes, PartTurns
<1> QED
  BY <1>1, <1>3, <1>4

LEMMA InterWrites ==
    ASSUME SlotAssumption, NEW o, NEW i, NEW r,
           "inter_a" \in o, "inter_b" \in o
    PROVE  IsPart(o, i, Inter(r), InTurn(Lanes * HalfBeats, [j \in 1 .. Lanes * HalfBeats |->
                    W("inter_a", <<r, j>>) \odot W("inter_b", <<r, j>>)]))
<1>1. PICK q, p : /\ q = [j \in 1 .. Lanes * HalfBeats |-> Both("inter_a", "inter_b", <<r, j>>)]
                  /\ p = [j \in 1 .. Lanes * HalfBeats |-> W("inter_a", <<r, j>>)
                        \odot W("inter_b", <<r, j>>)]
  OBVIOUS
<1>2. \A j \in 1 .. Lanes * HalfBeats : IsPart(o, i, q[j], p[j])
  BY <1>1, BothWrites
<1>3. Inter(r) = InTurn(Lanes * HalfBeats, q)
  BY <1>1 DEF Inter, Loop
<1>4. IsPart(o, i, InTurn(Lanes * HalfBeats, q), InTurn(Lanes * HalfBeats, p))
  BY <1>2, SlotSizes, PartTurns
<1> QED
  BY <1>1, <1>3, <1>4

LEMMA SecondStageRead ==
    ASSUME SlotAssumption, NEW o, NEW i, NEW r, NEW c,
           c \in {"w1", "w3"}, c \in i, c \notin o, \A f \in {"w1", "w3"} : f # c => f \notin o \cup i
    PROVE  IsPart(o, i, SecondStage(r), InTurn(W2Rows * InterVecs, [j \in 1 .. W2Rows * InterVecs |->
                    R(c, <<r, W1Rows * HiddenVecs + j>>)]))
<1>1. PICK q, p : /\ q = [j \in 1 .. W2Rows * InterVecs |-> Both("w1", "w3", <<r,
                        W1Rows * HiddenVecs + j>>)]
                  /\ p = [j \in 1 .. W2Rows * InterVecs |-> R(c, <<r, W1Rows * HiddenVecs + j>>)]
  OBVIOUS
<1>2. \A j \in 1 .. W2Rows * InterVecs : IsPart(o, i, q[j], p[j])
  BY <1>1, BothRead
<1>3. SecondStage(r) = InTurn(W2Rows * InterVecs, q)
  BY <1>1 DEF SecondStage, Loop
<1>4. IsPart(o, i, InTurn(W2Rows * InterVecs, q), InTurn(W2Rows * InterVecs, p))
  BY <1>2, SlotSizes, PartTurns
<1> QED
  BY <1>1, <1>3, <1>4

LEMMA SecondStageWrite ==
    ASSUME SlotAssumption, NEW o, NEW i, NEW r, NEW c,
           c \in {"w1", "w3"}, c \in o, \A f \in {"w1", "w3"} : f # c => f \notin o \cup i
    PROVE  IsPart(o, i, SecondStage(r), InTurn(W2Rows * InterVecs, [j \in 1 .. W2Rows * InterVecs |->
                    W(c, <<r, W1Rows * HiddenVecs + j>>)]))
<1>1. PICK q, p : /\ q = [j \in 1 .. W2Rows * InterVecs |-> Both("w1", "w3", <<r,
                        W1Rows * HiddenVecs + j>>)]
                  /\ p = [j \in 1 .. W2Rows * InterVecs |-> W(c, <<r, W1Rows * HiddenVecs + j>>)]
  OBVIOUS
<1>2. \A j \in 1 .. W2Rows * InterVecs : IsPart(o, i, q[j], p[j])
  BY <1>1, BothWrite
<1>3. SecondStage(r) = InTurn(W2Rows * InterVecs, q)
  BY <1>1 DEF SecondStage, Loop
<1>4. IsPart(o, i, InTurn(W2Rows * InterVecs, q), InTurn(W2Rows * InterVecs, p))
  BY <1>2, SlotSizes, PartTurns
<1> QED
  BY <1>1, <1>3, <1>4

LEMMA PartialsRead ==
    ASSUME SlotAssumption, NEW o, NEW i, NEW r, NEW c,
           c \in {"partial_a", "partial_b"}, c \in i, c \notin o, \A f \in {"partial_a",
                        "partial_b"} : f # c => f \notin o \cup i
    PROVE  IsPart(o, i, Partials(r), InTurn(Lanes * HalfVecs, [j \in 1 .. Lanes * HalfVecs |->
                    R(c, <<r, j>>)]))
<1>1. PICK q, p : /\ q = [j \in 1 .. Lanes * HalfVecs |-> Both("partial_a", "partial_b", <<r, j>>)]
                  /\ p = [j \in 1 .. Lanes * HalfVecs |-> R(c, <<r, j>>)]
  OBVIOUS
<1>2. \A j \in 1 .. Lanes * HalfVecs : IsPart(o, i, q[j], p[j])
  BY <1>1, BothRead
<1>3. Partials(r) = InTurn(Lanes * HalfVecs, q)
  BY <1>1 DEF Partials, Loop
<1>4. IsPart(o, i, InTurn(Lanes * HalfVecs, q), InTurn(Lanes * HalfVecs, p))
  BY <1>2, SlotSizes, PartTurns
<1> QED
  BY <1>1, <1>3, <1>4

LEMMA PartialsWrite ==
    ASSUME SlotAssumption, NEW o, NEW i, NEW r, NEW c,
           c \in {"partial_a", "partial_b"}, c \in o, \A f \in {"partial_a",
                        "partial_b"} : f # c => f \notin o \cup i
    PROVE  IsPart(o, i, Partials(r), InTurn(Lanes * HalfVecs, [j \in 1 .. Lanes * HalfVecs |->
                    W(c, <<r, j>>)]))
<1>1. PICK q, p : /\ q = [j \in 1 .. Lanes * HalfVecs |-> Both("partial_a", "partial_b", <<r, j>>)]
                  /\ p = [j \in 1 .. Lanes * HalfVecs |-> W(c, <<r, j>>)]
  OBVIOUS
<1>2. \A j \in 1 .. Lanes * HalfVecs : IsPart(o, i, q[j], p[j])
  BY <1>1, BothWrite
<1>3. Partials(r) = InTurn(Lanes * HalfVecs, q)
  BY <1>1 DEF Partials, Loop
<1>4. IsPart(o, i, InTurn(Lanes * HalfVecs, q), InTurn(Lanes * HalfVecs, p))
  BY <1>2, SlotSizes, PartTurns
<1> QED
  BY <1>1, <1>3, <1>4

(* The first stage, and the fan-out of x.                                   *)

LEMMA RowWeightsIdle ==
    ASSUME SlotAssumption, NEW o, NEW i, NEW r, NEW row,
           (o \cup i) \cap {"w1", "w3"} = {}
    PROVE  IsPart(o, i, RowWeights(r, row), <<>>)
<1>1. PICK q : q = [v \in 1 .. HiddenVecs |-> Both("w1", "w3", <<r, (row - 1) * HiddenVecs + v>>)]
  OBVIOUS
<1>2. \A v \in 1 .. HiddenVecs : IsPart(o, i, q[v], <<>>)
  BY <1>1, BothNone
<1>3. RowWeights(r, row) = InTurn(HiddenVecs, q)
  BY <1>1 DEF RowWeights, Loop
<1> QED
  BY <1>2, <1>3, SlotSizes, PartIdle

LEMMA RowWeightsRead ==
    ASSUME SlotAssumption, NEW o, NEW i, NEW r, NEW row, NEW c,
           c \in {"w1", "w3"}, c \in i, c \notin o, \A f \in {"w1", "w3"} : f # c => f \notin o \cup i
    PROVE  IsPart(o, i, RowWeights(r, row), InTurn(HiddenVecs, [v \in 1 .. HiddenVecs |->
                    R(c, <<r, (row - 1) * HiddenVecs + v>>)]))
<1>1. PICK q, p : /\ q = [v \in 1 .. HiddenVecs |-> Both("w1", "w3", <<r, (row - 1) * HiddenVecs + v>>)]
                  /\ p = [v \in 1 .. HiddenVecs |-> R(c, <<r, (row - 1) * HiddenVecs + v>>)]
  OBVIOUS
<1>2. \A v \in 1 .. HiddenVecs : IsPart(o, i, q[v], p[v])
  BY <1>1, BothRead
<1>3. RowWeights(r, row) = InTurn(HiddenVecs, q)
  BY <1>1 DEF RowWeights, Loop
<1>4. IsPart(o, i, InTurn(HiddenVecs, q), InTurn(HiddenVecs, p))
  BY <1>2, SlotSizes, PartTurns
<1> QED
  BY <1>1, <1>3, <1>4

LEMMA RowWeightsWrite ==
    ASSUME SlotAssumption, NEW o, NEW i, NEW r, NEW row, NEW c,
           c \in {"w1", "w3"}, c \in o, \A f \in {"w1", "w3"} : f # c => f \notin o \cup i
    PROVE  IsPart(o, i, RowWeights(r, row), InTurn(HiddenVecs, [v \in 1 .. HiddenVecs |->
                    W(c, <<r, (row - 1) * HiddenVecs + v>>)]))
<1>1. PICK q, p : /\ q = [v \in 1 .. HiddenVecs |-> Both("w1", "w3", <<r, (row - 1) * HiddenVecs + v>>)]
                  /\ p = [v \in 1 .. HiddenVecs |-> W(c, <<r, (row - 1) * HiddenVecs + v>>)]
  OBVIOUS
<1>2. \A v \in 1 .. HiddenVecs : IsPart(o, i, q[v], p[v])
  BY <1>1, BothWrite
<1>3. RowWeights(r, row) = InTurn(HiddenVecs, q)
  BY <1>1 DEF RowWeights, Loop
<1>4. IsPart(o, i, InTurn(HiddenVecs, q), InTurn(HiddenVecs, p))
  BY <1>2, SlotSizes, PartTurns
<1> QED
  BY <1>1, <1>3, <1>4

LEMMA RowResultsIdle ==
    ASSUME SlotAssumption, NEW o, NEW i, NEW r, NEW row,
           (o \cup i) \cap {"acc1", "acc3"} = {}
    PROVE  IsPart(o, i, RowResults(r, row), <<>>)
<1>1. PICK q : q = [l \in 1 .. Lanes |-> Both("acc1", "acc3", <<r, row, l>>)]
  OBVIOUS
<1>2. \A l \in 1 .. Lanes : IsPart(o, i, q[l], <<>>)
  BY <1>1, BothNone
<1>3. RowResults(r, row) = InTurn(Lanes, q)
  BY <1>1 DEF RowResults, Loop
<1> QED
  BY <1>2, <1>3, SlotSizes, PartIdle

LEMMA RowResultsWrite ==
    ASSUME SlotAssumption, NEW o, NEW i, NEW r, NEW row, NEW c,
           c \in {"acc1", "acc3"}, c \in o, \A f \in {"acc1", "acc3"} : f # c => f \notin o \cup i
    PROVE  IsPart(o, i, RowResults(r, row), InTurn(Lanes, [l \in 1 .. Lanes |-> W(c, <<r, row, l>>)]))
<1>1. PICK q, p : /\ q = [l \in 1 .. Lanes |-> Both("acc1", "acc3", <<r, row, l>>)]
                  /\ p = [l \in 1 .. Lanes |-> W(c, <<r, row, l>>)]
  OBVIOUS
<1>2. \A l \in 1 .. Lanes : IsPart(o, i, q[l], p[l])
  BY <1>1, BothWrite
<1>3. RowResults(r, row) = InTurn(Lanes, q)
  BY <1>1 DEF RowResults, Loop
<1>4. IsPart(o, i, InTurn(Lanes, q), InTurn(Lanes, p))
  BY <1>2, SlotSizes, PartTurns
<1> QED
  BY <1>1, <1>3, <1>4

LEMMA RowResultsReads ==
    ASSUME SlotAssumption, NEW o, NEW i, NEW r, NEW row,
           "acc1" \in i, "acc3" \in i, "acc1" \notin o, "acc3" \notin o
    PROVE  IsPart(o, i, RowResults(r, row), InTurn(Lanes, [l \in 1 .. Lanes |->
                    R("acc1", <<r, row, l>>) \odot R("acc3", <<r, row, l>>)]))
<1>1. PICK q, p : /\ q = [l \in 1 .. Lanes |-> Both("acc1", "acc3", <<r, row, l>>)]
                  /\ p = [l \in 1 .. Lanes |-> R("acc1", <<r, row, l>>) \odot R("acc3", <<r, row, l>>)]
  OBVIOUS
<1>2. \A l \in 1 .. Lanes : IsPart(o, i, q[l], p[l])
  BY <1>1, BothReads
<1>3. RowResults(r, row) = InTurn(Lanes, q)
  BY <1>1 DEF RowResults, Loop
<1>4. IsPart(o, i, InTurn(Lanes, q), InTurn(Lanes, p))
  BY <1>2, SlotSizes, PartTurns
<1> QED
  BY <1>1, <1>3, <1>4

LEMMA FirstStageIdle ==
    ASSUME SlotAssumption, NEW o, NEW i, NEW r,
           (o \cup i) \cap {"w1", "w3", "acc1", "acc3"} = {}
    PROVE  IsPart(o, i, FirstStage(r), <<>>)
<1>1. PICK q : q = [row \in 1 .. W1Rows |-> RowWeights(r, row) \odot RowResults(r, row)]
  OBVIOUS
<1>2. \A row \in 1 .. W1Rows : IsPart(o, i, q[row], <<>>)
  BY <1>1, RowWeightsIdle, RowResultsIdle, PartLeft
<1>3. FirstStage(r) = InTurn(W1Rows, q)
  BY <1>1 DEF FirstStage, Loop
<1> QED
  BY <1>2, <1>3, SlotSizes, PartIdle

LEMMA FirstStageProj ==
    ASSUME SlotAssumption, NEW o, NEW i, NEW r, NEW c, NEW d,
           c \in {"w1", "w3"}, c \in i, c \notin o, \A f \in {"w1", "w3"} : f # c => f \notin o \cup i,
           d \in {"acc1", "acc3"}, d \in o, \A f \in {"acc1", "acc3"} : f # d => f \notin o \cup i
    PROVE  IsPart(o, i, FirstStage(r), InTurn(W1Rows, [row \in 1 .. W1Rows |->
                    InTurn(HiddenVecs, [v \in 1 .. HiddenVecs |->
                    R(c, <<r, (row - 1) * HiddenVecs + v>>)])
                    \odot InTurn(Lanes, [l \in 1 .. Lanes |-> W(d, <<r, row, l>>)])]))
<1>1. PICK q, p : /\ q = [row \in 1 .. W1Rows |-> RowWeights(r, row) \odot RowResults(r, row)]
                  /\ p = [row \in 1 .. W1Rows |-> InTurn(HiddenVecs, [v \in 1 .. HiddenVecs |->
                        R(c, <<r, (row - 1) * HiddenVecs + v>>)])
                        \odot InTurn(Lanes, [l \in 1 .. Lanes |-> W(d, <<r, row, l>>)])]
  OBVIOUS
<1>2. ASSUME NEW row \in 1 .. W1Rows PROVE IsPart(o, i, q[row], p[row])
  <2>1. IsPart(o, i, RowWeights(r, row), InTurn(HiddenVecs, [v \in 1 .. HiddenVecs |->
                  R(c, <<r, (row - 1) * HiddenVecs + v>>)]))
    BY RowWeightsRead
  <2>2. IsPart(o, i, RowResults(r, row), InTurn(Lanes, [l \in 1 .. Lanes |-> W(d, <<r, row, l>>)]))
    BY RowResultsWrite
  <2>3. PICK x, y : x = InTurn(HiddenVecs, [v \in 1 .. HiddenVecs |->
                  R(c, <<r, (row - 1) * HiddenVecs + v>>)]) /\ y = InTurn(Lanes, [l \in 1 .. Lanes |->
                  W(d, <<r, row, l>>)])
    OBVIOUS
  <2>4. IsPart(o, i, RowWeights(r, row) \odot RowResults(r, row), x \odot y)
    BY <2>1, <2>2, <2>3, PartJoin
  <2>5. q[row] = RowWeights(r, row) \odot RowResults(r, row)
    BY <1>1
  <2>6. p[row] = InTurn(HiddenVecs, [v \in 1 .. HiddenVecs |->
                  R(c, <<r, (row - 1) * HiddenVecs + v>>)]) \odot InTurn(Lanes, [l \in 1 .. Lanes |->
                  W(d, <<r, row, l>>)])
    BY <1>1
  <2> QED
    BY <2>3, <2>4, <2>5, <2>6
<1>3. FirstStage(r) = InTurn(W1Rows, q)
  BY <1>1 DEF FirstStage, Loop
<1>4. IsPart(o, i, InTurn(W1Rows, q), InTurn(W1Rows, p))
  BY <1>2, SlotSizes, PartTurns
<1> QED
  BY <1>1, <1>3, <1>4

LEMMA FirstStageLoad ==
    ASSUME SlotAssumption, NEW o, NEW i, NEW r, NEW c,
           c \in {"w1", "w3"}, c \in o, \A f \in {"w1", "w3"} : f # c => f \notin o \cup i,
                        (o \cup i) \cap {"acc1", "acc3"} = {}
    PROVE  IsPart(o, i, FirstStage(r), InTurn(W1Rows, [row \in 1 .. W1Rows |->
                    InTurn(HiddenVecs, [v \in 1 .. HiddenVecs |->
                    W(c, <<r, (row - 1) * HiddenVecs + v>>)])]))
<1>1. PICK q, p : /\ q = [row \in 1 .. W1Rows |-> RowWeights(r, row) \odot RowResults(r, row)]
                  /\ p = [row \in 1 .. W1Rows |-> InTurn(HiddenVecs, [v \in 1 .. HiddenVecs |->
                        W(c, <<r, (row - 1) * HiddenVecs + v>>)])]
  OBVIOUS
<1>2. ASSUME NEW row \in 1 .. W1Rows PROVE IsPart(o, i, q[row], p[row])
  <2>1. IsPart(o, i, RowWeights(r, row), InTurn(HiddenVecs, [v \in 1 .. HiddenVecs |->
                  W(c, <<r, (row - 1) * HiddenVecs + v>>)]))
    BY RowWeightsWrite
  <2>2. IsPart(o, i, RowResults(r, row), <<>>)
    BY RowResultsIdle
  <2>3. PICK x : x = InTurn(HiddenVecs, [v \in 1 .. HiddenVecs |->
                  W(c, <<r, (row - 1) * HiddenVecs + v>>)])
    OBVIOUS
  <2>4. IsPart(o, i, RowWeights(r, row) \odot RowResults(r, row), x)
    BY <2>1, <2>2, <2>3, PartLeft
  <2>5. q[row] = RowWeights(r, row) \odot RowResults(r, row)
    BY <1>1
  <2>6. p[row] = InTurn(HiddenVecs, [v \in 1 .. HiddenVecs |-> W(c, <<r, (row - 1) * HiddenVecs + v>>)])
    BY <1>1
  <2> QED
    BY <2>3, <2>4, <2>5, <2>6
<1>3. FirstStage(r) = InTurn(W1Rows, q)
  BY <1>1 DEF FirstStage, Loop
<1>4. IsPart(o, i, InTurn(W1Rows, q), InTurn(W1Rows, p))
  BY <1>2, SlotSizes, PartTurns
<1> QED
  BY <1>1, <1>3, <1>4

LEMMA FirstStageSwiglu ==
    ASSUME SlotAssumption, NEW o, NEW i, NEW r,
           (o \cup i) \cap {"w1", "w3"} = {}, "acc1" \in i, "acc3" \in i, "acc1" \notin o,
                        "acc3" \notin o
    PROVE  IsPart(o, i, FirstStage(r), InTurn(W1Rows, [row \in 1 .. W1Rows |->
                    InTurn(Lanes, [l \in 1 .. Lanes |-> R("acc1", <<r, row, l>>)
                    \odot R("acc3", <<r, row, l>>)])]))
<1>1. PICK q, p : /\ q = [row \in 1 .. W1Rows |-> RowWeights(r, row) \odot RowResults(r, row)]
                  /\ p = [row \in 1 .. W1Rows |-> InTurn(Lanes, [l \in 1 .. Lanes |->
                        R("acc1", <<r, row, l>>) \odot R("acc3", <<r, row, l>>)])]
  OBVIOUS
<1>2. \A row \in 1 .. W1Rows : IsPart(o, i, q[row], p[row])
  BY <1>1, RowWeightsIdle, RowResultsReads, PartRight
<1>3. FirstStage(r) = InTurn(W1Rows, q)
  BY <1>1 DEF FirstStage, Loop
<1>4. IsPart(o, i, InTurn(W1Rows, q), InTurn(W1Rows, p))
  BY <1>2, SlotSizes, PartTurns
<1> QED
  BY <1>1, <1>3, <1>4

(* A vector of x, to the slot and to its two projections. *)
Vector(r, j) == Send("x", <<r, j>>) \odot Send("x1", <<r, j>>) \odot Send("x3", <<r, j>>)

LEMMA VectorIdle ==
    ASSUME NEW o, NEW i, (o \cup i) \cap {"x", "x1", "x3"} = {}, NEW r, NEW j
    PROVE  IsPart(o, i, Vector(r, j), <<>>)
<1>1. IsPart(o, i, Send("x", <<r, j>>), <<>>)
  BY PartNone
<1>2. IsPart(o, i, Send("x1", <<r, j>>), <<>>)
  BY PartNone
<1>3. IsPart(o, i, Send("x3", <<r, j>>), <<>>)
  BY PartNone
<1> QED
  BY <1>1, <1>2, <1>3, PartLeft DEF Vector

LEMMA VectorSource ==
    ASSUME NEW o, NEW i, "x" \in o, (o \cup i) \cap {"x1", "x3"} = {}, NEW r, NEW j
    PROVE  IsPart(o, i, Vector(r, j), W("x", <<r, j>>))
<1>1. IsPart(o, i, Send("x", <<r, j>>), W("x", <<r, j>>))
  BY PartWrite
<1>2. IsPart(o, i, Send("x1", <<r, j>>), <<>>)
  BY PartNone
<1>3. IsPart(o, i, Send("x3", <<r, j>>), <<>>)
  BY PartNone
<1> QED
  BY <1>1, <1>2, <1>3, PartLeft DEF Vector

LEMMA VectorSplit ==
    ASSUME NEW o, NEW i, "x" \in i, "x" \notin o, {"x1", "x3"} \subseteq o, NEW r, NEW j
    PROVE  IsPart(o, i, Vector(r, j), R("x", <<r, j>>) \odot W("x1", <<r, j>>) \odot W("x3", <<r, j>>))
<1>1. IsPart(o, i, Send("x", <<r, j>>), R("x", <<r, j>>))
  BY PartRead
<1>2. IsPart(o, i, Send("x1", <<r, j>>), W("x1", <<r, j>>))
  BY PartWrite
<1>3. IsPart(o, i, Send("x3", <<r, j>>), W("x3", <<r, j>>))
  BY PartWrite
<1> QED
  BY <1>1, <1>2, <1>3, PartJoin DEF Vector

LEMMA VectorProj ==
    ASSUME NEW o, NEW i, NEW c \in {"x1", "x3"}, c \in i, c \notin o, NEW r, NEW j,
           \A f \in {"x", "x1", "x3"} : f # c => f \notin o \cup i
    PROVE  IsPart(o, i, Vector(r, j), R(c, <<r, j>>))
<1>1. IsPart(o, i, Send("x", <<r, j>>), <<>>)
  BY PartNone
<1>2. IsPart(o, i, Send("x1", <<r, j>>), IF c = "x1" THEN R(c, <<r, j>>) ELSE <<>>)
  BY PartRead, PartNone
<1>3. IsPart(o, i, Send("x3", <<r, j>>), IF c = "x3" THEN R(c, <<r, j>>) ELSE <<>>)
  BY PartRead, PartNone
<1>4. IsPart(o, i, Send("x", <<r, j>>) \odot Send("x1", <<r, j>>), IF c = "x1" THEN R(c, <<r,
                j>>) ELSE <<>>)
  BY <1>1, <1>2, PartRight
<1> QED
  BY <1>3, <1>4, PartLeft, PartRight DEF Vector

LEMMA FanOutIdle ==
    ASSUME SlotAssumption, NEW o, NEW i, NEW r,
           (o \cup i) \cap {"x", "x1", "x3"} = {}
    PROVE  IsPart(o, i, FanOut(r), <<>>)
<1>1. PICK q : q = [j \in 1 .. Lanes * HiddenVecs |-> Vector(r, j)]
  OBVIOUS
<1>2. \A j \in 1 .. Lanes * HiddenVecs : IsPart(o, i, q[j], <<>>)
  BY <1>1, VectorIdle
<1>3. FanOut(r) = InTurn(Lanes * HiddenVecs, q)
  BY <1>1 DEF FanOut, Loop, Vector
<1> QED
  BY <1>2, <1>3, SlotSizes, PartIdle

LEMMA FanOutSource ==
    ASSUME SlotAssumption, NEW o, NEW i, NEW r,
           "x" \in o, (o \cup i) \cap {"x1", "x3"} = {}
    PROVE  IsPart(o, i, FanOut(r), InTurn(Lanes * HiddenVecs, [j \in 1 .. Lanes * HiddenVecs |->
                    W("x", <<r, j>>)]))
<1>1. PICK q, p : /\ q = [j \in 1 .. Lanes * HiddenVecs |-> Vector(r, j)]
                  /\ p = [j \in 1 .. Lanes * HiddenVecs |-> W("x", <<r, j>>)]
  OBVIOUS
<1>2. \A j \in 1 .. Lanes * HiddenVecs : IsPart(o, i, q[j], p[j])
  BY <1>1, VectorSource
<1>3. FanOut(r) = InTurn(Lanes * HiddenVecs, q)
  BY <1>1 DEF FanOut, Loop, Vector
<1>4. IsPart(o, i, InTurn(Lanes * HiddenVecs, q), InTurn(Lanes * HiddenVecs, p))
  BY <1>2, SlotSizes, PartTurns
<1> QED
  BY <1>1, <1>3, <1>4

LEMMA FanOutSplit ==
    ASSUME SlotAssumption, NEW o, NEW i, NEW r,
           "x" \in i, "x" \notin o, {"x1", "x3"} \subseteq o
    PROVE  IsPart(o, i, FanOut(r), InTurn(Lanes * HiddenVecs, [j \in 1 .. Lanes * HiddenVecs |->
                    R("x", <<r, j>>) \odot W("x1", <<r, j>>) \odot W("x3", <<r, j>>)]))
<1>1. PICK q, p : /\ q = [j \in 1 .. Lanes * HiddenVecs |-> Vector(r, j)]
                  /\ p = [j \in 1 .. Lanes * HiddenVecs |-> R("x", <<r, j>>)
                        \odot W("x1", <<r, j>>) \odot W("x3", <<r, j>>)]
  OBVIOUS
<1>2. \A j \in 1 .. Lanes * HiddenVecs : IsPart(o, i, q[j], p[j])
  BY <1>1, VectorSplit
<1>3. FanOut(r) = InTurn(Lanes * HiddenVecs, q)
  BY <1>1 DEF FanOut, Loop, Vector
<1>4. IsPart(o, i, InTurn(Lanes * HiddenVecs, q), InTurn(Lanes * HiddenVecs, p))
  BY <1>2, SlotSizes, PartTurns
<1> QED
  BY <1>1, <1>3, <1>4

LEMMA FanOutProj ==
    ASSUME SlotAssumption, NEW o, NEW i, NEW r, NEW c,
           c \in {"x1", "x3"}, c \in i, c \notin o, \A f \in {"x", "x1",
                        "x3"} : f # c => f \notin o \cup i
    PROVE  IsPart(o, i, FanOut(r), InTurn(Lanes * HiddenVecs, [j \in 1 .. Lanes * HiddenVecs |->
                    R(c, <<r, j>>)]))
<1>1. PICK q, p : /\ q = [j \in 1 .. Lanes * HiddenVecs |-> Vector(r, j)]
                  /\ p = [j \in 1 .. Lanes * HiddenVecs |-> R(c, <<r, j>>)]
  OBVIOUS
<1>2. \A j \in 1 .. Lanes * HiddenVecs : IsPart(o, i, q[j], p[j])
  BY <1>1, VectorProj
<1>3. FanOut(r) = InTurn(Lanes * HiddenVecs, q)
  BY <1>1 DEF FanOut, Loop, Vector
<1>4. IsPart(o, i, InTurn(Lanes * HiddenVecs, q), InTurn(Lanes * HiddenVecs, p))
  BY <1>2, SlotSizes, PartTurns
<1> QED
  BY <1>1, <1>3, <1>4

(* The header of a round, and a parameter.                                  *)

LEMMA AnnounceOne ==
    ASSUME NEW o, NEW i, NEW r, NEW c \in {"hdr", "hdr1", "hdr3", "hdrS", "trig1", "trig3"}, NEW s,
                    IsPart(o, i, Send(c, <<r>>), s),
           \A f \in {"hdr", "hdr1", "hdr3", "hdrS", "trig1", "trig3"} : f # c => f \notin o \cup i
    PROVE  IsPart(o, i, Announce(r), s)
<1>1. \A e \in {"hdr", "hdr1", "hdr3", "hdrS", "trig1", "trig3"} : IsPart(o, i, Send(e, <<r>>),
                IF e = c THEN s ELSE <<>>)
  BY PartNone
<1>2. PICK a1, a2, a3, a4, a5 :
        /\ a1 = Send("hdr", <<r>>)
        /\ a2 = a1 \odot Send("hdr1", <<r>>)
        /\ a3 = a2 \odot Send("hdr3", <<r>>)
        /\ a4 = a3 \odot Send("hdrS", <<r>>)
        /\ a5 = a4 \odot Send("trig1", <<r>>)
  OBVIOUS
<1>3. IsPart(o, i, a2, IF c \in {"hdr", "hdr1"} THEN s ELSE <<>>)
  BY <1>1, <1>2, PartLeft, PartRight
<1>4. IsPart(o, i, a3, IF c \in {"hdr", "hdr1", "hdr3"} THEN s ELSE <<>>)
  BY <1>1, <1>2, <1>3, PartLeft, PartRight
<1>5. IsPart(o, i, a4, IF c \in {"hdr", "hdr1", "hdr3", "hdrS"} THEN s ELSE <<>>)
  BY <1>1, <1>2, <1>4, PartLeft, PartRight
<1>6. IsPart(o, i, a5, IF c # "trig3" THEN s ELSE <<>>)
  BY <1>1, <1>2, <1>5, PartLeft, PartRight
<1>7. IsPart(o, i, a5 \odot Send("trig3", <<r>>), s)
  BY <1>1, <1>6, PartLeft, PartRight
<1> QED
  BY <1>2, <1>7 DEF Announce

LEMMA AnnounceIdle ==
    ASSUME NEW o, NEW i, NEW r, (o \cup i) \cap {"hdr", "hdr1", "hdr3", "hdrS", "trig1", "trig3"} = {}
    PROVE  IsPart(o, i, Announce(r), <<>>)
<1>1. IsPart(o, i, Send("hdr", <<r>>), <<>>)
  BY PartNone
<1> QED
  BY <1>1, AnnounceOne

LEMMA AnnounceSplit ==
    ASSUME NEW o, NEW i, NEW r, "hdr" \in i, "hdr" \notin o,
           {"hdr1", "hdr3", "hdrS", "trig1", "trig3"} \subseteq o
    PROVE  IsPart(o, i, Announce(r),
              R("hdr", <<r>>) \odot W("hdr1", <<r>>) \odot W("hdr3", <<r>>) \odot W("hdrS", <<r>>)
              \odot W("trig1", <<r>>) \odot W("trig3", <<r>>))
<1>1. IsPart(o, i, Send("hdr", <<r>>), R("hdr", <<r>>))
  BY PartRead
<1>2. \A e \in {"hdr1", "hdr3", "hdrS", "trig1", "trig3"} : IsPart(o, i, Send(e, <<r>>), W(e, <<r>>))
  BY PartWrite
<1>3. IsPart(o, i, Send("hdr", <<r>>) \odot Send("hdr1", <<r>>), R("hdr", <<r>>) \odot W("hdr1", <<r>>))
  BY <1>1, <1>2, PartJoin
<1>4. IsPart(o, i, Send("hdr", <<r>>) \odot Send("hdr1", <<r>>) \odot Send("hdr3", <<r>>),
                   R("hdr", <<r>>) \odot W("hdr1", <<r>>) \odot W("hdr3", <<r>>))
  BY <1>2, <1>3, PartJoin
<1>5. IsPart(o, i, Send("hdr", <<r>>) \odot Send("hdr1", <<r>>) \odot Send("hdr3", <<r>>)
                \odot Send("hdrS", <<r>>),
                   R("hdr", <<r>>) \odot W("hdr1", <<r>>) \odot W("hdr3", <<r>>) \odot W("hdrS", <<r>>))
  BY <1>2, <1>4, PartJoin
<1>6. IsPart(o, i, Send("hdr", <<r>>) \odot Send("hdr1", <<r>>) \odot Send("hdr3", <<r>>)
                \odot Send("hdrS", <<r>>)
                   \odot Send("trig1", <<r>>),
                   R("hdr", <<r>>) \odot W("hdr1", <<r>>) \odot W("hdr3", <<r>>) \odot W("hdrS", <<r>>)
                   \odot W("trig1", <<r>>))
  BY <1>2, <1>5, PartJoin
<1> QED
  BY <1>2, <1>6, PartJoin DEF Announce

LEMMA ParamsAre ==
    ASSUME SlotAssumption
    PROVE  /\ \A j \in 1 .. 3 * ParamsEach : j \in Params(1) \/ j \in Params(2) \/ j \in Params(3)
           /\ Params(1) = 1 .. ParamsEach
           /\ Params(2) = ParamsEach + 1 .. 2 * ParamsEach
           /\ Params(3) = 2 * ParamsEach + 1 .. 3 * ParamsEach
           /\ \A j \in Int : ~(j \in Params(1) /\ j \in Params(2)) /\ ~(j \in Params(1) /\ j \in Params(3))
                            /\ ~(j \in Params(2) /\ j \in Params(3))
<1>1. PICK e \in Nat : e = ParamsEach
  BY SlotSizes
<1>2. /\ Params(1) = 1 .. e /\ Params(2) = e + 1 .. 2 * e /\ Params(3) = 2 * e + 1 .. 3 * e
  <2>1. (1 - 1) * e + 1 = 1 /\ 1 * e = e /\ (2 - 1) * e + 1 = e + 1 /\ (3 - 1) * e + 1 = 2 * e + 1
    OBVIOUS
  <2> QED
    BY <1>1, <2>1 DEF Params
<1>3. \A j \in 1 .. 3 * e : j \in 1 .. e \/ j \in e + 1 .. 2 * e \/ j \in 2 * e + 1 .. 3 * e
  OBVIOUS
<1>4. \A j \in Int : /\ ~(j \in 1 .. e /\ j \in e + 1 .. 2 * e)
                     /\ ~(j \in 1 .. e /\ j \in 2 * e + 1 .. 3 * e)
                     /\ ~(j \in e + 1 .. 2 * e /\ j \in 2 * e + 1 .. 3 * e)
  OBVIOUS
<1> QED
  BY <1>1, <1>2, <1>3, <1>4

LEMMA ForParamIs ==
    ASSUME SlotAssumption, NEW j \in 1 .. 3 * ParamsEach
    PROVE  /\ j \in Int
           /\ j \in Params(1) => ForParam(j) = Send("w1_dq",
                 <<j>>) /\ j \notin Params(2) /\ j \notin Params(3)
           /\ j \in Params(2) => ForParam(j) = Send("w3_dq",
                 <<j>>) /\ j \notin Params(1) /\ j \notin Params(3)
           /\ j \in Params(3) => ForParam(j) = Both("w2_dq_a", "w2_dq_b",
                 <<j>>) /\ j \notin Params(1) /\ j \notin Params(2)
           /\ j \in Params(1) \/ j \in Params(2) \/ j \in Params(3)
<1>1. j \in Int
  BY DEF SlotAssumption
<1>2. /\ j \in Params(1) \/ j \in Params(2) \/ j \in Params(3)
      /\ ~(j \in Params(1) /\ j \in Params(2)) /\ ~(j \in Params(1) /\ j \in Params(3))
      /\ ~(j \in Params(2) /\ j \in Params(3))
  BY <1>1, ParamsAre
<1> QED
  BY <1>1, <1>2 DEF ForParam

LEMMA ForParamIdle ==
    ASSUME SlotAssumption, NEW o, NEW i, NEW j \in 1 .. 3 * ParamsEach,
           (o \cup i) \cap {"w1_dq", "w3_dq", "w2_dq_a", "w2_dq_b"} = {}
    PROVE  IsPart(o, i, ForParam(j), <<>>)
<1>1. CASE j \in Params(1)
  <2>1. ForParam(j) = Send("w1_dq", <<j>>)
    BY <1>1, ForParamIs
  <2> QED
    BY <2>1, PartNone
<1>2. CASE j \in Params(2)
  <2>1. ForParam(j) = Send("w3_dq", <<j>>)
    BY <1>2, ForParamIs
  <2> QED
    BY <2>1, PartNone
<1>3. CASE j \in Params(3)
  <2>1. ForParam(j) = Both("w2_dq_a", "w2_dq_b", <<j>>)
    BY <1>3, ForParamIs
  <2> QED
    BY <2>1, BothNone
<1> QED
  BY <1>1, <1>2, <1>3, ForParamIs

(* What dequant_split hands to the projections. *)
Handed(j) ==
    CASE j \in Params(1) -> W("w1_dq", <<j>>)
      [] j \in Params(2) -> W("w3_dq", <<j>>)
      [] j \in Params(3) -> W("w2_dq_a", <<j>>) \odot W("w2_dq_b", <<j>>)

LEMMA ForParamSplit ==
    ASSUME SlotAssumption, NEW o, NEW i, NEW j \in 1 .. 3 * ParamsEach,
           {"w1_dq", "w3_dq", "w2_dq_a", "w2_dq_b"} \subseteq o
    PROVE  IsPart(o, i, ForParam(j), Handed(j))
<1>1. CASE j \in Params(1)
  BY <1>1, ForParamIs, PartWrite DEF Handed
<1>2. CASE j \in Params(2)
  <2>1. Handed(j) = W("w3_dq", <<j>>)
    BY <1>2, ForParamIs DEF Handed
  <2> QED
    BY <1>2, <2>1, ForParamIs, PartWrite
<1>3. CASE j \in Params(3)
  <2>1. Handed(j) = W("w2_dq_a", <<j>>) \odot W("w2_dq_b", <<j>>)
    BY <1>3, ForParamIs DEF Handed
  <2> QED
    BY <1>3, <2>1, ForParamIs, BothWrites
<1> QED
  BY <1>1, <1>2, <1>3, ForParamIs

(* What a projection takes of the parameters: those of its first matrix    *)
(* and those of W2.                                                        *)
Taken(m, c, d, j) == IF j \in Params(m) THEN R(c, <<j>>) ELSE IF j \in Params(3) THEN R(d,
                <<j>>) ELSE <<>>

LEMMA ForParamProj ==
    ASSUME SlotAssumption, NEW o, NEW i, NEW j \in 1 .. 3 * ParamsEach, NEW m, NEW c, NEW d,
           (m = 1 /\ c = "w1_dq") \/ (m = 2 /\ c = "w3_dq"), d \in {"w2_dq_a", "w2_dq_b"},
           c \in i, d \in i,
           \A f \in {"w1_dq", "w3_dq", "w2_dq_a", "w2_dq_b"} : f \notin o /\ (f \notin {c,
                        d} => f \notin i)
    PROVE  IsPart(o, i, ForParam(j), Taken(m, c, d, j))
<1>0. /\ c # d /\ c \notin o /\ d \notin o
  OBVIOUS
<1>1. CASE j \in Params(1)
  <2>1. ForParam(j) = Send("w1_dq", <<j>>) /\ j \notin Params(2) /\ j \notin Params(3)
    BY <1>1, ForParamIs
  <2>2. CASE m = 1
    BY <1>0, <1>1, <2>1, <2>2, PartRead DEF Taken
  <2>3. CASE m = 2
    BY <1>0, <1>1, <2>1, <2>3, PartNone DEF Taken
  <2> QED
    BY <2>2, <2>3
<1>2. CASE j \in Params(2)
  <2>1. ForParam(j) = Send("w3_dq", <<j>>) /\ j \notin Params(1) /\ j \notin Params(3)
    BY <1>2, ForParamIs
  <2>2. CASE m = 2
    BY <1>0, <1>2, <2>1, <2>2, PartRead DEF Taken
  <2>3. CASE m = 1
    BY <1>0, <1>2, <2>1, <2>3, PartNone DEF Taken
  <2> QED
    BY <2>2, <2>3
<1>3. CASE j \in Params(3)
  <2>1. ForParam(j) = Both("w2_dq_a", "w2_dq_b", <<j>>) /\ j \notin Params(1) /\ j \notin Params(2)
    BY <1>3, ForParamIs
  <2>2. Taken(m, c, d, j) = R(d, <<j>>)
    BY <1>3, <2>1 DEF Taken
  <2>3. IsPart(o, i, Both("w2_dq_a", "w2_dq_b", <<j>>), R(d, <<j>>))
    BY <1>0, BothRead
  <2> QED
    BY <2>1, <2>2, <2>3
<1> QED
  BY <1>1, <1>2, <1>3, ForParamIs

(* One parameter on its way. *)
Parameter(j) == Send("dequant", <<j>>) \odot Send("dequant_fwd", <<j>>) \odot ForParam(j)

LEMMA ParameterPart ==
    ASSUME NEW o, NEW i, NEW j, NEW a, NEW b, NEW s, IsPart(o, i, Send("dequant", <<j>>), a),
           IsPart(o, i, Send("dequant_fwd", <<j>>), b), IsPart(o, i, ForParam(j), s)
    PROVE  IsPart(o, i, Parameter(j), a \odot b \odot s)
<1>1. IsPart(o, i, Send("dequant", <<j>>) \odot Send("dequant_fwd", <<j>>), a \odot b)
  BY PartJoin
<1> QED
  BY <1>1, PartJoin DEF Parameter

LEMMA NoEnds == ASSUME NEW s, IsSeq(s)
    PROVE  /\ <<>> \odot <<>> \odot s = s
           /\ s \odot <<>> \odot <<>> = s
           /\ <<>> \odot s \odot <<>> = s
<1>1. s \odot <<>> = s /\ <<>> \odot s = s /\ <<>> \odot <<>> = <<>>
  BY Join, EmptyIsSeq
<1> QED
  BY <1>1

LEMMA ParameterIdle ==
    ASSUME SlotAssumption, NEW o, NEW i, NEW j \in 1 .. 3 * ParamsEach,
           (o \cup i) \cap {"dequant", "dequant_fwd", "w1_dq", "w3_dq", "w2_dq_a", "w2_dq_b"} = {}
    PROVE  IsPart(o, i, Parameter(j), <<>>)
<1>1. IsPart(o, i, Send("dequant", <<j>>), <<>>)
  BY PartNone
<1>2. IsPart(o, i, Send("dequant_fwd", <<j>>), <<>>)
  BY PartNone
<1>3. IsPart(o, i, ForParam(j), <<>>)
  BY ForParamIdle
<1> QED
  BY <1>1, <1>2, <1>3, ParameterPart, NoEnds, EmptyIsSeq

LEMMA ParameterReader ==
    ASSUME SlotAssumption, NEW o, NEW i, NEW j \in 1 .. 3 * ParamsEach, "dequant" \in o,
           (o \cup i) \cap {"dequant_fwd", "w1_dq", "w3_dq", "w2_dq_a", "w2_dq_b"} = {}
    PROVE  IsPart(o, i, Parameter(j), W("dequant", <<j>>))
<1>1. IsPart(o, i, Send("dequant", <<j>>), W("dequant", <<j>>))
  BY PartWrite
<1>2. IsPart(o, i, Send("dequant_fwd", <<j>>), <<>>)
  BY PartNone
<1>3. IsPart(o, i, ForParam(j), <<>>)
  BY ForParamIdle
<1>4. IsSeq(W("dequant", <<j>>))
  BY <1>1 DEF IsPart
<1> QED
  BY <1>1, <1>2, <1>3, <1>4, ParameterPart, NoEnds

LEMMA ParameterSink ==
    ASSUME SlotAssumption, NEW o, NEW i, NEW j \in 1 .. 3 * ParamsEach, "dequant_fwd" \in i,
                    "dequant_fwd" \notin o,
           (o \cup i) \cap {"dequant", "w1_dq", "w3_dq", "w2_dq_a", "w2_dq_b"} = {}
    PROVE  IsPart(o, i, Parameter(j), R("dequant_fwd", <<j>>))
<1>1. IsPart(o, i, Send("dequant", <<j>>), <<>>)
  BY PartNone
<1>2. IsPart(o, i, Send("dequant_fwd", <<j>>), R("dequant_fwd", <<j>>))
  BY PartRead
<1>3. IsPart(o, i, ForParam(j), <<>>)
  BY ForParamIdle
<1>4. IsSeq(R("dequant_fwd", <<j>>))
  BY <1>2 DEF IsPart
<1> QED
  BY <1>1, <1>2, <1>3, <1>4, ParameterPart, NoEnds

LEMMA ParameterSplit ==
    ASSUME SlotAssumption, NEW o, NEW i, NEW j \in 1 .. 3 * ParamsEach, "dequant" \in i,
                    "dequant" \notin o,
           {"dequant_fwd", "w1_dq", "w3_dq", "w2_dq_a", "w2_dq_b"} \subseteq o
    PROVE  IsPart(o, i, Parameter(j), R("dequant", <<j>>) \odot W("dequant_fwd", <<j>>) \odot Handed(j))
<1>1. IsPart(o, i, Send("dequant", <<j>>), R("dequant", <<j>>))
  BY PartRead
<1>2. IsPart(o, i, Send("dequant_fwd", <<j>>), W("dequant_fwd", <<j>>))
  BY PartWrite
<1>3. IsPart(o, i, ForParam(j), Handed(j))
  BY ForParamSplit
<1> QED
  BY <1>1, <1>2, <1>3, ParameterPart

LEMMA ParameterProj ==
    ASSUME SlotAssumption, NEW o, NEW i, NEW j \in 1 .. 3 * ParamsEach, NEW m, NEW c, NEW d,
           (m = 1 /\ c = "w1_dq") \/ (m = 2 /\ c = "w3_dq"), d \in {"w2_dq_a", "w2_dq_b"},
           c \in i, d \in i, (o \cup i) \cap {"dequant", "dequant_fwd"} = {},
           \A f \in {"w1_dq", "w3_dq", "w2_dq_a", "w2_dq_b"} : f \notin o /\ (f \notin {c,
                        d} => f \notin i)
    PROVE  IsPart(o, i, Parameter(j), Taken(m, c, d, j))
<1>1. IsPart(o, i, Send("dequant", <<j>>), <<>>)
  BY PartNone
<1>2. IsPart(o, i, Send("dequant_fwd", <<j>>), <<>>)
  BY PartNone
<1>3. IsPart(o, i, ForParam(j), Taken(m, c, d, j))
  BY ForParamProj
<1>4. IsSeq(Taken(m, c, d, j))
  BY <1>3 DEF IsPart
<1> QED
  BY <1>1, <1>2, <1>3, <1>4, ParameterPart, NoEnds

(* All the parameters.                                                      *)

LEMMA DequantiseIdle ==
    ASSUME SlotAssumption, NEW o, NEW i,
           (o \cup i) \cap {"dequant", "dequant_fwd", "w1_dq", "w3_dq", "w2_dq_a", "w2_dq_b"} = {}
    PROVE  IsPart(o, i, Dequantise, <<>>)
<1>1. PICK q : q = [j \in 1 .. 3 * ParamsEach |-> Parameter(j)]
  OBVIOUS
<1>2. \A j \in 1 .. 3 * ParamsEach : IsPart(o, i, q[j], <<>>)
  BY <1>1, ParameterIdle
<1>3. Dequantise = InTurn(3 * ParamsEach, q)
  BY <1>1 DEF Dequantise, Parameter, Loop
<1> QED
  BY <1>2, <1>3, SlotSizes, PartIdle

LEMMA DequantiseReader ==
    ASSUME SlotAssumption, NEW o, NEW i,
           "dequant" \in o, (o \cup i) \cap {"dequant_fwd", "w1_dq", "w3_dq", "w2_dq_a", "w2_dq_b"} = {}
    PROVE  IsPart(o, i, Dequantise, InTurn(3 * ParamsEach, [j \in 1 .. 3 * ParamsEach |->
                    W("dequant", <<j>>)]))
<1>1. PICK q, p : /\ q = [j \in 1 .. 3 * ParamsEach |-> Parameter(j)]
                  /\ p = [j \in 1 .. 3 * ParamsEach |-> W("dequant", <<j>>)]
  OBVIOUS
<1>2. \A j \in 1 .. 3 * ParamsEach : IsPart(o, i, q[j], p[j])
  BY <1>1, ParameterReader
<1>3. Dequantise = InTurn(3 * ParamsEach, q)
  BY <1>1 DEF Dequantise, Parameter, Loop
<1>4. IsPart(o, i, InTurn(3 * ParamsEach, q), InTurn(3 * ParamsEach, p))
  BY <1>2, SlotSizes, PartTurns
<1> QED
  BY <1>1, <1>3, <1>4

LEMMA DequantiseSink ==
    ASSUME SlotAssumption, NEW o, NEW i,
           "dequant_fwd" \in i, "dequant_fwd" \notin o, (o \cup i) \cap {"dequant", "w1_dq", "w3_dq",
                        "w2_dq_a", "w2_dq_b"} = {}
    PROVE  IsPart(o, i, Dequantise, InTurn(3 * ParamsEach, [j \in 1 .. 3 * ParamsEach |->
                    R("dequant_fwd", <<j>>)]))
<1>1. PICK q, p : /\ q = [j \in 1 .. 3 * ParamsEach |-> Parameter(j)]
                  /\ p = [j \in 1 .. 3 * ParamsEach |-> R("dequant_fwd", <<j>>)]
  OBVIOUS
<1>2. \A j \in 1 .. 3 * ParamsEach : IsPart(o, i, q[j], p[j])
  BY <1>1, ParameterSink
<1>3. Dequantise = InTurn(3 * ParamsEach, q)
  BY <1>1 DEF Dequantise, Parameter, Loop
<1>4. IsPart(o, i, InTurn(3 * ParamsEach, q), InTurn(3 * ParamsEach, p))
  BY <1>2, SlotSizes, PartTurns
<1> QED
  BY <1>1, <1>3, <1>4

LEMMA DequantiseSplit ==
    ASSUME SlotAssumption, NEW o, NEW i,
           "dequant" \in i, "dequant" \notin o, {"dequant_fwd", "w1_dq", "w3_dq", "w2_dq_a",
                        "w2_dq_b"} \subseteq o
    PROVE  IsPart(o, i, Dequantise, InTurn(3 * ParamsEach, [j \in 1 .. 3 * ParamsEach |->
                    R("dequant", <<j>>) \odot W("dequant_fwd", <<j>>) \odot Handed(j)]))
<1>1. PICK q, p : /\ q = [j \in 1 .. 3 * ParamsEach |-> Parameter(j)]
                  /\ p = [j \in 1 .. 3 * ParamsEach |-> R("dequant", <<j>>)
                        \odot W("dequant_fwd", <<j>>) \odot Handed(j)]
  OBVIOUS
<1>2. \A j \in 1 .. 3 * ParamsEach : IsPart(o, i, q[j], p[j])
  BY <1>1, ParameterSplit
<1>3. Dequantise = InTurn(3 * ParamsEach, q)
  BY <1>1 DEF Dequantise, Parameter, Loop
<1>4. IsPart(o, i, InTurn(3 * ParamsEach, q), InTurn(3 * ParamsEach, p))
  BY <1>2, SlotSizes, PartTurns
<1> QED
  BY <1>1, <1>3, <1>4

TakenAll(m, c, d) == [j \in 1 .. 3 * ParamsEach |-> Taken(m, c, d, j)]
ParamsTaken(m, c) == [j \in 1 .. ParamsEach |-> R(c, <<(m - 1) * ParamsEach + j>>)]
ParamsTakenW2(d) == [j \in 1 .. ParamsEach |-> R(d, <<2 * ParamsEach + j>>)]

LEMMA TakenThirds ==
    ASSUME SlotAssumption, NEW m \in {1, 2}, NEW c, NEW d
    PROVE  InTurn(3 * ParamsEach, TakenAll(m, c, d)) =
              InTurn(ParamsEach, ParamsTaken(m, c)) \odot InTurn(ParamsEach, ParamsTakenW2(d))
<1>1. PICK k \in Nat : k = ParamsEach
  BY SlotSizes
<1>2. PICK p, rest, first, second, third :
        /\ p = [j \in 1 .. k + (k + k) |-> Taken(m, c, d, j)]
        /\ rest = [j \in 1 .. k + k |-> Taken(m, c, d, k + j)]
        /\ first = [j \in 1 .. k |-> R(c, <<(m - 1) * k + j>>)]
        /\ second = [j \in 1 .. k |-> Taken(m, c, d, k + j)]
        /\ third = [j \in 1 .. k |-> R(d, <<2 * k + j>>)]
  OBVIOUS
<1>3. \A j : IsSeq(Taken(m, c, d, j)) /\ IsSeq(R(c, <<j>>)) /\ IsSeq(R(d, <<j>>))
  BY OneIsSeq, EmptyIsSeq DEF Taken, R
<1>3a. \A j : IsSeq(R(d, j)) /\ IsSeq(R(c, j))
  BY OneIsSeq DEF R
<1>4. /\ Params(1) = 1 .. k /\ Params(2) = k + 1 .. 2 * k /\ Params(3) = 2 * k + 1 .. 3 * k
  BY <1>1, ParamsAre
<1>5. AreSeqs(k + (k + k), p) /\ AreSeqs(k + k, rest) /\ AreSeqs(k, first) /\ AreSeqs(k,
                third) /\ AreSeqs(k, p)
      /\ AreSeqs(k, rest)
  <2>1. \A j \in 1 .. k + (k + k) : IsSeq(p[j])
    BY <1>2, <1>3
  <2>2. \A j \in 1 .. k + k : IsSeq(rest[j])
    BY <1>2, <1>3
  <2>3. \A j \in 1 .. k : IsSeq(first[j]) /\ IsSeq(third[j])
    BY <1>2, <1>3a
  <2>4. \A j \in 1 .. k : j \in 1 .. k + k /\ j \in 1 .. k + (k + k)
    OBVIOUS
  <2> QED
    BY <2>1, <2>2, <2>3, <2>4 DEF AreSeqs
<1>6. Follows(rest, p, k, k + k)
  BY <1>2 DEF Follows
<1>7. Follows(third, rest, k, k)
  <2>1. ASSUME NEW j \in 1 .. k PROVE third[j] = rest[k + j]
    <3>1. PICK x : x = k + (k + j)
      OBVIOUS
    <3>2. x = 2 * k + j /\ x \in Params(3) /\ x \notin Params(m)
      BY <1>4, <3>1
    <3>3. k + j \in 1 .. k + k
      OBVIOUS
    <3>4. rest[k + j] = Taken(m, c, d, x)
      BY <1>2, <3>1, <3>3
    <3>5. Taken(m, c, d, x) = R(d, <<x>>)
      BY <3>2 DEF Taken
    <3>6. third[j] = R(d, <<x>>)
      BY <1>2, <3>2
    <3> QED
      BY <3>4, <3>5, <3>6
  <2> QED
    BY <2>1 DEF Follows
<1>8. PICK kk \in Nat : kk = k + k
  OBVIOUS
<1>9. InTurn(k + kk, p) = InTurn(k, p) \odot InTurn(kk, rest)
  BY <1>5, <1>6, <1>8, InTurnSplit
<1>10. InTurn(k + k, rest) = InTurn(k, rest) \odot InTurn(k, third)
  BY <1>5, <1>7, InTurnSplit
<1>11. IsSeq(InTurn(k, third)) /\ IsSeq(InTurn(k, first))
  BY <1>5, InTurnIs
<1>12. ASSUME m = 1
       PROVE  InTurn(k, p) = InTurn(k, first) /\ InTurn(k, rest) = <<>>
  <2>1. ASSUME NEW j \in 1 .. k PROVE p[j] = first[j]
    <3>1. j \in Params(m) /\ j \in 1 .. k + (k + k)
      BY <1>4, <1>12
    <3>2. p[j] = R(c, <<j>>)
      BY <1>2, <3>1 DEF Taken
    <3>3. first[j] = R(c, <<j>>)
      <4>1. (m - 1) * k + j = j
        BY <1>12
      <4> QED
        BY <1>2, <4>1
    <3> QED
      BY <3>2, <3>3
  <2>2. ASSUME NEW j \in 1 .. k PROVE rest[j] = <<>>
    <3>1. PICK x : x = k + j
      OBVIOUS
    <3>2. x \notin Params(1) /\ x \notin Params(3) /\ j \in 1 .. k + k
      BY <1>4, <3>1
    <3>3. rest[j] = Taken(m, c, d, x)
      BY <1>2, <3>1, <3>2
    <3> QED
      BY <1>12, <3>2, <3>3 DEF Taken
  <2>3. InTurn(k, p) = InTurn(k, first)
    BY <1>5, <2>1, InTurnSame
  <2> QED
    BY <2>2, <2>3, InTurnNothing
<1>13. ASSUME m = 2
       PROVE  InTurn(k, p) = <<>> /\ InTurn(k, rest) = InTurn(k, first)
  <2>1. ASSUME NEW j \in 1 .. k PROVE p[j] = <<>>
    <3>1. j \notin Params(2) /\ j \notin Params(3) /\ j \in 1 .. k + (k + k)
      BY <1>4
    <3>2. p[j] = Taken(m, c, d, j)
      BY <1>2, <3>1
    <3> QED
      BY <1>13, <3>1, <3>2 DEF Taken
  <2>2. ASSUME NEW j \in 1 .. k PROVE rest[j] = first[j]
    <3>1. PICK x : x = k + j
      OBVIOUS
    <3>2. x \in Params(2) /\ (m - 1) * k + j = x /\ j \in 1 .. k + k
      BY <1>4, <1>13, <3>1
    <3>3. rest[j] = Taken(m, c, d, x)
      BY <1>2, <3>1, <3>2
    <3>4. rest[j] = R(c, <<x>>)
      BY <1>13, <3>2, <3>3 DEF Taken
    <3>5. first[j] = R(c, <<x>>)
      BY <1>2, <3>2
    <3> QED
      BY <3>4, <3>5
  <2>3. InTurn(k, rest) = InTurn(k, first)
    BY <1>5, <2>2, InTurnSame
  <2> QED
    BY <2>1, <2>3, InTurnNothing
<1>14. InTurn(k + kk, p) = InTurn(k, first) \odot InTurn(k, third)
  <2>1. PICK a, b, f : a = InTurn(k, p) /\ b = InTurn(k, rest) /\ f = InTurn(k, first)
    OBVIOUS
  <2>2. PICK e : e = InTurn(k, third)
    OBVIOUS
  <2>3. InTurn(k + kk, p) = a \odot (b \odot e) /\ IsSeq(e) /\ IsSeq(f)
    BY <1>8, <1>9, <1>10, <1>11, <2>1, <2>2
  <2>4. (a = f /\ b = <<>>) \/ (a = <<>> /\ b = f)
    BY <1>12, <1>13, <2>1
  <2>5. IsSeq(f \odot e) /\ <<>> \odot e = e /\ <<>> \odot (f \odot e) = f \odot e
    BY <2>3, Join, EmptyIsSeq
  <2> QED
    BY <2>1, <2>2, <2>3, <2>4, <2>5
<1>15. 3 * ParamsEach = k + kk /\ k + kk = k + (k + k)
  BY <1>1, <1>8
<1>16. p = TakenAll(m, c, d)
  BY <1>2, <1>15 DEF TakenAll
<1>17. first = ParamsTaken(m, c) /\ third = ParamsTakenW2(d)
  BY <1>1, <1>2 DEF ParamsTaken, ParamsTakenW2
<1> QED
  BY <1>1, <1>14, <1>15, <1>16, <1>17

LEMMA DequantiseProj ==
    ASSUME SlotAssumption, NEW o, NEW i, NEW m, NEW c, NEW d,
           (m = 1 /\ c = "w1_dq") \/ (m = 2 /\ c = "w3_dq"), d \in {"w2_dq_a", "w2_dq_b"},
           c \in i, d \in i, (o \cup i) \cap {"dequant", "dequant_fwd"} = {},
           \A f \in {"w1_dq", "w3_dq", "w2_dq_a", "w2_dq_b"} : f \notin o /\ (f \notin {c,
                        d} => f \notin i)
    PROVE  IsPart(o, i, Dequantise,
              InTurn(ParamsEach, [j \in 1 .. ParamsEach |-> R(c, <<(m - 1) * ParamsEach + j>>)])
              \odot InTurn(ParamsEach, [j \in 1 .. ParamsEach |-> R(d, <<2 * ParamsEach + j>>)]))
<1>1. PICK q, p : /\ q = [j \in 1 .. 3 * ParamsEach |-> Parameter(j)]
                  /\ p = [j \in 1 .. 3 * ParamsEach |-> Taken(m, c, d, j)]
  OBVIOUS
<1>2. \A j \in 1 .. 3 * ParamsEach : IsPart(o, i, q[j], p[j])
  BY <1>1, ParameterProj
<1>3. Dequantise = InTurn(3 * ParamsEach, q)
  BY <1>1 DEF Dequantise, Parameter, Loop
<1>4. IsPart(o, i, InTurn(3 * ParamsEach, q), InTurn(3 * ParamsEach, p))
  BY <1>2, SlotSizes, PartTurns
<1>5. m \in {1, 2}
  OBVIOUS
<1>6. p = TakenAll(m, c, d)
  BY <1>1 DEF TakenAll
<1>7. IsPart(o, i, Dequantise, InTurn(ParamsEach, ParamsTaken(m, c))
                \odot InTurn(ParamsEach, ParamsTakenW2(d)))
  BY <1>3, <1>4, <1>5, <1>6, TakenThirds
<1> QED
  BY <1>7 DEF ParamsTaken, ParamsTakenW2

(* The tasks, one by one.                                                   *)

LEMMA WorkPart ==
    ASSUME NEW o, NEW i, NEW n, NEW r, r # n,
           NEW f, IsPart(o, i, FirstStage(r), f), NEW s, IsPart(o, i, Scales(r), s),
           NEW t, IsPart(o, i, Inter(r), t), NEW u, IsPart(o, i, SecondStage(r), u),
           NEW p, IsPart(o, i, Partials(r), p)
    PROVE  IsPart(o, i, Work(n, r), f \odot (s \odot t \odot u) \odot p)
<1>1. IsPart(o, i, Scales(r) \odot Inter(r), s \odot t)
  BY PartJoin
<1>2. IsPart(o, i, Scales(r) \odot Inter(r) \odot SecondStage(r), s \odot t \odot u)
  BY <1>1, PartJoin
<1>3. IsPart(o, i, FirstStage(r) \odot (Scales(r) \odot Inter(r) \odot SecondStage(r)), f
                \odot (s \odot t \odot u))
  BY <1>2, PartJoin
<1> QED
  BY <1>3, PartJoin DEF Work

LEMMA RoundPart ==
    ASSUME NEW o, NEW i, NEW n, NEW r, NEW a, IsPart(o, i, Announce(r), a),
           NEW x, IsPart(o, i, FanOut(r), x), NEW w, IsPart(o, i, Work(n, r), w)
    PROVE  IsPart(o, i, Round(n, r), a \odot x \odot w)
<1>1. IsPart(o, i, Announce(r) \odot FanOut(r), a \odot x)
  BY PartJoin
<1> QED
  BY <1>1, PartJoin DEF Round

LEMMA PlanPart ==
    ASSUME NEW o, NEW i, NEW n \in Nat, NEW d, IsPart(o, i, Dequantise, d),
           NEW p, \A r \in 1 .. n : IsPart(o, i, Round(n, r), p[r])
    PROVE  IsPart(o, i, SlotPlan(n), d \odot InTurn(n, p))
<1>1. PICK q : q = [r \in 1 .. n |-> Round(n, r)]
  OBVIOUS
<1>2. IsPart(o, i, InTurn(n, q), InTurn(n, p))
  BY <1>1, PartTurns
<1>3. SlotPlan(n) = Dequantise \odot InTurn(n, q)
  BY <1>1 DEF SlotPlan, Loop
<1> QED
  BY <1>2, <1>3, PartJoin

(* A task that takes no parameters, and one that takes nothing else. *)
LEMMA RoundsOnly ==
    ASSUME NEW o, NEW i, NEW n \in Nat, IsPart(o, i, Dequantise, <<>>),
           NEW p, \A r \in 1 .. n : IsPart(o, i, Round(n, r), p[r])
    PROVE  IsPart(o, i, SlotPlan(n), InTurn(n, p))
<1>1. IsPart(o, i, SlotPlan(n), <<>> \odot InTurn(n, p))
  BY PlanPart
<1>2. AreSeqs(n, p)
  BY DEF AreSeqs, IsPart
<1>3. <<>> \odot InTurn(n, p) = InTurn(n, p)
  BY <1>2, InTurnIs, Join, EmptyIsSeq
<1> QED
  BY <1>1, <1>3

LEMMA WorkIdle ==
    ASSUME SlotAssumption, NEW o, NEW i, NEW n, NEW r,
           (o \cup i) \cap {"w1", "w3", "acc1", "acc3", "scale_a", "scale_b", "inter_a", "inter_b",
                            "partial_a", "partial_b"} = {}
    PROVE  IsPart(o, i, Work(n, r), <<>>)
<1>1. CASE r = n
  BY <1>1, BothNone DEF Work
<1>2. CASE r # n
  <2>1. IsPart(o, i, FirstStage(r), <<>>)
    BY FirstStageIdle
  <2>2. IsPart(o, i, Scales(r), <<>>)
    BY ScalesIdle
  <2>3. IsPart(o, i, Inter(r), <<>>)
    BY InterIdle
  <2>4. IsPart(o, i, SecondStage(r), <<>>)
    BY SecondStageIdle
  <2>5. IsPart(o, i, Partials(r), <<>>)
    BY PartialsIdle
  <2>6. IsPart(o, i, Work(n, r), <<>> \odot (<<>> \odot <<>> \odot <<>>) \odot <<>>)
    BY <1>2, <2>1, <2>2, <2>3, <2>4, <2>5, WorkPart
  <2>7. <<>> \odot <<>> = <<>>
    BY Join, EmptyIsSeq
  <2> QED
    BY <2>6, <2>7
<1> QED
  BY <1>1, <1>2

LEMMA OnlyParameters ==
    ASSUME SlotAssumption, NEW o, NEW i, NEW n \in Nat, NEW d, IsPart(o, i, Dequantise, d),
           (o \cup i) \cap {"hdr", "hdr1", "hdr3", "hdrS", "trig1", "trig3", "x", "x1", "x3",
                            "w1", "w3", "acc1", "acc3", "scale_a", "scale_b", "inter_a", "inter_b",
                            "partial_a", "partial_b"} = {}
    PROVE  IsPart(o, i, SlotPlan(n), d)
<1>1. ASSUME NEW r \in 1 .. n PROVE IsPart(o, i, Round(n, r), <<>>)
  <2>1. IsPart(o, i, Announce(r), <<>>)
    BY AnnounceIdle
  <2>2. IsPart(o, i, FanOut(r), <<>>)
    BY FanOutIdle
  <2>3. IsPart(o, i, Work(n, r), <<>>)
    BY WorkIdle
  <2>4. IsPart(o, i, Round(n, r), <<>> \odot <<>> \odot <<>>)
    BY <2>1, <2>2, <2>3, RoundPart
  <2>5. <<>> \odot <<>> = <<>>
    BY Join, EmptyIsSeq
  <2> QED
    BY <2>4, <2>5
<1>2. PICK p : p = [r \in 1 .. n |-> <<>>]
  OBVIOUS
<1>3. \A r \in 1 .. n : p[r] = <<>> /\ IsPart(o, i, Round(n, r), p[r])
  BY <1>1, <1>2
<1>4. IsPart(o, i, SlotPlan(n), d \odot InTurn(n, p))
  BY <1>3, PlanPart
<1>5. InTurn(n, p) = <<>>
  BY <1>3, InTurnNothing
<1>6. d \odot <<>> = d
  BY Join, EmptyIsSeq DEF IsPart
<1> QED
  BY <1>4, <1>5, <1>6

LEMMA DequantPart ==
    ASSUME SlotAssumption, NEW n \in Nat
    PROVE  IsPart({"dequant"}, {}, SlotPlan(n), DequantReader)
<1>1. PICK s : s = InTurn(3 * ParamsEach, [j \in 1 .. 3 * ParamsEach |-> W("dequant", <<j>>)])
  OBVIOUS
<1>2. IsPart({"dequant"}, {}, Dequantise, s)
  BY <1>1, DequantiseReader
<1>3. s = DequantReader
  BY <1>1 DEF DequantReader, Loop
<1> QED
  BY <1>2, <1>3, OnlyParameters

LEMMA DqSinkPart ==
    ASSUME SlotAssumption, NEW n \in Nat
    PROVE  IsPart({}, {"dequant_fwd"}, SlotPlan(n), DequantSink)
<1>1. PICK s : s = InTurn(3 * ParamsEach, [j \in 1 .. 3 * ParamsEach |-> R("dequant_fwd", <<j>>)])
  OBVIOUS
<1>2. IsPart({}, {"dequant_fwd"}, Dequantise, s)
  BY <1>1, DequantiseSink
<1>3. s = DequantSink
  BY <1>1 DEF DequantSink, Loop
<1> QED
  BY <1>2, <1>3, OnlyParameters

LEMMA DqSplitPart ==
    ASSUME SlotAssumption, NEW n \in Nat
    PROVE  IsPart({"dequant_fwd", "w1_dq", "w3_dq", "w2_dq_a", "w2_dq_b"}, {"dequant"}, SlotPlan(n),
                    DequantSplit)
<1>1. PICK s : s = InTurn(3 * ParamsEach, [j \in 1 .. 3 * ParamsEach |->
                      R("dequant", <<j>>) \odot W("dequant_fwd", <<j>>) \odot Handed(j)])
  OBVIOUS
<1>2. PICK o, i : o = {"dequant_fwd", "w1_dq", "w3_dq", "w2_dq_a", "w2_dq_b"} /\ i = {"dequant"}
  OBVIOUS
<1>3. IsPart(o, i, Dequantise, s)
  BY <1>1, <1>2, DequantiseSplit
<1>4. s = DequantSplit
  BY <1>1 DEF DequantSplit, Handed, Loop, \odot
<1>5. IsPart(o, i, SlotPlan(n), s)
  BY <1>2, <1>3, OnlyParameters
<1> QED
  BY <1>2, <1>4, <1>5

LEMMA SourcePart ==
    ASSUME SlotAssumption, NEW n \in Nat
    PROVE  IsPart({"hdr", "x"}, {}, SlotPlan(n), Source(n))
<1>1. PICK o, i : o = {"hdr", "x"} /\ i = {}
  OBVIOUS
<1>2. PICK p : p = [r \in 1 .. n |->
              W("hdr", <<r>>) \odot InTurn(Lanes * HiddenVecs, [j \in 1 .. Lanes * HiddenVecs |->
                        W("x", <<r, j>>)])]
  OBVIOUS
<1>3. ASSUME NEW r \in 1 .. n PROVE IsPart(o, i, Round(n, r), p[r])
  <2>1. PICK s : s = InTurn(Lanes * HiddenVecs, [j \in 1 .. Lanes * HiddenVecs |-> W("x", <<r, j>>)])
    OBVIOUS
  <2>2. IsPart(o, i, FanOut(r), s)
    BY <1>1, <2>1, FanOutSource
  <2>3. IsPart(o, i, Send("hdr", <<r>>), W("hdr", <<r>>))
    BY <1>1, PartWrite
  <2>4. IsPart(o, i, Announce(r), W("hdr", <<r>>))
    BY <1>1, <2>3, AnnounceOne
  <2>5. IsPart(o, i, Work(n, r), <<>>)
    BY <1>1, WorkIdle
  <2>6. IsPart(o, i, Round(n, r), W("hdr", <<r>>) \odot s \odot <<>>)
    BY <2>2, <2>4, <2>5, RoundPart
  <2>7. IsSeq(W("hdr", <<r>>) \odot s)
    BY <2>2, <2>4, Join DEF IsPart
  <2>8. W("hdr", <<r>>) \odot s \odot <<>> = W("hdr", <<r>>) \odot s
    BY <2>7, Join, EmptyIsSeq
  <2> QED
    BY <1>2, <2>1, <2>6, <2>8
<1>4. IsPart(o, i, Dequantise, <<>>)
  BY <1>1, DequantiseIdle
<1>5. IsPart(o, i, SlotPlan(n), InTurn(n, p))
  BY <1>3, <1>4, RoundsOnly
<1>6. Source(n) = InTurn(n, p)
  BY <1>2 DEF Source, Loop, \odot
<1> QED
  BY <1>1, <1>5, <1>6

LEMMA XSplitPart ==
    ASSUME SlotAssumption, NEW n \in Nat
    PROVE  IsPart({"hdr1", "hdr3", "hdrS", "trig1", "trig3", "x1", "x3"}, {"hdr", "x"}, SlotPlan(n),
                    XSplit(n))
<1>1. PICK o, i : o = {"hdr1", "hdr3", "hdrS", "trig1", "trig3", "x1", "x3"} /\ i = {"hdr", "x"}
  OBVIOUS
<1>2. PICK p : p = [r \in 1 .. n |-> XSplitTurn(r)]
  OBVIOUS
<1>3. ASSUME NEW r \in 1 .. n PROVE IsPart(o, i, Round(n, r), p[r])
  <2>1. PICK s : s = InTurn(Lanes * HiddenVecs, [j \in 1 .. Lanes * HiddenVecs |->
                        R("x", <<r, j>>) \odot W("x1", <<r, j>>) \odot W("x3", <<r, j>>)])
    OBVIOUS
  <2>2. IsPart(o, i, FanOut(r), s)
    BY <1>1, <2>1, FanOutSplit
  <2>3. PICK a : a = R("hdr", <<r>>) \odot W("hdr1", <<r>>) \odot W("hdr3", <<r>>)
                  \odot W("hdrS", <<r>>)
                     \odot W("trig1", <<r>>) \odot W("trig3", <<r>>)
    OBVIOUS
  <2>4. IsPart(o, i, Announce(r), a)
    BY <1>1, <2>3, AnnounceSplit
  <2>5. IsPart(o, i, Work(n, r), <<>>)
    BY <1>1, WorkIdle
  <2>6. IsPart(o, i, Round(n, r), a \odot s \odot <<>>)
    BY <2>2, <2>4, <2>5, RoundPart
  <2>7. IsSeq(a \odot s)
    BY <2>2, <2>4, Join DEF IsPart
  <2>8. a \odot s \odot <<>> = a \odot s
    BY <2>7, Join, EmptyIsSeq
  <2>9. p[r] = a \odot s
    BY <1>2, <2>1, <2>3 DEF XSplitTurn
  <2> QED
    BY <2>6, <2>8, <2>9
<1>4. IsPart(o, i, Dequantise, <<>>)
  BY <1>1, DequantiseIdle
<1>5. IsPart(o, i, SlotPlan(n), InTurn(n, p))
  BY <1>3, <1>4, RoundsOnly
<1>6. XSplit(n) = InTurn(n, p)
  BY <1>2, XSplitIs
<1> QED
  BY <1>1, <1>5, <1>6

(* The weights of one expert, as a loader streams them. *)
Port(c, r) == [j \in 1 .. PortVecs |-> W(c, <<r, j>>)]

LEMMA PortHalves ==
    ASSUME SlotAssumption, NEW c, NEW r
    PROVE  InTurn(PortVecs, Port(c, r)) =
              InTurn(W1Rows, [row \in 1 .. W1Rows |->
                 InTurn(HiddenVecs, [v \in 1 .. HiddenVecs |->
                        W(c, <<r, (row - 1) * HiddenVecs + v>>)])])
              \odot InTurn(W2Rows * InterVecs, [j \in 1 .. W2Rows * InterVecs |->
                        W(c, <<r, W1Rows * HiddenVecs + j>>)])
<1>1. PICK a \in Nat, b \in Nat : a = W1Rows /\ b = HiddenVecs
  BY SlotSizes
<1>2. PICK m \in Nat, l \in Nat : m = a * b /\ l = W2Rows * InterVecs
  BY <1>1, SlotSizes
<1>3. PICK q, p, x, rows :
        /\ q = Port(c, r)
        /\ p = [j \in 1 .. l |-> W(c, <<r, m + j>>)]
        /\ x = [row \in 1 .. a |-> [v \in 1 .. b |-> W(c, <<r, (row - 1) * b + v>>)]]
        /\ rows = [row \in 1 .. a |-> InTurn(b, [v \in 1 .. b |-> W(c, <<r, (row - 1) * b + v>>)])]
  OBVIOUS
<1>4. PortVecs = m + l /\ m = W1Rows * HiddenVecs
  BY <1>1, <1>2 DEF PortVecs
<1>5. \A j \in 1 .. m + l : q[j] = W(c, <<r, j>>)
  BY <1>3, <1>4 DEF Port
<1>6. \A j : IsSeq(W(c, j))
  BY OneIsSeq DEF W
<1>7. AreSeqs(m + l, q)
  BY <1>5, <1>6 DEF AreSeqs
<1>8. \A j \in 1 .. m : j \in 1 .. m + l
  OBVIOUS
<1>9. AreSeqs(m, q)
  BY <1>7, <1>8 DEF AreSeqs
<1>10. Follows(p, q, m, l)
  <2>1. \A j \in 1 .. l : m + j \in 1 .. m + l
    OBVIOUS
  <2> QED
    BY <1>3, <1>5, <2>1 DEF Follows
<1>11. InTurn(m + l, q) = InTurn(m, q) \odot InTurn(l, p)
  BY <1>7, <1>10, InTurnSplit
<1>12. \A row \in 1 .. a : rows[row] = InTurn(b, x[row])
  BY <1>3
<1>13. \A row \in 1 .. a : \A v \in 1 .. b : x[row][v] = q[(row - 1) * b + v]
  <2> TAKE row \in 1 .. a
  <2> TAKE v \in 1 .. b
  <2>1. PICK y : y = (row - 1) * b
    OBVIOUS
  <2>2. row - 1 \in Nat /\ row - 1 <= a - 1
    OBVIOUS
  <2>3. y \in Nat /\ y + b = row * b
    BY <2>1, <2>2
  <2>4. row * b <= a * b
    BY TimesLess
  <2>5. y + v \in 1 .. m
    BY <1>2, <2>3, <2>4
  <2>6. q[y + v] = W(c, <<r, y + v>>)
    BY <1>5, <1>8, <2>5
  <2>7. x[row][v] = W(c, <<r, (row - 1) * b + v>>)
    BY <1>3
  <2> QED
    BY <2>1, <2>6, <2>7
<1>14. InTurn(a, rows) = InTurn(m, q)
  <2>1. AreSeqs(a * b, q)
    BY <1>2, <1>9
  <2>2. Nested(rows, x, q, a, b)
    BY <1>12, <1>13, <2>1 DEF Nested
  <2>3. InTurn(a, rows) = InTurn(a * b, q)
    BY <2>2, InTurnNest
  <2> QED
    BY <1>2, <2>3
<1>15. rows = [row \in 1 .. W1Rows |->
                 InTurn(HiddenVecs, [v \in 1 .. HiddenVecs |->
                        W(c, <<r, (row - 1) * HiddenVecs + v>>)])]
  BY <1>1, <1>3
<1>16. p = [j \in 1 .. W2Rows * InterVecs |-> W(c, <<r, W1Rows * HiddenVecs + j>>)]
  BY <1>2, <1>3, <1>4
<1> QED
  BY <1>1, <1>2, <1>3, <1>4, <1>11, <1>14, <1>15, <1>16

(* What a loader does in a round that is not the last. *)
LEMMA WorkLoad ==
    ASSUME SlotAssumption, NEW o, NEW i, NEW n, NEW r, r # n, NEW c,
           c \in {"w1", "w3"}, c \in o, \A f \in {"w1", "w3"} : f # c => f \notin o \cup i,
           (o \cup i) \cap {"acc1", "acc3", "scale_a", "scale_b", "inter_a", "inter_b", "partial_a",
                        "partial_b"} = {}
    PROVE  IsPart(o, i, Work(n, r), InTurn(PortVecs, Port(c, r)))
<1>1. PICK f : f = InTurn(W1Rows, [row \in 1 .. W1Rows |->
                 InTurn(HiddenVecs, [v \in 1 .. HiddenVecs |->
                        W(c, <<r, (row - 1) * HiddenVecs + v>>)])])
  OBVIOUS
<1>2. PICK u : u = InTurn(W2Rows * InterVecs, [j \in 1 .. W2Rows * InterVecs |->
                W(c, <<r, W1Rows * HiddenVecs + j>>)])
  OBVIOUS
<1>3. IsPart(o, i, FirstStage(r), f)
  BY <1>1, FirstStageLoad
<1>4. IsPart(o, i, SecondStage(r), u)
  BY <1>2, SecondStageWrite
<1>5. IsPart(o, i, Scales(r), <<>>)
  BY ScalesIdle
<1>6. IsPart(o, i, Inter(r), <<>>)
  BY InterIdle
<1>7. IsPart(o, i, Partials(r), <<>>)
  BY PartialsIdle
<1>8. IsPart(o, i, Work(n, r), f \odot (<<>> \odot <<>> \odot u) \odot <<>>)
  BY <1>3, <1>4, <1>5, <1>6, <1>7, WorkPart
<1>9. IsSeq(f) /\ IsSeq(u)
  BY <1>3, <1>4 DEF IsPart
<1>10. f \odot (<<>> \odot <<>> \odot u) \odot <<>> = f \odot u
  BY <1>9, Join, NoEnds
<1>11. f \odot u = InTurn(PortVecs, Port(c, r))
  BY <1>1, <1>2, PortHalves
<1> QED
  BY <1>8, <1>10, <1>11

LEMMA LoaderPart ==
    ASSUME SlotAssumption, NEW n \in Nat, NEW g, NEW c,
                    (g = "trig1" /\ c = "w1") \/ (g = "trig3" /\ c = "w3")
    PROVE  IsPart({c}, {g}, SlotPlan(n), Loader(g, c, n))
<1>1. PICK o, i : o = {c} /\ i = {g}
  OBVIOUS
<1>2. PICK p : p = [r \in 1 .. n |->
              R(g, <<r>>) \odot IF r = n THEN <<>> ELSE InTurn(PortVecs, Port(c, r))]
  OBVIOUS
<1>3. ASSUME NEW r \in 1 .. n PROVE IsPart(o, i, Round(n, r), p[r])
  <2>1. IsPart(o, i, FanOut(r), <<>>)
    BY <1>1, FanOutIdle
  <2>2. g \in i /\ g \notin o
    BY <1>1
  <2>3. IsPart(o, i, Send(g, <<r>>), R(g, <<r>>))
    BY <2>2, PartRead
  <2>4. IsPart(o, i, Announce(r), R(g, <<r>>))
    BY <1>1, <2>3, AnnounceOne
  <2>5. PICK w : w = IF r = n THEN <<>> ELSE InTurn(PortVecs, Port(c, r))
    OBVIOUS
  <2>6. IsPart(o, i, Work(n, r), w)
    <3>1. CASE r = n
      <4>1. IsPart(o, i, Both("partial_a", "partial_b", <<r, 0>>), <<>>)
        BY <1>1, BothNone
      <4> QED
        BY <2>5, <3>1, <4>1 DEF Work
    <3>2. CASE r # n
      <4>1. IsPart(o, i, Work(n, r), InTurn(PortVecs, Port(c, r)))
        BY <1>1, <3>2, WorkLoad
      <4> QED
        BY <2>5, <3>2, <4>1
    <3> QED
      BY <3>1, <3>2
  <2>7. IsPart(o, i, Round(n, r), R(g, <<r>>) \odot <<>> \odot w)
    BY <2>1, <2>4, <2>6, RoundPart
  <2>8. R(g, <<r>>) \odot <<>> = R(g, <<r>>)
    BY <2>4, Join, EmptyIsSeq DEF IsPart
  <2>9. p[r] = R(g, <<r>>) \odot w
    BY <1>2, <2>5
  <2> QED
    BY <2>7, <2>8, <2>9
<1>4. IsPart(o, i, Dequantise, <<>>)
  BY <1>1, DequantiseIdle
<1>5. IsPart(o, i, SlotPlan(n), InTurn(n, p))
  BY <1>3, <1>4, RoundsOnly
<1>6. Loader(g, c, n) = InTurn(n, p)
  BY <1>2 DEF Loader, Port, Loop, \odot
<1> QED
  BY <1>1, <1>5, <1>6

(* The streams of one projection. *)
IsProjection(m, dq, dq2, hdr, x, w, acc, scale, inter, part) ==
    \/ /\ m = 1 /\ dq = "w1_dq" /\ dq2 = "w2_dq_a" /\ hdr = "hdr1" /\ x = "x1" /\ w = "w1" /\ acc = "acc1"
       /\ scale = "scale_a" /\ inter = "inter_a" /\ part = "partial_a"
    \/ /\ m = 2 /\ dq = "w3_dq" /\ dq2 = "w2_dq_b" /\ hdr = "hdr3" /\ x = "x3" /\ w = "w3" /\ acc = "acc3"
       /\ scale = "scale_b" /\ inter = "inter_b" /\ part = "partial_b"

(* What a projection does in a round that is not the last. *)
LEMMA WorkProj ==
    ASSUME SlotAssumption, NEW n, NEW r, r # n, NEW m, NEW dq, NEW dq2, NEW hdr, NEW x, NEW w, NEW acc,
           NEW scale, NEW inter, NEW part, IsProjection(m, dq, dq2, hdr, x, w, acc, scale, inter, part),
           NEW o, o = {acc, part}, NEW i, i = {dq, dq2, hdr, x, w, scale, inter}
    PROVE  IsPart(o, i, Work(n, r), Stage0(r, w, acc) \odot Stage1(r, w, scale, inter)
                \odot InTurn(Lanes * HalfVecs, [j \in 1 .. Lanes * HalfVecs |-> W(part, <<r, j>>)]))
<1>1. PICK f : f = InTurn(W1Rows, [row \in 1 .. W1Rows |-> InTurn(HiddenVecs,
                [v \in 1 .. HiddenVecs |-> R(w, <<r, (row - 1) * HiddenVecs + v>>)])
                \odot InTurn(Lanes, [l \in 1 .. Lanes |-> W(acc, <<r, row, l>>)])])
  OBVIOUS
<1>2. PICK s : s = InTurn(Lanes, [l \in 1 .. Lanes |-> R(scale, <<r, l>>)])
  OBVIOUS
<1>3. PICK t : t = InTurn(Lanes * HalfBeats, [j \in 1 .. Lanes * HalfBeats |-> R(inter, <<r, j>>)])
  OBVIOUS
<1>4. PICK u : u = InTurn(W2Rows * InterVecs, [j \in 1 .. W2Rows * InterVecs |->
                R(w, <<r, W1Rows * HiddenVecs + j>>)])
  OBVIOUS
<1>5. PICK p : p = InTurn(Lanes * HalfVecs, [j \in 1 .. Lanes * HalfVecs |-> W(part, <<r, j>>)])
  OBVIOUS
<1>6. /\ w \in {"w1", "w3"} /\ w \in i /\ w \notin o /\ \A f1 \in {"w1",
                "w3"} : f1 # w => f1 \notin o \cup i
      /\ acc \in {"acc1", "acc3"} /\ acc \in o /\ \A f1 \in {"acc1",
            "acc3"} : f1 # acc => f1 \notin o \cup i
  BY DEF IsProjection
<1>7. /\ scale \in {"scale_a", "scale_b"} /\ scale \in i /\ scale \notin o
      /\ \A f1 \in {"scale_a", "scale_b"} : f1 # scale => f1 \notin o \cup i
  BY DEF IsProjection
<1>8. /\ inter \in {"inter_a", "inter_b"} /\ inter \in i /\ inter \notin o
      /\ \A f1 \in {"inter_a", "inter_b"} : f1 # inter => f1 \notin o \cup i
  BY DEF IsProjection
<1>9. /\ part \in {"partial_a", "partial_b"} /\ part \in o
      /\ \A f1 \in {"partial_a", "partial_b"} : f1 # part => f1 \notin o \cup i
  BY DEF IsProjection
<1>10. IsPart(o, i, FirstStage(r), f)
  BY ONLY SlotAssumption, <1>1, <1>6, FirstStageProj
<1>11. IsPart(o, i, Scales(r), s)
  BY <1>2, <1>7, ScalesRead
<1>12. IsPart(o, i, Inter(r), t)
  BY <1>3, <1>8, InterRead
<1>13. IsPart(o, i, SecondStage(r), u)
  BY <1>4, <1>6, SecondStageRead
<1>14. IsPart(o, i, Partials(r), p)
  BY <1>5, <1>9, PartialsWrite
<1>15. IsPart(o, i, Work(n, r), f \odot (s \odot t \odot u) \odot p)
  BY <1>10, <1>11, <1>12, <1>13, <1>14, WorkPart
<1>16. f = Stage0(r, w, acc)
  BY <1>1 DEF Stage0, Loop, \odot
<1>17. s \odot t \odot u = Stage1(r, w, scale, inter)
  BY <1>2, <1>3, <1>4 DEF Stage1, Loop, \odot
<1> QED
  BY <1>5, <1>15, <1>16, <1>17

LEMMA ProjPart ==
    ASSUME SlotAssumption, NEW n \in Nat, NEW m, NEW dq, NEW dq2, NEW hdr, NEW x, NEW w, NEW acc,
           NEW scale, NEW inter, NEW part, IsProjection(m, dq, dq2, hdr, x, w, acc, scale, inter, part),
           NEW o, o = {acc, part}, NEW i, i = {dq, dq2, hdr, x, w, scale, inter}
    PROVE  IsPart(o, i, SlotPlan(n), Proj(dq, dq2, m, hdr, x, w, acc, scale, inter, part, n))
<1>1. PICK p : p = [r \in 1 .. n |-> ProjTurn(m, hdr, x, w, acc, scale, inter, part, n, r)]
  OBVIOUS
<1>2. ASSUME NEW r \in 1 .. n PROVE IsPart(o, i, Round(n, r), p[r])
  <2>1. PICK f : f = InTurn(Lanes * HiddenVecs, [j \in 1 .. Lanes * HiddenVecs |-> R(x, <<r, j>>)])
    OBVIOUS
  <2>2. IsPart(o, i, FanOut(r), f)
    <3>1. x \in {"x1", "x3"} /\ x \in i /\ x \notin o /\ \A f1 \in {"x", "x1",
                    "x3"} : f1 # x => f1 \notin o \cup i
      BY DEF IsProjection
    <3> QED
      BY <2>1, <3>1, FanOutProj
  <2>3. /\ hdr \in {"hdr", "hdr1", "hdr3", "hdrS", "trig1", "trig3"} /\ hdr \in i /\ hdr \notin o
        /\ \A f1 \in {"hdr", "hdr1", "hdr3", "hdrS", "trig1", "trig3"} : f1 # hdr => f1 \notin o \cup i
    BY DEF IsProjection
  <2>4. IsPart(o, i, Send(hdr, <<r>>), R(hdr, <<r>>))
    BY <2>3, PartRead
  <2>5. IsPart(o, i, Announce(r), R(hdr, <<r>>))
    BY <2>3, <2>4, AnnounceOne
  <2>6. PICK g : g = IF r = n THEN W(part, <<r, 0>>)
                     ELSE Stage0(r, w, acc) \odot Stage1(r, w, scale, inter)
                          \odot InTurn(Lanes * HalfVecs, [j \in 1 .. Lanes * HalfVecs |->
                        W(part, <<r, j>>)])
    OBVIOUS
  <2>7. IsPart(o, i, Work(n, r), g)
    <3>1. CASE r = n
      <4>1. /\ part \in {"partial_a", "partial_b"} /\ part \in o
            /\ \A f1 \in {"partial_a", "partial_b"} : f1 # part => f1 \notin o \cup i
        BY DEF IsProjection
      <4>2. PICK e, a, b : e = <<r, 0>> /\ a = "partial_a" /\ b = "partial_b"
        OBVIOUS
      <4>3. part \in {a, b} /\ (\A f1 \in {a, b} : f1 # part => f1 \notin o \cup i) /\ a # b
        BY <4>1, <4>2
      <4>4. IsPart(o, i, Both(a, b, e), W(part, e))
        BY ONLY <4>1, <4>3, BothWrite
      <4> QED
        BY <2>6, <3>1, <4>2, <4>4 DEF Work
    <3>2. CASE r # n
      BY <2>6, <3>2, WorkProj
    <3> QED
      BY <3>1, <3>2
  <2>8. IsPart(o, i, Round(n, r), R(hdr, <<r>>) \odot f \odot g)
    BY <2>2, <2>5, <2>7, RoundPart
  <2>9. p[r] = R(hdr, <<r>>) \odot f \odot g
    BY <1>1, <2>1, <2>6 DEF ProjTurn
  <2> QED
    BY <2>8, <2>9
<1>3. PICK d : d = InTurn(ParamsEach, [j \in 1 .. ParamsEach |-> R(dq, <<(m - 1) * ParamsEach + j>>)])
              \odot InTurn(ParamsEach, [j \in 1 .. ParamsEach |-> R(dq2, <<2 * ParamsEach + j>>)])
  OBVIOUS
<1>4. IsPart(o, i, Dequantise, d)
  <2>1. /\ (m = 1 /\ dq = "w1_dq") \/ (m = 2 /\ dq = "w3_dq")
        /\ dq2 \in {"w2_dq_a", "w2_dq_b"} /\ dq \in i /\ dq2 \in i
        /\ (o \cup i) \cap {"dequant", "dequant_fwd"} = {}
        /\ \A f \in {"w1_dq", "w3_dq", "w2_dq_a", "w2_dq_b"} : f \notin o /\ (f \notin {dq,
              dq2} => f \notin i)
    BY DEF IsProjection
  <2> QED
    BY ONLY SlotAssumption, <1>3, <2>1, DequantiseProj
<1>5. IsPart(o, i, SlotPlan(n), d \odot InTurn(n, p))
  BY <1>2, <1>4, PlanPart
<1>6. Proj(dq, dq2, m, hdr, x, w, acc, scale, inter, part, n) = d \odot InTurn(n, p)
  BY <1>1, <1>3, ProjIs
<1> QED
  BY <1>5, <1>6

LEMMA ProjParts ==
    ASSUME SlotAssumption, NEW n \in Nat
    PROVE  /\ IsPart({"acc1", "partial_a"}, {"w1_dq", "w2_dq_a", "hdr1", "x1", "w1", "scale_a",
                    "inter_a"},
                     SlotPlan(n), W1W2Proj(n))
           /\ IsPart({"acc3", "partial_b"}, {"w3_dq", "w2_dq_b", "hdr3", "x3", "w3", "scale_b",
                 "inter_b"},
                     SlotPlan(n), W3W2Proj(n))
<1>1. IsProjection(1, "w1_dq", "w2_dq_a", "hdr1", "x1", "w1", "acc1", "scale_a", "inter_a", "partial_a")
  BY DEF IsProjection
<1>2. IsProjection(2, "w3_dq", "w2_dq_b", "hdr3", "x3", "w3", "acc3", "scale_b", "inter_b", "partial_b")
  BY DEF IsProjection
<1>3. IsPart({"acc1", "partial_a"}, {"w1_dq", "w2_dq_a", "hdr1", "x1", "w1", "scale_a", "inter_a"},
                     SlotPlan(n), W1W2Proj(n))
  BY <1>1, ProjPart DEF W1W2Proj
<1>4. IsPart({"acc3", "partial_b"}, {"w3_dq", "w2_dq_b", "hdr3", "x3", "w3", "scale_b", "inter_b"},
                     SlotPlan(n), W3W2Proj(n))
  BY <1>2, ProjPart DEF W3W2Proj
<1> QED
  BY <1>3, <1>4

(* What ffn_swiglu does in a round that is not the last. *)
SwigluWork(r) ==
    InTurn(W1Rows, [row \in 1 .. W1Rows |-> InTurn(Lanes, [l \in 1 .. Lanes |->
                    R("acc1", <<r, row, l>>) \odot R("acc3", <<r, row, l>>)])])
    \odot InTurn(Lanes, [l \in 1 .. Lanes |-> W("scale_a", <<r, l>>) \odot W("scale_b", <<r, l>>)])
    \odot InTurn(Lanes * HalfBeats, [j \in 1 .. Lanes * HalfBeats |-> W("inter_a", <<r, j>>)
                    \odot W("inter_b", <<r, j>>)])

LEMMA WorkSwiglu ==
    ASSUME SlotAssumption, NEW n, NEW r, r # n,
           NEW o, o = {"scale_a", "scale_b", "inter_a", "inter_b"}, NEW i, i = {"hdrS", "acc1", "acc3"}
    PROVE  IsPart(o, i, Work(n, r), SwigluWork(r))
<1>1. PICK f : f = InTurn(W1Rows, [row \in 1 .. W1Rows |-> InTurn(Lanes, [l \in 1 .. Lanes |->
                R("acc1", <<r, row, l>>) \odot R("acc3", <<r, row, l>>)])])
  OBVIOUS
<1>2. PICK s : s = InTurn(Lanes, [l \in 1 .. Lanes |-> W("scale_a", <<r, l>>)
                \odot W("scale_b", <<r, l>>)])
  OBVIOUS
<1>3. PICK t : t = InTurn(Lanes * HalfBeats, [j \in 1 .. Lanes * HalfBeats |->
                W("inter_a", <<r, j>>) \odot W("inter_b", <<r, j>>)])
  OBVIOUS
<1>4. IsPart(o, i, FirstStage(r), f)
  BY <1>1, FirstStageSwiglu
<1>5. IsPart(o, i, Scales(r), s)
  BY <1>2, ScalesWrites
<1>6. IsPart(o, i, Inter(r), t)
  BY <1>3, InterWrites
<1>7. IsPart(o, i, SecondStage(r), <<>>)
  BY SecondStageIdle
<1>8. IsPart(o, i, Partials(r), <<>>)
  BY PartialsIdle
<1>9. IsPart(o, i, Work(n, r), f \odot (s \odot t \odot <<>>) \odot <<>>)
  BY <1>4, <1>5, <1>6, <1>7, <1>8, WorkPart
<1>10. IsSeq(f) /\ IsSeq(s) /\ IsSeq(t)
  BY <1>4, <1>5, <1>6 DEF IsPart
<1>11. IsSeq(s \odot t)
  BY <1>10, Join
<1>12. s \odot t \odot <<>> = s \odot t
  BY <1>11, Join
<1>13. IsSeq(f \odot (s \odot t))
  BY <1>10, <1>11, Join
<1>14. f \odot (s \odot t) \odot <<>> = f \odot (s \odot t)
  BY <1>13, Join
<1>15. f \odot (s \odot t) = f \odot s \odot t
  BY <1>10, JoinAssoc
<1>16. f \odot s \odot t = SwigluWork(r)
  BY <1>1, <1>2, <1>3 DEF SwigluWork
<1> QED
  BY <1>9, <1>12, <1>14, <1>15, <1>16

LEMMA SwigluPart ==
    ASSUME SlotAssumption, NEW n \in Nat
    PROVE  IsPart({"scale_a", "scale_b", "inter_a", "inter_b"}, {"hdrS", "acc1", "acc3"}, SlotPlan(n),
                    Swiglu(n))
<1>1. PICK o, i : o = {"scale_a", "scale_b", "inter_a", "inter_b"} /\ i = {"hdrS", "acc1", "acc3"}
  OBVIOUS
<1>2. PICK p : p = [r \in 1 .. n |-> R("hdrS", <<r>>) \odot IF r = n THEN <<>> ELSE SwigluWork(r)]
  OBVIOUS
<1>3. ASSUME NEW r \in 1 .. n PROVE IsPart(o, i, Round(n, r), p[r])
  <2>1. IsPart(o, i, FanOut(r), <<>>)
    BY <1>1, FanOutIdle
  <2>2. IsPart(o, i, Send("hdrS", <<r>>), R("hdrS", <<r>>))
    BY <1>1, PartRead
  <2>3. IsPart(o, i, Announce(r), R("hdrS", <<r>>))
    BY <1>1, <2>2, AnnounceOne
  <2>4. PICK w : w = IF r = n THEN <<>> ELSE SwigluWork(r)
    OBVIOUS
  <2>5. IsPart(o, i, Work(n, r), w)
    <3>1. CASE r = n
      <4>1. IsPart(o, i, Both("partial_a", "partial_b", <<r, 0>>), <<>>)
        BY <1>1, BothNone
      <4> QED
        BY <2>4, <3>1, <4>1 DEF Work
    <3>2. CASE r # n
      BY <1>1, <2>4, <3>2, WorkSwiglu
    <3> QED
      BY <3>1, <3>2
  <2>6. IsPart(o, i, Round(n, r), R("hdrS", <<r>>) \odot <<>> \odot w)
    BY <2>1, <2>3, <2>5, RoundPart
  <2>7. R("hdrS", <<r>>) \odot <<>> = R("hdrS", <<r>>)
    BY <2>3, Join, EmptyIsSeq DEF IsPart
  <2>8. p[r] = R("hdrS", <<r>>) \odot w
    BY <1>2, <2>4
  <2> QED
    BY <2>6, <2>7, <2>8
<1>4. IsPart(o, i, Dequantise, <<>>)
  BY <1>1, DequantiseIdle
<1>5. IsPart(o, i, SlotPlan(n), InTurn(n, p))
  BY <1>3, <1>4, RoundsOnly
<1>6. Swiglu(n) = InTurn(n, p)
  BY <1>2 DEF Swiglu, SwigluWork, Loop, \odot
<1> QED
  BY <1>1, <1>5, <1>6

LEMMA SinkPart ==
    ASSUME SlotAssumption, NEW n \in Nat, NEW c \in {"partial_a", "partial_b"}
    PROVE  IsPart({}, {c}, SlotPlan(n), Sink(c, n))
<1>1. PICK o, i : o = {} /\ i = {c}
  OBVIOUS
<1>2. PICK p : p = [r \in 1 .. n |->
              IF r = n THEN R(c, <<r, 0>>)
              ELSE InTurn(Lanes * HalfVecs, [j \in 1 .. Lanes * HalfVecs |-> R(c, <<r, j>>)])]
  OBVIOUS
<1>3. ASSUME NEW r \in 1 .. n PROVE IsPart(o, i, Round(n, r), p[r])
  <2>1. IsPart(o, i, FanOut(r), <<>>)
    BY <1>1, FanOutIdle
  <2>2. IsPart(o, i, Announce(r), <<>>)
    BY <1>1, AnnounceIdle
  <2>3. PICK w : w = InTurn(Lanes * HalfVecs, [j \in 1 .. Lanes * HalfVecs |-> R(c, <<r, j>>)])
    OBVIOUS
  <2>4. IsPart(o, i, Work(n, r), p[r])
    <3>1. CASE r = n
      <4>1. PICK e, a, b : e = <<r, 0>> /\ a = "partial_a" /\ b = "partial_b"
        OBVIOUS
      <4>2. c \in {a, b} /\ c \in i /\ c \notin o /\ (\A f \in {a,
                      b} : f # c => f \notin o \cup i) /\ a # b
        BY <1>1, <4>1
      <4>3. IsPart(o, i, Both(a, b, e), R(c, e))
        BY ONLY <4>2, BothRead
      <4> QED
        BY <1>2, <3>1, <4>1, <4>3 DEF Work
    <3>2. CASE r # n
      <4>1. IsPart(o, i, Partials(r), w)
        BY <1>1, <2>3, PartialsRead
      <4>2. IsPart(o, i, FirstStage(r), <<>>)
        BY <1>1, FirstStageIdle
      <4>3. IsPart(o, i, Scales(r), <<>>)
        BY <1>1, ScalesIdle
      <4>4. IsPart(o, i, Inter(r), <<>>)
        BY <1>1, InterIdle
      <4>5. IsPart(o, i, SecondStage(r), <<>>)
        BY <1>1, SecondStageIdle
      <4>6. IsPart(o, i, Work(n, r), <<>> \odot (<<>> \odot <<>> \odot <<>>) \odot w)
        BY <3>2, <4>1, <4>2, <4>3, <4>4, <4>5, WorkPart
      <4>7. <<>> \odot <<>> = <<>> /\ <<>> \odot w = w
        BY <4>1, Join, EmptyIsSeq DEF IsPart
      <4> QED
        BY <1>2, <2>3, <3>2, <4>6, <4>7
    <3> QED
      BY <3>1, <3>2
  <2>5. IsPart(o, i, Round(n, r), <<>> \odot <<>> \odot p[r])
    BY <2>1, <2>2, <2>4, RoundPart
  <2> QED
    BY <2>4, <2>5, NoEnds DEF IsPart
<1>4. IsPart(o, i, Dequantise, <<>>)
  BY <1>1, DequantiseIdle
<1>5. IsPart(o, i, SlotPlan(n), InTurn(n, p))
  BY <1>3, <1>4, RoundsOnly
<1>6. Sink(c, n) = InTurn(n, p)
  BY <1>2 DEF Sink, Loop
<1> QED
  BY <1>1, <1>5, <1>6

(* Every exchange of t is on a stream of C. *)
OnStreams(C, t) == IsSeq(t) /\ \A n \in 1 .. Len(t) : t[n].ch \in C

LEMMA SendOn ==
    ASSUME NEW C, NEW c \in C, NEW m
    PROVE  OnStreams(C, Send(c, m))
<1>1. PICK x : x = [ch |-> c, msg |-> m]
  OBVIOUS
<1>2. Send(c, m) = <<x>> /\ x.ch \in C
  BY <1>1 DEF Send
<1>3. IsSeq(<<x>>)
  BY OneIsSeq
<1>4. Len(<<x>>) = 1 /\ <<x>>[1] = x /\ \A n \in 1 .. 1 : n = 1
  OBVIOUS
<1> QED
  BY <1>2, <1>3, <1>4 DEF OnStreams

LEMMA JoinOn ==
    ASSUME NEW C, NEW a, OnStreams(C, a), NEW b, OnStreams(C, b)
    PROVE  OnStreams(C, a \odot b)
<1>1. IsSeq(a) /\ IsSeq(b) /\ IsSeq(a \odot b)
  BY Join DEF OnStreams
<1>2. /\ Len(a \odot b) = Len(a) + Len(b)
      /\ \A i \in 1 .. Len(a) + Len(b) : (a \odot b)[i] = IF i <= Len(a) THEN a[i] ELSE b[i - Len(a)]
      /\ Len(a) \in Nat /\ Len(b) \in Nat
  BY <1>1, JoinLen
<1>3. PICK s : s = a \odot b
  OBVIOUS
<1>4. ASSUME NEW n \in 1 .. Len(s) PROVE s[n].ch \in C
  <2>1. CASE n <= Len(a)
    <3>1. n \in 1 .. Len(a) /\ s[n] = a[n]
      BY <1>2, <1>3, <2>1
    <3> QED
      BY <3>1 DEF OnStreams
  <2>2. CASE ~(n <= Len(a))
    <3>1. n - Len(a) \in 1 .. Len(b) /\ s[n] = b[n - Len(a)]
      BY <1>2, <1>3, <2>2
    <3> QED
      BY <3>1 DEF OnStreams
  <2> QED
    BY <2>1, <2>2
<1> QED
  BY <1>1, <1>3, <1>4 DEF OnStreams

LEMMA TurnsOn ==
    ASSUME NEW C, NEW n \in Nat, NEW q, \A j \in 1 .. n : OnStreams(C, q[j])
    PROVE  OnStreams(C, InTurn(n, q))
<1> DEFINE S == {m \in Nat : m <= n => OnStreams(C, InTurn(m, q))}
<1>0. \A m \in Nat : m <= n => AreSeqs(m, q)
  BY DEF AreSeqs, OnStreams
<1>1. 0 \in S
  <2>1. AreSeqs(0, q) /\ 0 \in Nat
    BY <1>0
  <2>2. InTurn(0, q) = <<>>
    BY <2>1, InTurnIs
  <2>3. Len(<<>>) = 0
    OBVIOUS
  <2>4. OnStreams(C, <<>>)
    BY <2>3, EmptyIsSeq DEF OnStreams
  <2> QED
    BY <2>2, <2>4
<1>2. ASSUME NEW m \in Nat, m \in S PROVE m + 1 \in S
  <2> SUFFICES ASSUME m + 1 <= n PROVE OnStreams(C, InTurn(m + 1, q))
    OBVIOUS
  <2>1. m + 1 \in Nat /\ m + 1 \in 1 .. n /\ m <= n
    OBVIOUS
  <2>2. AreSeqs(m + 1, q)
    BY <1>0, <2>1
  <2>3. PICK a, b : a = InTurn(m, q) /\ b = q[m + 1]
    OBVIOUS
  <2>4. InTurn(m + 1, q) = a \odot b
    BY <2>2, <2>3, InTurnNext
  <2>5. OnStreams(C, a) /\ OnStreams(C, b)
    BY <1>2, <2>1, <2>3
  <2> QED
    BY <2>4, <2>5, JoinOn
<1>3. n \in S
  <2> HIDE DEF S
  <2> QED
    BY <1>1, <1>2, Numbers
<1> QED
  BY <1>3

LEMMA BothOn ==
    ASSUME NEW C, NEW c \in C, NEW d \in C, NEW m
    PROVE  OnStreams(C, Both(c, d, m))
<1>1. OnStreams(C, Send(c, m)) /\ OnStreams(C, Send(d, m))
  BY SendOn
<1> QED
  BY <1>1, JoinOn DEF Both

SlotStreams == DOMAIN SlotDepth

LEMMA SlotStreamsAre ==
    SlotStreams = {"dequant", "dequant_fwd", "w1_dq", "w3_dq", "w2_dq_a", "w2_dq_b",
          "trig1", "trig3", "w1", "w3", "acc1", "acc3", "hdr", "x", "hdr1", "hdr3", "hdrS", "x1", "x3",
          "partial_a", "partial_b", "scale_a", "scale_b", "inter_a", "inter_b"}
  BY DEF SlotStreams, SlotDepth, Chan2, Chan4, Chan8

LEMMA PairsOn ==
    ASSUME NEW m
    PROVE  /\ OnStreams(SlotStreams, Both("w2_dq_a", "w2_dq_b", m))
           /\ OnStreams(SlotStreams, Both("w1", "w3", m)) /\ OnStreams(SlotStreams, Both("acc1",
                 "acc3", m))
           /\ OnStreams(SlotStreams, Both("scale_a", "scale_b", m))
           /\ OnStreams(SlotStreams, Both("inter_a", "inter_b", m))
           /\ OnStreams(SlotStreams, Both("partial_a", "partial_b", m))
<1>1. \A c, d \in SlotStreams : OnStreams(SlotStreams, Both(c, d, m))
  BY BothOn
<1>2. {"w2_dq_a", "w2_dq_b", "w1", "w3", "acc1", "acc3", "scale_a", "scale_b", "inter_a", "inter_b",
       "partial_a", "partial_b"} \subseteq SlotStreams
  BY SlotStreamsAre
<1> QED
  BY <1>1, <1>2

LEMMA ParameterOn ==
    ASSUME SlotAssumption, NEW j \in 1 .. 3 * ParamsEach
    PROVE  OnStreams(SlotStreams, Parameter(j))
<1>1. OnStreams(SlotStreams, Send("dequant", <<j>>)) /\ OnStreams(SlotStreams, Send("dequant_fwd",
                <<j>>))
      /\ OnStreams(SlotStreams, Send("w1_dq", <<j>>)) /\ OnStreams(SlotStreams, Send("w3_dq", <<j>>))
  BY SlotStreamsAre, SendOn
<1>2. OnStreams(SlotStreams, Both("w2_dq_a", "w2_dq_b", <<j>>))
  BY PairsOn
<1>3. OnStreams(SlotStreams, ForParam(j))
  BY <1>1, <1>2, ForParamIs
<1> QED
  BY <1>1, <1>3, JoinOn DEF Parameter

LEMMA DequantiseOn ==
    ASSUME SlotAssumption
    PROVE  OnStreams(SlotStreams, Dequantise)
<1>1. PICK q : q = [j \in 1 .. 3 * ParamsEach |-> Parameter(j)]
  OBVIOUS
<1>2. \A j \in 1 .. 3 * ParamsEach : OnStreams(SlotStreams, q[j])
  BY <1>1, ParameterOn
<1>3. Dequantise = InTurn(3 * ParamsEach, q)
  BY <1>1 DEF Dequantise, Parameter, Loop
<1> QED
  BY <1>2, <1>3, SlotSizes, TurnsOn

LEMMA AnnounceOn ==
    ASSUME NEW r
    PROVE  OnStreams(SlotStreams, Announce(r))
<1>1. \A c \in {"hdr", "hdr1", "hdr3", "hdrS", "trig1", "trig3"} : OnStreams(SlotStreams, Send(c,
                <<r>>))
  BY SlotStreamsAre, SendOn
<1> QED
  BY <1>1, JoinOn DEF Announce

LEMMA FanOutOn ==
    ASSUME SlotAssumption, NEW r
    PROVE  OnStreams(SlotStreams, FanOut(r))
<1>1. PICK q : q = [j \in 1 .. Lanes * HiddenVecs |-> Vector(r, j)]
  OBVIOUS
<1>2. \A j \in 1 .. Lanes * HiddenVecs : OnStreams(SlotStreams, q[j])
  <2> TAKE j \in 1 .. Lanes * HiddenVecs
  <2>1. \A c \in {"x", "x1", "x3"} : OnStreams(SlotStreams, Send(c, <<r, j>>))
    BY SlotStreamsAre, SendOn
  <2>2. OnStreams(SlotStreams, Vector(r, j))
    BY <2>1, JoinOn DEF Vector
  <2> QED
    BY <1>1, <2>2
<1>3. FanOut(r) = InTurn(Lanes * HiddenVecs, q)
  BY <1>1 DEF FanOut, Loop, Vector
<1> QED
  BY <1>2, <1>3, SlotSizes, TurnsOn

LEMMA FirstStageOn ==
    ASSUME SlotAssumption, NEW r
    PROVE  OnStreams(SlotStreams, FirstStage(r))
<1>1. PICK q : q = [row \in 1 .. W1Rows |-> RowWeights(r, row) \odot RowResults(r, row)]
  OBVIOUS
<1>2. ASSUME NEW row \in 1 .. W1Rows PROVE OnStreams(SlotStreams, q[row])
  <2>1. PICK a, b : /\ a = [v \in 1 .. HiddenVecs |-> Both("w1", "w3", <<r,
                          (row - 1) * HiddenVecs + v>>)]
                    /\ b = [l \in 1 .. Lanes |-> Both("acc1", "acc3", <<r, row, l>>)]
    OBVIOUS
  <2>2. (\A v \in 1 .. HiddenVecs : OnStreams(SlotStreams, a[v])) /\ (\A l \in 1 .. Lanes :
                  OnStreams(SlotStreams, b[l]))
    BY <2>1, PairsOn
  <2>3. OnStreams(SlotStreams, InTurn(HiddenVecs, a)) /\ OnStreams(SlotStreams, InTurn(Lanes, b))
    BY <2>2, SlotSizes, TurnsOn
  <2>4. RowWeights(r, row) = InTurn(HiddenVecs, a) /\ RowResults(r, row) = InTurn(Lanes, b)
    BY <2>1 DEF RowWeights, RowResults, Loop
  <2>5. OnStreams(SlotStreams, RowWeights(r, row) \odot RowResults(r, row))
    BY <2>3, <2>4, JoinOn
  <2> QED
    BY <1>1, <2>5
<1>3. FirstStage(r) = InTurn(W1Rows, q)
  BY <1>1 DEF FirstStage, Loop
<1> QED
  BY <1>2, <1>3, SlotSizes, TurnsOn

LEMMA SecondHalfOn ==
    ASSUME SlotAssumption, NEW r
    PROVE  /\ OnStreams(SlotStreams, Scales(r)) /\ OnStreams(SlotStreams, Inter(r))
           /\ OnStreams(SlotStreams, SecondStage(r)) /\ OnStreams(SlotStreams, Partials(r))
<1>1. PICK a, b, c, d :
        /\ a = [l \in 1 .. Lanes |-> Both("scale_a", "scale_b", <<r, l>>)]
        /\ b = [j \in 1 .. Lanes * HalfBeats |-> Both("inter_a", "inter_b", <<r, j>>)]
        /\ c = [j \in 1 .. W2Rows * InterVecs |-> Both("w1", "w3", <<r, W1Rows * HiddenVecs + j>>)]
        /\ d = [j \in 1 .. Lanes * HalfVecs |-> Both("partial_a", "partial_b", <<r, j>>)]
  OBVIOUS
<1>2. /\ \A l \in 1 .. Lanes : OnStreams(SlotStreams, a[l])
      /\ \A l \in 1 .. Lanes * HalfBeats : OnStreams(SlotStreams, b[l])
  BY <1>1, PairsOn
<1>3. /\ \A l \in 1 .. W2Rows * InterVecs : OnStreams(SlotStreams, c[l])
      /\ \A l \in 1 .. Lanes * HalfVecs : OnStreams(SlotStreams, d[l])
  BY <1>1, PairsOn
<1>4. /\ Scales(r) = InTurn(Lanes, a) /\ Inter(r) = InTurn(Lanes * HalfBeats, b)
      /\ SecondStage(r) = InTurn(W2Rows * InterVecs, c) /\ Partials(r) = InTurn(Lanes * HalfVecs, d)
  BY <1>1 DEF Scales, Inter, SecondStage, Partials, Loop
<1> QED
  BY <1>2, <1>3, <1>4, SlotSizes, TurnsOn

LEMMA SlotPlanOn ==
    ASSUME SlotAssumption, NEW n \in Nat
    PROVE  OnStreams(SlotStreams, SlotPlan(n))
<1>1. PICK q : q = [r \in 1 .. n |-> Round(n, r)]
  OBVIOUS
<1>2. ASSUME NEW r \in 1 .. n PROVE OnStreams(SlotStreams, q[r])
  <2>1. OnStreams(SlotStreams, Both("partial_a", "partial_b", <<r, 0>>))
    BY PairsOn
  <2>2. OnStreams(SlotStreams, FirstStage(r) \odot (Scales(r) \odot Inter(r)
                  \odot SecondStage(r)) \odot Partials(r))
    <3>1. OnStreams(SlotStreams, Scales(r) \odot Inter(r) \odot SecondStage(r))
      BY SecondHalfOn, JoinOn
    <3> QED
      BY <3>1, FirstStageOn, SecondHalfOn, JoinOn
  <2>3. OnStreams(SlotStreams, Work(n, r))
    BY <2>1, <2>2 DEF Work
  <2>4. OnStreams(SlotStreams, Announce(r) \odot FanOut(r))
    BY AnnounceOn, FanOutOn, JoinOn
  <2>5. OnStreams(SlotStreams, Round(n, r))
    BY <2>3, <2>4, JoinOn DEF Round
  <2> QED
    BY <1>1, <2>5
<1>3. OnStreams(SlotStreams, InTurn(n, q))
  BY <1>2, TurnsOn
<1>4. SlotPlan(n) = Dequantise \odot InTurn(n, q)
  BY <1>1 DEF SlotPlan, Loop
<1> QED
  BY <1>3, <1>4, DequantiseOn, JoinOn

(* Each task's script is what it does of the plan. *)
LEMMA SlotParts ==
    ASSUME SlotAssumption, NEW n \in Nat, NEW k \in DOMAIN SlotScript(n)
    PROVE  SlotScript(n)[k] = Part(Ours(SlotWriter, k), Ours(SlotReader, k), SlotPlan(n))
<1>1. k \in {"source", "dequant", "dqsplit", "dqsink", "xsplit", "load1", "load3", "proj1", "proj3",
             "swiglu", "accA", "accB"}
  BY DEF SlotScript
<1>2. CASE k = "source"
  BY <1>2, SourcePart, SlotOut, SlotIn DEF IsPart, SlotScript
<1>3. CASE k = "dequant"
  BY <1>3, DequantPart, SlotOut, SlotIn DEF IsPart, SlotScript
<1>4. CASE k = "dqsplit"
  BY <1>4, DqSplitPart, SlotOut, SlotIn DEF IsPart, SlotScript
<1>5. CASE k = "dqsink"
  BY <1>5, DqSinkPart, SlotOut, SlotIn DEF IsPart, SlotScript
<1>6. CASE k = "xsplit"
  BY <1>6, XSplitPart, SlotOut, SlotIn DEF IsPart, SlotScript
<1>7. CASE k = "load1"
  <2>1. IsPart({"w1"}, {"trig1"}, SlotPlan(n), Loader("trig1", "w1", n))
    BY LoaderPart
  <2> QED
    BY <1>7, <2>1, SlotOut, SlotIn DEF IsPart, SlotScript
<1>8. CASE k = "load3"
  <2>1. IsPart({"w3"}, {"trig3"}, SlotPlan(n), Loader("trig3", "w3", n))
    BY LoaderPart
  <2> QED
    BY <1>8, <2>1, SlotOut, SlotIn DEF IsPart, SlotScript
<1>9. CASE k = "proj1"
  BY <1>9, ProjParts, SlotOut, SlotIn DEF IsPart, SlotScript
<1>10. CASE k = "proj3"
  BY <1>10, ProjParts, SlotOut, SlotIn DEF IsPart, SlotScript
<1>11. CASE k = "swiglu"
  BY <1>11, SwigluPart, SlotOut, SlotIn DEF IsPart, SlotScript
<1>12. CASE k = "accA"
  <2>1. IsPart({}, {"partial_a"}, SlotPlan(n), Sink("partial_a", n))
    BY SinkPart
  <2> QED
    BY <1>12, <2>1, SlotOut, SlotIn DEF IsPart, SlotScript
<1>13. CASE k = "accB"
  <2>1. IsPart({}, {"partial_b"}, SlotPlan(n), Sink("partial_b", n))
    BY SinkPart
  <2> QED
    BY <1>13, <2>1, SlotOut, SlotIn DEF IsPart, SlotScript
<1> QED
  BY <1>1, <1>2, <1>3, <1>4, <1>5, <1>6, <1>7, <1>8, <1>9, <1>10, <1>11, <1>12, <1>13

LEMMA SlotChoreographed ==
    ASSUME SlotAssumption, NEW k, NEW n \in Nat, Script[k] = SlotScript(n),
           DOMAIN Depth[k] = DOMAIN SlotDepth, \A c \in DOMAIN SlotDepth : Depth[k][c] \in Nat \ {0}
    PROVE  Choreographed(k)
<1>1. DOMAIN SlotScript(n) = DOMAIN SlotScript(0)
  BY DEF SlotScript
<1>2. IsSeq(SlotPlan(n)) /\ \A m \in 1 .. Len(SlotPlan(n)) : SlotPlan(n)[m].ch \in DOMAIN SlotDepth
  BY SlotPlanOn DEF OnStreams, SlotStreams
<1>3. Choreography(k, SlotPlan(n), SlotWriter, SlotReader)
  BY <1>1, <1>2, SlotEnds, SlotParts DEF Choreography
<1> QED
  BY <1>3 DEF Choreographed

LEMMA SlotDepths == ASSUME SlotAssumption PROVE \A c \in DOMAIN SlotDepth : SlotDepth[c] \in Nat \ {0}
  BY DEF SlotDepth, SlotAssumption

(* A slot of any size and with any depths of its streams, the code's among *)
(* them (SlotDepths), for any number of rounds: whatever the order its     *)
(* tasks run in, x, weights, scales, vectors and parameters never get out  *)
(* of step, the slot never stops before all of its tasks have returned,    *)
(* and then nothing is left in a stream.                                   *)
THEOREM SlotSound ==
    ASSUME SlotAssumption,
           \A k \in Run : /\ \E n \in Nat : Script[k] = SlotScript(n)
                          /\ DOMAIN Depth[k] = DOMAIN SlotDepth
                          /\ \A c \in DOMAIN SlotDepth : Depth[k][c] \in Nat \ {0}
    PROVE  Spec => [](Aligned /\ Drained /\ ~Stuck)
<1>1. \A k \in Run : Choreographed(k)
  BY SlotChoreographed
<1> QED
  BY <1>1, ChoreographySound

--------------------------------------------------------------------------------
(* One turn of a loop, or two, in which the task has a part, and exchanges   *)
(* in which it has none.                                                    *)
LEMMA InTurnAt ==
    ASSUME NEW n \in Nat, NEW k \in 1 .. n, NEW q, IsSeq(q[k]),
           \A j \in 1 .. n : j # k => q[j] = <<>>
    PROVE  InTurn(n, q) = q[k]
<1>1. PICK s : s = q[k]
  OBVIOUS
<1> DEFINE h == [j \in 0 .. n |-> IF j < k THEN <<>> ELSE s]
<1>2. <<>> \odot <<>> = <<>> /\ <<>> \odot s = s /\ s \odot <<>> = s
  BY <1>1, Join, EmptyIsSeq
<1>3. ASSUME NEW j \in 1 .. n PROVE h[j] = h[j - 1] \odot q[j]
  <2>1. j \in 0 .. n /\ j - 1 \in 0 .. n
    OBVIOUS
  <2>2. CASE j < k
    <3>1. h[j] = <<>> /\ h[j - 1] = <<>> /\ q[j] = <<>>
      BY <2>1, <2>2
    <3> QED
      BY <1>2, <3>1
  <2>3. CASE j = k
    <3>1. h[j] = s /\ h[j - 1] = <<>> /\ q[j] = s
      BY <1>1, <2>1, <2>3
    <3> QED
      BY <1>2, <3>1
  <2>4. CASE j > k
    <3>1. h[j] = s /\ h[j - 1] = s /\ q[j] = <<>>
      BY <2>1, <2>4
    <3> QED
      BY <1>2, <3>1
  <2> QED
    BY <2>2, <2>3, <2>4
<1>4. h[0] = <<>> /\ h[n] = s
  OBVIOUS
<1> HIDE DEF h
<1>5. Runs(n, q, h)
  BY <1>3, <1>4 DEF Runs
<1> QED
  BY <1>1, <1>4, <1>5, InTurnByTable

LEMMA PartAt ==
    ASSUME NEW o, NEW i, NEW n \in Nat, NEW q, NEW k \in 1 .. n, NEW s, IsPart(o, i, q[k], s),
           \A j \in 1 .. n : j # k => IsPart(o, i, q[j], <<>>)
    PROVE  IsPart(o, i, InTurn(n, q), s)
<1>1. PICK p : p = [j \in 1 .. n |-> IF j = k THEN s ELSE <<>>]
  OBVIOUS
<1>2. \A j \in 1 .. n : IsPart(o, i, q[j], p[j])
  BY <1>1
<1>3. p[k] = s /\ (\A j \in 1 .. n : j # k => p[j] = <<>>)
  BY <1>1
<1>4. IsSeq(p[k])
  BY <1>3 DEF IsPart
<1>5. InTurn(n, p) = s
  BY <1>3, <1>4, InTurnAt
<1> QED
  BY <1>2, <1>5, PartTurns

LEMMA PartAtTwo ==
    ASSUME NEW o, NEW i, NEW n \in Nat, NEW q, NEW k \in 1 .. n, k + 1 <= n,
           NEW s, IsPart(o, i, q[k], s), NEW u, IsPart(o, i, q[k + 1], u),
           \A j \in 1 .. n : j # k /\ j # k + 1 => IsPart(o, i, q[j], <<>>)
    PROVE  IsPart(o, i, InTurn(n, q), s \odot u)
<1>1. PICK m \in Nat : n = k + m
  OBVIOUS
<1>2. PICK p : p = [j \in 1 .. m |-> q[k + j]]
  OBVIOUS
<1>3. AreSeqs(k + m, q)
  <2>1. ASSUME NEW j \in 1 .. k + m PROVE IsSeq(q[j])
    <3>1. CASE j = k
      BY <3>1 DEF IsPart
    <3>2. CASE j = k + 1
      BY <3>2 DEF IsPart
    <3>3. CASE j # k /\ j # k + 1
      BY <1>1, <3>3 DEF IsPart
    <3> QED
      BY <3>1, <3>2, <3>3
  <2> QED
    BY <2>1 DEF AreSeqs
<1>4. Follows(p, q, k, m)
  BY <1>2 DEF Follows
<1>5. InTurn(n, q) = InTurn(k, q) \odot InTurn(m, p)
  BY <1>1, <1>3, <1>4, InTurnSplit
<1>6. IsPart(o, i, InTurn(k, q), s)
  <2>1. k \in Nat /\ k \in 1 .. k /\ \A j \in 1 .. k : j \in 1 .. n /\ j # k + 1
    OBVIOUS
  <2>2. \A j \in 1 .. k : j # k => IsPart(o, i, q[j], <<>>)
    BY <2>1
  <2> QED
    BY <2>1, <2>2, PartAt
<1>7. IsPart(o, i, InTurn(m, p), u)
  <2>1. 1 \in 1 .. m /\ p[1] = q[k + 1]
    BY <1>1, <1>2
  <2>2. ASSUME NEW j \in 1 .. m, j # 1 PROVE IsPart(o, i, p[j], <<>>)
    <3>1. p[j] = q[k + j] /\ k + j \in 1 .. n /\ k + j # k /\ k + j # k + 1
      BY <1>1, <1>2, <2>2
    <3> QED
      BY <3>1
  <2>3. IsPart(o, i, p[1], u)
    BY <2>1
  <2> QED
    BY <2>1, <2>2, <2>3, PartAt
<1> QED
  BY <1>5, <1>6, <1>7, PartJoin

(* A task has no part in exchanges on other streams than its own. *)
LEMMA IdleOn ==
    ASSUME NEW o, NEW i, NEW C, NEW t, OnStreams(C, t), \A c \in C : c \notin o /\ c \notin i
    PROVE  IsPart(o, i, t, <<>>)
<1>1. PICK q : q = [n \in 1 .. Len(t) |-> Does(o, i, t[n])]
  OBVIOUS
<1>2. \A n \in 1 .. Len(t) : q[n] = <<>>
  BY <1>1 DEF OnStreams, Does
<1>3. Len(t) \in Nat /\ IsSeq(t)
  <2>1. PICK S : t \in Seq(S)
    BY DEF OnStreams, IsSeq
  <2> QED
    BY <2>1 DEF OnStreams
<1>4. InTurn(Len(t), q) = <<>>
  BY <1>2, <1>3, InTurnNothing
<1> QED
  BY <1>1, <1>3, <1>4, EmptyIsSeq DEF IsPart, Part

--------------------------------------------------------------------------------
(* 4. The BM25 indexer: who writes and who reads its streams ...            *)

ChainWriter(reader, j) == IF j = 1 THEN <<reader, 0>> ELSE <<"core", j - 1>>
ChainReader(hole, j) == IF j > Channels THEN <<hole, 0>> ELSE <<"core", j>>

Bm25Writer == [s \in Bm25Chan |->
    CASE s[1] = "df"        -> ChainWriter("read_df", s[2])
      [] s[1] = "query"     -> ChainWriter("read_query", s[2])
      [] s[1] = "inst"      -> ChainWriter("read_inst", s[2])
      [] s[1] = "doc"       -> <<"read_doc_dict", s[2]>>
      [] s[1] \in {"df_t", "f", "inst_out"} -> <<"core", s[2]>>
      [] s[1] = "idf"       -> <<"idf", s[2]>>
      [] s[1] = "tf_weight" -> <<"tf_weight", s[2]>>
      [] s[1] = "psum"      -> <<"score_mul", s[2]>>
      [] s[1] = "score"     -> <<"score_acc", s[2]>>
      [] s[1] = "merged"    -> <<"merge", 0>>
      [] s[1] = "topk_id"   -> <<"topk", 0>>]

Bm25Reader == [s \in Bm25Chan |->
    CASE s[1] = "df"        -> ChainReader("hole_df", s[2])
      [] s[1] = "query"     -> ChainReader("hole_query", s[2])
      [] s[1] = "inst"      -> ChainReader("hole_inst", s[2])
      [] s[1] = "doc"       -> <<"core", s[2]>>
      [] s[1] = "df_t"      -> <<"idf", s[2]>>
      [] s[1] = "f"         -> <<"tf_weight", s[2]>>
      [] s[1] \in {"idf", "tf_weight"} -> <<"score_mul", s[2]>>
      [] s[1] \in {"psum", "inst_out"} -> <<"score_acc", s[2]>>
      [] s[1] = "score"     -> <<"merge", 0>>
      [] s[1] = "merged"    -> <<"topk", 0>>
      [] s[1] = "topk_id"   -> <<"write_id", 0>>]

ChainNames == {"df", "query", "inst"}
LocalNames == {"doc", "df_t", "f", "idf", "tf_weight", "psum", "inst_out", "score"}

LEMMA Bm25Sizes ==
    ASSUME Bm25Assumption
    PROVE  /\ Channels \in Nat \ {0} /\ DfVecs \in Nat \ {0} /\ QueryVecs \in Nat \ {0}
           /\ KPacks \in Nat \ {0} /\ Channels + 1 \in Nat /\ Channels \in Nat /\ DfVecs \in Nat
           /\ QueryVecs \in Nat /\ KPacks \in Nat
  BY DEF Bm25Assumption

(* The streams by name. *)
LEMMA Bm25Streams ==
    ASSUME NEW s
    PROVE  s \in Bm25Chan <=>
              \/ \E x \in ChainNames, j \in 1 .. Channels + 1 : s = <<x, j>>
              \/ \E x \in LocalNames, j \in Channel : s = <<x, j>>
              \/ s = <<"merged", 0>> \/ s = <<"topk_id", 0>>
  BY DEF Bm25Chan, ChainNames, LocalNames

LEMMA AreStreams ==
    ASSUME Bm25Assumption
    PROVE  /\ \A j \in 1 .. Channels + 1 :
                 <<"df", j>> \in Bm25Chan /\ <<"query", j>> \in Bm25Chan /\ <<"inst", j>> \in Bm25Chan
           /\ \A c \in Channel :
                 /\ <<"doc", c>> \in Bm25Chan /\ <<"df_t", c>> \in Bm25Chan /\ <<"f", c>> \in Bm25Chan
                 /\ <<"idf", c>> \in Bm25Chan /\ <<"tf_weight", c>> \in Bm25Chan
                 /\ <<"psum", c>> \in Bm25Chan /\ <<"inst_out", c>> \in Bm25Chan
                 /\ <<"score", c>> \in Bm25Chan
           /\ <<"merged", 0>> \in Bm25Chan /\ <<"topk_id", 0>> \in Bm25Chan
<1>1. /\ \A j \in 1 .. Channels + 1 : \A x \in ChainNames : <<x, j>> \in Bm25Chan
      /\ \A c \in Channel : \A x \in LocalNames : <<x, c>> \in Bm25Chan
      /\ <<"merged", 0>> \in Bm25Chan /\ <<"topk_id", 0>> \in Bm25Chan
  BY Bm25Streams
<1> QED
  BY <1>1 DEF ChainNames, LocalNames

LEMMA WriterOf ==
    ASSUME Bm25Assumption
    PROVE  /\ \A j \in 1 .. Channels + 1 :
                 /\ Bm25Writer[<<"df", j>>] = ChainWriter("read_df", j)
                 /\ Bm25Writer[<<"query", j>>] = ChainWriter("read_query", j)
                 /\ Bm25Writer[<<"inst", j>>] = ChainWriter("read_inst", j)
           /\ \A c \in Channel :
                 /\ Bm25Writer[<<"doc", c>>] = <<"read_doc_dict", c>>
                 /\ Bm25Writer[<<"df_t", c>>] = <<"core", c>> /\ Bm25Writer[<<"f", c>>] = <<"core", c>>
                 /\ Bm25Writer[<<"inst_out", c>>] = <<"core", c>>
                 /\ Bm25Writer[<<"idf", c>>] = <<"idf", c>>
                 /\ Bm25Writer[<<"tf_weight", c>>] = <<"tf_weight", c>>
                 /\ Bm25Writer[<<"psum", c>>] = <<"score_mul", c>>
                 /\ Bm25Writer[<<"score", c>>] = <<"score_acc", c>>
           /\ Bm25Writer[<<"merged", 0>>] = <<"merge", 0>>
           /\ Bm25Writer[<<"topk_id", 0>>] = <<"topk", 0>>
           /\ DOMAIN Bm25Writer = Bm25Chan
<1>1. \A j \in 1 .. Channels + 1 :
                 /\ Bm25Writer[<<"df", j>>] = ChainWriter("read_df", j)
                 /\ Bm25Writer[<<"query", j>>] = ChainWriter("read_query", j)
                 /\ Bm25Writer[<<"inst", j>>] = ChainWriter("read_inst", j)
  BY AreStreams DEF Bm25Writer
<1>2. \A c \in Channel :
                 /\ Bm25Writer[<<"doc", c>>] = <<"read_doc_dict", c>>
                 /\ Bm25Writer[<<"df_t", c>>] = <<"core", c>> /\ Bm25Writer[<<"f", c>>] = <<"core", c>>
                 /\ Bm25Writer[<<"inst_out", c>>] = <<"core", c>>
                 /\ Bm25Writer[<<"idf", c>>] = <<"idf", c>>
                 /\ Bm25Writer[<<"tf_weight", c>>] = <<"tf_weight", c>>
                 /\ Bm25Writer[<<"psum", c>>] = <<"score_mul", c>>
                 /\ Bm25Writer[<<"score", c>>] = <<"score_acc", c>>
  BY AreStreams DEF Bm25Writer
<1>3. /\ Bm25Writer[<<"merged", 0>>] = <<"merge", 0>>
      /\ Bm25Writer[<<"topk_id", 0>>] = <<"topk", 0>>
  BY AreStreams DEF Bm25Writer
<1>4. DOMAIN Bm25Writer = Bm25Chan
  BY DEF Bm25Writer
<1> QED
  BY <1>1, <1>2, <1>3, <1>4

LEMMA ReaderOf ==
    ASSUME Bm25Assumption
    PROVE  /\ \A j \in 1 .. Channels + 1 :
                 /\ Bm25Reader[<<"df", j>>] = ChainReader("hole_df", j)
                 /\ Bm25Reader[<<"query", j>>] = ChainReader("hole_query", j)
                 /\ Bm25Reader[<<"inst", j>>] = ChainReader("hole_inst", j)
           /\ \A c \in Channel :
                 /\ Bm25Reader[<<"doc", c>>] = <<"core", c>>
                 /\ Bm25Reader[<<"df_t", c>>] = <<"idf", c>> /\ Bm25Reader[<<"f", c>>] = <<"tf_weight", c>>
                 /\ Bm25Reader[<<"inst_out", c>>] = <<"score_acc", c>>
                 /\ Bm25Reader[<<"idf", c>>] = <<"score_mul", c>>
                 /\ Bm25Reader[<<"tf_weight", c>>] = <<"score_mul", c>>
                 /\ Bm25Reader[<<"psum", c>>] = <<"score_acc", c>>
                 /\ Bm25Reader[<<"score", c>>] = <<"merge", 0>>
           /\ Bm25Reader[<<"merged", 0>>] = <<"topk", 0>>
           /\ Bm25Reader[<<"topk_id", 0>>] = <<"write_id", 0>>
           /\ DOMAIN Bm25Reader = Bm25Chan
<1>1. \A j \in 1 .. Channels + 1 :
                 /\ Bm25Reader[<<"df", j>>] = ChainReader("hole_df", j)
                 /\ Bm25Reader[<<"query", j>>] = ChainReader("hole_query", j)
                 /\ Bm25Reader[<<"inst", j>>] = ChainReader("hole_inst", j)
  BY AreStreams DEF Bm25Reader
<1>2. \A c \in Channel :
                 /\ Bm25Reader[<<"doc", c>>] = <<"core", c>>
                 /\ Bm25Reader[<<"df_t", c>>] = <<"idf", c>> /\ Bm25Reader[<<"f", c>>] = <<"tf_weight", c>>
                 /\ Bm25Reader[<<"inst_out", c>>] = <<"score_acc", c>>
                 /\ Bm25Reader[<<"idf", c>>] = <<"score_mul", c>>
                 /\ Bm25Reader[<<"tf_weight", c>>] = <<"score_mul", c>>
                 /\ Bm25Reader[<<"psum", c>>] = <<"score_acc", c>>
                 /\ Bm25Reader[<<"score", c>>] = <<"merge", 0>>
  BY AreStreams DEF Bm25Reader
<1>3. /\ Bm25Reader[<<"merged", 0>>] = <<"topk", 0>>
      /\ Bm25Reader[<<"topk_id", 0>>] = <<"write_id", 0>>
  BY AreStreams DEF Bm25Reader
<1>4. DOMAIN Bm25Reader = Bm25Chan
  BY DEF Bm25Reader
<1> QED
  BY <1>1, <1>2, <1>3, <1>4

CoreOut(c) == {<<"df", c + 1>>, <<"query", c + 1>>, <<"inst", c + 1>>, <<"df_t", c>>, <<"f", c>>,
               <<"inst_out", c>>}
CoreIn(c) == {<<"df", c>>, <<"query", c>>, <<"inst", c>>, <<"doc", c>>}

LEMMA ChainOut ==
    ASSUME Bm25Assumption
    PROVE  \A reader : /\ ChainWriter(reader, 1) = <<reader, 0>>
                       /\ \A c \in Channel : /\ c + 1 \in 2 .. Channels + 1
                                              /\ ChainWriter(reader, c + 1) = <<"core", c>>
<1>1. \A c \in Channel : c \in Nat /\ c + 1 \in 2 .. Channels + 1 /\ c + 1 # 1 /\ (c + 1) - 1 = c
  BY Bm25Sizes DEF Channel
<1> QED
  BY <1>1 DEF ChainWriter

LEMMA ChainIn ==
    ASSUME Bm25Assumption
    PROVE  \A hole : /\ ChainReader(hole, Channels + 1) = <<hole, 0>>
                     /\ \A c \in Channel : /\ c \in 1 .. Channels + 1
                                            /\ ChainReader(hole, c) = <<"core", c>>
<1>1. Channels + 1 > Channels /\ \A c \in Channel : c \in 1 .. Channels + 1 /\ ~(c > Channels)
  BY Bm25Sizes DEF Channel
<1> QED
  BY <1>1 DEF ChainReader

LEMMA Links ==
    ASSUME Bm25Assumption, NEW j \in 1 .. Channels + 1
    PROVE  /\ j = 1 \/ \E c \in Channel : j = c + 1
           /\ j = Channels + 1 \/ j \in Channel
<1>1. j # 1 => j - 1 \in Channel /\ j = (j - 1) + 1
  BY Bm25Sizes DEF Channel
<1> QED
  BY <1>1, Bm25Sizes DEF Channel

LEMMA WriterCases ==
    ASSUME Bm25Assumption, NEW s \in Bm25Chan
    PROVE  \/ s = <<"df", 1>> /\ Bm25Writer[s] = <<"read_df", 0>>
           \/ s = <<"query", 1>> /\ Bm25Writer[s] = <<"read_query", 0>>
           \/ s = <<"inst", 1>> /\ Bm25Writer[s] = <<"read_inst", 0>>
           \/ s = <<"merged", 0>> /\ Bm25Writer[s] = <<"merge", 0>>
           \/ s = <<"topk_id", 0>> /\ Bm25Writer[s] = <<"topk", 0>>
           \/ \E c \in Channel :
                 \/ s \in {<<"doc", c>>} /\ Bm25Writer[s] = <<"read_doc_dict", c>>
                 \/ s \in CoreOut(c) /\ Bm25Writer[s] = <<"core", c>>
                 \/ s \in {<<"idf", c>>} /\ Bm25Writer[s] = <<"idf", c>>
                 \/ s \in {<<"tf_weight", c>>} /\ Bm25Writer[s] = <<"tf_weight", c>>
                 \/ s \in {<<"psum", c>>} /\ Bm25Writer[s] = <<"score_mul", c>>
                 \/ s \in {<<"score", c>>} /\ Bm25Writer[s] = <<"score_acc", c>>
<1>1. CASE \E x \in ChainNames, j \in 1 .. Channels + 1 : s = <<x, j>>
  <2>1. PICK x \in ChainNames, j \in 1 .. Channels + 1 : s = <<x, j>>
    BY <1>1
  <2>2. x = "df" \/ x = "query" \/ x = "inst"
    BY DEF ChainNames
  <2>3. CASE j = 1
    BY <2>1, <2>2, <2>3, WriterOf, ChainOut
  <2>4. ASSUME NEW c \in Channel, j = c + 1
        PROVE  s \in CoreOut(c) /\ Bm25Writer[s] = <<"core", c>>
    BY <2>1, <2>2, <2>4, WriterOf, ChainOut DEF CoreOut
  <2> QED
    BY <2>3, <2>4, Links
<1>2. CASE \E x \in LocalNames, c \in Channel : s = <<x, c>>
  <2>1. PICK x \in LocalNames, c \in Channel : s = <<x, c>>
    BY <1>2
  <2>2. x = "doc" \/ x = "df_t" \/ x = "f" \/ x = "idf" \/ x = "tf_weight" \/ x = "psum"
        \/ x = "inst_out" \/ x = "score"
    BY DEF LocalNames
  <2> QED
    BY <2>1, <2>2, WriterOf DEF CoreOut, CoreIn
<1>3. CASE s = <<"merged", 0>>
  BY <1>3, WriterOf
<1>4. CASE s = <<"topk_id", 0>>
  BY <1>4, WriterOf
<1> QED
  BY <1>1, <1>2, <1>3, <1>4, Bm25Streams

LEMMA WrittenAlone ==
    ASSUME Bm25Assumption
    PROVE  /\ Ours(Bm25Writer, <<"read_df", 0>>) = {<<"df", 1>>}
           /\ Ours(Bm25Writer, <<"read_query", 0>>) = {<<"query", 1>>}
           /\ Ours(Bm25Writer, <<"read_inst", 0>>) = {<<"inst", 1>>}
           /\ Ours(Bm25Writer, <<"hole_df", 0>>) = {}
           /\ Ours(Bm25Writer, <<"hole_query", 0>>) = {}
           /\ Ours(Bm25Writer, <<"hole_inst", 0>>) = {}
           /\ Ours(Bm25Writer, <<"merge", 0>>) = {<<"merged", 0>>}
           /\ Ours(Bm25Writer, <<"topk", 0>>) = {<<"topk_id", 0>>}
           /\ Ours(Bm25Writer, <<"write_id", 0>>) = {}
<1>0. 1 \in 1 .. Channels + 1 /\ Channels + 1 \in 1 .. Channels + 1
  BY Bm25Sizes
<1>1. Ours(Bm25Writer, <<"read_df", 0>>) = {<<"df", 1>>}
  <2>1. ASSUME NEW s \in Bm25Chan, Bm25Writer[s] = <<"read_df", 0>> PROVE s \in {<<"df", 1>>}
    BY <2>1, WriterCases
  <2>2. \A s \in {<<"df", 1>>} : s \in Bm25Chan /\ Bm25Writer[s] = <<"read_df", 0>>
    BY <1>0, AreStreams, WriterOf, ChainOut
  <2> QED
    BY <2>1, <2>2, WriterOf DEF Ours
<1>2. Ours(Bm25Writer, <<"read_query", 0>>) = {<<"query", 1>>}
  <2>1. ASSUME NEW s \in Bm25Chan, Bm25Writer[s] = <<"read_query", 0>> PROVE s \in {<<"query", 1>>}
    BY <2>1, WriterCases
  <2>2. \A s \in {<<"query", 1>>} : s \in Bm25Chan /\ Bm25Writer[s] = <<"read_query", 0>>
    BY <1>0, AreStreams, WriterOf, ChainOut
  <2> QED
    BY <2>1, <2>2, WriterOf DEF Ours
<1>3. Ours(Bm25Writer, <<"read_inst", 0>>) = {<<"inst", 1>>}
  <2>1. ASSUME NEW s \in Bm25Chan, Bm25Writer[s] = <<"read_inst", 0>> PROVE s \in {<<"inst", 1>>}
    BY <2>1, WriterCases
  <2>2. \A s \in {<<"inst", 1>>} : s \in Bm25Chan /\ Bm25Writer[s] = <<"read_inst", 0>>
    BY <1>0, AreStreams, WriterOf, ChainOut
  <2> QED
    BY <2>1, <2>2, WriterOf DEF Ours
<1>4. Ours(Bm25Writer, <<"hole_df", 0>>) = {}
  <2>1. ASSUME NEW s \in Bm25Chan, Bm25Writer[s] = <<"hole_df", 0>> PROVE s \in {}
    BY <2>1, WriterCases
  <2>2. \A s \in {} : s \in Bm25Chan /\ Bm25Writer[s] = <<"hole_df", 0>>
    BY <1>0, AreStreams, WriterOf, ChainOut
  <2> QED
    BY <2>1, <2>2, WriterOf DEF Ours
<1>5. Ours(Bm25Writer, <<"hole_query", 0>>) = {}
  <2>1. ASSUME NEW s \in Bm25Chan, Bm25Writer[s] = <<"hole_query", 0>> PROVE s \in {}
    BY <2>1, WriterCases
  <2>2. \A s \in {} : s \in Bm25Chan /\ Bm25Writer[s] = <<"hole_query", 0>>
    BY <1>0, AreStreams, WriterOf, ChainOut
  <2> QED
    BY <2>1, <2>2, WriterOf DEF Ours
<1>6. Ours(Bm25Writer, <<"hole_inst", 0>>) = {}
  <2>1. ASSUME NEW s \in Bm25Chan, Bm25Writer[s] = <<"hole_inst", 0>> PROVE s \in {}
    BY <2>1, WriterCases
  <2>2. \A s \in {} : s \in Bm25Chan /\ Bm25Writer[s] = <<"hole_inst", 0>>
    BY <1>0, AreStreams, WriterOf, ChainOut
  <2> QED
    BY <2>1, <2>2, WriterOf DEF Ours
<1>7. Ours(Bm25Writer, <<"merge", 0>>) = {<<"merged", 0>>}
  <2>1. ASSUME NEW s \in Bm25Chan, Bm25Writer[s] = <<"merge", 0>> PROVE s \in {<<"merged", 0>>}
    BY <2>1, WriterCases
  <2>2. \A s \in {<<"merged", 0>>} : s \in Bm25Chan /\ Bm25Writer[s] = <<"merge", 0>>
    BY <1>0, AreStreams, WriterOf, ChainOut
  <2> QED
    BY <2>1, <2>2, WriterOf DEF Ours
<1>8. Ours(Bm25Writer, <<"topk", 0>>) = {<<"topk_id", 0>>}
  <2>1. ASSUME NEW s \in Bm25Chan, Bm25Writer[s] = <<"topk", 0>> PROVE s \in {<<"topk_id", 0>>}
    BY <2>1, WriterCases
  <2>2. \A s \in {<<"topk_id", 0>>} : s \in Bm25Chan /\ Bm25Writer[s] = <<"topk", 0>>
    BY <1>0, AreStreams, WriterOf, ChainOut
  <2> QED
    BY <2>1, <2>2, WriterOf DEF Ours
<1>9. Ours(Bm25Writer, <<"write_id", 0>>) = {}
  <2>1. ASSUME NEW s \in Bm25Chan, Bm25Writer[s] = <<"write_id", 0>> PROVE s \in {}
    BY <2>1, WriterCases
  <2>2. \A s \in {} : s \in Bm25Chan /\ Bm25Writer[s] = <<"write_id", 0>>
    BY <1>0, AreStreams, WriterOf, ChainOut
  <2> QED
    BY <2>1, <2>2, WriterOf DEF Ours
<1> QED
  BY <1>1, <1>2, <1>3, <1>4, <1>5, <1>6, <1>7, <1>8, <1>9

LEMMA WrittenEach ==
    ASSUME Bm25Assumption, NEW c \in Channel
    PROVE  /\ Ours(Bm25Writer, <<"read_doc_dict", c>>) = {<<"doc", c>>}
           /\ Ours(Bm25Writer, <<"core", c>>) = CoreOut(c)
           /\ Ours(Bm25Writer, <<"idf", c>>) = {<<"idf", c>>}
           /\ Ours(Bm25Writer, <<"tf_weight", c>>) = {<<"tf_weight", c>>}
           /\ Ours(Bm25Writer, <<"score_mul", c>>) = {<<"psum", c>>}
           /\ Ours(Bm25Writer, <<"score_acc", c>>) = {<<"score", c>>}
<1>0. c \in 1 .. Channels + 1 /\ c + 1 \in 1 .. Channels + 1
  BY Bm25Sizes DEF Channel
<1>1. Ours(Bm25Writer, <<"read_doc_dict", c>>) = {<<"doc", c>>}
  <2>1. ASSUME NEW s \in Bm25Chan, Bm25Writer[s] = <<"read_doc_dict", c>> PROVE s \in {<<"doc", c>>}
    BY <2>1, WriterCases
  <2>2. \A s \in {<<"doc", c>>} : s \in Bm25Chan /\ Bm25Writer[s] = <<"read_doc_dict", c>>
    BY <1>0, AreStreams, WriterOf, ChainOut
  <2> QED
    BY <2>1, <2>2, WriterOf DEF Ours
<1>2. Ours(Bm25Writer, <<"core", c>>) = CoreOut(c)
  <2>1. ASSUME NEW s \in Bm25Chan, Bm25Writer[s] = <<"core", c>> PROVE s \in CoreOut(c)
    BY <2>1, WriterCases
  <2>2. \A s \in CoreOut(c) : s \in Bm25Chan /\ Bm25Writer[s] = <<"core", c>>
    BY <1>0, AreStreams, WriterOf, ChainOut DEF CoreOut
  <2> QED
    BY <2>1, <2>2, WriterOf DEF Ours
<1>3. Ours(Bm25Writer, <<"idf", c>>) = {<<"idf", c>>}
  <2>1. ASSUME NEW s \in Bm25Chan, Bm25Writer[s] = <<"idf", c>> PROVE s \in {<<"idf", c>>}
    BY <2>1, WriterCases
  <2>2. \A s \in {<<"idf", c>>} : s \in Bm25Chan /\ Bm25Writer[s] = <<"idf", c>>
    BY <1>0, AreStreams, WriterOf, ChainOut
  <2> QED
    BY <2>1, <2>2, WriterOf DEF Ours
<1>4. Ours(Bm25Writer, <<"tf_weight", c>>) = {<<"tf_weight", c>>}
  <2>1. ASSUME NEW s \in Bm25Chan, Bm25Writer[s] = <<"tf_weight", c>> PROVE s \in {<<"tf_weight", c>>}
    BY <2>1, WriterCases
  <2>2. \A s \in {<<"tf_weight", c>>} : s \in Bm25Chan /\ Bm25Writer[s] = <<"tf_weight", c>>
    BY <1>0, AreStreams, WriterOf, ChainOut
  <2> QED
    BY <2>1, <2>2, WriterOf DEF Ours
<1>5. Ours(Bm25Writer, <<"score_mul", c>>) = {<<"psum", c>>}
  <2>1. ASSUME NEW s \in Bm25Chan, Bm25Writer[s] = <<"score_mul", c>> PROVE s \in {<<"psum", c>>}
    BY <2>1, WriterCases
  <2>2. \A s \in {<<"psum", c>>} : s \in Bm25Chan /\ Bm25Writer[s] = <<"score_mul", c>>
    BY <1>0, AreStreams, WriterOf, ChainOut
  <2> QED
    BY <2>1, <2>2, WriterOf DEF Ours
<1>6. Ours(Bm25Writer, <<"score_acc", c>>) = {<<"score", c>>}
  <2>1. ASSUME NEW s \in Bm25Chan, Bm25Writer[s] = <<"score_acc", c>> PROVE s \in {<<"score", c>>}
    BY <2>1, WriterCases
  <2>2. \A s \in {<<"score", c>>} : s \in Bm25Chan /\ Bm25Writer[s] = <<"score_acc", c>>
    BY <1>0, AreStreams, WriterOf, ChainOut
  <2> QED
    BY <2>1, <2>2, WriterOf DEF Ours
<1> QED
  BY <1>1, <1>2, <1>3, <1>4, <1>5, <1>6

LEMMA ReaderCases ==
    ASSUME Bm25Assumption, NEW s \in Bm25Chan
    PROVE  \/ s = <<"df", Channels + 1>> /\ Bm25Reader[s] = <<"hole_df", 0>>
           \/ s = <<"query", Channels + 1>> /\ Bm25Reader[s] = <<"hole_query", 0>>
           \/ s = <<"inst", Channels + 1>> /\ Bm25Reader[s] = <<"hole_inst", 0>>
           \/ s = <<"merged", 0>> /\ Bm25Reader[s] = <<"topk", 0>>
           \/ s = <<"topk_id", 0>> /\ Bm25Reader[s] = <<"write_id", 0>>
           \/ \E c \in Channel :
                 \/ s \in CoreIn(c) /\ Bm25Reader[s] = <<"core", c>>
                 \/ s \in {<<"df_t", c>>} /\ Bm25Reader[s] = <<"idf", c>>
                 \/ s \in {<<"f", c>>} /\ Bm25Reader[s] = <<"tf_weight", c>>
                 \/ s \in {<<"idf", c>>, <<"tf_weight", c>>} /\ Bm25Reader[s] = <<"score_mul", c>>
                 \/ s \in {<<"psum", c>>, <<"inst_out", c>>} /\ Bm25Reader[s] = <<"score_acc", c>>
                 \/ s = <<"score", c>> /\ Bm25Reader[s] = <<"merge", 0>>
<1>1. CASE \E x \in ChainNames, j \in 1 .. Channels + 1 : s = <<x, j>>
  <2>1. PICK x \in ChainNames, j \in 1 .. Channels + 1 : s = <<x, j>>
    BY <1>1
  <2>2. x = "df" \/ x = "query" \/ x = "inst"
    BY DEF ChainNames
  <2>3. CASE j = Channels + 1
    BY <2>1, <2>2, <2>3, ReaderOf, ChainIn
  <2>4. ASSUME NEW c \in Channel, j = c
        PROVE  s \in CoreIn(c) /\ Bm25Reader[s] = <<"core", c>>
    BY <2>1, <2>2, <2>4, ReaderOf, ChainIn DEF CoreIn
  <2> QED
    BY <2>3, <2>4, Links
<1>2. CASE \E x \in LocalNames, c \in Channel : s = <<x, c>>
  <2>1. PICK x \in LocalNames, c \in Channel : s = <<x, c>>
    BY <1>2
  <2>2. x = "doc" \/ x = "df_t" \/ x = "f" \/ x = "idf" \/ x = "tf_weight" \/ x = "psum"
        \/ x = "inst_out" \/ x = "score"
    BY DEF LocalNames
  <2> QED
    BY <2>1, <2>2, ReaderOf DEF CoreOut, CoreIn
<1>3. CASE s = <<"merged", 0>>
  BY <1>3, ReaderOf
<1>4. CASE s = <<"topk_id", 0>>
  BY <1>4, ReaderOf
<1> QED
  BY <1>1, <1>2, <1>3, <1>4, Bm25Streams

LEMMA TakenAlone ==
    ASSUME Bm25Assumption
    PROVE  /\ Ours(Bm25Reader, <<"read_df", 0>>) = {}
           /\ Ours(Bm25Reader, <<"read_query", 0>>) = {}
           /\ Ours(Bm25Reader, <<"read_inst", 0>>) = {}
           /\ Ours(Bm25Reader, <<"hole_df", 0>>) = {<<"df", Channels + 1>>}
           /\ Ours(Bm25Reader, <<"hole_query", 0>>) = {<<"query", Channels + 1>>}
           /\ Ours(Bm25Reader, <<"hole_inst", 0>>) = {<<"inst", Channels + 1>>}
           /\ Ours(Bm25Reader, <<"merge", 0>>) = {"score"} \X Channel
           /\ Ours(Bm25Reader, <<"topk", 0>>) = {<<"merged", 0>>}
           /\ Ours(Bm25Reader, <<"write_id", 0>>) = {<<"topk_id", 0>>}
<1>0. 1 \in 1 .. Channels + 1 /\ Channels + 1 \in 1 .. Channels + 1
  BY Bm25Sizes
<1>1. Ours(Bm25Reader, <<"read_df", 0>>) = {}
  <2>1. ASSUME NEW s \in Bm25Chan, Bm25Reader[s] = <<"read_df", 0>> PROVE s \in {}
    BY <2>1, ReaderCases
  <2>2. \A s \in {} : s \in Bm25Chan /\ Bm25Reader[s] = <<"read_df", 0>>
    BY <1>0, AreStreams, ReaderOf, ChainIn
  <2> QED
    BY <2>1, <2>2, ReaderOf DEF Ours
<1>2. Ours(Bm25Reader, <<"read_query", 0>>) = {}
  <2>1. ASSUME NEW s \in Bm25Chan, Bm25Reader[s] = <<"read_query", 0>> PROVE s \in {}
    BY <2>1, ReaderCases
  <2>2. \A s \in {} : s \in Bm25Chan /\ Bm25Reader[s] = <<"read_query", 0>>
    BY <1>0, AreStreams, ReaderOf, ChainIn
  <2> QED
    BY <2>1, <2>2, ReaderOf DEF Ours
<1>3. Ours(Bm25Reader, <<"read_inst", 0>>) = {}
  <2>1. ASSUME NEW s \in Bm25Chan, Bm25Reader[s] = <<"read_inst", 0>> PROVE s \in {}
    BY <2>1, ReaderCases
  <2>2. \A s \in {} : s \in Bm25Chan /\ Bm25Reader[s] = <<"read_inst", 0>>
    BY <1>0, AreStreams, ReaderOf, ChainIn
  <2> QED
    BY <2>1, <2>2, ReaderOf DEF Ours
<1>4. Ours(Bm25Reader, <<"hole_df", 0>>) = {<<"df", Channels + 1>>}
  <2>1. ASSUME NEW s \in Bm25Chan, Bm25Reader[s] = <<"hole_df", 0>> PROVE s \in {<<"df", Channels + 1>>}
    BY <2>1, ReaderCases
  <2>2. \A s \in {<<"df", Channels + 1>>} : s \in Bm25Chan /\ Bm25Reader[s] = <<"hole_df", 0>>
    BY <1>0, AreStreams, ReaderOf, ChainIn
  <2> QED
    BY <2>1, <2>2, ReaderOf DEF Ours
<1>5. Ours(Bm25Reader, <<"hole_query", 0>>) = {<<"query", Channels + 1>>}
  <2>1. ASSUME NEW s \in Bm25Chan, Bm25Reader[s] = <<"hole_query", 0>> PROVE s \in {<<"query", Channels + 1>>}
    BY <2>1, ReaderCases
  <2>2. \A s \in {<<"query", Channels + 1>>} : s \in Bm25Chan /\ Bm25Reader[s] = <<"hole_query", 0>>
    BY <1>0, AreStreams, ReaderOf, ChainIn
  <2> QED
    BY <2>1, <2>2, ReaderOf DEF Ours
<1>6. Ours(Bm25Reader, <<"hole_inst", 0>>) = {<<"inst", Channels + 1>>}
  <2>1. ASSUME NEW s \in Bm25Chan, Bm25Reader[s] = <<"hole_inst", 0>> PROVE s \in {<<"inst", Channels + 1>>}
    BY <2>1, ReaderCases
  <2>2. \A s \in {<<"inst", Channels + 1>>} : s \in Bm25Chan /\ Bm25Reader[s] = <<"hole_inst", 0>>
    BY <1>0, AreStreams, ReaderOf, ChainIn
  <2> QED
    BY <2>1, <2>2, ReaderOf DEF Ours
<1>7. Ours(Bm25Reader, <<"merge", 0>>) = {"score"} \X Channel
  <2>1. ASSUME NEW s \in Bm25Chan, Bm25Reader[s] = <<"merge", 0>> PROVE s \in {"score"} \X Channel
    BY <2>1, ReaderCases
  <2>2. ASSUME NEW s \in {"score"} \X Channel PROVE s \in Bm25Chan /\ Bm25Reader[s] = <<"merge", 0>>
    <3>1. PICK c \in Channel : s = <<"score", c>>
      OBVIOUS
    <3> QED
      BY <3>1, AreStreams, ReaderOf
  <2> QED
    BY <2>1, <2>2, ReaderOf DEF Ours
<1>8. Ours(Bm25Reader, <<"topk", 0>>) = {<<"merged", 0>>}
  <2>1. ASSUME NEW s \in Bm25Chan, Bm25Reader[s] = <<"topk", 0>> PROVE s \in {<<"merged", 0>>}
    BY <2>1, ReaderCases
  <2>2. \A s \in {<<"merged", 0>>} : s \in Bm25Chan /\ Bm25Reader[s] = <<"topk", 0>>
    BY <1>0, AreStreams, ReaderOf, ChainIn
  <2> QED
    BY <2>1, <2>2, ReaderOf DEF Ours
<1>9. Ours(Bm25Reader, <<"write_id", 0>>) = {<<"topk_id", 0>>}
  <2>1. ASSUME NEW s \in Bm25Chan, Bm25Reader[s] = <<"write_id", 0>> PROVE s \in {<<"topk_id", 0>>}
    BY <2>1, ReaderCases
  <2>2. \A s \in {<<"topk_id", 0>>} : s \in Bm25Chan /\ Bm25Reader[s] = <<"write_id", 0>>
    BY <1>0, AreStreams, ReaderOf, ChainIn
  <2> QED
    BY <2>1, <2>2, ReaderOf DEF Ours
<1> QED
  BY <1>1, <1>2, <1>3, <1>4, <1>5, <1>6, <1>7, <1>8, <1>9

LEMMA TakenEach ==
    ASSUME Bm25Assumption, NEW c \in Channel
    PROVE  /\ Ours(Bm25Reader, <<"read_doc_dict", c>>) = {}
           /\ Ours(Bm25Reader, <<"core", c>>) = CoreIn(c)
           /\ Ours(Bm25Reader, <<"idf", c>>) = {<<"df_t", c>>}
           /\ Ours(Bm25Reader, <<"tf_weight", c>>) = {<<"f", c>>}
           /\ Ours(Bm25Reader, <<"score_mul", c>>) = {<<"idf", c>>, <<"tf_weight", c>>}
           /\ Ours(Bm25Reader, <<"score_acc", c>>) = {<<"psum", c>>, <<"inst_out", c>>}
<1>0. c \in 1 .. Channels + 1 /\ c + 1 \in 1 .. Channels + 1
  BY Bm25Sizes DEF Channel
<1>1. Ours(Bm25Reader, <<"read_doc_dict", c>>) = {}
  <2>1. ASSUME NEW s \in Bm25Chan, Bm25Reader[s] = <<"read_doc_dict", c>> PROVE s \in {}
    BY <2>1, ReaderCases
  <2>2. \A s \in {} : s \in Bm25Chan /\ Bm25Reader[s] = <<"read_doc_dict", c>>
    BY <1>0, AreStreams, ReaderOf, ChainIn
  <2> QED
    BY <2>1, <2>2, ReaderOf DEF Ours
<1>2. Ours(Bm25Reader, <<"core", c>>) = CoreIn(c)
  <2>1. ASSUME NEW s \in Bm25Chan, Bm25Reader[s] = <<"core", c>> PROVE s \in CoreIn(c)
    BY <2>1, ReaderCases
  <2>2. \A s \in CoreIn(c) : s \in Bm25Chan /\ Bm25Reader[s] = <<"core", c>>
    BY <1>0, AreStreams, ReaderOf, ChainIn DEF CoreIn
  <2> QED
    BY <2>1, <2>2, ReaderOf DEF Ours
<1>3. Ours(Bm25Reader, <<"idf", c>>) = {<<"df_t", c>>}
  <2>1. ASSUME NEW s \in Bm25Chan, Bm25Reader[s] = <<"idf", c>> PROVE s \in {<<"df_t", c>>}
    BY <2>1, ReaderCases
  <2>2. \A s \in {<<"df_t", c>>} : s \in Bm25Chan /\ Bm25Reader[s] = <<"idf", c>>
    BY <1>0, AreStreams, ReaderOf, ChainIn
  <2> QED
    BY <2>1, <2>2, ReaderOf DEF Ours
<1>4. Ours(Bm25Reader, <<"tf_weight", c>>) = {<<"f", c>>}
  <2>1. ASSUME NEW s \in Bm25Chan, Bm25Reader[s] = <<"tf_weight", c>> PROVE s \in {<<"f", c>>}
    BY <2>1, ReaderCases
  <2>2. \A s \in {<<"f", c>>} : s \in Bm25Chan /\ Bm25Reader[s] = <<"tf_weight", c>>
    BY <1>0, AreStreams, ReaderOf, ChainIn
  <2> QED
    BY <2>1, <2>2, ReaderOf DEF Ours
<1>5. Ours(Bm25Reader, <<"score_mul", c>>) = {<<"idf", c>>, <<"tf_weight", c>>}
  <2>1. ASSUME NEW s \in Bm25Chan, Bm25Reader[s] = <<"score_mul", c>> PROVE s \in {<<"idf", c>>, <<"tf_weight", c>>}
    BY <2>1, ReaderCases
  <2>2. \A s \in {<<"idf", c>>, <<"tf_weight", c>>} : s \in Bm25Chan /\ Bm25Reader[s] = <<"score_mul", c>>
    BY <1>0, AreStreams, ReaderOf, ChainIn
  <2> QED
    BY <2>1, <2>2, ReaderOf DEF Ours
<1>6. Ours(Bm25Reader, <<"score_acc", c>>) = {<<"psum", c>>, <<"inst_out", c>>}
  <2>1. ASSUME NEW s \in Bm25Chan, Bm25Reader[s] = <<"score_acc", c>> PROVE s \in {<<"psum", c>>, <<"inst_out", c>>}
    BY <2>1, ReaderCases
  <2>2. \A s \in {<<"psum", c>>, <<"inst_out", c>>} : s \in Bm25Chan /\ Bm25Reader[s] = <<"score_acc", c>>
    BY <1>0, AreStreams, ReaderOf, ChainIn
  <2> QED
    BY <2>1, <2>2, ReaderOf DEF Ours
<1> QED
  BY <1>1, <1>2, <1>3, <1>4, <1>5, <1>6

(* ... and the order in which all of it can happen.                         *)

Chain(ch, m) == Loop(Channels + 1, LAMBDA c : Send(<<ch, c>>, m))
Row(c, m) ==
    Send(<<"doc", c>>, m) \odot Send(<<"df_t", c>>, m) \odot Send(<<"f", c>>, m)
    \odot Send(<<"idf", c>>, m) \odot Send(<<"tf_weight", c>>, m) \odot Send(<<"psum", c>>, m)
Rows(inst, b, c) == Loop(inst[b], LAMBDA i : Row(c, <<b, i>>))
Scored(inst, b, c) ==
    Send(<<"inst_out", c>>, <<b>>) \odot Rows(inst, b, c)
    \odot Send(<<"score", c>>, <<b, c>>) \odot Send(<<"merged", 0>>, <<b, c>>)
Batch(inst, b) == Chain("inst", <<b>>) \odot Loop(Channels, LAMBDA c : Scored(inst, b, c))
Frequencies == Loop(DfVecs, LAMBDA i : Chain("df", <<i>>))
QueryVectors == Loop(QueryVecs, LAMBDA i : Chain("query", <<i>>))
Batches(inst) == Loop(Len(inst), LAMBDA b : Batch(inst, b))
BestIds == Loop(KPacks, LAMBDA i : Send(<<"topk_id", 0>>, <<i>>))
Bm25Plan(inst) == Frequencies \odot QueryVectors \odot Batches(inst) \odot BestIds

(* The streams of its pieces. *)
LinksOf(ch) == {<<ch, j>> : j \in 1 .. Channels + 1}
RowStreams(c) == {<<"doc", c>>, <<"df_t", c>>, <<"f", c>>, <<"idf", c>>, <<"tf_weight", c>>, <<"psum", c>>}
Around(c) == RowStreams(c) \cup {<<"inst_out", c>>, <<"score", c>>, <<"merged", 0>>}
OfBatches == LinksOf("inst") \cup UNION {Around(c) : c \in Channel}
Outside(o, i, C) == \A s \in C : s \notin o /\ s \notin i

LEMMA IdleOutside ==
    ASSUME NEW o, NEW i, NEW C, NEW t, OnStreams(C, t), Outside(o, i, C)
    PROVE  IsPart(o, i, t, <<>>)
  BY IdleOn DEF Outside

LEMMA WiderOn ==
    ASSUME NEW C, NEW D, C \subseteq D, NEW t, OnStreams(C, t)
    PROVE  OnStreams(D, t)
  BY DEF OnStreams

LEMMA ChainOn ==
    ASSUME Bm25Assumption, NEW ch, NEW m
    PROVE  OnStreams(LinksOf(ch), Chain(ch, m))
<1>1. PICK q : q = [c \in 1 .. Channels + 1 |-> Send(<<ch, c>>, m)]
  OBVIOUS
<1>2. ASSUME NEW c \in 1 .. Channels + 1 PROVE OnStreams(LinksOf(ch), q[c])
  <2>1. PICK s : s = <<ch, c>>
    OBVIOUS
  <2>2. s \in LinksOf(ch)
    BY <2>1 DEF LinksOf
  <2>3. OnStreams(LinksOf(ch), Send(s, m))
    BY <2>2, SendOn
  <2> QED
    BY <1>1, <2>1, <2>3
<1>3. Chain(ch, m) = InTurn(Channels + 1, q)
  BY <1>1 DEF Chain, Loop
<1> QED
  BY <1>2, <1>3, Bm25Sizes, TurnsOn

LEMMA SendsOn ==
    ASSUME NEW C
    PROVE  \A s \in C : \A m : OnStreams(C, Send(s, m))
  BY SendOn

LEMMA RowOn ==
    ASSUME NEW c, NEW m
    PROVE  OnStreams(RowStreams(c), Row(c, m))
<1>1. PICK C : C = RowStreams(c)
  OBVIOUS
<1>2. /\ <<"doc", c>> \in C /\ <<"df_t", c>> \in C /\ <<"f", c>> \in C /\ <<"idf", c>> \in C
      /\ <<"tf_weight", c>> \in C /\ <<"psum", c>> \in C
  BY <1>1 DEF RowStreams
<1>3. /\ OnStreams(C, Send(<<"doc", c>>, m)) /\ OnStreams(C, Send(<<"df_t", c>>, m))
      /\ OnStreams(C, Send(<<"f", c>>, m)) /\ OnStreams(C, Send(<<"idf", c>>, m))
      /\ OnStreams(C, Send(<<"tf_weight", c>>, m)) /\ OnStreams(C, Send(<<"psum", c>>, m))
  BY <1>2, SendsOn
<1> QED
  BY <1>1, <1>3, JoinOn DEF Row

LEMMA RowsOn ==
    ASSUME NEW inst, NEW b, inst[b] \in Nat, NEW c
    PROVE  OnStreams(RowStreams(c), Rows(inst, b, c))
<1>1. PICK q : q = [j \in 1 .. inst[b] |-> Row(c, <<b, j>>)]
  OBVIOUS
<1>2. \A j \in 1 .. inst[b] : OnStreams(RowStreams(c), q[j])
  BY <1>1, RowOn
<1>3. Rows(inst, b, c) = InTurn(inst[b], q)
  BY <1>1 DEF Rows, Loop
<1> QED
  BY <1>2, <1>3, TurnsOn

LEMMA ScoredOn ==
    ASSUME NEW inst, NEW b, inst[b] \in Nat, NEW c
    PROVE  OnStreams(Around(c), Scored(inst, b, c))
<1>1. PICK C : C = Around(c)
  OBVIOUS
<1>2. /\ <<"inst_out", c>> \in C /\ <<"score", c>> \in C /\ <<"merged", 0>> \in C
      /\ RowStreams(c) \subseteq C
  BY <1>1 DEF Around
<1>3. /\ OnStreams(C, Send(<<"inst_out", c>>, <<b>>)) /\ OnStreams(C, Send(<<"score", c>>, <<b, c>>))
      /\ OnStreams(C, Send(<<"merged", 0>>, <<b, c>>))
  BY <1>2, SendsOn
<1>4. OnStreams(C, Rows(inst, b, c))
  BY <1>2, RowsOn, WiderOn
<1> QED
  BY <1>1, <1>3, <1>4, JoinOn DEF Scored

LEMMA BatchOn ==
    ASSUME Bm25Assumption, NEW inst, NEW b, inst[b] \in Nat
    PROVE  OnStreams(OfBatches, Batch(inst, b))
<1>1. PICK q : q = [c \in 1 .. Channels |-> Scored(inst, b, c)]
  OBVIOUS
<1>2. ASSUME NEW c \in 1 .. Channels PROVE OnStreams(OfBatches, q[c])
  <2>1. Around(c) \subseteq OfBatches
    BY DEF OfBatches, Channel
  <2>2. OnStreams(OfBatches, Scored(inst, b, c))
    BY <2>1, ScoredOn, WiderOn
  <2> QED
    BY <1>1, <2>2
<1>3. OnStreams(OfBatches, InTurn(Channels, q))
  BY <1>2, Bm25Sizes, TurnsOn
<1>4. LinksOf("inst") \subseteq OfBatches
  BY DEF OfBatches
<1>5. OnStreams(OfBatches, Chain("inst", <<b>>))
  BY <1>4, ChainOn, WiderOn
<1>6. Batch(inst, b) = Chain("inst", <<b>>) \odot InTurn(Channels, q)
  BY <1>1 DEF Batch, Loop
<1> QED
  BY <1>3, <1>5, <1>6, JoinOn

LEMMA BatchesOn ==
    ASSUME Bm25Assumption, NEW inst \in Seq(Nat)
    PROVE  OnStreams(OfBatches, Batches(inst))
<1>1. PICK q : q = [b \in 1 .. Len(inst) |-> Batch(inst, b)]
  OBVIOUS
<1>2. \A b \in 1 .. Len(inst) : OnStreams(OfBatches, q[b])
  BY <1>1, BatchOn
<1>3. Batches(inst) = InTurn(Len(inst), q)
  BY <1>1 DEF Batches, Loop
<1> QED
  BY <1>2, <1>3, TurnsOn

LEMMA FrequenciesOn ==
    ASSUME Bm25Assumption
    PROVE  OnStreams(LinksOf("df"), Frequencies)
<1>1. PICK q : q = [j \in 1 .. DfVecs |-> Chain("df", <<j>>)]
  OBVIOUS
<1>2. \A j \in 1 .. DfVecs : OnStreams(LinksOf("df"), q[j])
  BY <1>1, ChainOn
<1>3. Frequencies = InTurn(DfVecs, q)
  BY <1>1 DEF Frequencies, Loop
<1> QED
  BY <1>2, <1>3, Bm25Sizes, TurnsOn

LEMMA QueryOn ==
    ASSUME Bm25Assumption
    PROVE  OnStreams(LinksOf("query"), QueryVectors)
<1>1. PICK q : q = [j \in 1 .. QueryVecs |-> Chain("query", <<j>>)]
  OBVIOUS
<1>2. \A j \in 1 .. QueryVecs : OnStreams(LinksOf("query"), q[j])
  BY <1>1, ChainOn
<1>3. QueryVectors = InTurn(QueryVecs, q)
  BY <1>1 DEF QueryVectors, Loop
<1> QED
  BY <1>2, <1>3, Bm25Sizes, TurnsOn

LEMMA BestOn ==
    ASSUME Bm25Assumption
    PROVE  OnStreams({<<"topk_id", 0>>}, BestIds)
<1>1. PICK q, s : q = [j \in 1 .. KPacks |-> Send(<<"topk_id", 0>>, <<j>>)] /\ s = <<"topk_id", 0>>
  OBVIOUS
<1>2. \A j \in 1 .. KPacks : OnStreams({s}, q[j])
  <2>1. \A j \in 1 .. KPacks : OnStreams({s}, Send(s, <<j>>))
    BY SendOn
  <2> QED
    BY <1>1, <2>1
<1>3. BestIds = InTurn(KPacks, q)
  BY <1>1 DEF BestIds, Loop
<1> QED
  BY <1>1, <1>2, <1>3, Bm25Sizes, TurnsOn

LEMMA Bm25PlanOn ==
    ASSUME Bm25Assumption, NEW inst \in Seq(Nat)
    PROVE  OnStreams(Bm25Chan, Bm25Plan(inst))
<1>1. LinksOf("df") \subseteq Bm25Chan /\ LinksOf("query") \subseteq Bm25Chan
      /\ LinksOf("inst") \subseteq Bm25Chan
  BY AreStreams DEF LinksOf
<1>2. \A c \in Channel : Around(c) \subseteq Bm25Chan
  BY AreStreams DEF Around, RowStreams
<1>3. OfBatches \subseteq Bm25Chan
  BY <1>1, <1>2 DEF OfBatches
<1>4. {<<"topk_id", 0>>} \subseteq Bm25Chan
  BY AreStreams
<1>5. OnStreams(Bm25Chan, Frequencies)
  BY <1>1, FrequenciesOn, WiderOn
<1>6. OnStreams(Bm25Chan, QueryVectors)
  BY <1>1, QueryOn, WiderOn
<1>7. OnStreams(Bm25Chan, Batches(inst))
  BY <1>3, BatchesOn, WiderOn
<1>8. OnStreams(Bm25Chan, BestIds)
  BY <1>4, BestOn, WiderOn
<1> QED
  BY <1>5, <1>6, <1>7, <1>8, JoinOn DEF Bm25Plan

(* A task's part of the plan, from its parts of the pieces. *)
LEMMA Bm25PlanParts ==
    ASSUME NEW o, NEW i, NEW inst, NEW d, IsPart(o, i, Frequencies, d),
           NEW u, IsPart(o, i, QueryVectors, u), NEW w, IsPart(o, i, Batches(inst), w),
           NEW s, IsPart(o, i, BestIds, s)
    PROVE  IsPart(o, i, Bm25Plan(inst), d \odot u \odot w \odot s)
<1>1. IsPart(o, i, Frequencies \odot QueryVectors, d \odot u)
  BY PartJoin
<1>2. IsPart(o, i, Frequencies \odot QueryVectors \odot Batches(inst), d \odot u \odot w)
  BY <1>1, PartJoin
<1> QED
  BY <1>2, PartJoin DEF Bm25Plan

LEMMA BatchesPart ==
    ASSUME NEW o, NEW i, NEW inst \in Seq(Nat),
           NEW p, \A b \in 1 .. Len(inst) : IsPart(o, i, Batch(inst, b), p[b])
    PROVE  IsPart(o, i, Batches(inst), InTurn(Len(inst), p))
<1>1. PICK q : q = [b \in 1 .. Len(inst) |-> Batch(inst, b)]
  OBVIOUS
<1>2. \A b \in 1 .. Len(inst) : IsPart(o, i, q[b], p[b])
  BY <1>1
<1>3. Batches(inst) = InTurn(Len(inst), q)
  BY <1>1 DEF Batches, Loop
<1>4. Len(inst) \in Nat
  OBVIOUS
<1> QED
  BY <1>2, <1>3, <1>4, PartTurns

LEMMA FrequenciesOnly ==
    ASSUME Bm25Assumption, NEW o, NEW i, NEW inst \in Seq(Nat), NEW d, IsPart(o, i, Frequencies, d),
           Outside(o, i, LinksOf("query")), Outside(o, i, OfBatches), Outside(o, i, {<<"topk_id", 0>>})
    PROVE  IsPart(o, i, Bm25Plan(inst), d)
<1>1. IsPart(o, i, QueryVectors, <<>>)
  BY QueryOn, IdleOutside
<1>2. IsPart(o, i, Batches(inst), <<>>)
  BY BatchesOn, IdleOutside
<1>3. IsPart(o, i, BestIds, <<>>)
  BY BestOn, IdleOutside
<1>4. IsPart(o, i, Bm25Plan(inst), d \odot <<>> \odot <<>> \odot <<>>)
  BY <1>1, <1>2, <1>3, Bm25PlanParts
<1>5. d \odot <<>> = d
  BY Join, EmptyIsSeq DEF IsPart
<1> QED
  BY <1>4, <1>5

LEMMA QueryOnly ==
    ASSUME Bm25Assumption, NEW o, NEW i, NEW inst \in Seq(Nat), NEW d, IsPart(o, i, QueryVectors, d),
           Outside(o, i, LinksOf("df")), Outside(o, i, OfBatches), Outside(o, i, {<<"topk_id", 0>>})
    PROVE  IsPart(o, i, Bm25Plan(inst), d)
<1>1. IsPart(o, i, Frequencies, <<>>)
  BY FrequenciesOn, IdleOutside
<1>2. IsPart(o, i, Batches(inst), <<>>)
  BY BatchesOn, IdleOutside
<1>3. IsPart(o, i, BestIds, <<>>)
  BY BestOn, IdleOutside
<1>4. IsPart(o, i, Bm25Plan(inst), <<>> \odot d \odot <<>> \odot <<>>)
  BY <1>1, <1>2, <1>3, Bm25PlanParts
<1>5. d \odot <<>> = d /\ <<>> \odot d = d
  BY Join, EmptyIsSeq DEF IsPart
<1> QED
  BY <1>4, <1>5

LEMMA BestOnly ==
    ASSUME Bm25Assumption, NEW o, NEW i, NEW inst \in Seq(Nat), NEW d, IsPart(o, i, BestIds, d),
           Outside(o, i, LinksOf("df")), Outside(o, i, LinksOf("query")), Outside(o, i, OfBatches)
    PROVE  IsPart(o, i, Bm25Plan(inst), d)
<1>1. IsPart(o, i, Frequencies, <<>>)
  BY FrequenciesOn, IdleOutside
<1>2. IsPart(o, i, Batches(inst), <<>>)
  BY BatchesOn, IdleOutside
<1>3. IsPart(o, i, QueryVectors, <<>>)
  BY QueryOn, IdleOutside
<1>4. IsPart(o, i, Bm25Plan(inst), <<>> \odot <<>> \odot <<>> \odot d)
  BY <1>1, <1>2, <1>3, Bm25PlanParts
<1>5. <<>> \odot <<>> = <<>> /\ <<>> \odot d = d
  BY Join, EmptyIsSeq DEF IsPart
<1> QED
  BY <1>4, <1>5

LEMMA BatchesOnly ==
    ASSUME Bm25Assumption, NEW o, NEW i, NEW inst \in Seq(Nat), NEW p,
           \A b \in 1 .. Len(inst) : IsPart(o, i, Batch(inst, b), p[b]),
           Outside(o, i, LinksOf("df")), Outside(o, i, LinksOf("query")),
           Outside(o, i, {<<"topk_id", 0>>})
    PROVE  IsPart(o, i, Bm25Plan(inst), InTurn(Len(inst), p))
<1>1. IsPart(o, i, Frequencies, <<>>)
  BY FrequenciesOn, IdleOutside
<1>2. IsPart(o, i, QueryVectors, <<>>)
  BY QueryOn, IdleOutside
<1>3. IsPart(o, i, BestIds, <<>>)
  BY BestOn, IdleOutside
<1>4. PICK d : d = InTurn(Len(inst), p)
  OBVIOUS
<1>5. IsPart(o, i, Batches(inst), d)
  BY <1>4, BatchesPart
<1>6. IsPart(o, i, Bm25Plan(inst), <<>> \odot <<>> \odot d \odot <<>>)
  BY <1>1, <1>2, <1>3, <1>5, Bm25PlanParts
<1>7. <<>> \odot <<>> = <<>> /\ <<>> \odot d = d /\ d \odot <<>> = d
  BY <1>5, Join, EmptyIsSeq DEF IsPart
<1> QED
  BY <1>4, <1>6, <1>7

(* ... of a batch, for a task of channel c, ... *)
LEMMA BatchPart ==
    ASSUME Bm25Assumption, NEW o, NEW i, NEW inst, NEW b, inst[b] \in Nat, NEW c \in Channel,
           NEW x, IsPart(o, i, Chain("inst", <<b>>), x),
           NEW s, IsPart(o, i, Scored(inst, b, c), s),
           \A d \in Channel : d # c => Outside(o, i, Around(d))
    PROVE  IsPart(o, i, Batch(inst, b), x \odot s)
<1>1. PICK q : q = [d \in 1 .. Channels |-> Scored(inst, b, d)]
  OBVIOUS
<1>2. ASSUME NEW d \in 1 .. Channels, d # c PROVE IsPart(o, i, q[d], <<>>)
  <2>1. Outside(o, i, Around(d))
    BY <1>2 DEF Channel
  <2>2. IsPart(o, i, Scored(inst, b, d), <<>>)
    BY <2>1, ScoredOn, IdleOutside
  <2> QED
    BY <1>1, <2>2
<1>3. c \in 1 .. Channels /\ IsPart(o, i, q[c], s)
  BY <1>1 DEF Channel
<1>4. IsPart(o, i, InTurn(Channels, q), s)
  BY <1>2, <1>3, Bm25Sizes, PartAt
<1>5. Batch(inst, b) = Chain("inst", <<b>>) \odot InTurn(Channels, q)
  BY <1>1 DEF Batch, Loop
<1> QED
  BY <1>4, <1>5, PartJoin

(* ... of a batch's documents in one channel, ... *)
LEMMA ScoredPart ==
    ASSUME NEW o, NEW i, NEW inst, NEW b, NEW c,
           NEW a, IsPart(o, i, Send(<<"inst_out", c>>, <<b>>), a),
           NEW r, IsPart(o, i, Rows(inst, b, c), r),
           NEW e, IsPart(o, i, Send(<<"score", c>>, <<b, c>>), e),
           NEW g, IsPart(o, i, Send(<<"merged", 0>>, <<b, c>>), g)
    PROVE  IsPart(o, i, Scored(inst, b, c), a \odot r \odot e \odot g)
<1>1. IsPart(o, i, Send(<<"inst_out", c>>, <<b>>) \odot Rows(inst, b, c), a \odot r)
  BY PartJoin
<1>2. IsPart(o, i, Send(<<"inst_out", c>>, <<b>>) \odot Rows(inst, b, c)
                   \odot Send(<<"score", c>>, <<b, c>>), a \odot r \odot e)
  BY <1>1, PartJoin
<1> QED
  BY <1>2, PartJoin DEF Scored

LEMMA RowsPart ==
    ASSUME NEW o, NEW i, NEW inst, NEW b, inst[b] \in Nat, NEW c,
           NEW p, \A j \in 1 .. inst[b] : IsPart(o, i, Row(c, <<b, j>>), p[j])
    PROVE  IsPart(o, i, Rows(inst, b, c), InTurn(inst[b], p))
<1>1. PICK q : q = [j \in 1 .. inst[b] |-> Row(c, <<b, j>>)]
  OBVIOUS
<1>2. \A j \in 1 .. inst[b] : IsPart(o, i, q[j], p[j])
  BY <1>1
<1>3. Rows(inst, b, c) = InTurn(inst[b], q)
  BY <1>1 DEF Rows, Loop
<1> QED
  BY <1>2, <1>3, PartTurns

(* ... and of a row. *)
LEMMA RowPart ==
    ASSUME NEW o, NEW i, NEW c, NEW m,
           NEW a1, IsPart(o, i, Send(<<"doc", c>>, m), a1), NEW a2, IsPart(o, i, Send(<<"df_t", c>>, m), a2),
           NEW a3, IsPart(o, i, Send(<<"f", c>>, m), a3), NEW a4, IsPart(o, i, Send(<<"idf", c>>, m), a4),
           NEW a5, IsPart(o, i, Send(<<"tf_weight", c>>, m), a5),
           NEW a6, IsPart(o, i, Send(<<"psum", c>>, m), a6)
    PROVE  IsPart(o, i, Row(c, m), a1 \odot a2 \odot a3 \odot a4 \odot a5 \odot a6)
<1>1. PICK s1, s2, s3, s4, s5, s6 :
        /\ s1 = Send(<<"doc", c>>, m) /\ s2 = Send(<<"df_t", c>>, m) /\ s3 = Send(<<"f", c>>, m)
        /\ s4 = Send(<<"idf", c>>, m) /\ s5 = Send(<<"tf_weight", c>>, m) /\ s6 = Send(<<"psum", c>>, m)
  OBVIOUS
<1>2. IsPart(o, i, s1 \odot s2, a1 \odot a2)
  BY <1>1, PartJoin
<1>3. IsPart(o, i, s1 \odot s2 \odot s3, a1 \odot a2 \odot a3)
  BY <1>1, <1>2, PartJoin
<1>4. IsPart(o, i, s1 \odot s2 \odot s3 \odot s4, a1 \odot a2 \odot a3 \odot a4)
  BY <1>1, <1>3, PartJoin
<1>5. IsPart(o, i, s1 \odot s2 \odot s3 \odot s4 \odot s5, a1 \odot a2 \odot a3 \odot a4 \odot a5)
  BY <1>1, <1>4, PartJoin
<1>6. IsPart(o, i, s1 \odot s2 \odot s3 \odot s4 \odot s5 \odot s6,
             a1 \odot a2 \odot a3 \odot a4 \odot a5 \odot a6)
  BY <1>1, <1>5, PartJoin
<1>7. Row(c, m) = s1 \odot s2 \odot s3 \odot s4 \odot s5 \odot s6
  BY <1>1 DEF Row
<1> QED
  BY <1>6, <1>7

(* Streams of one channel are not those of another. *)
LEMMA OwnChannel ==
    ASSUME NEW c \in Channel, NEW o, NEW i, o \cup i \subseteq Around(c), <<"merged", 0>> \notin o \cup i
    PROVE  /\ \A d \in Channel : d # c => Outside(o, i, Around(d))
           /\ \A ch \in {"df", "query", "inst"} : Outside(o, i, LinksOf(ch))
           /\ Outside(o, i, {<<"topk_id", 0>>})
<1>1. ASSUME NEW s \in o \cup i
      PROVE  /\ s[2] = c
             /\ s[1] \in {"doc", "df_t", "f", "idf", "tf_weight", "psum", "inst_out", "score"}
  BY DEF Around, RowStreams
<1>2. ASSUME NEW d \in Channel, d # c PROVE Outside(o, i, Around(d))
  <2>1. \A s \in Around(d) : s = <<"merged", 0>> \/ s[2] = d
    BY DEF Around, RowStreams
  <2> QED
    BY <1>1, <1>2, <2>1 DEF Outside
<1>3. ASSUME NEW ch \in {"df", "query", "inst"} PROVE Outside(o, i, LinksOf(ch))
  <2>1. \A s \in LinksOf(ch) : s[1] = ch
    BY DEF LinksOf
  <2> QED
    BY <1>1, <2>1 DEF Outside
<1>4. Outside(o, i, {<<"topk_id", 0>>})
  <2>1. \A s \in {<<"topk_id", 0>>} : s[1] = "topk_id"
    OBVIOUS
  <2> QED
    BY <1>1, <2>1 DEF Outside
<1> QED
  BY <1>2, <1>3, <1>4

(* A task that takes part in the rows of channel c only: n(b, j), what it   *)
(* does of row j of batch b.                                                *)
LEMMA RowsOnly ==
    ASSUME Bm25Assumption, NEW inst \in Seq(Nat), NEW c \in Channel, NEW o, NEW i,
           o \cup i \subseteq RowStreams(c),
           NEW p, \A b \in 1 .. Len(inst) : \A j \in 1 .. inst[b] :
                     IsPart(o, i, Row(c, <<b, j>>), p[b][j]),
           NEW g, \A b \in 1 .. Len(inst) : g[b] = InTurn(inst[b], p[b])
    PROVE  IsPart(o, i, Bm25Plan(inst), InTurn(Len(inst), g))
<1>1. \A s \in RowStreams(c) :
           s # <<"merged", 0>> /\ s # <<"inst_out", c>> /\ s # <<"score", c>>
  BY DEF RowStreams
<1>2. /\ o \cup i \subseteq Around(c) /\ <<"merged", 0>> \notin o \cup i
      /\ <<"inst_out", c>> \notin o \cup i /\ <<"score", c>> \notin o \cup i
  BY <1>1 DEF Around
<1>3. ASSUME NEW b \in 1 .. Len(inst) PROVE IsPart(o, i, Batch(inst, b), g[b])
  <2>1. inst[b] \in Nat
    OBVIOUS
  <2>2. PICK r : r = p[b]
    OBVIOUS
  <2>3. IsPart(o, i, Rows(inst, b, c), InTurn(inst[b], r))
    BY <2>1, <2>2, RowsPart
  <2>4. IsPart(o, i, Rows(inst, b, c), g[b])
    BY <2>2, <2>3
  <2>5. PICK s, t, u : s = <<"inst_out", c>> /\ t = <<"score", c>> /\ u = <<"merged", 0>>
    OBVIOUS
  <2>6. s \notin o /\ s \notin i /\ t \notin o /\ t \notin i /\ u \notin o /\ u \notin i
    BY <1>2, <2>5
  <2>7. /\ IsPart(o, i, Send(s, <<b>>), <<>>) /\ IsPart(o, i, Send(t, <<b, c>>), <<>>)
        /\ IsPart(o, i, Send(u, <<b, c>>), <<>>)
    BY <2>6, PartNone
  <2>8. IsPart(o, i, Scored(inst, b, c), <<>> \odot g[b] \odot <<>> \odot <<>>)
    BY <2>4, <2>5, <2>7, ScoredPart
  <2>9. <<>> \odot g[b] = g[b] /\ g[b] \odot <<>> = g[b]
    BY <2>4, Join, EmptyIsSeq DEF IsPart
  <2>10. IsPart(o, i, Scored(inst, b, c), g[b])
    BY <2>8, <2>9
  <2>11. IsPart(o, i, Chain("inst", <<b>>), <<>>)
    BY <1>2, OwnChannel, ChainOn, IdleOutside
  <2>12. \A d \in Channel : d # c => Outside(o, i, Around(d))
    BY <1>2, OwnChannel
  <2>13. IsPart(o, i, Batch(inst, b), <<>> \odot g[b])
    BY <2>1, <2>10, <2>11, <2>12, BatchPart
  <2> QED
    BY <2>9, <2>13
<1>4. /\ Outside(o, i, LinksOf("df")) /\ Outside(o, i, LinksOf("query"))
      /\ Outside(o, i, {<<"topk_id", 0>>})
  BY <1>2, OwnChannel
<1> QED
  BY <1>3, <1>4, BatchesOnly

(* What a task does of one exchange. *)
EndOf(o, i, s, m) == IF s \in o THEN W(s, m) ELSE IF s \in i THEN R(s, m) ELSE <<>>

LEMMA SendPart ==
    ASSUME NEW o, NEW i, NEW s, NEW m
    PROVE  IsPart(o, i, Send(s, m), EndOf(o, i, s, m))
<1>1. CASE s \in o
  BY <1>1, PartWrite DEF EndOf
<1>2. CASE s \notin o /\ s \in i
  BY <1>2, PartRead DEF EndOf
<1>3. CASE s \notin o /\ s \notin i
  BY <1>3, PartNone DEF EndOf
<1> QED
  BY <1>1, <1>2, <1>3

LEMMA RowEnds ==
    ASSUME NEW o, NEW i, NEW c, NEW m
    PROVE  IsPart(o, i, Row(c, m),
                  EndOf(o, i, <<"doc", c>>, m) \odot EndOf(o, i, <<"df_t", c>>, m)
                  \odot EndOf(o, i, <<"f", c>>, m) \odot EndOf(o, i, <<"idf", c>>, m)
                  \odot EndOf(o, i, <<"tf_weight", c>>, m) \odot EndOf(o, i, <<"psum", c>>, m))
  BY SendPart, RowPart

LEMMA OneOp ==
    ASSUME NEW s, NEW m
    PROVE  /\ IsSeq(R(s, m)) /\ IsSeq(W(s, m))
           /\ R(s, m) \odot <<>> = R(s, m) /\ <<>> \odot R(s, m) = R(s, m)
           /\ W(s, m) \odot <<>> = W(s, m) /\ <<>> \odot W(s, m) = W(s, m)
           /\ <<>> \odot <<>> = <<>>
<1>1. IsSeq(R(s, m)) /\ IsSeq(W(s, m))
  BY OneIsSeq DEF R, W
<1> QED
  BY <1>1, Join, EmptyIsSeq

LEMMA ReadDocPart ==
    ASSUME Bm25Assumption, NEW inst \in Seq(Nat), NEW c \in Channel
    PROVE  IsPart({<<"doc", c>>}, {}, Bm25Plan(inst), ReadDocDict(c, inst))
<1>1. PICK o, i, w : o = {<<"doc", c>>} /\ i = {} /\ w = <<"doc", c>>
  OBVIOUS
<1>2. ASSUME NEW m PROVE IsPart(o, i, Row(c, m), W(w, m))
  <2>1. /\ EndOf(o, i, <<"doc", c>>, m) = W(w, m) /\ EndOf(o, i, <<"df_t", c>>, m) = <<>>
        /\ EndOf(o, i, <<"f", c>>, m) = <<>> /\ EndOf(o, i, <<"idf", c>>, m) = <<>>
        /\ EndOf(o, i, <<"tf_weight", c>>, m) = <<>> /\ EndOf(o, i, <<"psum", c>>, m) = <<>>
    BY <1>1 DEF EndOf
  <2>2. IsPart(o, i, Row(c, m), W(w, m) \odot <<>> \odot <<>> \odot <<>> \odot <<>> \odot <<>>)
    BY <2>1, RowEnds
  <2> QED
    BY <2>2, OneOp
<1>3. PICK p : p = [b \in 1 .. Len(inst) |-> [j \in 1 .. inst[b] |-> W(w, <<b, j>>)]]
  OBVIOUS
<1>4. PICK g : g = [b \in 1 .. Len(inst) |-> InTurn(inst[b], [j \in 1 .. inst[b] |-> W(w, <<b, j>>)])]
  OBVIOUS
<1>5. \A b \in 1 .. Len(inst) : \A j \in 1 .. inst[b] : IsPart(o, i, Row(c, <<b, j>>), p[b][j])
  BY <1>2, <1>3
<1>6. \A b \in 1 .. Len(inst) : g[b] = InTurn(inst[b], p[b])
  BY <1>3, <1>4
<1>7. o \cup i \subseteq RowStreams(c)
  BY <1>1 DEF RowStreams
<1>8. IsPart(o, i, Bm25Plan(inst), InTurn(Len(inst), g))
  BY <1>5, <1>6, <1>7, RowsOnly
<1>9. ReadDocDict(c, inst) = InTurn(Len(inst), g)
  BY <1>1, <1>4 DEF ReadDocDict, EachRow, Loop
<1> QED
  BY <1>1, <1>8, <1>9

(* idf and tf_weight: one read, one write a row. *)
LEMMA TwoEnds ==
    ASSUME Bm25Assumption, NEW inst \in Seq(Nat), NEW c \in Channel, NEW r, NEW w,
           \/ r = <<"df_t", c>> /\ w = <<"idf", c>>
           \/ r = <<"f", c>> /\ w = <<"tf_weight", c>>,
           NEW m
    PROVE  IsPart({w}, {r}, Row(c, m), R(r, m) \odot W(w, m))
<1>1. PICK o, i : o = {w} /\ i = {r}
  OBVIOUS
<1>2. IsSeq(R(r, m) \odot W(w, m)) /\ R(r, m) \odot W(w, m) \odot <<>> = R(r, m) \odot W(w, m)
  <2>1. IsSeq(R(r, m) \odot W(w, m))
    BY OneOp, Join
  <2> QED
    BY <2>1, EmptyIsSeq, Join
<1>3. CASE r = <<"df_t", c>> /\ w = <<"idf", c>>
  <2>1. /\ EndOf(o, i, <<"doc", c>>, m) = <<>> /\ EndOf(o, i, <<"df_t", c>>, m) = R(r, m)
        /\ EndOf(o, i, <<"f", c>>, m) = <<>> /\ EndOf(o, i, <<"idf", c>>, m) = W(w, m)
        /\ EndOf(o, i, <<"tf_weight", c>>, m) = <<>> /\ EndOf(o, i, <<"psum", c>>, m) = <<>>
    BY <1>1, <1>3 DEF EndOf
  <2>2. IsPart(o, i, Row(c, m), <<>> \odot R(r, m) \odot <<>> \odot W(w, m) \odot <<>> \odot <<>>)
    BY <2>1, RowEnds
  <2> QED
    BY <1>1, <1>2, <2>2, OneOp
<1>4. CASE r = <<"f", c>> /\ w = <<"tf_weight", c>>
  <2>1. /\ EndOf(o, i, <<"doc", c>>, m) = <<>> /\ EndOf(o, i, <<"df_t", c>>, m) = <<>>
        /\ EndOf(o, i, <<"f", c>>, m) = R(r, m) /\ EndOf(o, i, <<"idf", c>>, m) = <<>>
        /\ EndOf(o, i, <<"tf_weight", c>>, m) = W(w, m) /\ EndOf(o, i, <<"psum", c>>, m) = <<>>
    BY <1>1, <1>4 DEF EndOf
  <2>2. IsPart(o, i, Row(c, m), <<>> \odot <<>> \odot R(r, m) \odot <<>> \odot W(w, m) \odot <<>>)
    BY <2>1, RowEnds
  <2> QED
    BY <1>1, <1>2, <2>2, OneOp
<1> QED
  BY <1>3, <1>4

Passing(r, w, inst) ==
    InTurn(Len(inst), [b \in 1 .. Len(inst) |->
        InTurn(inst[b], [j \in 1 .. inst[b] |-> R(r, <<b, j>>) \odot W(w, <<b, j>>)])])

LEMMA PassingPart ==
    ASSUME Bm25Assumption, NEW inst \in Seq(Nat), NEW c \in Channel, NEW r, NEW w,
           \/ r = <<"df_t", c>> /\ w = <<"idf", c>>
           \/ r = <<"f", c>> /\ w = <<"tf_weight", c>>
    PROVE  IsPart({w}, {r}, Bm25Plan(inst), Passing(r, w, inst))
<1>1. PICK o, i : o = {w} /\ i = {r}
  OBVIOUS
<1>2. \A m : IsPart(o, i, Row(c, m), R(r, m) \odot W(w, m))
  BY <1>1, TwoEnds
<1>3. PICK p : p = [b \in 1 .. Len(inst) |-> [j \in 1 .. inst[b] |-> R(r, <<b, j>>) \odot W(w, <<b, j>>)]]
  OBVIOUS
<1>4. PICK g : g = [b \in 1 .. Len(inst) |->
                 InTurn(inst[b], [j \in 1 .. inst[b] |-> R(r, <<b, j>>) \odot W(w, <<b, j>>)])]
  OBVIOUS
<1>5. \A b \in 1 .. Len(inst) : \A j \in 1 .. inst[b] : IsPart(o, i, Row(c, <<b, j>>), p[b][j])
  BY <1>2, <1>3
<1>6. \A b \in 1 .. Len(inst) : g[b] = InTurn(inst[b], p[b])
  BY <1>3, <1>4
<1>7. o \cup i \subseteq RowStreams(c)
  BY <1>1 DEF RowStreams
<1>8. IsPart(o, i, Bm25Plan(inst), InTurn(Len(inst), g))
  BY <1>5, <1>6, <1>7, RowsOnly
<1> QED
  BY <1>1, <1>4, <1>8 DEF Passing

LEMMA IdfPart ==
    ASSUME Bm25Assumption, NEW inst \in Seq(Nat), NEW c \in Channel
    PROVE  IsPart({<<"idf", c>>}, {<<"df_t", c>>}, Bm25Plan(inst), Idf(c, inst))
<1>1. Idf(c, inst) = Passing(<<"df_t", c>>, <<"idf", c>>, inst)
  BY DEF Idf, Passing, EachRow, Loop, \odot
<1>2. PICK r, w : r = <<"df_t", c>> /\ w = <<"idf", c>>
  OBVIOUS
<1>3. IsPart({w}, {r}, Bm25Plan(inst), Passing(r, w, inst))
  BY <1>2, PassingPart
<1> QED
  BY <1>1, <1>2, <1>3

LEMMA TfWeightPart ==
    ASSUME Bm25Assumption, NEW inst \in Seq(Nat), NEW c \in Channel
    PROVE  IsPart({<<"tf_weight", c>>}, {<<"f", c>>}, Bm25Plan(inst), TfWeight(c, inst))
<1>1. TfWeight(c, inst) = Passing(<<"f", c>>, <<"tf_weight", c>>, inst)
  BY DEF TfWeight, Passing, EachRow, Loop, \odot
<1>2. PICK r, w : r = <<"f", c>> /\ w = <<"tf_weight", c>>
  OBVIOUS
<1>3. IsPart({w}, {r}, Bm25Plan(inst), Passing(r, w, inst))
  BY <1>2, PassingPart
<1> QED
  BY <1>1, <1>2, <1>3

LEMMA ScoreMulPart ==
    ASSUME Bm25Assumption, NEW inst \in Seq(Nat), NEW c \in Channel
    PROVE  IsPart({<<"psum", c>>}, {<<"idf", c>>, <<"tf_weight", c>>}, Bm25Plan(inst), ScoreMul(c, inst))
<1>1. PICK o, i, r, s, w : /\ o = {w} /\ i = {r, s} /\ r = <<"idf", c>> /\ s = <<"tf_weight", c>>
                           /\ w = <<"psum", c>>
  OBVIOUS
<1>2. ASSUME NEW m PROVE IsPart(o, i, Row(c, m), R(r, m) \odot R(s, m) \odot W(w, m))
  <2>1. /\ EndOf(o, i, <<"doc", c>>, m) = <<>> /\ EndOf(o, i, <<"df_t", c>>, m) = <<>>
        /\ EndOf(o, i, <<"f", c>>, m) = <<>> /\ EndOf(o, i, <<"idf", c>>, m) = R(r, m)
        /\ EndOf(o, i, <<"tf_weight", c>>, m) = R(s, m) /\ EndOf(o, i, <<"psum", c>>, m) = W(w, m)
    BY <1>1 DEF EndOf
  <2>2. IsPart(o, i, Row(c, m), <<>> \odot <<>> \odot <<>> \odot R(r, m) \odot R(s, m) \odot W(w, m))
    BY <2>1, RowEnds
  <2> QED
    BY <2>2, OneOp
<1>3. PICK p : p = [b \in 1 .. Len(inst) |-> [j \in 1 .. inst[b] |->
                       R(r, <<b, j>>) \odot R(s, <<b, j>>) \odot W(w, <<b, j>>)]]
  OBVIOUS
<1>4. PICK g : g = [b \in 1 .. Len(inst) |-> InTurn(inst[b], [j \in 1 .. inst[b] |->
                       R(r, <<b, j>>) \odot R(s, <<b, j>>) \odot W(w, <<b, j>>)])]
  OBVIOUS
<1>5. \A b \in 1 .. Len(inst) : \A j \in 1 .. inst[b] : IsPart(o, i, Row(c, <<b, j>>), p[b][j])
  BY <1>2, <1>3
<1>6. \A b \in 1 .. Len(inst) : g[b] = InTurn(inst[b], p[b])
  BY <1>3, <1>4
<1>7. o \cup i \subseteq RowStreams(c)
  BY <1>1 DEF RowStreams
<1>8. IsPart(o, i, Bm25Plan(inst), InTurn(Len(inst), g))
  BY <1>5, <1>6, <1>7, RowsOnly
<1>9. ScoreMul(c, inst) = InTurn(Len(inst), g)
  BY <1>1, <1>4 DEF ScoreMul, EachRow, Loop, \odot
<1> QED
  BY <1>1, <1>8, <1>9

(* The two ends of a chain. *)
LEMMA ChainAt ==
    ASSUME Bm25Assumption, NEW o, NEW i, NEW ch, NEW k \in 1 .. Channels + 1,
           \A j \in 1 .. Channels + 1 : j # k => <<ch, j>> \notin o /\ <<ch, j>> \notin i, NEW m
    PROVE  IsPart(o, i, Chain(ch, m), EndOf(o, i, <<ch, k>>, m))
<1>1. PICK q : q = [j \in 1 .. Channels + 1 |-> Send(<<ch, j>>, m)]
  OBVIOUS
<1>2. ASSUME NEW j \in 1 .. Channels + 1, j # k PROVE IsPart(o, i, q[j], <<>>)
  <2>1. PICK s : s = <<ch, j>>
    OBVIOUS
  <2>2. IsPart(o, i, Send(s, m), <<>>)
    BY <1>2, <2>1, PartNone
  <2> QED
    BY <1>1, <2>1, <2>2
<1>3. PICK e : e = EndOf(o, i, <<ch, k>>, m)
  OBVIOUS
<1>4. IsPart(o, i, q[k], e)
  BY <1>1, <1>3, SendPart
<1>5. Chain(ch, m) = InTurn(Channels + 1, q)
  BY <1>1 DEF Chain, Loop
<1>6. IsPart(o, i, InTurn(Channels + 1, q), e)
  BY <1>2, <1>4, Bm25Sizes, PartAt
<1> QED
  BY <1>3, <1>5, <1>6

LEMMA FrequenciesPart ==
    ASSUME Bm25Assumption, NEW o, NEW i,
           NEW p, \A j \in 1 .. DfVecs : IsPart(o, i, Chain("df", <<j>>), p[j])
    PROVE  IsPart(o, i, Frequencies, InTurn(DfVecs, p))
<1>1. PICK q : q = [j \in 1 .. DfVecs |-> Chain("df", <<j>>)]
  OBVIOUS
<1>2. \A j \in 1 .. DfVecs : IsPart(o, i, q[j], p[j])
  BY <1>1
<1>3. Frequencies = InTurn(DfVecs, q)
  BY <1>1 DEF Frequencies, Loop
<1> QED
  BY <1>2, <1>3, Bm25Sizes, PartTurns

LEMMA QueryPart ==
    ASSUME Bm25Assumption, NEW o, NEW i,
           NEW p, \A j \in 1 .. QueryVecs : IsPart(o, i, Chain("query", <<j>>), p[j])
    PROVE  IsPart(o, i, QueryVectors, InTurn(QueryVecs, p))
<1>1. PICK q : q = [j \in 1 .. QueryVecs |-> Chain("query", <<j>>)]
  OBVIOUS
<1>2. \A j \in 1 .. QueryVecs : IsPart(o, i, q[j], p[j])
  BY <1>1
<1>3. QueryVectors = InTurn(QueryVecs, q)
  BY <1>1 DEF QueryVectors, Loop
<1> QED
  BY <1>2, <1>3, Bm25Sizes, PartTurns

(* The streams of a chain are not those of another, nor of the channels. *)
LEMMA OwnChain ==
    ASSUME NEW o, NEW i, NEW ch \in {"df", "query", "inst"}, o \cup i \subseteq LinksOf(ch)
    PROVE  /\ \A d \in Channel : Outside(o, i, Around(d))
           /\ \A x \in {"df", "query", "inst"} : x # ch => Outside(o, i, LinksOf(x))
           /\ ch # "inst" => Outside(o, i, OfBatches)
           /\ Outside(o, i, {<<"topk_id", 0>>})
<1>1. \A s \in o \cup i : s[1] = ch
  BY DEF LinksOf
<1>2. ASSUME NEW d \in Channel PROVE Outside(o, i, Around(d))
  <2>1. \A s \in Around(d) : s[1] \notin {"df", "query", "inst"}
    BY DEF Around, RowStreams
  <2> QED
    BY <1>1, <2>1 DEF Outside
<1>3. ASSUME NEW x \in {"df", "query", "inst"}, x # ch PROVE Outside(o, i, LinksOf(x))
  <2>1. \A s \in LinksOf(x) : s[1] = x
    BY DEF LinksOf
  <2> QED
    BY <1>1, <1>3, <2>1 DEF Outside
<1>4. ASSUME ch # "inst" PROVE Outside(o, i, OfBatches)
  BY <1>2, <1>3, <1>4 DEF Outside, OfBatches
<1>5. Outside(o, i, {<<"topk_id", 0>>})
  <2>1. \A s \in {<<"topk_id", 0>>} : s[1] = "topk_id"
    OBVIOUS
  <2> QED
    BY <1>1, <2>1 DEF Outside
<1> QED
  BY <1>2, <1>3, <1>4, <1>5

LEMMA OfChain ==
    ASSUME Bm25Assumption, NEW ch, NEW k \in 1 .. Channels + 1, NEW s, s = <<ch, k>>
    PROVE  /\ \A j \in 1 .. Channels + 1 : j # k => <<ch, j>> # s
           /\ {s} \subseteq LinksOf(ch)
<1>1. \A j : <<ch, j>>[2] = j
  OBVIOUS
<1>2. \A j : j # k => <<ch, j>> # s
  BY <1>1
<1>3. s \in LinksOf(ch)
  BY DEF LinksOf
<1> QED
  BY <1>2, <1>3

(* A task with one end e of a chain. *)
LEMMA AtLink ==
    ASSUME Bm25Assumption, NEW ch, NEW k \in 1 .. Channels + 1, NEW s, s = <<ch, k>>, NEW m
    PROVE  /\ IsPart({s}, {}, Chain(ch, m), W(s, m))
           /\ IsPart({}, {s}, Chain(ch, m), R(s, m))
<1>1. \A j \in 1 .. Channels + 1 : j # k => <<ch, j>> \notin {s} /\ <<ch, j>> \notin {}
  BY OfChain
<1>2. IsPart({s}, {}, Chain(ch, m), EndOf({s}, {}, <<ch, k>>, m))
  BY <1>1, ChainAt
<1>3. IsPart({}, {s}, Chain(ch, m), EndOf({}, {s}, <<ch, k>>, m))
  BY <1>1, ChainAt
<1>4. EndOf({s}, {}, s, m) = W(s, m) /\ EndOf({}, {s}, s, m) = R(s, m)
  BY DEF EndOf
<1> QED
  BY <1>2, <1>3, <1>4

LEMMA DfEnds ==
    ASSUME Bm25Assumption, NEW inst \in Seq(Nat)
    PROVE  /\ IsPart({<<"df", 1>>}, {}, Bm25Plan(inst), ReadDf)
           /\ IsPart({}, {<<"df", Channels + 1>>}, Bm25Plan(inst), BlackHole(DfVecs, "df"))
<1>1. PICK s, t : s = <<"df", 1>> /\ t = <<"df", Channels + 1>>
  OBVIOUS
<1>2. 1 \in 1 .. Channels + 1 /\ Channels + 1 \in 1 .. Channels + 1
  BY Bm25Sizes
<1>3. {s} \subseteq LinksOf("df") /\ {t} \subseteq LinksOf("df")
  BY <1>1, <1>2, OfChain
<1>4. PICK p, g : p = [j \in 1 .. DfVecs |-> W(s, <<j>>)] /\ g = [j \in 1 .. DfVecs |-> R(t, <<j>>)]
  OBVIOUS
<1>5. \A j \in 1 .. DfVecs : /\ IsPart({s}, {}, Chain("df", <<j>>), p[j])
                             /\ IsPart({}, {t}, Chain("df", <<j>>), g[j])
  BY <1>1, <1>2, <1>4, AtLink
<1>6. IsPart({s}, {}, Frequencies, InTurn(DfVecs, p)) /\ IsPart({}, {t}, Frequencies, InTurn(DfVecs, g))
  BY <1>5, FrequenciesPart
<1>7. {s} \cup {} \subseteq LinksOf("df") /\ {} \cup {t} \subseteq LinksOf("df")
  BY <1>3
<1>8. IsPart({s}, {}, Bm25Plan(inst), InTurn(DfVecs, p))
  BY <1>6, <1>7, OwnChain, FrequenciesOnly
<1>9. IsPart({}, {t}, Bm25Plan(inst), InTurn(DfVecs, g))
  BY <1>6, <1>7, OwnChain, FrequenciesOnly
<1>10. ReadDf = InTurn(DfVecs, p) /\ BlackHole(DfVecs, "df") = InTurn(DfVecs, g)
  BY <1>1, <1>4 DEF ReadDf, BlackHole, Loop
<1> QED
  BY <1>1, <1>8, <1>9, <1>10

LEMMA QueryEnds ==
    ASSUME Bm25Assumption, NEW inst \in Seq(Nat)
    PROVE  /\ IsPart({<<"query", 1>>}, {}, Bm25Plan(inst), ReadQuery)
           /\ IsPart({}, {<<"query", Channels + 1>>}, Bm25Plan(inst), BlackHole(QueryVecs, "query"))
<1>1. PICK s, t : s = <<"query", 1>> /\ t = <<"query", Channels + 1>>
  OBVIOUS
<1>2. 1 \in 1 .. Channels + 1 /\ Channels + 1 \in 1 .. Channels + 1
  BY Bm25Sizes
<1>3. {s} \subseteq LinksOf("query") /\ {t} \subseteq LinksOf("query")
  BY <1>1, <1>2, OfChain
<1>4. PICK p, g : p = [j \in 1 .. QueryVecs |-> W(s, <<j>>)] /\ g = [j \in 1 .. QueryVecs |-> R(t, <<j>>)]
  OBVIOUS
<1>5. \A j \in 1 .. QueryVecs : /\ IsPart({s}, {}, Chain("query", <<j>>), p[j])
                                /\ IsPart({}, {t}, Chain("query", <<j>>), g[j])
  BY <1>1, <1>2, <1>4, AtLink
<1>6. IsPart({s}, {}, QueryVectors, InTurn(QueryVecs, p)) /\ IsPart({}, {t}, QueryVectors, InTurn(QueryVecs, g))
  BY <1>5, QueryPart
<1>7. {s} \cup {} \subseteq LinksOf("query") /\ {} \cup {t} \subseteq LinksOf("query")
  BY <1>3
<1>8. IsPart({s}, {}, Bm25Plan(inst), InTurn(QueryVecs, p))
  BY <1>6, <1>7, OwnChain, QueryOnly
<1>9. IsPart({}, {t}, Bm25Plan(inst), InTurn(QueryVecs, g))
  BY <1>6, <1>7, OwnChain, QueryOnly
<1>10. ReadQuery = InTurn(QueryVecs, p) /\ BlackHole(QueryVecs, "query") = InTurn(QueryVecs, g)
  BY <1>1, <1>4 DEF ReadQuery, BlackHole, Loop
<1> QED
  BY <1>1, <1>8, <1>9, <1>10

(* A batch, for a task that takes nothing of the documents. *)
LEMMA BatchChain ==
    ASSUME Bm25Assumption, NEW o, NEW i, NEW inst, NEW b, inst[b] \in Nat,
           NEW x, IsPart(o, i, Chain("inst", <<b>>), x), \A d \in Channel : Outside(o, i, Around(d))
    PROVE  IsPart(o, i, Batch(inst, b), x)
<1>1. 1 \in Channel
  BY Bm25Sizes DEF Channel
<1>2. IsPart(o, i, Scored(inst, b, 1), <<>>)
  BY <1>1, ScoredOn, IdleOutside
<1>3. IsPart(o, i, Batch(inst, b), x \odot <<>>)
  BY <1>1, <1>2, BatchPart
<1>4. x \odot <<>> = x
  BY Join, EmptyIsSeq DEF IsPart
<1> QED
  BY <1>3, <1>4

LEMMA InstEnds ==
    ASSUME Bm25Assumption, NEW inst \in Seq(Nat)
    PROVE  /\ IsPart({<<"inst", 1>>}, {}, Bm25Plan(inst), ReadInst(inst))
           /\ IsPart({}, {<<"inst", Channels + 1>>}, Bm25Plan(inst), BlackHole(Len(inst), "inst"))
<1>1. PICK s, t : s = <<"inst", 1>> /\ t = <<"inst", Channels + 1>>
  OBVIOUS
<1>2. 1 \in 1 .. Channels + 1 /\ Channels + 1 \in 1 .. Channels + 1
  BY Bm25Sizes
<1>3. {s} \cup {} \subseteq LinksOf("inst") /\ {} \cup {t} \subseteq LinksOf("inst")
  BY <1>1, <1>2, OfChain
<1>4. PICK p, g : p = [b \in 1 .. Len(inst) |-> W(s, <<b>>)] /\ g = [b \in 1 .. Len(inst) |-> R(t, <<b>>)]
  OBVIOUS
<1>5. \A b \in 1 .. Len(inst) : /\ IsPart({s}, {}, Chain("inst", <<b>>), p[b])
                                /\ IsPart({}, {t}, Chain("inst", <<b>>), g[b])
  BY <1>1, <1>2, <1>4, AtLink
<1>6. /\ \A d \in Channel : Outside({s}, {}, Around(d)) /\ Outside({}, {t}, Around(d))
      /\ Outside({s}, {}, LinksOf("df")) /\ Outside({s}, {}, LinksOf("query"))
      /\ Outside({}, {t}, LinksOf("df")) /\ Outside({}, {t}, LinksOf("query"))
      /\ Outside({s}, {}, {<<"topk_id", 0>>}) /\ Outside({}, {t}, {<<"topk_id", 0>>})
  BY <1>3, OwnChain
<1>7. \A b \in 1 .. Len(inst) : inst[b] \in Nat
  OBVIOUS
<1>8. \A b \in 1 .. Len(inst) : /\ IsPart({s}, {}, Batch(inst, b), p[b])
                                /\ IsPart({}, {t}, Batch(inst, b), g[b])
  BY <1>5, <1>6, <1>7, BatchChain
<1>9. IsPart({s}, {}, Bm25Plan(inst), InTurn(Len(inst), p))
  BY <1>6, <1>8, BatchesOnly
<1>10. IsPart({}, {t}, Bm25Plan(inst), InTurn(Len(inst), g))
  BY <1>6, <1>8, BatchesOnly
<1>11. ReadInst(inst) = InTurn(Len(inst), p) /\ BlackHole(Len(inst), "inst") = InTurn(Len(inst), g)
  BY <1>1, <1>4 DEF ReadInst, BlackHole, Loop
<1> QED
  BY <1>1, <1>9, <1>10, <1>11

LEMMA WriteIdPart ==
    ASSUME Bm25Assumption, NEW inst \in Seq(Nat)
    PROVE  IsPart({}, {<<"topk_id", 0>>}, Bm25Plan(inst), WriteId)
<1>1. PICK s, o, i : s = <<"topk_id", 0>> /\ o = {} /\ i = {s}
  OBVIOUS
<1>2. PICK q, p : q = [j \in 1 .. KPacks |-> Send(s, <<j>>)] /\ p = [j \in 1 .. KPacks |-> R(s, <<j>>)]
  OBVIOUS
<1>3. \A j \in 1 .. KPacks : IsPart(o, i, q[j], p[j])
  BY <1>1, <1>2, PartRead
<1>4. BestIds = InTurn(KPacks, q) /\ WriteId = InTurn(KPacks, p)
  BY <1>1, <1>2 DEF BestIds, WriteId, Loop
<1>5. IsPart(o, i, BestIds, WriteId)
  BY <1>3, <1>4, Bm25Sizes, PartTurns
<1>6. Outside(o, i, LinksOf("df")) /\ Outside(o, i, LinksOf("query")) /\ Outside(o, i, LinksOf("inst"))
  <2>1. s[1] = "topk_id" /\ \A x \in {"df", "query", "inst"} : \A l \in LinksOf(x) : l[1] = x
    BY <1>1 DEF LinksOf
  <2> QED
    BY <1>1, <2>1 DEF Outside
<1>7. \A c \in Channel : Outside(o, i, Around(c))
  <2>1. s[1] = "topk_id" /\ \A c \in Channel : \A l \in Around(c) : l[1] # "topk_id"
    BY <1>1 DEF Around, RowStreams
  <2> QED
    BY <1>1, <2>1 DEF Outside
<1>8. Outside(o, i, OfBatches)
  BY <1>6, <1>7 DEF Outside, OfBatches
<1> QED
  BY <1>1, <1>5, <1>6, <1>8, BestOnly

(* A core: of every chain it takes a link and the next. *)
LEMMA CoreChain ==
    ASSUME Bm25Assumption, NEW c \in Channel, NEW ch \in {"df", "query", "inst"}, NEW m
    PROVE  IsPart(CoreOut(c), CoreIn(c), Chain(ch, m), R(<<ch, c>>, m) \odot W(<<ch, c + 1>>, m))
<1>1. PICK o, i, r, w : o = CoreOut(c) /\ i = CoreIn(c) /\ r = <<ch, c>> /\ w = <<ch, c + 1>>
  OBVIOUS
<1>2. c \in 1 .. Channels + 1 /\ c + 1 \in 1 .. Channels + 1 /\ c + 1 # c
  BY Bm25Sizes DEF Channel
<1>3. /\ \A s \in o : s[1] = ch => s[2] = c + 1
      /\ \A s \in i : s[1] = ch => s[2] = c
  BY <1>1 DEF CoreOut, CoreIn
<1>4. w \in o /\ r \in i /\ r \notin o
  <2>1. w \in o /\ r \in i
    BY <1>1 DEF CoreOut, CoreIn
  <2>2. r[1] = ch /\ r[2] = c
    BY <1>1
  <2> QED
    BY <1>2, <1>3, <2>1, <2>2
<1>5. PICK q : q = [j \in 1 .. Channels + 1 |-> Send(<<ch, j>>, m)]
  OBVIOUS
<1>6. ASSUME NEW j \in 1 .. Channels + 1, j # c /\ j # c + 1 PROVE IsPart(o, i, q[j], <<>>)
  <2>1. PICK s : s = <<ch, j>>
    OBVIOUS
  <2>2. s[1] = ch /\ s[2] = j
    BY <2>1
  <2>3. s \notin o /\ s \notin i
    BY <1>3, <1>6, <2>2
  <2>4. IsPart(o, i, Send(s, m), <<>>)
    BY <2>3, PartNone
  <2> QED
    BY <1>5, <2>1, <2>4
<1>7. IsPart(o, i, Send(r, m), R(r, m)) /\ IsPart(o, i, Send(w, m), W(w, m))
  BY <1>4, PartRead, PartWrite
<1>8. q[c] = Send(r, m) /\ q[c + 1] = Send(w, m)
  BY <1>1, <1>2, <1>5
<1>9. PICK x, y : x = R(r, m) /\ y = W(w, m)
  OBVIOUS
<1>10. IsPart(o, i, q[c], x) /\ IsPart(o, i, q[c + 1], y)
  BY <1>7, <1>8, <1>9
<1>11. PICK n \in Nat : n = Channels + 1
  BY Bm25Sizes
<1>12. IsPart(o, i, InTurn(n, q), x \odot y)
  <2>1. c \in 1 .. n /\ c + 1 <= n
    BY <1>2, <1>11
  <2>2. \A j \in 1 .. n : j # c /\ j # c + 1 => IsPart(o, i, q[j], <<>>)
    BY <1>6, <1>11
  <2> QED
    BY <1>10, <2>1, <2>2, PartAtTwo
<1>13. Chain(ch, m) = InTurn(n, q)
  BY <1>5, <1>11 DEF Chain, Loop
<1> QED
  BY <1>1, <1>9, <1>12, <1>13

LEMMA CoreRow ==
    ASSUME NEW c, NEW m
    PROVE  IsPart(CoreOut(c), CoreIn(c), Row(c, m),
                  R(<<"doc", c>>, m) \odot W(<<"df_t", c>>, m) \odot W(<<"f", c>>, m))
<1>1. PICK o, i, r, w, v : /\ o = CoreOut(c) /\ i = CoreIn(c)
                           /\ r = <<"doc", c>> /\ w = <<"df_t", c>> /\ v = <<"f", c>>
  OBVIOUS
<1>2. /\ \A s \in o : s[1] \in {"df", "query", "inst", "df_t", "f", "inst_out"}
      /\ \A s \in i : s[1] \in {"df", "query", "inst", "doc"}
      /\ r \in i /\ w \in o /\ v \in o
  BY <1>1 DEF CoreOut, CoreIn
<1>3. /\ EndOf(o, i, <<"doc", c>>, m) = R(r, m) /\ EndOf(o, i, <<"df_t", c>>, m) = W(w, m)
      /\ EndOf(o, i, <<"f", c>>, m) = W(v, m) /\ EndOf(o, i, <<"idf", c>>, m) = <<>>
      /\ EndOf(o, i, <<"tf_weight", c>>, m) = <<>> /\ EndOf(o, i, <<"psum", c>>, m) = <<>>
  <2>1. \A x : <<x, c>>[1] = x
    OBVIOUS
  <2>2. r \notin o /\ <<"idf", c>> \notin o /\ <<"tf_weight", c>> \notin o /\ <<"psum", c>> \notin o
    BY <1>1, <1>2, <2>1
  <2>3. <<"idf", c>> \notin i /\ <<"tf_weight", c>> \notin i /\ <<"psum", c>> \notin i
    BY <1>2, <2>1
  <2> QED
    BY <1>1, <1>2, <2>2, <2>3 DEF EndOf
<1>4. PICK a : a = R(r, m) \odot W(w, m) \odot W(v, m)
  OBVIOUS
<1>5. IsSeq(a)
  BY <1>4, OneOp, Join
<1>6. IsPart(o, i, Row(c, m), a \odot <<>> \odot <<>> \odot <<>>)
  BY <1>3, <1>4, RowEnds
<1>7. a \odot <<>> = a
  BY <1>5, Join, EmptyIsSeq
<1> QED
  BY <1>1, <1>4, <1>6, <1>7

RowsTaken(c, n, b) == InTurn(n, [j \in 1 .. n |->
    R(<<"doc", c>>, <<b, j>>) \odot W(<<"df_t", c>>, <<b, j>>) \odot W(<<"f", c>>, <<b, j>>)])

LEMMA CoreScored ==
    ASSUME NEW inst, NEW b, inst[b] \in Nat, NEW c
    PROVE  IsPart(CoreOut(c), CoreIn(c), Scored(inst, b, c),
                  W(<<"inst_out", c>>, <<b>>) \odot RowsTaken(c, inst[b], b))
<1>1. PICK o, i, w, t, u : /\ o = CoreOut(c) /\ i = CoreIn(c) /\ w = <<"inst_out", c>>
                           /\ t = <<"score", c>> /\ u = <<"merged", 0>>
  OBVIOUS
<1>2. PICK p : p = [j \in 1 .. inst[b] |-> R(<<"doc", c>>, <<b, j>>) \odot W(<<"df_t", c>>, <<b, j>>)
                                           \odot W(<<"f", c>>, <<b, j>>)]
  OBVIOUS
<1>3. \A j \in 1 .. inst[b] : IsPart(o, i, Row(c, <<b, j>>), p[j])
  BY <1>1, <1>2, CoreRow
<1>4. PICK r : r = RowsTaken(c, inst[b], b)
  OBVIOUS
<1>5. r = InTurn(inst[b], p)
  BY <1>2, <1>4 DEF RowsTaken
<1>6. IsPart(o, i, Rows(inst, b, c), r)
  BY <1>3, <1>5, RowsPart
<1>7. w \in o /\ t \notin o /\ t \notin i /\ u \notin o /\ u \notin i
  <2>1. /\ \A s \in o \cup i : s[1] \in {"df", "query", "inst", "df_t", "f", "inst_out", "doc"}
        /\ t[1] = "score" /\ u[1] = "merged"
    BY <1>1 DEF CoreOut, CoreIn
  <2>2. w \in o
    BY <1>1 DEF CoreOut
  <2> QED
    BY <2>1, <2>2
<1>8. PICK a : a = W(w, <<b>>)
  OBVIOUS
<1>9. /\ IsPart(o, i, Send(w, <<b>>), a) /\ IsPart(o, i, Send(t, <<b, c>>), <<>>)
      /\ IsPart(o, i, Send(u, <<b, c>>), <<>>)
  BY <1>7, <1>8, PartWrite, PartNone
<1>10. IsPart(o, i, Scored(inst, b, c), a \odot r \odot <<>> \odot <<>>)
  BY <1>1, <1>6, <1>9, ScoredPart
<1>11. a \odot r \odot <<>> = a \odot r
  BY <1>6, <1>9, Join, EmptyIsSeq DEF IsPart
<1> QED
  BY <1>1, <1>4, <1>8, <1>10, <1>11

CoreBatch(c, inst, b) ==
    R(<<"inst", c>>, <<b>>) \odot W(<<"inst", c + 1>>, <<b>>) \odot W(<<"inst_out", c>>, <<b>>)
    \odot RowsTaken(c, inst[b], b)

LEMMA CoreElsewhere ==
    ASSUME Bm25Assumption, NEW c \in Channel
    PROVE  /\ \A d \in Channel : d # c => Outside(CoreOut(c), CoreIn(c), Around(d))
           /\ Outside(CoreOut(c), CoreIn(c), {<<"topk_id", 0>>})
<1>1. \A s \in CoreOut(c) \cup CoreIn(c) :
           /\ s[1] \in {"df", "query", "inst", "df_t", "f", "inst_out", "doc"}
           /\ s[1] \in {"df", "query", "inst"} \/ s[2] = c
  BY DEF CoreOut, CoreIn
<1>2. ASSUME NEW d \in Channel, d # c PROVE Outside(CoreOut(c), CoreIn(c), Around(d))
  <2>1. \A s \in Around(d) : s[1] = "merged" \/ (s[1] \notin {"df", "query", "inst"} /\ s[2] = d)
    BY DEF Around, RowStreams
  <2> QED
    BY <1>1, <1>2, <2>1 DEF Outside
<1>3. Outside(CoreOut(c), CoreIn(c), {<<"topk_id", 0>>})
  <2>1. \A s \in {<<"topk_id", 0>>} : s[1] = "topk_id"
    OBVIOUS
  <2> QED
    BY <1>1, <2>1 DEF Outside
<1> QED
  BY <1>2, <1>3

LEMMA CoreBatchPart ==
    ASSUME Bm25Assumption, NEW inst, NEW b, inst[b] \in Nat, NEW c \in Channel
    PROVE  IsPart(CoreOut(c), CoreIn(c), Batch(inst, b), CoreBatch(c, inst, b))
<1>1. PICK o, i, x, y, a, r :
        /\ o = CoreOut(c) /\ i = CoreIn(c) /\ x = R(<<"inst", c>>, <<b>>)
        /\ y = W(<<"inst", c + 1>>, <<b>>) /\ a = W(<<"inst_out", c>>, <<b>>)
        /\ r = RowsTaken(c, inst[b], b)
  OBVIOUS
<1>2. IsPart(o, i, Chain("inst", <<b>>), x \odot y)
  BY <1>1, CoreChain
<1>3. IsPart(o, i, Scored(inst, b, c), a \odot r)
  BY <1>1, CoreScored
<1>4. \A d \in Channel : d # c => Outside(o, i, Around(d))
  BY <1>1, CoreElsewhere
<1>5. IsPart(o, i, Batch(inst, b), (x \odot y) \odot (a \odot r))
  BY <1>2, <1>3, <1>4, BatchPart
<1>6. IsSeq(x \odot y) /\ IsSeq(a) /\ IsSeq(r)
  <2>1. IsSeq(r)
    <3>1. PICK p : p = [j \in 1 .. inst[b] |-> R(<<"doc", c>>, <<b, j>>) \odot W(<<"df_t", c>>, <<b, j>>)
                                           \odot W(<<"f", c>>, <<b, j>>)]
      OBVIOUS
    <3>2. \A j \in 1 .. inst[b] : IsPart(o, i, Row(c, <<b, j>>), p[j])
      BY <1>1, <3>1, CoreRow
    <3>3. IsPart(o, i, Rows(inst, b, c), InTurn(inst[b], p))
      BY <3>2, RowsPart
    <3> QED
      BY <1>1, <3>1, <3>3 DEF RowsTaken, IsPart
  <2> QED
    BY <1>1, <1>2, <2>1, OneOp DEF IsPart
<1>7. (x \odot y) \odot (a \odot r) = ((x \odot y) \odot a) \odot r
  BY <1>6, JoinAssoc
<1> QED
  BY <1>1, <1>5, <1>7 DEF CoreBatch

LEMMA CorePart ==
    ASSUME Bm25Assumption, NEW inst \in Seq(Nat), NEW c \in Channel
    PROVE  IsPart(CoreOut(c), CoreIn(c), Bm25Plan(inst), Core(c, inst))
<1>1. PICK o, i : o = CoreOut(c) /\ i = CoreIn(c)
  OBVIOUS
<1>2. PICK p, g, h :
        /\ p = [j \in 1 .. DfVecs |-> R(<<"df", c>>, <<j>>) \odot W(<<"df", c + 1>>, <<j>>)]
        /\ g = [j \in 1 .. QueryVecs |-> R(<<"query", c>>, <<j>>) \odot W(<<"query", c + 1>>, <<j>>)]
        /\ h = [b \in 1 .. Len(inst) |-> CoreBatch(c, inst, b)]
  OBVIOUS
<1>3. IsPart(o, i, Frequencies, InTurn(DfVecs, p))
  <2>1. \A j \in 1 .. DfVecs : IsPart(o, i, Chain("df", <<j>>), p[j])
    BY <1>1, <1>2, CoreChain
  <2> QED
    BY <2>1, FrequenciesPart
<1>4. IsPart(o, i, QueryVectors, InTurn(QueryVecs, g))
  <2>1. \A j \in 1 .. QueryVecs : IsPart(o, i, Chain("query", <<j>>), g[j])
    BY <1>1, <1>2, CoreChain
  <2> QED
    BY <2>1, QueryPart
<1>5. IsPart(o, i, Batches(inst), InTurn(Len(inst), h))
  <2>1. \A b \in 1 .. Len(inst) : inst[b] \in Nat
    OBVIOUS
  <2>2. \A b \in 1 .. Len(inst) : IsPart(o, i, Batch(inst, b), h[b])
    BY <1>1, <1>2, <2>1, CoreBatchPart
  <2> QED
    BY <2>2, BatchesPart
<1>6. IsPart(o, i, BestIds, <<>>)
  BY <1>1, CoreElsewhere, BestOn, IdleOutside
<1>7. PICK d, u, w : d = InTurn(DfVecs, p) /\ u = InTurn(QueryVecs, g) /\ w = InTurn(Len(inst), h)
  OBVIOUS
<1>8. IsPart(o, i, Bm25Plan(inst), d \odot u \odot w \odot <<>>)
  BY <1>3, <1>4, <1>5, <1>6, <1>7, Bm25PlanParts
<1>9. d \odot u \odot w \odot <<>> = d \odot u \odot w
  BY <1>3, <1>4, <1>5, <1>7, Join, EmptyIsSeq DEF IsPart
<1>10. Core(c, inst) = d \odot u \odot w
  BY <1>2, <1>7 DEF Core, LoadDf, LoadQuery, CoreBatch, RowsTaken, ScoreRows, Loop, \odot
<1> QED
  BY <1>1, <1>8, <1>9, <1>10

LEMMA ScoreAccPart ==
    ASSUME Bm25Assumption, NEW inst \in Seq(Nat), NEW c \in Channel
    PROVE  IsPart({<<"score", c>>}, {<<"psum", c>>, <<"inst_out", c>>}, Bm25Plan(inst), ScoreAcc(c, inst))
<1>1. PICK o, i, s, t, u, v :
        /\ o = {t} /\ i = {v, s} /\ s = <<"inst_out", c>> /\ t = <<"score", c>>
        /\ u = <<"merged", 0>> /\ v = <<"psum", c>>
  OBVIOUS
<1>2. ASSUME NEW m PROVE IsPart(o, i, Row(c, m), R(v, m))
  <2>1. /\ EndOf(o, i, <<"doc", c>>, m) = <<>> /\ EndOf(o, i, <<"df_t", c>>, m) = <<>>
        /\ EndOf(o, i, <<"f", c>>, m) = <<>> /\ EndOf(o, i, <<"idf", c>>, m) = <<>>
        /\ EndOf(o, i, <<"tf_weight", c>>, m) = <<>> /\ EndOf(o, i, <<"psum", c>>, m) = R(v, m)
    BY <1>1 DEF EndOf
  <2>2. IsPart(o, i, Row(c, m), <<>> \odot <<>> \odot <<>> \odot <<>> \odot <<>> \odot R(v, m))
    BY <2>1, RowEnds
  <2> QED
    BY <2>2, OneOp
<1>3. /\ t \in o /\ s \in i /\ s \notin o /\ u \notin o /\ u \notin i
      /\ o \cup i \subseteq Around(c) /\ <<"merged", 0>> \notin o \cup i
  BY <1>1 DEF Around, RowStreams
<1>4. PICK h : h = [b \in 1 .. Len(inst) |->
              R(s, <<b>>) \odot InTurn(inst[b], [j \in 1 .. inst[b] |-> R(v, <<b, j>>)])
              \odot W(t, <<b, c>>)]
  OBVIOUS
<1>5. ASSUME NEW b \in 1 .. Len(inst) PROVE IsPart(o, i, Batch(inst, b), h[b])
  <2>1. inst[b] \in Nat
    OBVIOUS
  <2>2. PICK p : p = [j \in 1 .. inst[b] |-> R(v, <<b, j>>)]
    OBVIOUS
  <2>3. \A j \in 1 .. inst[b] : IsPart(o, i, Row(c, <<b, j>>), p[j])
    BY <1>2, <2>2
  <2>4. PICK r, a, e : r = InTurn(inst[b], p) /\ a = R(s, <<b>>) /\ e = W(t, <<b, c>>)
    OBVIOUS
  <2>5. IsPart(o, i, Rows(inst, b, c), r)
    BY <2>1, <2>3, <2>4, RowsPart
  <2>6. /\ IsPart(o, i, Send(s, <<b>>), a) /\ IsPart(o, i, Send(t, <<b, c>>), e)
        /\ IsPart(o, i, Send(u, <<b, c>>), <<>>)
    BY <1>3, <2>4, PartRead, PartWrite, PartNone
  <2>7. IsPart(o, i, Scored(inst, b, c), a \odot r \odot e \odot <<>>)
    BY <1>1, <2>5, <2>6, ScoredPart
  <2>8. IsSeq(a \odot r \odot e)
    BY <2>5, <2>6, Join DEF IsPart
  <2>9. PICK f : f = a \odot r \odot e
    OBVIOUS
  <2>10. f \odot <<>> = f /\ <<>> \odot f = f
    BY <2>8, <2>9, Join, EmptyIsSeq
  <2>11. IsPart(o, i, Chain("inst", <<b>>), <<>>)
    BY <1>3, OwnChannel, ChainOn, IdleOutside
  <2>12. \A d \in Channel : d # c => Outside(o, i, Around(d))
    BY <1>3, OwnChannel
  <2>13. IsPart(o, i, Scored(inst, b, c), f)
    BY <2>7, <2>9, <2>10
  <2>14. IsPart(o, i, Batch(inst, b), <<>> \odot f)
    BY <2>1, <2>11, <2>12, <2>13, BatchPart
  <2>15. h[b] = f
    BY <1>4, <2>2, <2>4, <2>9
  <2> QED
    BY <2>10, <2>14, <2>15
<1>6. /\ Outside(o, i, LinksOf("df")) /\ Outside(o, i, LinksOf("query"))
      /\ Outside(o, i, {<<"topk_id", 0>>})
  BY <1>3, OwnChannel
<1>7. IsPart(o, i, Bm25Plan(inst), InTurn(Len(inst), h))
  BY <1>5, <1>6, BatchesOnly
<1>8. ScoreAcc(c, inst) = InTurn(Len(inst), h)
  BY <1>1, <1>4 DEF ScoreAcc, Accumulate, Loop, \odot
<1> QED
  BY <1>1, <1>7, <1>8

(* Two tasks of all channels: the merge and the numbering. *)
LEMMA OwnMerge ==
    ASSUME NEW o, NEW i, \A s \in o \cup i : s[1] \in {"score", "merged", "topk_id"}
    PROVE  /\ \A c \in Channel : Outside(o, i, RowStreams(c))
           /\ \A ch \in {"df", "query", "inst"} : Outside(o, i, LinksOf(ch))
           /\ \A c \in Channel : <<"inst_out", c>> \notin o /\ <<"inst_out", c>> \notin i
<1>1. \A c \in Channel : \A s \in RowStreams(c) :
         s[1] \in {"doc", "df_t", "f", "idf", "tf_weight", "psum"}
  BY DEF RowStreams
<1>2. \A ch \in {"df", "query", "inst"} : \A s \in LinksOf(ch) : s[1] = ch
  BY DEF LinksOf
<1>3. \A c \in Channel : <<"inst_out", c>>[1] = "inst_out"
  OBVIOUS
<1>4. \A c \in Channel : Outside(o, i, RowStreams(c))
  BY <1>1 DEF Outside
<1>5. \A ch \in {"df", "query", "inst"} : Outside(o, i, LinksOf(ch))
  BY <1>2 DEF Outside
<1>6. ASSUME NEW c \in Channel PROVE <<"inst_out", c>> \notin o /\ <<"inst_out", c>> \notin i
  <2>1. PICK s : s = <<"inst_out", c>>
    OBVIOUS
  <2>2. s[1] = "inst_out"
    BY <2>1
  <2> QED
    BY <2>1, <2>2
<1> QED
  BY <1>4, <1>5, <1>6

(* e(b, c), what such a task does of the score of batch b and channel c. *)
LEMMA MergesPart ==
    ASSUME Bm25Assumption, NEW inst \in Seq(Nat), NEW o, NEW i,
           \A s \in o \cup i : s[1] \in {"score", "merged", "topk_id"},
           NEW p, \A b \in 1 .. Len(inst) : \A c \in Channel :
              p[b][c] = EndOf(o, i, <<"score", c>>, <<b, c>>) \odot EndOf(o, i, <<"merged", 0>>, <<b, c>>),
           NEW h, \A b \in 1 .. Len(inst) : h[b] = InTurn(Channels, p[b])
    PROVE  IsPart(o, i, Batches(inst), InTurn(Len(inst), h))
<1>1. ASSUME NEW b \in 1 .. Len(inst) PROVE IsPart(o, i, Batch(inst, b), h[b])
  <2>1. inst[b] \in Nat
    OBVIOUS
  <2>2. PICK q : q = [c \in 1 .. Channels |-> Scored(inst, b, c)]
    OBVIOUS
  <2>3. PICK r : r = p[b]
    OBVIOUS
  <2>4. ASSUME NEW c \in 1 .. Channels PROVE IsPart(o, i, q[c], r[c])
    <3>1. c \in Channel
      BY DEF Channel
    <3>2. IsPart(o, i, Rows(inst, b, c), <<>>)
      BY <2>1, <3>1, OwnMerge, RowsOn, IdleOutside
    <3>3. PICK s : s = <<"inst_out", c>>
      OBVIOUS
    <3>4. s \notin o /\ s \notin i
      BY <3>1, <3>3, OwnMerge
    <3>5. IsPart(o, i, Send(s, <<b>>), <<>>)
      BY <3>4, PartNone
    <3>6. PICK e, g : /\ e = EndOf(o, i, <<"score", c>>, <<b, c>>)
                      /\ g = EndOf(o, i, <<"merged", 0>>, <<b, c>>)
      OBVIOUS
    <3>7. IsPart(o, i, Send(<<"score", c>>, <<b, c>>), e) /\ IsPart(o, i, Send(<<"merged", 0>>, <<b, c>>), g)
      BY <3>6, SendPart
    <3>8. IsPart(o, i, Scored(inst, b, c), <<>> \odot <<>> \odot e \odot g)
      BY <3>2, <3>3, <3>5, <3>7, ScoredPart
    <3>9. <<>> \odot <<>> = <<>> /\ <<>> \odot e = e
      BY <3>7, Join, EmptyIsSeq DEF IsPart
    <3>10. r[c] = e \odot g
      BY <2>3, <3>1, <3>6
    <3> QED
      BY <2>2, <3>8, <3>9, <3>10
  <2>5. IsPart(o, i, InTurn(Channels, q), InTurn(Channels, r))
    BY <2>4, Bm25Sizes, PartTurns
  <2>6. PICK f : f = InTurn(Channels, r)
    OBVIOUS
  <2>7. IsPart(o, i, Chain("inst", <<b>>), <<>>)
    BY OwnMerge, ChainOn, IdleOutside
  <2>8. Batch(inst, b) = Chain("inst", <<b>>) \odot InTurn(Channels, q)
    BY <2>2 DEF Batch, Loop
  <2>9. IsPart(o, i, Batch(inst, b), f)
    BY <2>5, <2>6, <2>7, <2>8, PartRight
  <2>10. h[b] = f
    BY <2>3, <2>6
  <2> QED
    BY <2>9, <2>10
<1> QED
  BY <1>1, BatchesPart

LEMMA MergePart ==
    ASSUME Bm25Assumption, NEW inst \in Seq(Nat)
    PROVE  IsPart({<<"merged", 0>>}, {"score"} \X Channel, Bm25Plan(inst), MergeScore(inst))
<1>1. PICK o, i, u : u = <<"merged", 0>> /\ o = {u} /\ i = {"score"} \X Channel
  OBVIOUS
<1>2. \A s \in o \cup i : s[1] \in {"score", "merged"}
  BY <1>1
<1>3. PICK p : p = [b \in 1 .. Len(inst) |-> [c \in 1 .. Channels |->
                       R(<<"score", c>>, <<b, c>>) \odot W(u, <<b, c>>)]]
  OBVIOUS
<1>4. PICK h : h = [b \in 1 .. Len(inst) |-> InTurn(Channels, [c \in 1 .. Channels |->
                       R(<<"score", c>>, <<b, c>>) \odot W(u, <<b, c>>)])]
  OBVIOUS
<1>5. ASSUME NEW b \in 1 .. Len(inst), NEW c \in Channel
      PROVE  p[b][c] = EndOf(o, i, <<"score", c>>, <<b, c>>) \odot EndOf(o, i, <<"merged", 0>>, <<b, c>>)
  <2>1. PICK s : s = <<"score", c>>
    OBVIOUS
  <2>2. s \in i /\ s \notin o
    BY <1>1, <2>1
  <2>3. EndOf(o, i, s, <<b, c>>) = R(s, <<b, c>>) /\ EndOf(o, i, u, <<b, c>>) = W(u, <<b, c>>)
    BY <1>1, <2>2 DEF EndOf
  <2>4. p[b][c] = R(s, <<b, c>>) \odot W(u, <<b, c>>)
    BY <1>3, <2>1 DEF Channel
  <2> QED
    BY <1>1, <2>1, <2>3, <2>4
<1>6. \A b \in 1 .. Len(inst) : h[b] = InTurn(Channels, p[b])
  BY <1>3, <1>4
<1>7. PICK w : w = InTurn(Len(inst), h)
  OBVIOUS
<1>8. IsPart(o, i, Batches(inst), w)
  BY <1>2, <1>5, <1>6, <1>7, MergesPart
<1>9. Outside(o, i, LinksOf("df")) /\ Outside(o, i, LinksOf("query"))
  BY <1>2, OwnMerge
<1>10. Outside(o, i, {<<"topk_id", 0>>})
  <2>1. \A s \in {<<"topk_id", 0>>} : s[1] = "topk_id"
    OBVIOUS
  <2> QED
    BY <1>2, <2>1 DEF Outside
<1>11. /\ IsPart(o, i, Frequencies, <<>>) /\ IsPart(o, i, QueryVectors, <<>>)
       /\ IsPart(o, i, BestIds, <<>>)
  BY <1>9, <1>10, FrequenciesOn, QueryOn, BestOn, IdleOutside
<1>12. IsPart(o, i, Bm25Plan(inst), <<>> \odot <<>> \odot w \odot <<>>)
  BY <1>8, <1>11, Bm25PlanParts
<1>13. <<>> \odot <<>> = <<>> /\ <<>> \odot w = w /\ w \odot <<>> = w
  BY <1>8, Join, EmptyIsSeq DEF IsPart
<1>14. MergeScore(inst) = w
  BY <1>1, <1>4, <1>7 DEF MergeScore, Loop, \odot
<1> QED
  BY <1>1, <1>12, <1>13, <1>14

(* The position at which the merge hands on the score of batch b, channel c. *)
LEMMA NumberedIs ==
    ASSUME Bm25Assumption, NEW n \in Nat, NEW b \in 1 .. n, NEW c \in Channel
    PROVE  /\ (b - 1) * Channels + c \in 1 .. n * Channels
           /\ Numbered((b - 1) * Channels + c) = <<b, c>>
<1>1. PICK d \in Nat \ {0}, a \in Nat, r \in Nat : d = Channels /\ a = b - 1 /\ r = c - 1 /\ r <= d - 1
  <2>1. Channels \in Nat \ {0} /\ b - 1 \in Nat /\ c - 1 \in Nat /\ c - 1 <= Channels - 1
    BY Bm25Sizes DEF Channel
  <2> QED
    BY <2>1
<1>2. c \in Nat /\ c = r + 1 /\ b = a + 1
  BY <1>1 DEF Channel
<1>3. PICK x \in Nat, y \in Nat : x = a * d /\ y = n * d
  <2>1. a * d \in Nat /\ n * d \in Nat
    OBVIOUS
  <2> QED
    BY <2>1
<1>4. (a + 1) * d = x + d
  <2>1. d \in Int /\ a \in Int
    OBVIOUS
  <2> QED
    BY <1>3, <2>1, TimesStep
<1>5. (a + 1) * d <= n * d
  <2>1. a + 1 \in Nat /\ a + 1 <= n /\ d \in Nat
    BY <1>2
  <2> QED
    BY <2>1, TimesLess
<1>6. x + c \in 1 .. y
  BY <1>1, <1>2, <1>3, <1>4, <1>5
<1>7. (a * d + r) \div d = a /\ (a * d + r) % d = r
  <2>1. r \in 0 .. d - 1
    BY <1>1
  <2> QED
    BY <2>1, DivMod
<1>8. (x + c) - 1 = a * d + r
  BY <1>2, <1>3
<1>9. Numbered(x + c) = <<a + 1, r + 1>>
  BY <1>1, <1>7, <1>8 DEF Numbered
<1> QED
  BY <1>1, <1>2, <1>3, <1>6, <1>9

(* The scores of n batches, by batch and channel and by position. *)
InOrder(u, n, d) ==
    InTurn(n, [x \in 1 .. n |-> InTurn(d, [y \in 1 .. d |-> R(u, <<x, y>>)])])
ByPosition(u, l) == InTurn(l, [k \in 1 .. l |-> R(u, Numbered(k))])

LEMMA MergedInOrder ==
    ASSUME Bm25Assumption, NEW u, NEW a \in Nat, NEW b \in Nat, b = Channels
    PROVE  InOrder(u, a, b) = ByPosition(u, a * b)
<1>1. PICK l \in Nat : l = a * b
  <2>1. a * b \in Nat
    OBVIOUS
  <2> QED
    BY <2>1
<1>2. PICK q, rows, x :
        /\ q = [k \in 1 .. l |-> R(u, Numbered(k))]
        /\ rows = [row \in 1 .. a |-> InTurn(b, [v \in 1 .. b |-> R(u, <<row, v>>)])]
        /\ x = [row \in 1 .. a |-> [v \in 1 .. b |-> R(u, <<row, v>>)]]
  OBVIOUS
<1>3. AreSeqs(a * b, q)
  BY <1>1, <1>2, OneOp DEF AreSeqs
<1>4. \A row \in 1 .. a : rows[row] = InTurn(b, x[row])
  BY <1>2
<1>5. \A row \in 1 .. a : \A v \in 1 .. b : x[row][v] = q[(row - 1) * b + v]
  <2> TAKE row \in 1 .. a
  <2> TAKE v \in 1 .. b
  <2>1. v \in Channel
    BY DEF Channel
  <2>2. (row - 1) * Channels + v \in 1 .. a * Channels /\ Numbered((row - 1) * Channels + v) = <<row, v>>
    BY <2>1, NumberedIs
  <2>3. PICK k : k = (row - 1) * b + v
    OBVIOUS
  <2>4. k \in 1 .. l /\ Numbered(k) = <<row, v>>
    BY <1>1, <2>2, <2>3
  <2>5. q[k] = R(u, <<row, v>>)
    BY <1>2, <2>4
  <2>6. x[row][v] = R(u, <<row, v>>)
    BY <1>2
  <2> QED
    BY <2>3, <2>5, <2>6
<1>6. InTurn(a, rows) = InTurn(a * b, q)
  <2>1. Nested(rows, x, q, a, b)
    BY <1>3, <1>4, <1>5 DEF Nested
  <2> QED
    BY <2>1, InTurnNest
<1> QED
  BY <1>1, <1>2, <1>6 DEF InOrder, ByPosition

LEMMA TopKPart ==
    ASSUME Bm25Assumption, NEW inst \in Seq(Nat), KPacks <= Len(inst) * Channels
    PROVE  IsPart({<<"topk_id", 0>>}, {<<"merged", 0>>}, Bm25Plan(inst), TopKCmp(inst))
<1>1. PICK o, i, u, t : u = <<"merged", 0>> /\ t = <<"topk_id", 0>> /\ o = {t} /\ i = {u}
  OBVIOUS
<1>2. \A s \in o \cup i : s[1] \in {"topk_id", "merged"}
  BY <1>1
<1>3. PICK p : p = [b \in 1 .. Len(inst) |-> [c \in 1 .. Channels |-> R(u, <<b, c>>)]]
  OBVIOUS
<1>4. PICK h : h = [b \in 1 .. Len(inst) |-> InTurn(Channels, p[b])]
  OBVIOUS
<1>5. ASSUME NEW b \in 1 .. Len(inst), NEW c \in Channel
      PROVE  p[b][c] = EndOf(o, i, <<"score", c>>, <<b, c>>) \odot EndOf(o, i, <<"merged", 0>>, <<b, c>>)
  <2>1. PICK s : s = <<"score", c>>
    OBVIOUS
  <2>2. s \notin i /\ s \notin o /\ u \in i /\ u \notin o
    BY <1>1, <2>1
  <2>3. EndOf(o, i, s, <<b, c>>) = <<>> /\ EndOf(o, i, u, <<b, c>>) = R(u, <<b, c>>)
    BY <2>2 DEF EndOf
  <2>4. p[b][c] = R(u, <<b, c>>)
    BY <1>3, <2>1 DEF Channel
  <2>5. <<>> \odot R(u, <<b, c>>) = R(u, <<b, c>>)
    BY OneOp
  <2> QED
    BY <1>1, <2>1, <2>3, <2>4, <2>5
<1>6. \A b \in 1 .. Len(inst) : h[b] = InTurn(Channels, p[b])
  BY <1>4
<1>7. PICK n \in Nat, d \in Nat, l \in Nat : n = Len(inst) /\ d = Channels /\ l = n * d
  <2>1. Len(inst) \in Nat /\ Channels \in Nat /\ Len(inst) * Channels \in Nat
    BY Bm25Sizes
  <2> QED
    BY <2>1
<1>8. PICK w : w = InTurn(n, h)
  OBVIOUS
<1>9. IsPart(o, i, Batches(inst), w)
  BY <1>2, <1>5, <1>6, <1>7, <1>8, MergesPart
<1>10. PICK q : q = [k \in 1 .. l |-> R(u, Numbered(k))]
  OBVIOUS
<1>11. AreSeqs(l, q)
  BY <1>10, OneOp DEF AreSeqs
<1>12. w = InTurn(l, q)
  <2>1. h = [x \in 1 .. n |-> InTurn(d, [y \in 1 .. d |-> R(u, <<x, y>>)])]
    BY <1>3, <1>4, <1>7
  <2>2. InOrder(u, n, d) = w
    BY <1>8, <2>1 DEF InOrder
  <2>3. ByPosition(u, l) = InTurn(l, q)
    BY <1>10 DEF ByPosition
  <2>4. InOrder(u, n, d) = ByPosition(u, n * d)
    BY <1>7, MergedInOrder
  <2> QED
    BY <1>7, <2>2, <2>3, <2>4
<1>13. PICK a \in Nat, e \in Nat : a = KPacks /\ e = Len(inst) * Channels - KPacks /\ a + e = l
  <2>1. KPacks \in Nat /\ Len(inst) * Channels = l
    BY <1>7, Bm25Sizes
  <2>2. l - KPacks \in Nat /\ KPacks + (l - KPacks) = l
    BY <2>1
  <2> QED
    BY <2>1, <2>2
<1>14. PICK f, g : /\ f = [k \in 1 .. a |-> R(u, Numbered(k))]
                   /\ g = [k \in 1 .. e |-> R(u, Numbered(a + k))]
  OBVIOUS
<1>15. w = InTurn(a, f) \odot InTurn(e, g)
  <2>1. Follows(g, q, a, e)
    <3>1. \A k \in 1 .. e : a + k \in 1 .. l
      BY <1>13
    <3> QED
      BY <1>10, <1>14, <3>1 DEF Follows
  <2>2. AreSeqs(a + e, q)
    BY <1>11, <1>13
  <2>3. InTurn(a + e, q) = InTurn(a, q) \odot InTurn(e, g)
    BY <2>1, <2>2, InTurnSplit
  <2>4. \A k \in 1 .. a : k \in 1 .. l
    BY <1>13
  <2>5. AreSeqs(a, q) /\ \A k \in 1 .. a : f[k] = q[k]
    BY <1>10, <1>11, <1>14, <2>4 DEF AreSeqs
  <2>6. InTurn(a, f) = InTurn(a, q)
    BY <2>5, InTurnSame
  <2> QED
    BY <1>12, <1>13, <2>3, <2>6
<1>16. PICK y, z : y = [k \in 1 .. KPacks |-> Send(t, <<k>>)] /\ z = [k \in 1 .. KPacks |-> W(t, <<k>>)]
  OBVIOUS
<1>17. PICK s : s = InTurn(KPacks, z)
  OBVIOUS
<1>18. IsPart(o, i, BestIds, s)
  <2>1. \A k \in 1 .. KPacks : IsPart(o, i, y[k], z[k])
    BY <1>1, <1>16, PartWrite
  <2>2. BestIds = InTurn(KPacks, y)
    BY <1>1, <1>16 DEF BestIds, Loop
  <2> QED
    BY <1>17, <2>1, <2>2, Bm25Sizes, PartTurns
<1>19. IsPart(o, i, Frequencies, <<>>) /\ IsPart(o, i, QueryVectors, <<>>)
  <2>1. Outside(o, i, LinksOf("df")) /\ Outside(o, i, LinksOf("query"))
    BY <1>2, OwnMerge
  <2> QED
    BY <2>1, FrequenciesOn, QueryOn, IdleOutside
<1>20. IsPart(o, i, Bm25Plan(inst), <<>> \odot <<>> \odot w \odot s)
  BY <1>9, <1>18, <1>19, Bm25PlanParts
<1>21. <<>> \odot <<>> = <<>> /\ <<>> \odot w = w
  BY <1>9, Join, EmptyIsSeq DEF IsPart
<1>22. TopKCmp(inst) = InTurn(a, f) \odot InTurn(e, g) \odot s
  BY <1>1, <1>13, <1>14, <1>16, <1>17 DEF TopKCmp, Loop, \odot
<1> QED
  BY <1>1, <1>15, <1>20, <1>21, <1>22

(* Each task's script is what it does of the plan. *)
LEMMA Bm25Parts ==
    ASSUME Bm25Assumption, NEW inst \in Seq(Nat), KPacks <= Len(inst) * Channels, NEW k \in Bm25Task
    PROVE  Bm25Script(inst)[k] = Part(Ours(Bm25Writer, k), Ours(Bm25Reader, k), Bm25Plan(inst))
<1>1. CASE k \in Single \X {0}
  <2>1. \/ k = <<"read_df", 0>> \/ k = <<"read_query", 0>> \/ k = <<"read_inst", 0>>
        \/ k = <<"hole_df", 0>> \/ k = <<"hole_query", 0>> \/ k = <<"hole_inst", 0>>
        \/ k = <<"merge", 0>> \/ k = <<"topk", 0>> \/ k = <<"write_id", 0>>
    BY <1>1 DEF Single
  <2>2. CASE k = <<"read_df", 0>>
    <3>1. Bm25Script(inst)[k] = ReadDf
      BY <2>2 DEF Bm25Script
    <3> QED
      BY <2>2, <3>1, DfEnds, WrittenAlone, TakenAlone DEF IsPart
  <2>3. CASE k = <<"read_query", 0>>
    <3>1. Bm25Script(inst)[k] = ReadQuery
      BY <2>3 DEF Bm25Script
    <3> QED
      BY <2>3, <3>1, QueryEnds, WrittenAlone, TakenAlone DEF IsPart
  <2>4. CASE k = <<"read_inst", 0>>
    <3>1. Bm25Script(inst)[k] = ReadInst(inst)
      BY <2>4 DEF Bm25Script
    <3> QED
      BY <2>4, <3>1, InstEnds, WrittenAlone, TakenAlone DEF IsPart
  <2>5. CASE k = <<"hole_df", 0>>
    <3>1. Bm25Script(inst)[k] = BlackHole(DfVecs, "df")
      BY <2>5 DEF Bm25Script
    <3> QED
      BY <2>5, <3>1, DfEnds, WrittenAlone, TakenAlone DEF IsPart
  <2>6. CASE k = <<"hole_query", 0>>
    <3>1. Bm25Script(inst)[k] = BlackHole(QueryVecs, "query")
      BY <2>6 DEF Bm25Script
    <3> QED
      BY <2>6, <3>1, QueryEnds, WrittenAlone, TakenAlone DEF IsPart
  <2>7. CASE k = <<"hole_inst", 0>>
    <3>1. Bm25Script(inst)[k] = BlackHole(Len(inst), "inst")
      BY <2>7 DEF Bm25Script
    <3> QED
      BY <2>7, <3>1, InstEnds, WrittenAlone, TakenAlone DEF IsPart
  <2>8. CASE k = <<"merge", 0>>
    <3>1. Bm25Script(inst)[k] = MergeScore(inst)
      BY <2>8 DEF Bm25Script
    <3> QED
      BY <2>8, <3>1, MergePart, WrittenAlone, TakenAlone DEF IsPart
  <2>9. CASE k = <<"topk", 0>>
    <3>1. Bm25Script(inst)[k] = TopKCmp(inst)
      BY <2>9 DEF Bm25Script
    <3> QED
      BY <2>9, <3>1, TopKPart, WrittenAlone, TakenAlone DEF IsPart
  <2>10. CASE k = <<"write_id", 0>>
    <3>1. Bm25Script(inst)[k] = WriteId
      BY <2>10 DEF Bm25Script
    <3> QED
      BY <2>10, <3>1, WriteIdPart, WrittenAlone, TakenAlone DEF IsPart
  <2> QED
    BY <2>1, <2>2, <2>3, <2>4, <2>5, <2>6, <2>7, <2>8, <2>9, <2>10
<1>2. CASE k \in PerChannel \X Channel
  <2>1. PICK x \in PerChannel, c \in Channel : k = <<x, c>>
    BY <1>2
  <2>2. \/ k = <<"read_doc_dict", c>> \/ k = <<"core", c>> \/ k = <<"idf", c>>
        \/ k = <<"tf_weight", c>> \/ k = <<"score_mul", c>> \/ k = <<"score_acc", c>>
    BY <2>1 DEF PerChannel
  <2>3. CASE k = <<"read_doc_dict", c>>
    <3>1. Bm25Script(inst)[k] = ReadDocDict(c, inst)
      BY <2>3 DEF Bm25Script
    <3> QED
      BY <2>3, <3>1, ReadDocPart, WrittenEach, TakenEach DEF IsPart
  <2>4. CASE k = <<"core", c>>
    <3>1. Bm25Script(inst)[k] = Core(c, inst)
      BY <2>4 DEF Bm25Script
    <3> QED
      BY <2>4, <3>1, CorePart, WrittenEach, TakenEach DEF IsPart
  <2>5. CASE k = <<"idf", c>>
    <3>1. Bm25Script(inst)[k] = Idf(c, inst)
      BY <2>5 DEF Bm25Script
    <3> QED
      BY <2>5, <3>1, IdfPart, WrittenEach, TakenEach DEF IsPart
  <2>6. CASE k = <<"tf_weight", c>>
    <3>1. Bm25Script(inst)[k] = TfWeight(c, inst)
      BY <2>6 DEF Bm25Script
    <3> QED
      BY <2>6, <3>1, TfWeightPart, WrittenEach, TakenEach DEF IsPart
  <2>7. CASE k = <<"score_mul", c>>
    <3>1. Bm25Script(inst)[k] = ScoreMul(c, inst)
      BY <2>7 DEF Bm25Script
    <3> QED
      BY <2>7, <3>1, ScoreMulPart, WrittenEach, TakenEach DEF IsPart
  <2>8. CASE k = <<"score_acc", c>>
    <3>1. Bm25Script(inst)[k] = ScoreAcc(c, inst)
      BY <2>8 DEF Bm25Script
    <3> QED
      BY <2>8, <3>1, ScoreAccPart, WrittenEach, TakenEach DEF IsPart
  <2> QED
    BY <2>2, <2>3, <2>4, <2>5, <2>6, <2>7, <2>8
<1> QED
  BY <1>1, <1>2 DEF Bm25Task

LEMMA Bm25Ends ==
    ASSUME Bm25Assumption
    PROVE  /\ Bm25Writer \in [Bm25Chan -> Bm25Task] /\ Bm25Reader \in [Bm25Chan -> Bm25Task]
           /\ \A s \in Bm25Chan : Bm25Writer[s] # Bm25Reader[s]
<1>1. /\ \A x \in Single : <<x, 0>> \in Bm25Task
      /\ \A x \in PerChannel : \A c \in Channel : <<x, c>> \in Bm25Task
  BY DEF Bm25Task
<1>2. /\ <<"read_df", 0>> \in Bm25Task /\ <<"read_query", 0>> \in Bm25Task
      /\ <<"read_inst", 0>> \in Bm25Task /\ <<"hole_df", 0>> \in Bm25Task
      /\ <<"hole_query", 0>> \in Bm25Task /\ <<"hole_inst", 0>> \in Bm25Task
      /\ <<"merge", 0>> \in Bm25Task /\ <<"topk", 0>> \in Bm25Task /\ <<"write_id", 0>> \in Bm25Task
      /\ \A c \in Channel : /\ <<"read_doc_dict", c>> \in Bm25Task /\ <<"core", c>> \in Bm25Task
                             /\ <<"idf", c>> \in Bm25Task /\ <<"tf_weight", c>> \in Bm25Task
                             /\ <<"score_mul", c>> \in Bm25Task /\ <<"score_acc", c>> \in Bm25Task
  BY <1>1 DEF Single, PerChannel
<1>3. \A s \in Bm25Chan : Bm25Writer[s] \in Bm25Task
  BY <1>2, WriterCases
<1>4. \A s \in Bm25Chan : Bm25Reader[s] \in Bm25Task
  BY <1>2, ReaderCases
<1>5. ASSUME NEW s \in Bm25Chan PROVE Bm25Writer[s] # Bm25Reader[s]
  <2>1. Ours(Bm25Writer, Bm25Writer[s]) \cap Ours(Bm25Reader, Bm25Writer[s]) = {}
    <3>1. CASE \E x \in Single : Bm25Writer[s] = <<x, 0>>
      BY <3>1, WrittenAlone, TakenAlone DEF Single
    <3>2. CASE \E x \in PerChannel, c \in Channel : Bm25Writer[s] = <<x, c>>
      <4>1. PICK x \in PerChannel, c \in Channel : Bm25Writer[s] = <<x, c>>
        BY <3>2
      <4>2. CoreOut(c) \cap CoreIn(c) = {}
        <5>1. /\ \A t \in CoreOut(c) : t[1] \in {"df", "query", "inst"} => t[2] = c + 1
              /\ \A t \in CoreOut(c) : t[1] # "doc"
              /\ \A t \in CoreIn(c) : (t[1] \in {"df", "query", "inst"} /\ t[2] = c) \/ t[1] = "doc"
          BY DEF CoreOut, CoreIn
        <5>2. c + 1 # c
          BY Bm25Sizes DEF Channel
        <5> QED
          BY <5>1, <5>2
      <4>3. /\ {<<"idf", c>>} \cap {<<"df_t", c>>} = {} /\ {<<"tf_weight", c>>} \cap {<<"f", c>>} = {}
            /\ {<<"psum", c>>} \cap {<<"idf", c>>, <<"tf_weight", c>>} = {}
            /\ {<<"score", c>>} \cap {<<"psum", c>>, <<"inst_out", c>>} = {}
            /\ {<<"doc", c>>} \cap {} = {}
        OBVIOUS
      <4>4. \A k \in {<<"read_doc_dict", c>>, <<"core", c>>, <<"idf", c>>, <<"tf_weight", c>>,
                      <<"score_mul", c>>, <<"score_acc", c>>} :
               Ours(Bm25Writer, k) \cap Ours(Bm25Reader, k) = {}
        BY <4>2, <4>3, WrittenEach, TakenEach, Zenon
      <4> QED
        BY <4>1, <4>4 DEF PerChannel
    <3> QED
      BY <1>3, <3>1, <3>2 DEF Bm25Task
  <2> QED
    BY <2>1, WriterOf, ReaderOf DEF Ours
<1> QED
  BY <1>3, <1>4, <1>5, WriterOf, ReaderOf DEF Bm25Writer, Bm25Reader

LEMMA Bm25Choreographed ==
    ASSUME Bm25Assumption, NEW k, NEW inst \in Seq(Nat), KPacks <= Len(inst) * Channels,
           Script[k] = Bm25Script(inst), DOMAIN Depth[k] = Bm25Chan,
           \A s \in Bm25Chan : Depth[k][s] \in Nat \ {0}
    PROVE  Choreographed(k)
<1>1. DOMAIN Bm25Script(inst) = Bm25Task
  BY DEF Bm25Script
<1>2. IsSeq(Bm25Plan(inst)) /\ \A m \in 1 .. Len(Bm25Plan(inst)) : Bm25Plan(inst)[m].ch \in Bm25Chan
  BY Bm25PlanOn DEF OnStreams
<1>3. /\ Bm25Writer \in [Bm25Chan -> Bm25Task] /\ Bm25Reader \in [Bm25Chan -> Bm25Task]
      /\ \A s \in Bm25Chan : Bm25Writer[s] # Bm25Reader[s]
  BY Bm25Ends
<1>4. \A j \in Bm25Task : Script[k][j] = Part(Ours(Bm25Writer, j), Ours(Bm25Reader, j), Bm25Plan(inst))
  BY Bm25Parts
<1>5. Choreography(k, Bm25Plan(inst), Bm25Writer, Bm25Reader)
  BY <1>1, <1>2, <1>3, <1>4 DEF Choreography
<1> QED
  BY <1>5 DEF Choreographed

LEMMA Bm25Depths == \A s \in Bm25Chan : Bm25Depth[s] \in Nat \ {0}
  BY DEF Bm25Depth

(* The BM25 indexer with any number of channels, for a vocabulary and a     *)
(* query of any size and any batches of documents, at any depths of its    *)
(* streams, the code's among them (Bm25Depths), as long as there are as     *)
(* many packs of documents as topk_parallel_cmp has nodes to fill (with     *)
(* fewer it waits for ever): whatever the order the tasks run in, every     *)
(* read takes the datum it is meant for - the k-th score topk reads is the  *)
(* one of the documents it takes it for -, the kernel never stops early,    *)
(* and when it has returned nothing is left in a stream.                    *)
THEOREM Bm25Sound ==
    ASSUME Bm25Assumption,
           \A k \in Run : /\ \E inst \in Seq(Nat) : /\ Script[k] = Bm25Script(inst)
                                                   /\ KPacks <= Len(inst) * Channels
                          /\ DOMAIN Depth[k] = Bm25Chan
                          /\ \A s \in Bm25Chan : Depth[k][s] \in Nat \ {0}
    PROVE  Spec => [](Aligned /\ Drained /\ ~Stuck)
<1>1. \A k \in Run : Choreographed(k)
  BY Bm25Choreographed
<1> QED
  BY <1>1, ChoreographySound
================================================================================
