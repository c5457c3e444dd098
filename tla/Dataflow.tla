-------------------------------- MODULE Dataflow -------------------------------
(***************************************************************************)
(* The execution model of a TAPA kernel: tasks that run concurrently, each *)
(* its own fixed order of blocking reads and writes on bounded FIFOs with  *)
(* one writer and one reader.  A kernel gives the script of every task,    *)
(* translated from its loops; a message is the name the writer gives the   *)
(* datum, and a read says which datum the code takes it for.               *)
(***************************************************************************)
EXTENDS Naturals, Sequences

CONSTANTS Run,     \* the runs to consider (which kernel, how many rounds)
          Script,  \* Script[r][k], what task k does in run r: a sequence of
                   \* [dir |-> "r" or "w", ch |-> stream, msg |-> datum]
          Depth    \* Depth[r][c], the capacity of stream c in run r

(* The streams task k reads, or writes, in run r. *)
Ends(r, k, dir) == {Script[r][k][i].ch : i \in {n \in DOMAIN Script[r][k] :
                                                    Script[r][k][n].dir = dir}}

AllEnds(r) == {<<k, dir, Ends(r, k, dir)>> : k \in DOMAIN Script[r], dir \in {"r", "w"}}

(* What makes scripts a kernel: they use its streams, and every stream has *)
(* one reader and one writer.  Each kernel assumes it of its own scripts.  *)
WellFormed ==
    \A r \in Run :
        /\ \A c \in DOMAIN Depth[r] : Depth[r][c] \in Nat \ {0}
        /\ \A k \in DOMAIN Script[r] :
              /\ Len(Script[r][k]) \in Nat
              /\ DOMAIN Script[r][k] = 1 .. Len(Script[r][k])
              /\ \A i \in DOMAIN Script[r][k] : /\ Script[r][k][i].ch \in DOMAIN Depth[r]
                                                /\ Script[r][k][i].dir \in {"r", "w"}
        /\ \A e, f \in AllEnds(r) : e[1] # f[1] /\ e[2] = f[2] => e[3] \cap f[3] = {}

VARIABLES run,   \* the run this is
          pos,   \* operations each task has done
          fifo   \* contents of each stream

vars == <<run, pos, fifo>>

(* The tasks the kernel of this run invokes, and its streams. *)
Task == DOMAIN Script[run]
Chan == DOMAIN Depth[run]

Init ==
    /\ run \in Run
    /\ pos = [k \in Task |-> 0]
    /\ fifo = [c \in Chan |-> <<>>]

Returned(k) == pos[k] = Len(Script[run][k])
Op(k) == Script[run][k][pos[k] + 1]

Advance(k) == pos' = [pos EXCEPT ![k] = @ + 1] /\ UNCHANGED run

(* A read waits for a datum, a write for room. *)
Can(k) ==
    /\ ~Returned(k)
    /\ IF Op(k).dir = "r" THEN fifo[Op(k).ch] # <<>>
                          ELSE Len(fifo[Op(k).ch]) < Depth[run][Op(k).ch]

(* stream.read() *)
Read(k) ==
    /\ Can(k) /\ Op(k).dir = "r"
    /\ fifo' = [fifo EXCEPT ![Op(k).ch] = Tail(@)]
    /\ Advance(k)

(* stream.write() *)
Write(k) ==
    /\ Can(k) /\ Op(k).dir = "w"
    /\ fifo' = [fifo EXCEPT ![Op(k).ch] = Append(@, Op(k).msg)]
    /\ Advance(k)

Step(k) == Read(k) \/ Write(k)

AllReturned == \A k \in Task : Returned(k)
Finished == AllReturned /\ UNCHANGED vars

Next == (\E k \in Task : Step(k)) \/ Finished

(* Every task is a piece of hardware of its own and goes on when it can:   *)
(* the kernel as a whole does not stop while one of them can.              *)
Spec == Init /\ [][Next]_vars /\ WF_vars(Next)

(* One schedule of them all: what every stream carries, and whether the    *)
(* tasks return, does not depend on the schedule (DataflowProofs).  Larger *)
(* instances are checked this way.                                         *)
Next1 == IF \E k \in Task : Can(k) THEN Step(CHOOSE k \in Task : Can(k)) ELSE Finished
Spec1 == Init /\ [][Next1]_vars /\ WF_vars(Next1)

(* Whatever a task is about to read is the datum it takes it for. *)
Aligned ==
    \A k \in Task :
        ~Returned(k) /\ Op(k).dir = "r" /\ fifo[Op(k).ch] # <<>> =>
            Head(fifo[Op(k).ch]) = Op(k).msg

(* A kernel that has returned leaves no datum behind in a stream. *)
Drained == AllReturned => \A c \in Chan : fifo[c] = <<>>

Terminates == <>AllReturned
================================================================================
