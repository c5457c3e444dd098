---------------------------- MODULE RemoteRetrieval ----------------------------
(***************************************************************************)
(* Retrieval over TCP (aws_ec2_ena).  Each run of the indexer host         *)
(* (indexer_reference_tb.cpp) connects to the RAG pipeline, launches the   *)
(* kernel, sends a timestamp and TOP_K indices, and closes.  The pipeline  *)
(* (rag_pipeline.py) listens from its start, accepts one connection at a   *)
(* time, and reads one payload for every retrieval.                        *)
(*                                                                         *)
(* A connection delivers the bytes it was given, in order.  It may break,  *)
(* which both ends notice at some later call; the process of a run may     *)
(* die, which closes it; its machine may die, which nobody notices.        *)
(***************************************************************************)
EXTENDS Integers, Sequences, FiniteSets

CONSTANTS
    Runs,            \* runs of the indexer host
    PayloadBytes,    \* REMOTE_PAYLOAD_BYTES
    AcceptQueue,     \* connections that may wait to be accepted
    MaxRetrievals,   \* bound: retrievals asked for
    MaxFaults        \* bound: connections broken, processes and machines dead

ASSUME RemoteAssumption ==
    /\ PayloadBytes \in Nat \ {0} /\ AcceptQueue \in Nat \ {0}
    /\ MaxRetrievals \in Nat /\ MaxFaults \in Nat

VARIABLES
    phase,       \* of each run
    sent,        \* bytes it has given to its connection
    order,       \* connections in the order they were made
    accepted,    \* how many of them were accepted
    broken,      \* connections that broke
    got,         \* bytes read from each connection
    state,       \* of the pipeline
    connected,   \* is remote_conn set? (to the last one accepted)
    buffer,      \* chunks of recv_exact
    asked,       \* retrievals asked for
    answers,     \* payloads that answered them
    faults

senders == <<phase, sent>>
receiver == <<accepted, got, connected, buffer, answers>>
vars == <<senders, order, broken, receiver, state, asked, faults>>

Phases == {"start", "connected", "launched", "sent", "failed", "died", "vanished"}
States == {"off", "idle", "accept", "recv", "ended"}

(* The i-th byte a run sends. *)
Byte(r, i) == <<r, i>>
Payload == [r \in Runs |-> [i \in 1 .. PayloadBytes |-> Byte(r, i)]]

Waiting == Len(order) - accepted
Conn == order[accepted]

(* What recv can return now, and whether the connection has ended. *)
Readable(r) == IF r \in broken THEN 0 ELSE sent[r] - got[r]
Closed(r) == phase[r] \in {"sent", "failed", "died"}
EndedWhenEmpty(r) == Readable(r) = 0
EndedBroken(r) == r \in broken
Ended(r) == r \in broken \/ (Closed(r) /\ Readable(r) = 0)

Init ==
    /\ phase = [r \in Runs |-> "start"]
    /\ sent = [r \in Runs |-> 0] /\ got = [r \in Runs |-> 0]
    /\ order = <<>> /\ accepted = 0 /\ broken = {}
    /\ state = "off" /\ connected = FALSE /\ buffer = <<>>
    /\ asked = 0 /\ answers = <<>> /\ faults = 0

--------------------------------------------------------------------------------
(* setup_tcp_client: the system of the pipeline's machine takes the        *)
(* connection, there need not be an accept yet.                            *)
Connect(r) ==
    /\ phase[r] = "start" /\ state \notin {"off", "ended"} /\ Waiting < AcceptQueue
    /\ phase' = [phase EXCEPT ![r] = "connected"] /\ order' = Append(order, r)
    /\ UNCHANGED <<sent, broken, receiver, state, asked, faults>>

(* Nobody listens, or the connection is not taken in time. *)
ConnectFails(r) ==
    /\ phase[r] = "start" /\ (state \in {"off", "ended"} \/ Waiting >= AcceptQueue)
    /\ phase' = [phase EXCEPT ![r] = "failed"]
    /\ UNCHANGED <<sent, order, broken, receiver, state, asked, faults>>

Launch(r) ==
    /\ phase[r] = "connected"
    /\ phase' = [phase EXCEPT ![r] = "launched"]
    /\ UNCHANGED <<sent, order, broken, receiver, state, asked, faults>>

SendAgain(r, n) ==
    /\ phase[r] = "launched" /\ sent[r] < PayloadBytes
    /\ sent' = [sent EXCEPT ![r] = @ + n]
    /\ phase' = IF sent[r] + n >= PayloadBytes THEN [phase EXCEPT ![r] = "sent"] ELSE phase
    /\ UNCHANGED <<order, broken, receiver, state, asked, faults>>

(* run.wait, then send_all: a send takes some of the bytes left; after the *)
(* last one the socket is closed.  A sender may not know that the          *)
(* connection is broken.                                                   *)
SendSome(r, n) ==
    /\ phase[r] = "launched" /\ sent[r] + n <= PayloadBytes
    /\ sent' = [sent EXCEPT ![r] = @ + n]
    /\ phase' = IF sent[r] + n = PayloadBytes THEN [phase EXCEPT ![r] = "sent"] ELSE phase
    /\ UNCHANGED <<order, broken, receiver, state, asked, faults>>

(* send returns an error, or its signal kills the process. *)
SendFails(r) ==
    /\ phase[r] = "launched" /\ r \in broken
    /\ phase' = [phase EXCEPT ![r] = "failed"]
    /\ UNCHANGED <<sent, order, broken, receiver, state, asked, faults>>

Sender(r) ==
    \/ Connect(r) \/ ConnectFails(r) \/ Launch(r) \/ SendFails(r)
    \/ \E n \in 1 .. PayloadBytes : SendSome(r, n)

--------------------------------------------------------------------------------
(* _initialize_remote_receiver, from initialize *)
Listen ==
    /\ state = "off"
    /\ state' = "idle"
    /\ UNCHANGED <<senders, order, broken, receiver, asked, faults>>

(* retrieve of a question, or of a sentence of its answer: goes into       *)
(* _receive_remote_indices.                                                *)
Retrieve ==
    /\ state = "idle" /\ asked < MaxRetrievals
    /\ asked' = asked + 1
    /\ state' = IF connected THEN "recv" ELSE "accept"
    /\ UNCHANGED <<senders, order, broken, receiver, faults>>

(* _ensure_remote_connection *)
Accept ==
    /\ state = "accept" /\ Waiting > 0
    /\ accepted' = accepted + 1 /\ connected' = TRUE
    /\ state' = "recv"
    /\ UNCHANGED <<senders, order, broken, got, buffer, answers, asked, faults>>

(* What one recv may take: up to the bytes still missing. *)
Wanted == 1 .. PayloadBytes - Len(buffer)

(* recv_exact: a recv takes some of what is there; with the last byte the  *)
(* payload answers the retrieval, and the connection stays open.           *)
Recv(n) ==
    LET read == [i \in 1 .. n |-> Byte(Conn, got[Conn] + i)]
        whole == Len(buffer) + n = PayloadBytes
    IN  /\ state = "recv" /\ n <= Readable(Conn)
        /\ got' = [got EXCEPT ![Conn] = @ + n]
        /\ buffer' = IF whole THEN <<>> ELSE buffer \o read
        /\ answers' = IF whole THEN Append(answers, buffer \o read) ELSE answers
        /\ state' = IF whole THEN "idle" ELSE "recv"
        /\ UNCHANGED <<senders, order, broken, accepted, connected, asked, faults>>

ReconnectKeepsChunks ==
    /\ state = "recv" /\ Ended(Conn)
    /\ connected' = FALSE /\ state' = "accept"
    /\ UNCHANGED <<senders, order, broken, accepted, got, buffer, answers, asked, faults>>

(* A recv that raises, or returns nothing: the chunks are dropped, the     *)
(* connection is closed, and the next one awaited.                         *)
Reconnect ==
    /\ state = "recv" /\ Ended(Conn)
    /\ connected' = FALSE /\ buffer' = <<>> /\ state' = "accept"
    /\ UNCHANGED <<senders, order, broken, accepted, got, answers, asked, faults>>

(* quit at the prompt, or an interrupt while waiting: every connection     *)
(* that the pipeline has not read is reset.                                *)
Quit ==
    /\ state \notin {"off", "ended"}
    /\ state' = "ended" /\ connected' = FALSE /\ buffer' = <<>>
    /\ broken' = broken \cup {order[i] : i \in {j \in 1 .. Len(order) :
                                  j > accepted \/ (connected /\ j = accepted)}}
    /\ UNCHANGED <<senders, order, accepted, got, answers, asked, faults>>

Receiver == Listen \/ Accept \/ Reconnect \/ \E n \in Wanted : Recv(n)

--------------------------------------------------------------------------------
(* The process of a run dies, and its system closes the connection. *)
Die(r) ==
    /\ faults < MaxFaults /\ phase[r] \in {"connected", "launched"}
    /\ phase' = [phase EXCEPT ![r] = "died"] /\ faults' = faults + 1
    /\ UNCHANGED <<sent, order, broken, receiver, state, asked>>

(* Its machine dies: the connection stays as it is, there is no timeout. *)
Vanish(r) ==
    /\ faults < MaxFaults /\ phase[r] \in {"connected", "launched"}
    /\ phase' = [phase EXCEPT ![r] = "vanished"] /\ faults' = faults + 1
    /\ UNCHANGED <<sent, order, broken, receiver, state, asked>>

(* The connection breaks; bytes not read are lost. *)
Break(r) ==
    /\ faults < MaxFaults /\ phase[r] \in {"connected", "launched", "sent"} /\ r \notin broken
    /\ broken' = broken \cup {r} /\ faults' = faults + 1
    /\ UNCHANGED <<senders, order, receiver, state, asked>>

Fault(r) == Die(r) \/ Vanish(r) \/ Break(r)

Next == Receiver \/ Retrieve \/ Quit \/ \E r \in Runs : Sender(r) \/ Fault(r)

Spec == Init /\ [][Next]_vars

(* Programs take their next step, kernels end, and what was sent arrives;  *)
(* nobody need ask or quit.                                                *)
FairSpec == Spec /\ WF_vars(Receiver) /\ \A r \in Runs : WF_vars(Sender(r))

--------------------------------------------------------------------------------
Used == {r \in Runs : \E i \in DOMAIN answers : answers[i] = Payload[r]}
Finished == {r \in Runs : sent[r] = PayloadBytes}

Promise == INSTANCE RemoteDelivery WITH
    finished <- Finished, used <- Used,
    answer <- IF answers = <<>> THEN <<>> ELSE answers[Len(answers)]

(* Receiving implements the delivery of whole payloads, none twice. *)
PromiseSpec == Promise!Spec

(* The state of the pipeline and its connections is well formed. *)
TypeOK ==
    /\ phase \in [Runs -> Phases]
    /\ sent \in [Runs -> 0 .. PayloadBytes] /\ got \in [Runs -> 0 .. PayloadBytes]
    /\ order \in Seq(Runs) /\ accepted \in 0 .. Len(order) /\ broken \subseteq Runs
    /\ state \in States /\ connected \in BOOLEAN
    /\ buffer \in Seq(Runs \X Nat) /\ answers \in Seq(Seq(Runs \X Nat))
    /\ asked \in Nat /\ faults \in Nat

(* No answer mixes the bytes of two runs or misses one, however the sends  *)
(* and the reads split the payloads and whatever breaks in between.        *)
WholeAnswers == \A i \in DOMAIN answers : \E r \in Finished : answers[i] = Payload[r]

(* Answers come in the order of the connections, each run answers at most  *)
(* once, and no run whose whole payload could be read is passed over.      *)
ConnectionOrder ==
    LET At(i) == {k \in 1 .. Len(order) : Payload[order[k]] = answers[i]}
    IN  /\ \A i, j \in DOMAIN answers : i < j => \A k \in At(i), l \in At(j) : k < l
        /\ \A k \in 1 .. accepted :
               \/ order[k] \in Used \cup broken
               \/ phase[order[k]] = "died"
               \/ (connected /\ k = accepted)

(* A retrieval that waits while a whole payload can be read gets an        *)
(* answer, whatever the runs before it did, if no machine died: there is   *)
(* no timeout for that.                                                    *)
Served ==
    \A r \in Runs :
        (state \in {"accept", "recv"} /\ phase[r] = "sent" /\ got[r] = 0)
            ~> (state \in {"idle", "ended"} \/ r \in broken \/ \E s \in Runs : phase[s] = "vanished")
================================================================================
