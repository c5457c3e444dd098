-------------------------------- MODULE RagProofs ------------------------------
(***************************************************************************)
(* Proofs about the RAG pipeline: retrieval over TCP, the generation of an *)
(* answer sentence by sentence, and the retriever with its cache.          *)
(***************************************************************************)
EXTENDS RemoteRetrieval, RagGeneration, RagRetriever, FoldTheorems

(***************************************************************************)
(* Retrieval over TCP                                                      *)
(***************************************************************************)

(* The bytes 1 .. n that r sends *)
Bytes(r, n) == [i \in 1 .. n |-> Byte(r, i)]

(* A run connects once; it has failed only if its connection broke, and    *)
(* it is finished when it says so.                                         *)
Connections ==
    /\ \A i, j \in 1 .. Len(order) : order[i] = order[j] => i = j
    /\ \A i \in 1 .. Len(order) :
          /\ phase[order[i]] # "start"
          /\ phase[order[i]] = "failed" => order[i] \in broken
    /\ \A r \in Runs : phase[r] = "sent" => sent[r] = PayloadBytes

(* What was read was sent, and was read from a connection accepted.        *)
Reading ==
    /\ \A r \in Runs : got[r] <= sent[r]
    /\ \A k \in 1 .. Len(order) : k > accepted => got[order[k]] = 0
    /\ \A r \in Runs : got[r] > 0 => \E k \in 1 .. accepted : order[k] = r
    /\ connected => accepted > 0 /\ state \in {"idle", "recv"}
    /\ state = "recv" => connected
    /\ connected /\ state = "idle" => got[Conn] = PayloadBytes

(* The chunks are what was read of the last connection, until it is whole. *)
Chunks ==
    buffer = IF state = "recv" /\ got[Conn] # PayloadBytes THEN Bytes(Conn, got[Conn]) ELSE <<>>

(* An answer is the payload of a connection that was read to its end.      *)
Answered ==
    /\ \A i \in 1 .. Len(answers) : \E k \in 1 .. accepted :
          answers[i] = Payload[order[k]] /\ got[order[k]] = PayloadBytes
    /\ \A r \in Runs : got[r] = PayloadBytes => r \in Used

(* ConnectionOrder, with the domains spelled out. *)
InOrder ==
    \A i, j \in 1 .. Len(answers) : i < j =>
        \A k, l \in 1 .. Len(order) :
            Payload[order[k]] = answers[i] /\ Payload[order[l]] = answers[j] => k < l
NonePassedOver ==
    \A k \in 1 .. accepted :
        \/ order[k] \in Used \cup broken
        \/ phase[order[k]] = "died"
        \/ (connected /\ k = accepted)

RInv == TypeOK /\ Connections /\ Reading /\ Chunks /\ Answered /\ InOrder /\ NonePassedOver

--------------------------------------------------------------------------------
(* What a run sends names the run. *)
LEMMA PayloadTells ==
    ASSUME NEW r \in Runs, NEW s \in Runs, Payload[r] = Payload[s]
    PROVE  r = s
<1>1. 1 \in 1 .. PayloadBytes
  BY RemoteAssumption
<1>2. Payload[r][1] = <<r, 1>> /\ Payload[s][1] = <<s, 1>>
  BY <1>1 DEF Payload, Byte
<1>3. QED
  BY <1>2

(* Chunks put together are the bytes up to the last one. *)
LEMMA BytesJoin ==
    ASSUME NEW r \in Runs, NEW m \in Nat, NEW n \in Nat
    PROVE  /\ Bytes(r, m) \o [i \in 1 .. n |-> Byte(r, m + i)] = Bytes(r, m + n)
           /\ Bytes(r, m) \in Seq(Runs \X Nat) /\ Len(Bytes(r, m)) = m
           /\ [i \in 1 .. n |-> Byte(r, m + i)] \in Seq(Runs \X Nat)
           /\ Bytes(r, 0) = <<>>
<1>1. \A i \in Nat : Byte(r, i) \in Runs \X Nat
  BY DEF Byte
<1> DEFINE first == Bytes(r, m)
           second == [i \in 1 .. n |-> Byte(r, m + i)]
           both == Bytes(r, m + n)
<1>2. first \in Seq(Runs \X Nat) /\ Len(first) = m
  BY <1>1 DEF Bytes
<1>3. second \in Seq(Runs \X Nat) /\ Len(second) = n
  BY <1>1
<1>4. both \in Seq(Runs \X Nat) /\ Len(both) = m + n
  BY <1>1 DEF Bytes
<1>5. first \o second \in Seq(Runs \X Nat) /\ Len(first \o second) = m + n
  BY <1>2, <1>3
<1>6. ASSUME NEW i \in 1 .. m + n PROVE (first \o second)[i] = both[i]
  BY <1>2, <1>3 DEF Bytes
<1>7. first \o second = both
  <2> HIDE DEF first, second, both
  <2> QED
    BY <1>4, <1>5, <1>6, SeqEqual
<1>8. Bytes(r, 0) = <<>>
  BY DEF Bytes
<1>9. QED
  BY <1>2, <1>3, <1>7, <1>8

LEMMA OrderIs == TypeOK => (ConnectionOrder <=> InOrder /\ NonePassedOver)
<1> SUFFICES ASSUME TypeOK PROVE ConnectionOrder <=> InOrder /\ NonePassedOver
  OBVIOUS
<1>1. DOMAIN answers = 1 .. Len(answers)
  BY DEF TypeOK
<1>2. QED
  BY <1>1 DEF ConnectionOrder, InOrder, NonePassedOver

--------------------------------------------------------------------------------
LEMMA RInvInit == Init => RInv
<1> SUFFICES ASSUME Init PROVE RInv
  OBVIOUS
<1>1. Len(order) = 0 /\ Len(answers) = 0 /\ accepted = 0
  BY DEF Init
<1>2. order \in Seq(Runs) /\ buffer \in Seq(Runs \X Nat) /\ answers \in Seq(Seq(Runs \X Nat))
  BY DEF Init
<1>3. phase \in [Runs -> Phases] /\ sent \in [Runs -> 0 .. PayloadBytes]
      /\ got \in [Runs -> 0 .. PayloadBytes]
  BY RemoteAssumption DEF Init, Phases
<1>4. broken \subseteq Runs /\ state \in States /\ connected \in BOOLEAN
  BY DEF Init, States
<1>9. asked \in Nat /\ faults \in Nat /\ accepted \in 0 .. Len(order)
  BY <1>1 DEF Init
<1>5. TypeOK
  BY <1>2, <1>3, <1>4, <1>9 DEF TypeOK
<1>6. Connections /\ Reading /\ Chunks
  BY <1>1 DEF Init, Connections, Reading, Chunks
<1>7. \A r \in Runs : got[r] # PayloadBytes
  BY RemoteAssumption DEF Init
<1>8. Answered /\ InOrder /\ NonePassedOver
  BY <1>1, <1>7 DEF Answered, InOrder, NonePassedOver
<1>10. QED
  BY <1>5, <1>6, <1>8 DEF RInv

--------------------------------------------------------------------------------
(* What a step may do that reads and accepts nothing: bytes are sent,      *)
(* connections break, and runs go on or end.                               *)
LEMMA OthersKeep ==
    ASSUME RInv, TypeOK', UNCHANGED <<order, receiver, state>>, broken \subseteq broken',
           \A r \in Runs : sent[r] <= sent'[r],
           \A r \in Runs : phase[r] = "died" => phase'[r] = "died",
           \A r \in Runs : phase[r] # "start" => phase'[r] # "start",
           \A r \in Runs : phase[r] # "start" /\ phase'[r] = "failed" =>
               phase[r] = "failed" \/ r \in broken',
           \A r \in Runs : phase'[r] = "sent" => sent'[r] = PayloadBytes
    PROVE  RInv'
<1> USE DEF receiver
<1>1. order \in Seq(Runs) /\ accepted \in 0 .. Len(order)
      /\ got \in [Runs -> 0 .. PayloadBytes] /\ sent \in [Runs -> 0 .. PayloadBytes]
      /\ sent' \in [Runs -> 0 .. PayloadBytes]
  BY DEF RInv, TypeOK
<1>2. \A k \in 1 .. Len(order) : order[k] \in Runs
  BY <1>1
<1>3. Connections'
  BY <1>2 DEF RInv, Connections
<1>4. Reading'
  <2>1. \A s \in Runs : got'[s] <= sent'[s]
    BY <1>1 DEF RInv, Reading
  <2>2. Conn' = Conn
    BY DEF Conn
  <2>3. QED
    BY <2>1, <2>2 DEF RInv, Reading
<1>5. Chunks' /\ Answered' /\ InOrder' /\ Used' = Used
  BY DEF RInv, Chunks, Answered, InOrder, Conn, Used
<1>6. \A k \in 1 .. accepted : order[k] \in Runs
  BY <1>1, <1>2
<1>7. NonePassedOver'
  BY <1>5, <1>6 DEF RInv, NonePassedOver
<1>8. QED
  BY <1>3, <1>4, <1>5, <1>7 DEF RInv

(* One that neither sends nor breaks a connection *)
LEMMA PhasesKeep ==
    ASSUME RInv, TypeOK', UNCHANGED <<order, receiver, state, broken, sent>>,
           \A s \in Runs : phase'[s] = phase[s] \/
               \/ phase[s] = "start" /\ phase'[s] = "failed"
               \/ phase[s] = "connected" /\ phase'[s] = "launched"
               \/ phase[s] = "launched" /\ phase'[s] = "failed" /\ s \in broken
               \/ phase[s] \in {"connected", "launched"} /\ phase'[s] \in {"died", "vanished"}
    PROVE  RInv'
<1>1. \A s \in Runs : sent[s] <= sent'[s]
  BY DEF RInv, TypeOK
<1>2. \A s \in Runs : phase'[s] = "sent" => sent'[s] = PayloadBytes
  BY DEF RInv, Connections
<1>3. QED
  BY <1>1, <1>2, OthersKeep

LEMMA ConnectFailsStep == ASSUME RInv, NEW r \in Runs, ConnectFails(r) PROVE RInv'
<1>1. TypeOK'
  BY DEF RInv, TypeOK, ConnectFails, receiver, Phases
<1>2. UNCHANGED <<order, receiver, state, broken, sent>>
  BY DEF ConnectFails
<1>3. \A s \in Runs : phase'[s] = phase[s] \/ (phase[s] = "start" /\ phase'[s] = "failed")
  BY DEF RInv, TypeOK, ConnectFails
<1>4. QED
  BY <1>1, <1>2, <1>3, PhasesKeep

LEMMA LaunchStep == ASSUME RInv, NEW r \in Runs, Launch(r) PROVE RInv'
<1>1. TypeOK'
  BY DEF RInv, TypeOK, Launch, receiver, Phases
<1>2. UNCHANGED <<order, receiver, state, broken, sent>>
  BY DEF Launch
<1>3. \A s \in Runs : phase'[s] = phase[s] \/ (phase[s] = "connected" /\ phase'[s] = "launched")
  BY DEF RInv, TypeOK, Launch
<1>4. QED
  BY <1>1, <1>2, <1>3, PhasesKeep

LEMMA SendSomeStep ==
    ASSUME RInv, NEW r \in Runs, NEW n \in 1 .. PayloadBytes, SendSome(r, n) PROVE RInv'
<1>1. sent \in [Runs -> 0 .. PayloadBytes] /\ sent[r] + n \in 0 .. PayloadBytes
  BY RemoteAssumption DEF RInv, TypeOK, SendSome
<1>2. sent' \in [Runs -> 0 .. PayloadBytes] /\ phase' \in [Runs -> Phases]
  BY <1>1 DEF RInv, TypeOK, SendSome, Phases
<1>3. TypeOK'
  BY <1>2 DEF RInv, TypeOK, SendSome, receiver
<1>4. \A s \in Runs : sent[s] <= sent'[s]
  BY <1>1, RemoteAssumption DEF SendSome
<1>5. \A s \in Runs : phase'[s] = "sent" => sent'[s] = PayloadBytes
  BY <1>1 DEF RInv, TypeOK, Connections, SendSome
<1>6. \A s \in Runs : phase'[s] = phase[s] \/ (phase[s] = "launched" /\ phase'[s] = "sent")
  BY DEF RInv, TypeOK, SendSome
<1>7. UNCHANGED <<order, receiver, state, broken>>
  BY DEF SendSome
<1>8. QED
  BY <1>3, <1>4, <1>5, <1>6, <1>7, OthersKeep

LEMMA SendFailsStep == ASSUME RInv, NEW r \in Runs, SendFails(r) PROVE RInv'
<1>1. TypeOK'
  BY DEF RInv, TypeOK, SendFails, receiver, Phases
<1>2. UNCHANGED <<order, receiver, state, broken, sent>>
  BY DEF SendFails
<1>3. \A s \in Runs : phase'[s] = phase[s] \/ (phase[s] = "launched" /\ phase'[s] = "failed" /\ s \in broken)
  BY DEF RInv, TypeOK, SendFails
<1>4. QED
  BY <1>1, <1>2, <1>3, PhasesKeep

LEMMA FaultStep == ASSUME RInv, NEW r \in Runs, Fault(r) PROVE RInv'
<1>1. CASE Die(r)
  <2>1. TypeOK'
    BY <1>1 DEF RInv, TypeOK, Die, receiver, Phases
  <2>2. UNCHANGED <<order, receiver, state, broken, sent>>
    BY <1>1 DEF Die
  <2>3. \A s \in Runs : phase'[s] = phase[s]
            \/ (phase[s] \in {"connected", "launched"} /\ phase'[s] = "died")
    BY <1>1 DEF RInv, TypeOK, Die
  <2>4. QED
    BY <2>1, <2>2, <2>3, PhasesKeep
<1>2. CASE Vanish(r)
  <2>1. TypeOK'
    BY <1>2 DEF RInv, TypeOK, Vanish, receiver, Phases
  <2>2. UNCHANGED <<order, receiver, state, broken, sent>>
    BY <1>2 DEF Vanish
  <2>3. \A s \in Runs : phase'[s] = phase[s]
            \/ (phase[s] \in {"connected", "launched"} /\ phase'[s] = "vanished")
    BY <1>2 DEF RInv, TypeOK, Vanish
  <2>4. QED
    BY <2>1, <2>2, <2>3, PhasesKeep
<1>3. CASE Break(r)
  <2>1. TypeOK'
    BY <1>3 DEF RInv, TypeOK, Break, receiver, senders
  <2>2. UNCHANGED <<order, receiver, state, phase, sent>> /\ broken \subseteq broken'
    BY <1>3 DEF Break, senders
  <2>3. \A s \in Runs : sent[s] <= sent'[s]
    BY <2>2 DEF RInv, TypeOK
  <2>4. \A s \in Runs : phase'[s] = "sent" => sent'[s] = PayloadBytes
    BY <2>2 DEF RInv, Connections
  <2>5. QED
    BY <2>1, <2>2, <2>3, <2>4, OthersKeep
<1>4. QED
  BY <1>1, <1>2, <1>3 DEF Fault

--------------------------------------------------------------------------------
(* A run that connects was never read. *)
LEMMA ConnectStep == ASSUME RInv, NEW r \in Runs, Connect(r) PROVE RInv'
<1>1. order \in Seq(Runs) /\ accepted \in 0 .. Len(order) /\ Len(order) \in Nat
  BY DEF RInv, TypeOK
<1>2. /\ order' \in Seq(Runs) /\ Len(order') = Len(order) + 1 /\ order'[Len(order) + 1] = r
      /\ \A k \in 1 .. Len(order) : order'[k] = order[k] /\ order[k] \in Runs
  BY <1>1 DEF Connect
<1>3. \A k \in 1 .. Len(order) : order[k] # r
  BY DEF RInv, Connections, Connect
<1>4. /\ phase' = [phase EXCEPT ![r] = "connected"] /\ phase[r] = "start"
      /\ UNCHANGED <<sent, broken, accepted, got, connected, buffer, answers, state, asked, faults>>
  BY DEF Connect, receiver
<1>5. TypeOK'
  BY <1>2, <1>4 DEF RInv, TypeOK, Phases
<1>6. Connections'
  <2>1. phase'[r] = "connected" /\ \A s \in Runs \ {r} : phase'[s] = phase[s]
    BY <1>4 DEF RInv, TypeOK
  <2>2. \A i, j \in 1 .. Len(order') : order'[i] = order'[j] => i = j
    <3>1. \A i, j \in 1 .. Len(order) : order[i] = order[j] => i = j
      BY DEF RInv, Connections
    <3>2. \A i \in 1 .. Len(order') : i = Len(order) + 1 \/ i \in 1 .. Len(order)
      BY <1>1, <1>2
    <3>3. QED
      BY <1>2, <1>3, <3>1, <3>2
  <2>3. \A k \in 1 .. Len(order') : /\ phase'[order'[k]] # "start"
                                    /\ phase'[order'[k]] = "failed" => order'[k] \in broken'
    <3> SUFFICES ASSUME NEW k \in 1 .. Len(order')
                 PROVE  /\ phase'[order'[k]] # "start"
                        /\ phase'[order'[k]] = "failed" => order'[k] \in broken'
      OBVIOUS
    <3>1. CASE k = Len(order) + 1
      BY <1>2, <2>1, <3>1
    <3>2. CASE k \in 1 .. Len(order)
      BY <1>2, <1>3, <1>4, <2>1, <3>2 DEF RInv, Connections
    <3>3. QED
      BY <1>1, <1>2, <3>1, <3>2
  <2>4. \A s \in Runs : phase'[s] = "sent" => sent'[s] = PayloadBytes
    BY <1>4, <2>1 DEF RInv, Connections
  <2>5. QED
    BY <2>2, <2>3, <2>4 DEF Connections
<1>7. \A k \in 1 .. accepted : k \in 1 .. Len(order) /\ order'[k] = order[k]
  BY <1>1, <1>2
<1>8. got[r] = 0
  <2>1. got[r] > 0 => \E k \in 1 .. accepted : order[k] = r
    BY DEF RInv, Reading
  <2>2. got[r] \in 0 .. PayloadBytes
    BY DEF RInv, TypeOK
  <2>3. QED
    BY <1>3, <1>7, <2>1, <2>2, RemoteAssumption
<1>9. connected => Conn' = Conn
  BY <1>1, <1>2, <1>4, <1>7 DEF RInv, Reading, Conn
<1>10. Reading'
  BY <1>2, <1>4, <1>7, <1>8, <1>9 DEF RInv, Reading
<1>11. Chunks'
  BY <1>4, <1>9 DEF RInv, Reading, Chunks
<1>12. Answered' /\ Used' = Used
  <2>1. Used' = Used
    BY <1>4 DEF Used
  <2>2. \A i \in 1 .. Len(answers) : \E k \in 1 .. accepted :
            answers[i] = Payload[order'[k]] /\ got[order'[k]] = PayloadBytes
    BY <1>7 DEF RInv, Answered
  <2>3. \A s \in Runs : got[s] = PayloadBytes => s \in Used
    BY DEF RInv, Answered
  <2>4. QED
    BY <1>4, <2>1, <2>2, <2>3 DEF Answered
<1>13. InOrder'
  <2> SUFFICES ASSUME NEW i \in 1 .. Len(answers), NEW j \in 1 .. Len(answers), i < j,
                      NEW k \in 1 .. Len(order) + 1, NEW l \in 1 .. Len(order) + 1,
                      Payload[order'[k]] = answers[i], Payload[order'[l]] = answers[j]
               PROVE  k < l
    BY <1>2, <1>4 DEF InOrder
  <2>1. ASSUME NEW m \in 1 .. Len(order) + 1, NEW h \in 1 .. Len(answers),
               Payload[order'[m]] = answers[h]
        PROVE  m \in 1 .. Len(order)
    <3>1. PICK p \in 1 .. accepted : answers[h] = Payload[order[p]]
      BY DEF RInv, Answered
    <3>2. p \in 1 .. Len(order) /\ order[p] \in Runs /\ order'[m] \in Runs
      BY <1>1, <1>2
    <3>3. order'[m] = order[p]
      BY <2>1, <3>1, <3>2, PayloadTells
    <3>4. m # Len(order) + 1
      BY <1>2, <1>3, <3>2, <3>3
    <3>5. QED
      BY <1>1, <3>4
  <2>2. k \in 1 .. Len(order) /\ l \in 1 .. Len(order)
    BY <2>1
  <2>3. QED
    BY <1>2, <2>2 DEF RInv, InOrder
<1>14. NonePassedOver'
  <2>1. \A k \in 1 .. accepted : phase'[order[k]] = phase[order[k]]
    BY <1>3, <1>4, <1>7 DEF RInv, TypeOK
  <2>2. QED
    BY <1>4, <1>7, <1>12, <2>1 DEF RInv, NonePassedOver
<1>15. QED
  BY <1>5, <1>6, <1>10, <1>11, <1>12, <1>13, <1>14 DEF RInv

--------------------------------------------------------------------------------
(* The pipeline *)
LEMMA ListenStep == ASSUME RInv, Listen PROVE RInv'
<1>1. UNCHANGED <<phase, sent, order, broken, accepted, got, connected, buffer, answers, asked, faults>>
      /\ state = "off" /\ state' = "idle"
  BY DEF Listen, senders, receiver
<1>2. TypeOK' /\ ~ connected
  BY <1>1 DEF RInv, TypeOK, States, Reading
<1>3. Connections' /\ Reading' /\ Chunks' /\ Answered' /\ InOrder' /\ NonePassedOver'
  BY <1>1, <1>2 DEF RInv, Connections, Reading, Chunks, Answered, InOrder, NonePassedOver,
                    Used, Conn
<1>4. QED
  BY <1>2, <1>3 DEF RInv

LEMMA RetrieveStep == ASSUME RInv, Retrieve PROVE RInv'
<1>1. UNCHANGED <<phase, sent, order, broken, accepted, got, connected, buffer, answers, faults>>
      /\ state = "idle" /\ asked' = asked + 1
      /\ state' = IF connected THEN "recv" ELSE "accept"
  BY DEF Retrieve, senders, receiver
<1>2. TypeOK'
  BY <1>1 DEF RInv, TypeOK, States
<1>3. Connections' /\ Reading' /\ Chunks' /\ Answered' /\ InOrder' /\ NonePassedOver'
  BY <1>1 DEF RInv, Connections, Reading, Chunks, Answered, InOrder, NonePassedOver, Used, Conn
<1>4. QED
  BY <1>2, <1>3 DEF RInv

(* The connection before it was closed for a reason. *)
LEMMA AcceptStep == ASSUME RInv, Accept PROVE RInv'
<1>1. UNCHANGED <<phase, sent, order, broken, got, buffer, answers, asked, faults>>
      /\ state = "accept" /\ state' = "recv" /\ accepted' = accepted + 1 /\ connected' = TRUE
  BY DEF Accept, senders
<1>2. order \in Seq(Runs) /\ accepted \in Nat /\ Len(order) \in Nat /\ accepted + 1 <= Len(order)
  BY DEF RInv, TypeOK, Accept, Waiting
<1>3. TypeOK'
  BY <1>1, <1>2 DEF RInv, TypeOK, States
<1>4. connected = FALSE /\ buffer = <<>>
  BY <1>1 DEF RInv, TypeOK, Reading, Chunks
<1>5. Conn' = order[accepted + 1] /\ Conn' \in Runs /\ got[Conn'] = 0
  BY <1>1, <1>2 DEF RInv, Reading, Conn
<1>6. Connections'
  BY <1>1 DEF RInv, Connections
<1>7. Reading'
  <2>1. \A r \in Runs : got[r] <= sent[r]
    BY DEF RInv, Reading
  <2>2. \A k \in 1 .. Len(order) : k > accepted + 1 => got[order[k]] = 0
    BY <1>2 DEF RInv, Reading
  <2>3. \A r \in Runs : got[r] > 0 => \E k \in 1 .. accepted + 1 : order[k] = r
    BY <1>2 DEF RInv, Reading
  <2>4. QED
    BY <1>1, <1>2, <2>1, <2>2, <2>3 DEF Reading
<1>8. Chunks'
  BY <1>1, <1>4, <1>5, BytesJoin, RemoteAssumption DEF Chunks
<1>9. Answered' /\ InOrder' /\ Used' = Used
  BY <1>1, <1>2 DEF RInv, Answered, InOrder, Used
<1>10. NonePassedOver'
  BY <1>1, <1>2, <1>4, <1>9 DEF RInv, NonePassedOver
<1>11. QED
  BY <1>3, <1>6, <1>7, <1>8, <1>9, <1>10 DEF RInv

(* A connection that has ended was read whole, broke, or its run died. *)
LEMMA ReconnectStep == ASSUME RInv, Reconnect PROVE RInv'
<1>1. UNCHANGED <<phase, sent, order, broken, accepted, got, answers, asked, faults>>
      /\ state = "recv" /\ state' = "accept" /\ connected' = FALSE /\ buffer' = <<>>
  BY DEF Reconnect, senders
<1>2. TypeOK'
  <2>1. buffer' \in Seq(Runs \X Nat)
    BY <1>1
  <2>2. state' \in States /\ connected' \in BOOLEAN
    BY <1>1 DEF States
  <2>3. QED
    BY <1>1, <2>1, <2>2 DEF RInv, TypeOK
<1>3. order \in Seq(Runs) /\ accepted \in 1 .. Len(order) /\ Conn \in Runs
  BY <1>1 DEF RInv, TypeOK, Reading, Conn
<1>4. Conn \in Used \cup broken \/ phase[Conn] = "died"
  <2>1. CASE Conn \in broken
    BY <2>1
  <2>2. CASE Conn \notin broken /\ phase[Conn] = "sent"
    <3>1. got[Conn] = PayloadBytes
      BY <1>3, <2>2 DEF Reconnect, Ended, Readable, RInv, TypeOK, Connections
    <3>2. QED
      BY <1>3, <3>1 DEF RInv, Answered
  <2>3. CASE phase[Conn] = "failed"
    BY <1>3, <2>3 DEF RInv, Connections, Conn
  <2>4. QED
    BY <2>1, <2>2, <2>3 DEF Reconnect, Ended, Closed
<1>5. Connections' /\ Reading' /\ Chunks' /\ Answered' /\ InOrder' /\ Used' = Used
  BY <1>1 DEF RInv, Connections, Reading, Chunks, Answered, InOrder, Used, Conn
<1>6. NonePassedOver'
  BY <1>1, <1>3, <1>4, <1>5 DEF RInv, NonePassedOver, Conn
<1>7. QED
  BY <1>2, <1>5, <1>6 DEF RInv

LEMMA QuitStep == ASSUME RInv, Quit PROVE RInv'
<1>1. UNCHANGED <<phase, sent, order, accepted, got, answers, asked, faults>>
      /\ state' = "ended" /\ connected' = FALSE /\ buffer' = <<>>
  BY DEF Quit, senders
<1>2. order \in Seq(Runs) /\ accepted \in 0 .. Len(order)
  BY DEF RInv, TypeOK
<1>3. /\ broken \subseteq broken' /\ broken' \subseteq broken \cup {order[i] : i \in 1 .. Len(order)}
      /\ connected => Conn \in broken'
  BY <1>2 DEF Quit, Conn, RInv, Reading
<1>4. TypeOK'
  <2>1. broken' \subseteq Runs
    <3>1. {order[i] : i \in 1 .. Len(order)} \subseteq Runs
      BY <1>2
    <3>2. QED
      BY <1>3, <3>1 DEF RInv, TypeOK
  <2>2. buffer' \in Seq(Runs \X Nat)
    BY <1>1
  <2>3. state' \in States /\ connected' \in BOOLEAN
    BY <1>1 DEF States
  <2>4. QED
    BY <1>1, <2>1, <2>2, <2>3 DEF RInv, TypeOK
<1>5. Connections' /\ Reading' /\ Chunks' /\ Answered' /\ InOrder' /\ Used' = Used
  BY <1>1, <1>3 DEF RInv, Connections, Reading, Chunks, Answered, InOrder, Used, Conn
<1>6. NonePassedOver'
  BY <1>1, <1>2, <1>3, <1>5 DEF RInv, NonePassedOver, Conn
<1>7. QED
  BY <1>4, <1>5, <1>6 DEF RInv

--------------------------------------------------------------------------------
(* While bytes can be read, the chunks are those read so far. *)
LEMMA RecvReads ==
    ASSUME RInv, NEW n \in Wanted, Recv(n)
    PROVE  /\ order \in Seq(Runs) /\ Len(order) \in Nat /\ accepted \in 1 .. Len(order)
           /\ Conn \in Runs /\ Conn \notin broken /\ n \in Nat \ {0}
           /\ got[Conn] \in Nat /\ got[Conn] < PayloadBytes /\ got[Conn] + n <= sent[Conn]
           /\ buffer = Bytes(Conn, got[Conn]) /\ Len(buffer) = got[Conn]
           /\ got[Conn] + n <= PayloadBytes
           /\ buffer \o [i \in 1 .. n |-> Byte(Conn, got[Conn] + i)] = Bytes(Conn, got[Conn] + n)
           /\ Bytes(Conn, got[Conn] + n) \in Seq(Runs \X Nat)
<1>1. order \in Seq(Runs) /\ Len(order) \in Nat /\ accepted \in 1 .. Len(order)
  BY DEF RInv, TypeOK, Reading, Recv
<1>2. Conn \in Runs
  BY <1>1 DEF Conn
<1>3. got[Conn] \in 0 .. PayloadBytes /\ sent[Conn] \in 0 .. PayloadBytes /\ Len(buffer) \in Nat
  BY <1>2 DEF RInv, TypeOK
<1>4. n \in Nat \ {0} /\ n <= Readable(Conn) /\ Len(buffer) + n <= PayloadBytes
  BY <1>3, RemoteAssumption DEF Wanted, Recv
<1>5. Conn \notin broken /\ got[Conn] + n <= sent[Conn]
  BY <1>3, <1>4 DEF Readable
<1>6. got[Conn] < PayloadBytes
  BY <1>3, <1>4, <1>5, RemoteAssumption
<1>7. buffer = Bytes(Conn, got[Conn])
  BY <1>3, <1>6, RemoteAssumption DEF RInv, Chunks, Recv
<1>8. Len(buffer) = got[Conn]
  <2>1. got[Conn] \in Nat /\ n \in Nat
    BY <1>3, <1>4
  <2>2. QED
    BY <1>2, <1>7, <2>1, BytesJoin
<1>9. /\ buffer \o [i \in 1 .. n |-> Byte(Conn, got[Conn] + i)] = Bytes(Conn, got[Conn] + n)
      /\ Bytes(Conn, got[Conn] + n) \in Seq(Runs \X Nat)
  <2>1. got[Conn] \in Nat /\ n \in Nat /\ got[Conn] + n \in Nat
    BY <1>3, <1>4
  <2>2. QED
    BY <1>2, <1>7, <2>1, BytesJoin
<1>10. QED
  BY <1>1, <1>2, <1>3, <1>4, <1>5, <1>6, <1>7, <1>8, <1>9

LEMMA RecvPart ==
    ASSUME RInv, NEW n \in Wanted, Recv(n), got[Conn] + n # PayloadBytes
    PROVE  RInv'
<1> USE RecvReads
<1>1. /\ UNCHANGED <<phase, sent, order, broken, accepted, connected, answers, state, asked, faults>>
      /\ got' = [got EXCEPT ![Conn] = @ + n] /\ state = "recv"
      /\ buffer' = Bytes(Conn, got[Conn] + n) /\ Conn' = Conn
  BY DEF Recv, senders, Conn
<1>2. got' \in [Runs -> 0 .. PayloadBytes] /\ got'[Conn] = got[Conn] + n
      /\ \A r \in Runs \ {Conn} : got'[r] = got[r]
  <2>1. got \in [Runs -> 0 .. PayloadBytes]
    BY DEF RInv, TypeOK
  <2>2. got[Conn] + n \in 0 .. PayloadBytes /\ Conn \in Runs
    BY RemoteAssumption
  <2>3. QED
    BY <1>1, <2>1, <2>2
<1>3. TypeOK'
  BY <1>1, <1>2 DEF RInv, TypeOK
<1>4. Connections' /\ InOrder' /\ Used' = Used
  BY <1>1 DEF RInv, Connections, InOrder, Used
<1>5. Reading'
  <2>1. \A r \in Runs : got'[r] <= sent[r]
    <3>1. got'[Conn] <= sent[Conn]
      BY <1>2
    <3>2. QED
      BY <1>2, <3>1 DEF RInv, Reading
  <2>2. \A k \in 1 .. Len(order) : k > accepted => got'[order[k]] = 0
    <3>1. \A k \in 1 .. Len(order) : k > accepted => order[k] # Conn /\ order[k] \in Runs
      BY DEF RInv, Connections, Conn
    <3>2. QED
      BY <1>2, <3>1 DEF RInv, Reading
  <2>3. \A r \in Runs : got'[r] > 0 => \E k \in 1 .. accepted : order[k] = r
    <3>1. accepted \in 1 .. accepted /\ order[accepted] = Conn
      BY DEF Conn
    <3>2. QED
      BY <1>2, <3>1 DEF RInv, Reading
  <2>4. QED
    BY <1>1, <2>1, <2>2, <2>3 DEF RInv, Reading
<1>6. Chunks'
  BY <1>1, <1>2 DEF Chunks
<1>7. Answered'
  <2>1. \A i \in 1 .. Len(answers) : \E k \in 1 .. accepted :
            answers[i] = Payload[order[k]] /\ got'[order[k]] = PayloadBytes
    <3> SUFFICES ASSUME NEW i \in 1 .. Len(answers)
                 PROVE  \E k \in 1 .. accepted :
                            answers[i] = Payload[order[k]] /\ got'[order[k]] = PayloadBytes
      OBVIOUS
    <3>1. PICK k \in 1 .. accepted : answers[i] = Payload[order[k]] /\ got[order[k]] = PayloadBytes
      BY DEF RInv, Answered
    <3>2. order[k] \in Runs /\ order[k] # Conn
      BY <3>1
    <3>3. QED
      BY <1>2, <3>1, <3>2
  <2>2. \A r \in Runs : got'[r] = PayloadBytes => r \in Used
    BY <1>2 DEF RInv, Answered
  <2>3. QED
    BY <1>1, <1>4, <2>1, <2>2 DEF Answered
<1>8. NonePassedOver'
  BY <1>1, <1>4 DEF RInv, NonePassedOver
<1>9. QED
  BY <1>3, <1>4, <1>5, <1>6, <1>7, <1>8 DEF RInv

(* The payload that is whole is the last connection's, which had not answered. *)
LEMMA RecvAnswers ==
    ASSUME RInv, NEW n \in Wanted, Recv(n), got[Conn] + n = PayloadBytes
    PROVE  /\ UNCHANGED <<phase, sent, order, broken, accepted, connected, asked, faults>>
           /\ got' = [got EXCEPT ![Conn] = @ + n] /\ state = "recv" /\ state' = "idle"
           /\ buffer' = <<>> /\ answers' = Append(answers, Payload[Conn])
           /\ answers \in Seq(Seq(Runs \X Nat)) /\ Payload[Conn] \in Seq(Runs \X Nat)
           /\ Len(answers) \in Nat /\ Len(answers') = Len(answers) + 1
           /\ answers'[Len(answers) + 1] = Payload[Conn]
           /\ \A i \in 1 .. Len(answers) : answers'[i] = answers[i]
           /\ Conn \in Finished \ Used
<1> USE RecvReads
<1>1. Payload[Conn] = Bytes(Conn, PayloadBytes)
  BY DEF Payload, Bytes
<1>2. /\ UNCHANGED <<phase, sent, order, broken, accepted, connected, asked, faults>>
      /\ got' = [got EXCEPT ![Conn] = @ + n] /\ state = "recv" /\ state' = "idle"
      /\ buffer' = <<>> /\ answers' = Append(answers, Payload[Conn])
  BY <1>1 DEF Recv, senders
<1>3. answers \in Seq(Seq(Runs \X Nat)) /\ Payload[Conn] \in Seq(Runs \X Nat)
  BY <1>1 DEF RInv, TypeOK
<1>4. /\ Len(answers) \in Nat /\ Len(answers') = Len(answers) + 1
      /\ answers'[Len(answers) + 1] = Payload[Conn]
      /\ \A i \in 1 .. Len(answers) : answers'[i] = answers[i]
  BY <1>2, <1>3
<1>5. Conn \in Finished
  BY RemoteAssumption DEF RInv, TypeOK, Finished
<1>6. Conn \notin Used
  <2> SUFFICES ASSUME Conn \in Used PROVE FALSE
    OBVIOUS
  <2>1. PICK i \in 1 .. Len(answers) : answers[i] = Payload[Conn]
    <3>1. DOMAIN answers = 1 .. Len(answers)
      BY <1>3
    <3>2. QED
      BY <3>1 DEF Used
  <2>2. PICK k \in 1 .. accepted : answers[i] = Payload[order[k]] /\ got[order[k]] = PayloadBytes
    BY DEF RInv, Answered
  <2>3. order[k] \in Runs
    OBVIOUS
  <2>4. order[k] = Conn
    BY <2>1, <2>2, <2>3, PayloadTells
  <2>5. QED
    BY <2>2, <2>4
<1>7. QED
  BY <1>2, <1>3, <1>4, <1>5, <1>6

LEMMA UsedGrows ==
    ASSUME RInv, NEW n \in Wanted, Recv(n), got[Conn] + n = PayloadBytes
    PROVE  Used' = Used \cup {Conn}
<1> USE RecvReads, RecvAnswers
<1>1. DOMAIN answers = 1 .. Len(answers) /\ DOMAIN answers' = 1 .. Len(answers) + 1
  OBVIOUS
<1>2. ASSUME NEW r \in Runs PROVE r \in Used' <=> r \in Used \cup {Conn}
  <2>1. r \in Used' <=> \E i \in 1 .. Len(answers) + 1 : answers'[i] = Payload[r]
    BY <1>1 DEF Used
  <2>2. r \in Used <=> \E i \in 1 .. Len(answers) : answers[i] = Payload[r]
    BY <1>1 DEF Used
  <2>3. (\E i \in 1 .. Len(answers) + 1 : answers'[i] = Payload[r]) <=>
            (\E i \in 1 .. Len(answers) : answers[i] = Payload[r]) \/ Payload[Conn] = Payload[r]
    <3>1. /\ Len(answers) \in Nat /\ answers'[Len(answers) + 1] = Payload[Conn]
          /\ \A i \in 1 .. Len(answers) : answers'[i] = answers[i]
      OBVIOUS
    <3>2. \A i \in 1 .. Len(answers) + 1 : i = Len(answers) + 1 \/ i \in 1 .. Len(answers)
      BY <3>1
    <3>3. \A i \in 1 .. Len(answers) : i \in 1 .. Len(answers) + 1
      BY <3>1
    <3>4. Len(answers) + 1 \in 1 .. Len(answers) + 1
      BY <3>1
    <3>5. QED
      BY <3>1, <3>2, <3>3, <3>4
  <2>4. Payload[Conn] = Payload[r] <=> r = Conn
    BY PayloadTells
  <2>5. QED
    BY <2>1, <2>2, <2>3, <2>4
<1>3. QED
  BY <1>2 DEF Used

LEMMA RecvWhole ==
    ASSUME RInv, NEW n \in Wanted, Recv(n), got[Conn] + n = PayloadBytes
    PROVE  RInv'
<1>1. /\ order \in Seq(Runs) /\ Len(order) \in Nat /\ accepted \in 1 .. Len(order)
      /\ Conn \in Runs /\ Conn = order[accepted] /\ got[Conn] # PayloadBytes
      /\ PayloadBytes <= sent[Conn]
  BY RecvReads, RemoteAssumption DEF Conn
<1>2. /\ UNCHANGED <<phase, sent, order, broken, accepted, connected, asked, faults>>
      /\ state = "recv" /\ state' = "idle" /\ buffer' = <<>>
      /\ answers' = Append(answers, Payload[Conn]) /\ Conn' = Conn
      /\ answers \in Seq(Seq(Runs \X Nat)) /\ Payload[Conn] \in Seq(Runs \X Nat)
      /\ Len(answers) \in Nat /\ Len(answers') = Len(answers) + 1
      /\ answers'[Len(answers) + 1] = Payload[Conn]
      /\ \A i \in 1 .. Len(answers) : answers'[i] = answers[i]
  BY RecvAnswers DEF Conn
<1>3. /\ got' \in [Runs -> 0 .. PayloadBytes] /\ got'[Conn] = PayloadBytes
      /\ \A r \in Runs \ {Conn} : got'[r] = got[r]
  <2>1. got \in [Runs -> 0 .. PayloadBytes] /\ PayloadBytes \in 0 .. PayloadBytes
    BY RemoteAssumption DEF RInv, TypeOK
  <2>2. got' = [got EXCEPT ![Conn] = PayloadBytes]
    BY RecvAnswers
  <2>3. QED
    BY <1>1, <2>1, <2>2
<1>4. \A k \in 1 .. accepted : k \in 1 .. Len(order) /\ order[k] \in Runs
  BY <1>1
<1>5. TypeOK'
  <2>1. answers' \in Seq(Seq(Runs \X Nat))
    BY <1>2
  <2>2. buffer' \in Seq(Runs \X Nat)
    BY <1>2
  <2>3. state' \in States
    BY <1>2 DEF States
  <2>4. QED
    BY <1>2, <1>3, <2>1, <2>2, <2>3 DEF RInv, TypeOK
<1>6. Connections'
  BY <1>2 DEF RInv, Connections
<1>7. Reading'
  <2>1. \A r \in Runs : got'[r] <= sent[r]
    BY <1>1, <1>3 DEF RInv, Reading
  <2>2. \A k \in 1 .. Len(order) : k > accepted => got'[order[k]] = 0
    <3>1. \A k \in 1 .. Len(order) : k > accepted => order[k] # Conn /\ order[k] \in Runs
      BY <1>1 DEF RInv, Connections
    <3>2. QED
      BY <1>3, <3>1 DEF RInv, Reading
  <2>3. \A r \in Runs : got'[r] > 0 => \E k \in 1 .. accepted : order[k] = r
    BY <1>1, <1>3 DEF RInv, Reading
  <2>4. accepted > 0
    BY <1>1
  <2>5. QED
    BY <1>2, <1>3, <2>1, <2>2, <2>3, <2>4 DEF Reading
<1>8. Chunks'
  BY <1>2 DEF Chunks
<1>9. Answered'
  <2>1. ASSUME NEW i \in 1 .. Len(answers) + 1
        PROVE  \E k \in 1 .. accepted :
                   answers'[i] = Payload[order[k]] /\ got'[order[k]] = PayloadBytes
    <3>1. CASE i = Len(answers) + 1
      BY <1>1, <1>2, <1>3, <3>1
    <3>2. CASE i \in 1 .. Len(answers)
      <4>1. PICK k \in 1 .. accepted :
                answers[i] = Payload[order[k]] /\ got[order[k]] = PayloadBytes
        BY <3>2 DEF RInv, Answered
      <4>2. order[k] \in Runs /\ order[k] # Conn
        BY <1>1, <1>4, <4>1
      <4>3. QED
        BY <1>2, <1>3, <3>2, <4>1, <4>2
    <3>3. QED
      BY <1>2, <3>1, <3>2
  <2>2. \A r \in Runs : got'[r] = PayloadBytes => r \in Used'
    BY <1>3, UsedGrows DEF RInv, Answered
  <2>3. QED
    BY <1>2, <2>1, <2>2 DEF Answered
<1>10. InOrder'
  <2> SUFFICES ASSUME NEW i \in 1 .. Len(answers) + 1, NEW j \in 1 .. Len(answers) + 1, i < j,
                      NEW k \in 1 .. Len(order), NEW l \in 1 .. Len(order),
                      Payload[order[k]] = answers'[i], Payload[order[l]] = answers'[j]
               PROVE  k < l
    <3>1. Len(answers') = Len(answers) + 1 /\ order' = order
      BY <1>2
    <3>2. QED
      BY <3>1 DEF InOrder
  <2>1. order[k] \in Runs /\ order[l] \in Runs /\ i \in 1 .. Len(answers)
    BY <1>1, <1>2
  <2>2. CASE j = Len(answers) + 1
    <3>1. order[l] = Conn
      BY <1>1, <1>2, <2>1, <2>2, PayloadTells
    <3>2. l = accepted
      BY <1>1, <3>1 DEF RInv, Connections
    <3>3. PICK m \in 1 .. accepted : answers[i] = Payload[order[m]] /\ got[order[m]] = PayloadBytes
      BY <2>1 DEF RInv, Answered
    <3>4. order[k] = order[m]
      BY <1>2, <1>4, <2>1, <3>3, PayloadTells
    <3>5. k = m
      BY <1>4, <3>4 DEF RInv, Connections
    <3>6. m # accepted
      BY <1>1, <3>3
    <3>7. QED
      BY <1>1, <3>2, <3>5, <3>6
  <2>3. CASE j \in 1 .. Len(answers)
    <3>1. answers'[i] = answers[i] /\ answers'[j] = answers[j]
      BY <1>2, <2>1, <2>3
    <3>2. QED
      BY <2>1, <2>3, <3>1 DEF RInv, InOrder
  <2>4. QED
    BY <1>2, <2>2, <2>3
<1>11. NonePassedOver'
  BY <1>2, UsedGrows DEF RInv, NonePassedOver
<1>12. QED
  BY <1>5, <1>6, <1>7, <1>8, <1>9, <1>10, <1>11 DEF RInv

--------------------------------------------------------------------------------
LEMMA RInvStep == RInv /\ [Next]_vars => RInv'
<1> SUFFICES ASSUME RInv, [Next]_vars PROVE RInv'
  OBVIOUS
<1>1. CASE Receiver
  <2>1. CASE \E n \in Wanted : Recv(n)
    BY <2>1, RecvPart, RecvWhole
  <2>2. QED
    BY <1>1, <2>1, ListenStep, AcceptStep, ReconnectStep DEF Receiver
<1>2. CASE \E r \in Runs : Sender(r)
  BY <1>2, ConnectStep, ConnectFailsStep, LaunchStep, SendFailsStep, SendSomeStep DEF Sender
<1>3. CASE \E r \in Runs : Fault(r)
  BY <1>3, FaultStep
<1>4. CASE UNCHANGED vars
  <2>1. UNCHANGED <<phase, sent, order, broken, accepted, got, connected, buffer, answers, state,
                    asked, faults>>
    BY <1>4 DEF vars, senders, receiver
  <2>2. TypeOK' /\ Connections' /\ Reading'
    BY <2>1 DEF RInv, TypeOK, Connections, Reading, Conn
  <2>3. Chunks' /\ Answered' /\ InOrder' /\ NonePassedOver'
    BY <2>1 DEF RInv, Chunks, Answered, InOrder, NonePassedOver, Used, Conn
  <2>4. QED
    BY <2>2, <2>3 DEF RInv
<1>5. QED
  BY <1>1, <1>2, <1>3, <1>4, RetrieveStep, QuitStep DEF Next

(* An answer was read whole, so it was sent whole. *)
LEMMA AnswersAreWhole == RInv => WholeAnswers
<1> SUFFICES ASSUME RInv, NEW i \in DOMAIN answers
             PROVE  \E r \in Finished : answers[i] = Payload[r]
  BY DEF WholeAnswers
<1>1. i \in 1 .. Len(answers) /\ order \in Seq(Runs) /\ accepted \in 0 .. Len(order)
  BY DEF RInv, TypeOK
<1>2. PICK k \in 1 .. accepted : answers[i] = Payload[order[k]] /\ got[order[k]] = PayloadBytes
  BY <1>1 DEF RInv, Answered
<1>3. order[k] \in Runs
  BY <1>1
<1>4. sent[order[k]] = PayloadBytes
  <2>1. sent[order[k]] \in 0 .. PayloadBytes /\ got[order[k]] <= sent[order[k]]
    BY <1>3 DEF RInv, TypeOK, Reading
  <2>2. PayloadBytes \in Nat
    BY RemoteAssumption
  <2> HIDE DEF RInv
  <2> QED
    BY <1>2, <2>1, <2>2
<1>5. QED
  BY <1>2, <1>3, <1>4 DEF Finished

(* The state is well formed; whatever the sends and the reads split and    *)
(* whatever breaks, an answer is the whole payload of one run, and the     *)
(* answers come in the order of the connections, none passed over.         *)
THEOREM AnswersWhole == Spec => [](TypeOK /\ WholeAnswers /\ ConnectionOrder)
<1>1. RInv => TypeOK /\ WholeAnswers /\ ConnectionOrder
  BY AnswersAreWhole, OrderIs DEF RInv
<1>2. QED
  BY <1>1, RInvInit, RInvStep, PTL DEF Spec

--------------------------------------------------------------------------------
LastAnswer == IF answers = <<>> THEN <<>> ELSE answers[Len(answers)]

LEMMA PromiseInit == Init => Promise!Init
<1> SUFFICES ASSUME Init PROVE Promise!Init
  OBVIOUS
<1>1. Finished = {}
  BY RemoteAssumption DEF Init, Finished
<1>2. Used = {}
  BY DEF Init, Used
<1>3. answers = <<>>
  BY DEF Init
<1>4. QED
  BY <1>1, <1>2, <1>3 DEF Promise!Init, Promise!Nothing

(* A step that gives an answer answers; one that ends a payload finishes   *)
(* its run; no other step changes what the promise is about.               *)
LEMMA PromiseStep ==
    ASSUME RInv, [Next]_vars
    PROVE  [Promise!Next]_<<Finished, Used, LastAnswer>>
<1>1. ASSUME UNCHANGED <<sent, answers>> PROVE UNCHANGED <<Finished, Used, LastAnswer>>
  BY <1>1 DEF Finished, Used, LastAnswer
<1>2. ASSUME NEW n \in Wanted, Recv(n), got[Conn] + n = PayloadBytes
      PROVE  Promise!Next
  <2>1. Used' = Used \cup {Conn} /\ Conn \in Finished \ Used /\ Conn \in Runs
    BY <1>2, UsedGrows, RecvReads, RecvAnswers
  <2>2. sent' = sent /\ Len(answers') = Len(answers) + 1 /\ Len(answers) \in Nat
        /\ answers'[Len(answers) + 1] = Payload[Conn]
    BY <1>2, RecvAnswers
  <2>3. answers' # <<>>
    BY <2>2
  <2>4. LastAnswer' = Payload[Conn] /\ Finished' = Finished
    BY <2>2, <2>3 DEF LastAnswer, Finished
  <2>5. Promise!Answer(Conn)
    BY <2>1, <2>4 DEF Promise!Answer, LastAnswer
  <2>6. QED
    BY <2>1, <2>5 DEF Promise!Next
<1>3. ASSUME NEW n \in Wanted, Recv(n), got[Conn] + n # PayloadBytes
      PROVE  UNCHANGED <<sent, answers>>
  BY <1>3, RecvReads DEF Recv, senders
<1>4. ASSUME NEW r \in Runs, NEW n \in 1 .. PayloadBytes, SendSome(r, n)
      PROVE  Promise!Next \/ UNCHANGED <<Finished, Used, LastAnswer>>
  <2>1. /\ sent \in [Runs -> 0 .. PayloadBytes] /\ sent' = [sent EXCEPT ![r] = @ + n]
        /\ answers' = answers
    BY <1>4 DEF SendSome, receiver, RInv, TypeOK
  <2>2. Used' = Used /\ LastAnswer' = LastAnswer
    BY <2>1 DEF Used, LastAnswer
  <2>3. sent[r] \in Nat /\ sent[r] + n <= PayloadBytes /\ n >= 1 /\ n \in Nat
    BY <1>4, <2>1, RemoteAssumption DEF SendSome
  <2>4. r \notin Finished
    BY <2>3, RemoteAssumption DEF Finished
  <2>5. CASE sent[r] + n = PayloadBytes
    <3>1. Finished' = Finished \cup {r}
      BY <2>1, <2>5 DEF Finished
    <3>2. Promise!Finish(r)
      BY <2>2, <2>4, <3>1 DEF Promise!Finish, LastAnswer
    <3>3. QED
      BY <3>2 DEF Promise!Next
  <2>6. CASE sent[r] + n # PayloadBytes
    <3>1. Finished' = Finished
      BY <2>1, <2>4, <2>6 DEF Finished
    <3>2. QED
      BY <2>2, <3>1
  <2>7. QED
    BY <2>5, <2>6
<1>5. CASE \E r \in Runs : Sender(r)
  <2>1. PICK r \in Runs : Sender(r)
    BY <1>5
  <2>2. CASE \E n \in 1 .. PayloadBytes : SendSome(r, n)
    BY <1>4, <2>2
  <2>3. CASE Connect(r) \/ ConnectFails(r) \/ Launch(r) \/ SendFails(r)
    BY <1>1, <2>3 DEF Connect, ConnectFails, Launch, SendFails, receiver
  <2>4. QED
    BY <2>1, <2>2, <2>3 DEF Sender
<1>6. CASE \E r \in Runs : Fault(r)
  BY <1>1, <1>6 DEF Fault, Die, Vanish, Break, senders, receiver
<1>7. CASE Receiver
  <2>1. CASE Listen \/ Accept \/ Reconnect
    BY <1>1, <2>1 DEF Listen, Accept, Reconnect, senders, receiver
  <2>2. CASE \E n \in Wanted : Recv(n)
    BY <1>1, <1>2, <1>3, <2>2
  <2>3. QED
    BY <1>7, <2>1, <2>2 DEF Receiver
<1>8. CASE Retrieve \/ Quit
  BY <1>1, <1>8 DEF Retrieve, Quit, senders, receiver
<1>9. CASE UNCHANGED vars
  BY <1>1, <1>9 DEF vars, senders, receiver
<1>10. QED
  BY <1>5, <1>6, <1>7, <1>8, <1>9 DEF Next

(* Receiving implements the delivery of whole payloads: every answer is    *)
(* the payload of a run that sent it all, and no run answers twice.        *)
THEOREM RetrievalDelivers == Spec => PromiseSpec
<1>1. RInv /\ [Next]_vars => RInv' /\ [Promise!Next]_<<Finished, Used, LastAnswer>>
  BY RInvStep, PromiseStep
<1>2. QED
  BY <1>1, RInvInit, PromiseInit, PTL DEF Spec, PromiseSpec, Promise!Spec, Promise!vars, LastAnswer

--------------------------------------------------------------------------------
(***************************************************************************)
(* Generation                                                              *)
(***************************************************************************)

(* What a concatenation contains. *)
LEMMA SetOfConcat ==
    ASSUME NEW T, NEW s \in Seq(T), NEW t \in Seq(T)
    PROVE  ToSet(s \o t) = ToSet(s) \cup ToSet(t)
<1>1. /\ Len(s) \in Nat /\ Len(t) \in Nat /\ DOMAIN s = 1 .. Len(s) /\ DOMAIN t = 1 .. Len(t)
      /\ DOMAIN (s \o t) = 1 .. Len(s) + Len(t)
  OBVIOUS
<1>2. \A i \in 1 .. Len(s) : (s \o t)[i] = s[i] /\ i \in 1 .. Len(s) + Len(t)
  OBVIOUS
<1>3. \A i \in 1 .. Len(t) : (s \o t)[Len(s) + i] = t[i] /\ Len(s) + i \in 1 .. Len(s) + Len(t)
  OBVIOUS
<1>4. \A i \in 1 .. Len(s) + Len(t) :
          i \in 1 .. Len(s) \/ (i - Len(s) \in 1 .. Len(t) /\ i = Len(s) + (i - Len(s)))
  BY <1>1
<1> DEFINE st == s \o t
<1> HIDE DEF st
<1>5. ASSUME NEW x \in ToSet(st) PROVE x \in ToSet(s) \cup ToSet(t)
  <2>1. PICK i \in 1 .. Len(s) + Len(t) : x = st[i]
    BY <1>1, <1>5 DEF ToSet, st
  <2> QED
    BY <1>1, <1>2, <1>3, <1>4, <2>1 DEF ToSet, st
<1>6. ASSUME NEW x \in ToSet(s) PROVE x \in ToSet(st)
  <2>1. PICK i \in 1 .. Len(s) : x = s[i]
    BY <1>1, <1>6 DEF ToSet
  <2> QED
    BY <1>1, <1>2, <2>1 DEF ToSet, st
<1>7. ASSUME NEW x \in ToSet(t) PROVE x \in ToSet(st)
  <2>1. PICK i \in 1 .. Len(t) : x = t[i]
    BY <1>1, <1>7 DEF ToSet
  <2> QED
    BY <1>1, <1>3, <2>1 DEF ToSet, st
<1> QED
  BY <1>5, <1>6, <1>7 DEF st

(* ... and a sequence of one. *)
LEMMA SetOfOne == ASSUME NEW x PROVE ToSet(<<x>>) = {x}
  BY DEF ToSet

(* What a sequence contains when one is appended. *)
LEMMA SetOfAppend ==
    ASSUME NEW T, NEW s \in Seq(T), NEW x \in T
    PROVE  ToSet(Append(s, x)) = ToSet(s) \cup {x}
<1>1. Append(s, x) = s \o <<x>> /\ <<x>> \in Seq(T)
  OBVIOUS
<1>2. ToSet(s \o <<x>>) = ToSet(s) \cup ToSet(<<x>>)
  BY <1>1, SetOfConcat
<1> QED
  BY <1>1, <1>2, SetOfOne

(* Appending to the right of a concatenation is appending to it. *)
LEMMA AppendLast ==
    ASSUME NEW T, NEW s \in Seq(T), NEW t \in Seq(T), NEW x \in T
    PROVE  s \o Append(t, x) = Append(s \o t, x)
<1>1. /\ Append(t, x) \in Seq(T) /\ Append(t, x) = t \o <<x>> /\ <<x>> \in Seq(T)
      /\ Append(s \o t, x) = (s \o t) \o <<x>>
  OBVIOUS
<1> QED
  BY <1>1, ConcatAssociative

(* Prompts are of documents and tokens. *)
Texts == {"docs", "token"} \X Nat
TokensOf(places) == {Token(i) : i \in ToSet(places)}

(* The text of places is the tokens there. *)
LEMMA TextOfPlaces ==
    ASSUME NEW s \in Seq(Nat)
    PROVE  AsText(s) \in Seq(Texts) /\ ToSet(AsText(s)) = TokensOf(s)
<1>1. DOMAIN s = 1 .. Len(s) /\ Len(s) \in Nat /\ \A i \in 1 .. Len(s) : s[i] \in Nat
  OBVIOUS
<1>2. AsText(s) = [i \in 1 .. Len(s) |-> Token(s[i])]
  BY <1>1 DEF AsText
<1>3. \A i \in 1 .. Len(s) : Token(s[i]) \in Texts
  BY <1>1 DEF Token, Texts
<1>4. AsText(s) \in Seq(Texts)
  BY <1>1, <1>2, <1>3
<1>5. ToSet(AsText(s)) = {Token(s[i]) : i \in 1 .. Len(s)}
  BY <1>2 DEF ToSet
<1>6. TokensOf(s) = {Token(s[i]) : i \in 1 .. Len(s)}
  BY <1>1 DEF TokensOf, ToSet
<1> QED
  BY <1>4, <1>5, <1>6

LastQuery == IF queries = <<>> THEN <<>> ELSE queries[Len(queries)]

(* The prompt has the question's documents, the text has the sentence that *)
(* was begun, and prompt and text the last one.                            *)
Remembered ==
    /\ Docs(0) \in ToSet(prompt)
    /\ ToSet(current_sentence) \subseteq ToSet(generated_text)
    /\ TokensOf(LastQuery) \subseteq ToSet(prompt) \cup TokensOf(generated_text)

GenerationInv ==
    /\ tokens \in Seq(Kinds) /\ prompt \in Seq(Texts) /\ returned \in BOOLEAN
    /\ {generated_text, current_sentence} \subseteq Seq(Nat) /\ queries \in Seq(Seq(Nat))
    /\ Remembered
    /\ QueriesPartition

(* It holds at the start, *)
LEMMA StartsRight == GenerationInit => GenerationInv
<1> SUFFICES ASSUME GenerationInit PROVE GenerationInv
  OBVIOUS
<1>1. /\ tokens = <<>> /\ prompt = <<Docs(0)>> /\ generated_text = <<>> /\ current_sentence = <<>>
      /\ queries = <<>> /\ returned = FALSE
  BY DEF GenerationInit, Prompt
<1>2. prompt \in Seq(Texts)
  BY <1>1 DEF Docs, Texts
<1>3. ToSet(<<>>) = {} /\ TokensOf(<<>>) = {}
  BY DEF ToSet, TokensOf
<1>4. Remembered
  BY <1>1, <1>3, SetOfOne DEF Remembered, LastQuery
<1>5. FlattenSeq(<<>>) = <<>> /\ PlacesTo(0) = <<>> /\ Len(<<>>) = 0 /\ <<>> \o <<>> = <<>>
  BY DEF FlattenSeq, PlacesTo
<1>6. QueriesPartition
  BY <1>1, <1>5 DEF QueriesPartition
<1>7. <<>> \in Seq(Kinds) /\ <<>> \in Seq(Nat) /\ <<>> \in Seq(Seq(Nat))
  OBVIOUS
<1> QED
  BY <1>1, <1>2, <1>4, <1>6, <1>7 DEF GenerationInv

(* and after every token. *)
LEMMA TokenTaken ==
    ASSUME GenerationInv, NEW kind \in Kinds, NextToken(kind) PROVE GenerationInv'
<1> DEFINE place == Len(tokens) + 1
           kinds == Append(tokens, kind)
           text == Append(generated_text, place)
           sentence == Append(current_sentence, place)
<1>1. /\ tokens' = kinds /\ returned' = returned
      /\ \/ /\ generated_text' = text /\ current_sentence' = sentence
            /\ UNCHANGED <<prompt, queries>>
         \/ /\ queries' = Append(queries, sentence)
            /\ current_sentence' = <<>>
            /\ \/ prompt' = Continued(text, Len(queries')) /\ generated_text' = <<>>
               \/ prompt' = prompt /\ generated_text' = text
  BY DEF NextToken, SentenceAfter
<1>2. /\ tokens \in Seq(Kinds) /\ prompt \in Seq(Texts) /\ returned \in BOOLEAN
      /\ generated_text \in Seq(Nat) /\ current_sentence \in Seq(Nat) /\ queries \in Seq(Seq(Nat))
  BY DEF GenerationInv
<1>3. /\ kinds \in Seq(Kinds) /\ Len(kinds) = place /\ Len(tokens) \in Nat /\ place \in Nat
  BY <1>2
<1>4. text \in Seq(Nat) /\ sentence \in Seq(Nat)
  BY <1>2, <1>3
<1>5. /\ ToSet(text) = ToSet(generated_text) \cup {place}
      /\ ToSet(sentence) = ToSet(current_sentence) \cup {place}
  <2>1. place \in Nat /\ generated_text \in Seq(Nat) /\ current_sentence \in Seq(Nat)
    BY <1>2, <1>3
  <2> HIDE DEF place
  <2>2. ToSet(Append(generated_text, place)) = ToSet(generated_text) \cup {place}
    BY <2>1, SetOfAppend
  <2>3. ToSet(Append(current_sentence, place)) = ToSet(current_sentence) \cup {place}
    BY <2>1, SetOfAppend
  <2> QED
    BY <2>2, <2>3
<1>6. Docs(0) \in ToSet(prompt) /\ ToSet(sentence) \subseteq ToSet(text)
  BY <1>5 DEF GenerationInv, Remembered
<1>7. TokensOf(generated_text) \subseteq TokensOf(text) /\ TokensOf(sentence) \subseteq TokensOf(text)
  BY <1>5, <1>6 DEF TokensOf
<1>8. PlacesTo(place) = Append(PlacesTo(Len(tokens)), place)
  BY <1>3 DEF PlacesTo
<1>9. FlattenSeq(queries) \in Seq(Nat) /\ FlattenSeq(Append(queries, sentence)) = FlattenSeq(queries) \o sentence
  BY <1>2, <1>4, FlattenAppend
<1>10. FlattenSeq(queries) \o sentence = PlacesTo(place)
  <2> DEFINE flat == FlattenSeq(queries)
  <2>1. flat \o current_sentence = PlacesTo(Len(tokens))
    BY DEF GenerationInv, QueriesPartition
  <2>2. flat \o sentence = Append(flat \o current_sentence, place)
    <3>1. flat \in Seq(Nat) /\ place \in Nat /\ current_sentence \in Seq(Nat)
      BY <1>2, <1>3, <1>9
    <3> HIDE DEF flat, place
    <3>2. flat \o Append(current_sentence, place) = Append(flat \o current_sentence, place)
      BY <3>1, AppendLast
    <3> QED
      BY <3>2
  <2> QED
    BY <1>8, <2>1, <2>2
<1>11. ToSet(<<>>) = {} /\ <<>> \in Seq(Nat)
  BY DEF ToSet
<1> HIDE DEF place, kinds, text, sentence
<1>12. CASE generated_text' = text /\ current_sentence' = sentence /\ UNCHANGED <<prompt, queries>>
  <2>1. LastQuery' = LastQuery
    BY <1>12 DEF LastQuery
  <2>2. Remembered'
    BY <1>6, <1>7, <1>12, <2>1 DEF Remembered, GenerationInv
  <2>3. QueriesPartition'
    BY <1>1, <1>3, <1>10, <1>12 DEF QueriesPartition
  <2> QED
    BY <1>1, <1>2, <1>3, <1>4, <1>12, <2>2, <2>3 DEF GenerationInv
<1>13. CASE /\ queries' = Append(queries, sentence)
            /\ current_sentence' = <<>>
            /\ \/ prompt' = Continued(text, Len(queries')) /\ generated_text' = <<>>
               \/ prompt' = prompt /\ generated_text' = text
  <2>1. queries' \in Seq(Seq(Nat)) /\ LastQuery' = sentence /\ Len(queries') \in Nat
    <3>1. Append(queries, sentence) \in Seq(Seq(Nat)) /\ Len(Append(queries, sentence)) = Len(queries) + 1
          /\ Append(queries, sentence)[Len(queries) + 1] = sentence /\ Len(queries) + 1 \in Nat \ {0}
      BY <1>2, <1>4
    <3> QED
      BY <1>13, <3>1 DEF LastQuery
  <2>2. QueriesPartition'
    <3>1. FlattenSeq(queries') \o current_sentence' = FlattenSeq(queries) \o sentence
      <4>1. FlattenSeq(queries) \o sentence \in Seq(Nat)
        BY <1>4, <1>9
      <4> QED
        BY <1>9, <1>13, <4>1
    <3> QED
      BY <1>1, <1>3, <1>10, <3>1 DEF QueriesPartition
  <2>3. CASE prompt' = prompt /\ generated_text' = text
    <3>1. Remembered'
      BY <1>6, <1>7, <1>11, <1>13, <2>1, <2>3 DEF Remembered
    <3> QED
      BY <1>1, <1>2, <1>3, <1>4, <1>11, <1>13, <2>1, <2>2, <2>3, <3>1 DEF GenerationInv
  <2>4. CASE prompt' = Continued(text, Len(queries')) /\ generated_text' = <<>>
    <3> DEFINE n == Len(queries')
    <3>1. Prompt \in Seq(Texts) /\ <<Docs(n)>> \in Seq(Texts) /\ ToSet(Prompt) = {Docs(0)}
      BY <2>1, SetOfOne DEF Prompt, Docs, Texts
    <3>2. AsText(text) \in Seq(Texts) /\ ToSet(AsText(text)) = TokensOf(text)
      BY <1>4, TextOfPlaces
    <3>3. /\ Prompt \o AsText(text) \in Seq(Texts)
          /\ ToSet(Prompt \o AsText(text)) = {Docs(0)} \cup TokensOf(text)
      BY <3>1, <3>2, SetOfConcat
    <3>4. /\ prompt' \in Seq(Texts)
          /\ {Docs(0)} \cup TokensOf(text) \subseteq ToSet(prompt')
      <4>1. prompt' = (Prompt \o AsText(text)) \o <<Docs(n)>>
        BY <2>4 DEF Continued
      <4> DEFINE front == Prompt \o AsText(text)
                 last == <<Docs(n)>>
      <4>2. front \in Seq(Texts) /\ last \in Seq(Texts) /\ {Docs(0)} \cup TokensOf(text) = ToSet(front)
        BY <3>1, <3>3
      <4> HIDE DEF front, last
      <4>3. front \o last \in Seq(Texts) /\ ToSet(front \o last) = ToSet(front) \cup ToSet(last)
        BY <4>2, SetOfConcat
      <4> QED
        BY <4>1, <4>2, <4>3 DEF front, last
    <3>5. Remembered'
      BY <1>7, <1>11, <1>13, <2>1, <2>4, <3>4 DEF Remembered
    <3> QED
      BY <1>1, <1>2, <1>3, <1>11, <1>13, <2>1, <2>2, <2>4, <3>4, <3>5 DEF GenerationInv
  <2> QED
    BY <1>13, <2>3, <2>4
<1> QED
  BY <1>1, <1>12, <1>13

(* What is remembered is in the context of the next token. *)
LEMMA RememberedSeen == GenerationInv => LastSentenceSeen
<1> SUFFICES ASSUME GenerationInv PROVE LastSentenceSeen
  OBVIOUS
<1>1. /\ prompt \in Seq(Texts) /\ generated_text \in Seq(Nat) /\ current_sentence \in Seq(Nat)
      /\ queries \in Seq(Seq(Nat))
  BY DEF GenerationInv
<1>2. LastQuery \in Seq(Nat)
  BY <1>1 DEF LastQuery
<1>3. AsText(generated_text) \in Seq(Texts) /\ ToSet(AsText(generated_text)) = TokensOf(generated_text)
  BY <1>1, TextOfPlaces
<1>4. ToSet(Context) = ToSet(prompt) \cup TokensOf(generated_text)
  BY <1>1, <1>3, SetOfConcat DEF Context
<1>5. LastQuery \o current_sentence \in Seq(Nat)
      /\ ToSet(LastQuery \o current_sentence) = ToSet(LastQuery) \cup ToSet(current_sentence)
  BY <1>1, <1>2, SetOfConcat
<1>6. ToSet(AsText(LastQuery \o current_sentence)) = TokensOf(LastQuery \o current_sentence)
  BY <1>5, TextOfPlaces
<1>7. TokensOf(LastQuery \o current_sentence) \subseteq ToSet(prompt) \cup TokensOf(generated_text)
  BY <1>5 DEF GenerationInv, Remembered, TokensOf
<1> QED
  BY <1>4, <1>6, <1>7 DEF LastSentenceSeen, LastQuery, GenerationInv, Remembered

(* For any language model and any budget of tokens: the queries of         *)
(* generate_fix_sentence and the sentence begun are the tokens generated,  *)
(* in order, each once; and the next token is generated with the           *)
(* question's documents, the whole last sentence and the one begun.        *)
THEOREM SentencesKept == GenerationSpec => [](QueriesPartition /\ LastSentenceSeen)
<1>1. GenerationInv /\ [GenerationNext]_generation_vars => GenerationInv'
  <2> SUFFICES ASSUME GenerationInv, [GenerationNext]_generation_vars PROVE GenerationInv'
    OBVIOUS
  <2>1. CASE Stop
    <3>1. UNCHANGED <<tokens, prompt, generated_text, current_sentence, queries>> /\ returned' = TRUE
      BY <2>1 DEF Stop
    <3> QED
      BY <3>1 DEF GenerationInv, Remembered, LastQuery, QueriesPartition
  <2>2. CASE \E kind \in Kinds : NextToken(kind)
    BY <2>2, TokenTaken
  <2>3. CASE UNCHANGED generation_vars
    BY <2>3 DEF generation_vars, GenerationInv, Remembered, LastQuery, QueriesPartition
  <2> QED
    BY <2>1, <2>2, <2>3 DEF GenerationNext
<1>2. GenerationInv => QueriesPartition
  BY DEF GenerationInv
<1> QED
  BY StartsRight, <1>1, <1>2, RememberedSeen, PTL DEF GenerationSpec

--------------------------------------------------------------------------------
(***************************************************************************)
(* The retriever                                                           *)
(***************************************************************************)
Processes == {"down", "setup", "cache", "save", "ready"}

(* The files written by a rebuild hold what it built, and the last one of  *)
(* the cache is not there before its end; where it is there, index and     *)
(* texts are of one revision.                                              *)
CacheWhole ==
    IF process = "save"
    THEN /\ retriever > Missing /\ disk["meta"] <= Missing
         /\ written \in 0 .. 2
         /\ written > 0 => disk["index"] = retriever
         /\ written > 1 => disk["vocab"] = retriever
    ELSE disk["meta"] > Missing =>
             disk["vocab"] > Missing /\ disk["index"] = disk["meta"]

TextsInv ==
    /\ disk \in [Files -> Int] /\ process \in Processes /\ corpus \in Nat \ {0}
    /\ retriever \in Nat /\ corpus_texts = retriever
    /\ CacheWhole
    /\ TextsOfIndex

(* For any number of kills, revisions of the corpus and changes of device: *)
(* the texts that the retriever answers with are those of its index.       *)
THEOREM TextsWhole == RetrieverSpec => []TextsOfIndex
<1>1. RetrieverInit => TextsInv
  BY DEF RetrieverInit, TextsInv, CacheWhole, TextsOfIndex, NoAnswer, Files, Missing, Processes
<1>2. TextsInv /\ [RetrieverNext]_retriever_vars => TextsInv'
  <2> SUFFICES ASSUME TextsInv, [RetrieverNext]_retriever_vars PROVE TextsInv'
    OBVIOUS
  <2> USE DEF TextsInv, Files, Missing
  <2>1. CASE Start
    BY <2>1 DEF Start, CacheWhole, TextsOfIndex, Processes
  <2>2. CASE SetDevice
    BY <2>2 DEF SetDevice, CacheWhole, TextsOfIndex, Processes
  <2>3. CASE SetUp
    BY <2>3 DEF SetUp, CacheWhole, TextsOfIndex, Processes
  <2>4. CASE Load
    BY <2>4 DEF Load, Loadable, CacheWhole, TextsOfIndex, Processes
  <2>5. CASE Build
    <3>1. disk["meta"] <= Missing
      BY <2>5 DEF Build, Loadable, CacheWhole
    <3> QED
      BY <2>5, <3>1 DEF Build, CacheWhole, TextsOfIndex, Processes
  <2>6. CASE Save
    <3>1. /\ written = 0 => WriteOrder[written + 1] = "index"
          /\ written = 1 => WriteOrder[written + 1] = "vocab"
          /\ written = 2 => WriteOrder[written + 1] = "meta"
          /\ Len(WriteOrder) = 3 /\ written \in {0, 1, 2}
      BY <2>6 DEF Save, CacheWhole, WriteOrder
    <3>2. /\ disk' = [disk EXCEPT ![WriteOrder[written + 1]] = retriever]
          /\ written' = written + 1
          /\ process' = IF written' = 3 THEN "ready" ELSE "save"
          /\ UNCHANGED <<corpus, fields, answer>>
      BY <2>6, <3>1 DEF Save
    <3>3. UNCHANGED <<retriever, corpus_texts>>
      BY <3>2 DEF fields
    <3>4. CASE written = 0
      BY <2>6, <3>1, <3>2, <3>3, <3>4 DEF Save, CacheWhole, TextsOfIndex, Processes
    <3>5. CASE written = 1
      BY <2>6, <3>1, <3>2, <3>3, <3>5 DEF Save, CacheWhole, TextsOfIndex, Processes
    <3>6. CASE written = 2
      BY <2>6, <3>1, <3>2, <3>3, <3>6 DEF Save, CacheWhole, TextsOfIndex, Processes
    <3> QED
      BY <3>1, <3>4, <3>5, <3>6
  <2>7. CASE AnswerQuery
    <3>1. UNCHANGED <<corpus, disk, process, written, retriever, corpus_texts>>
      BY <2>7 DEF AnswerQuery, fields
    <3>2. answer' = NoAnswer \/ answer' = [device |-> device, index |-> retriever,
                                           texts |-> corpus_texts, vocab |-> vocab_dict]
      BY <2>7 DEF AnswerQuery
    <3> QED
      BY <3>1, <3>2 DEF CacheWhole, TextsOfIndex, NoAnswer
  <2>8. CASE Kill
    <3>1. /\ process' = "down" /\ UNCHANGED <<corpus, retriever, corpus_texts, answer>>
          /\ disk' = disk \/
                (process = "save" /\ disk' = [disk EXCEPT ![WriteOrder[written + 1]] = Partial])
      BY <2>8 DEF Kill, fields
    <3>2. CASE disk' = disk
      BY <3>1, <3>2 DEF CacheWhole, TextsOfIndex, Processes
    <3>3. CASE process = "save" /\ disk' = [disk EXCEPT ![WriteOrder[written + 1]] = Partial]
      <4>1. WriteOrder[written + 1] \in Files
        BY <3>3 DEF CacheWhole, WriteOrder
      <4>2. disk' \in [Files -> Int] /\ disk'["meta"] <= 0
        BY <3>3, <4>1 DEF CacheWhole, Partial
      <4> QED
        BY <3>1, <4>2 DEF CacheWhole, TextsOfIndex, Processes
    <3> QED
      BY <3>1, <3>2, <3>3
  <2>9. CASE Exit
    BY <2>9 DEF Exit, fields, CacheWhole, TextsOfIndex, Processes
  <2>10. CASE Revise
    BY <2>10 DEF Revise, fields, CacheWhole, TextsOfIndex, Processes
  <2>11. CASE UNCHANGED retriever_vars
    BY <2>11 DEF retriever_vars, fields, CacheWhole, TextsOfIndex
  <2> QED
    BY <2>1, <2>2, <2>3, <2>4, <2>5, <2>6, <2>7, <2>8, <2>9, <2>10, <2>11 DEF RetrieverNext
<1>3. TextsInv => TextsOfIndex
  BY DEF TextsInv
<1> QED
  BY <1>1, <1>2, <1>3, PTL DEF RetrieverSpec
================================================================================
