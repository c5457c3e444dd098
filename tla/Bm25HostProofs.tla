----------------------------- MODULE Bm25HostProofs ----------------------------
(***************************************************************************)
(* Who owns the card's set-up, for every corpus, query and number of       *)
(* set-ups.  What the kernel writes plays no part.                         *)
(***************************************************************************)
EXTENDS Bm25Host, FoldTheorems

Tuples(B, I) == [docs : Corpora, refs : Int, bitmap : B, ids : I]

(* s is a sequence of set-ups, whatever the card has written into them. *)
SetUps(s) == \E B, I : s \in Seq(Tuples(B, I))

(* Until a freed tuple is used, the builder's reference is the only one.   *)
Owned == ~freed_used => OwnedOnce

HInv ==
    /\ SetUps(setup)
    /\ builder \in {NoStep} \cup 0 .. Len(setup)
    /\ retrieval \in {NoStep} \cup 0 .. Len(setup)
    /\ freed_used \in BOOLEAN /\ builder_step \in BOOLEAN
    /\ Owned /\ SetupOfMemory

(* Letting go of a tuple changes its references only. *)
LEMMA DecrefIs ==
    ASSUME NEW s, SetUps(s), NEW o \in {NoStep} \cup 0 .. Len(s)
    PROVE  /\ SetUps(Decref(s, o)) /\ Len(Decref(s, o)) = Len(s)
           /\ \A i \in 1 .. Len(s) :
                 /\ Decref(s, o)[i].docs = s[i].docs
                 /\ s[i].refs \in Int
                 /\ Decref(s, o)[i].refs = s[i].refs - IF i = o THEN 1 ELSE 0
<1>1. PICK B, I : s \in Seq(Tuples(B, I))
  BY DEF SetUps
<1>2. Len(s) \in Nat /\ \A i \in 1 .. Len(s) : s[i] \in Tuples(B, I)
  BY <1>1
<1>3. \A i \in 1 .. Len(s) : s[i].refs \in Int
  BY <1>2 DEF Tuples
<1>4. CASE o > Null
  <2> DEFINE e == [s[o] EXCEPT !.refs = @ - 1]
             d == [s EXCEPT ![o] = e]
  <2>1. o \in 1 .. Len(s) /\ Decref(s, o) = d
    BY <1>2, <1>4 DEF Decref, NoStep, Null
  <2>2. e \in Tuples(B, I) /\ e.docs = s[o].docs /\ e.refs = s[o].refs - 1
    BY <2>1, <1>2 DEF Tuples
  <2>3. d \in Seq(Tuples(B, I)) /\ Len(d) = Len(s)
        /\ \A i \in 1 .. Len(s) : d[i] = IF i = o THEN e ELSE s[i]
    <3> HIDE DEF e
    <3>1. QED
      BY <1>1, <2>1, <2>2, ExceptSeq
  <2>4. SetUps(d)
    BY <2>3 DEF SetUps
  <2>5. QED
    BY <1>3, <2>1, <2>2, <2>3, <2>4
<1>5. CASE ~(o > Null)
  BY <1>3, <1>5 DEF Decref, NoStep, Null
<1>6. QED
  BY <1>4, <1>5

(* A build lets go of what the builder held, under the old step or the new.*)
LEMMA BuildReleases == OldReleased(AfterCreate, Kept) = Decref(setup, builder)
<1>1. CASE builder_step
  BY <1>1 DEF OldReleased, AfterCreate, Kept
<1>2. CASE ~builder_step
  <2>1. AfterCreate = Decref(setup, builder) /\ Kept = 0
    BY <1>2 DEF AfterCreate, Kept, Null
  <2>2. QED
    BY <2>1 DEF OldReleased, Decref, Null
<1>3. QED
  BY <1>1, <1>2

LEMMA BuildMemoryH ==
    ASSUME HInv, NEW docs \in Corpora, BuildMemory(docs)
    PROVE  HInv'
<1> DEFINE d == Decref(setup, builder)
           new == NewSetup(docs)
<1>1. /\ ~freed_used /\ setup' = Append(d, new) /\ builder' = Len(setup')
      /\ builder_step' = TRUE /\ bm25_memory' = docs /\ retrieval' = retrieval /\ freed_used' = freed_used
  BY BuildReleases DEF BuildMemory
<1>2. /\ SetUps(d) /\ Len(d) = Len(setup)
      /\ \A i \in 1 .. Len(setup) : d[i].refs = setup[i].refs - IF i = builder THEN 1 ELSE 0
  BY DecrefIs DEF HInv
<1>3. PICK B, I : d \in Seq(Tuples(B, I))
  BY <1>2 DEF SetUps
<1>4. new \in Tuples(B \cup {new.bitmap}, I \cup {new.ids}) /\ new.refs = 1 /\ new.docs = docs
  BY DEF Tuples, NewSetup
<1>5. d \in Seq(Tuples(B \cup {new.bitmap}, I \cup {new.ids}))
  <2>1. Tuples(B, I) \subseteq Tuples(B \cup {new.bitmap}, I \cup {new.ids})
    BY DEF Tuples
  <2>2. QED
    BY <1>3, <2>1, SeqMonotonic
<1> HIDE DEF d, new
<1>6. /\ setup' \in Seq(Tuples(B \cup {new.bitmap}, I \cup {new.ids}))
      /\ Len(setup') = Len(d) + 1 /\ Len(d) \in Nat
      /\ \A i \in 1 .. Len(d) : setup'[i] = d[i]
      /\ setup'[Len(d) + 1] = new
  BY <1>1, <1>4, <1>5
<1>7. SetUps(setup')
  BY <1>6 DEF SetUps
<1>8. \A i \in 1 .. Len(d) : d[i].refs = 0
  <2>1. \A i \in 1 .. Len(setup) : setup[i].refs = IF builder = i THEN 1 ELSE 0
    BY <1>1, <1>2, <1>6 DEF HInv, Owned, OwnedOnce, SetUps
  <2>2. QED
    BY <1>2, <2>1
<1>9. Owned'
  BY <1>1, <1>4, <1>6, <1>8 DEF Owned, OwnedOnce
<1>10. SetupOfMemory'
  BY <1>1, <1>4, <1>6 DEF SetupOfMemory
<1>11. QED
  BY <1>1, <1>2, <1>6, <1>7, <1>9, <1>10 DEF HInv, NoStep

LEMMA BuildFailsH == ASSUME HInv, BuildFails PROVE HInv'
<1>1. CASE builder_step
  BY <1>1 DEF HInv, BuildFails, AfterCreate, Kept, Owned, OwnedOnce, SetupOfMemory
<1>2. CASE ~builder_step
  <2>1. /\ setup' = Decref(setup, builder) /\ builder' = 0 /\ builder_step' = TRUE
        /\ ~freed_used /\ freed_used' = freed_used /\ retrieval' = retrieval
    BY <1>2 DEF BuildFails, AfterCreate, Kept, Null
  <2>2. /\ SetUps(setup') /\ Len(setup') = Len(setup) /\ Len(setup) \in Nat
        /\ DOMAIN setup = 1 .. Len(setup) /\ DOMAIN setup' = 1 .. Len(setup')
        /\ \A i \in 1 .. Len(setup) : setup'[i].refs = setup[i].refs - IF i = builder THEN 1 ELSE 0
    BY <2>1, DecrefIs DEF HInv, SetUps
  <2>3. Owned'
    BY <2>1, <2>2 DEF HInv, Owned, OwnedOnce
  <2>4. SetupOfMemory'
    BY <2>1 DEF SetupOfMemory, Null
  <2>5. QED
    BY <2>1, <2>2, <2>3, <2>4 DEF HInv, NoStep
<1>3. QED
  BY <1>1, <1>2 DEF HInv

(* A run writes the bitmap and the ids of the set-up it was launched on. *)
LEMMA LaunchKeeps ==
    ASSUME SetUps(setup), NEW o \in 1 .. Len(setup), NEW query, Launch(o, query)
    PROVE  /\ SetUps(setup') /\ Len(setup') = Len(setup)
           /\ \A i \in 1 .. Len(setup) :
                 setup'[i].docs = setup[i].docs /\ setup'[i].refs = setup[i].refs
<1>1. PICK bitmap, ids : setup' = [setup EXCEPT ![o].bitmap = bitmap, ![o].ids = ids]
  BY DEF Launch
<1>2. PICK B, I : setup \in Seq(Tuples(B, I))
  BY DEF SetUps
<1> DEFINE T == Tuples(B \cup {bitmap}, I \cup {ids})
           e == [setup[o] EXCEPT !.bitmap = bitmap, !.ids = ids]
<1>3. Tuples(B, I) \subseteq T
  BY DEF Tuples
<1>4. setup \in Seq(T) /\ setup[o] \in Tuples(B, I)
  <2>1. setup[o] \in Tuples(B, I)
    BY <1>2
  <2> HIDE DEF T
  <2>2. QED
    BY <2>1, <1>2, <1>3, SeqMonotonic
<1>5. e \in T /\ e.docs = setup[o].docs /\ e.refs = setup[o].refs
  BY <1>4 DEF Tuples
<1>6. setup' = [setup EXCEPT ![o] = e]
  BY <1>1, <1>4
<1>7. /\ setup' \in Seq(T) /\ Len(setup') = Len(setup)
      /\ \A i \in 1 .. Len(setup) : setup'[i] = IF i = o THEN e ELSE setup[i]
  <2> HIDE DEF e, T
  <2>1. QED
    BY <1>4, <1>5, <1>6, ExceptSeq
<1>8. SetUps(setup')
  BY <1>7 DEF SetUps
<1>9. QED
  BY <1>5, <1>7, <1>8

LEMMA FusedRetrieveH ==
    ASSUME HInv, NEW query, FusedRetrieve(query)
    PROVE  HInv'
<1>1. /\ ~freed_used /\ builder' = builder /\ builder_step' = builder_step /\ bm25_memory' = bm25_memory
      /\ retrieval' = Used
  BY DEF FusedRetrieve
<1>2. Used \in {NoStep} \cup 0 .. Len(setup) /\ Len(setup) \in Nat /\ DOMAIN setup = 1 .. Len(setup)
  BY DEF Used, HInv, Null, SetUps
<1>3. CASE UNCHANGED setup /\ freed_used' \in BOOLEAN
  BY <1>1, <1>2, <1>3 DEF HInv, Owned, OwnedOnce, SetupOfMemory
<1>4. CASE Used > Null /\ Launch(Used, query) /\ UNCHANGED freed_used
  <2>1. Used \in 1 .. Len(setup)
    BY <1>2, <1>4 DEF NoStep, Null
  <2>2. /\ SetUps(setup') /\ Len(setup') = Len(setup) /\ DOMAIN setup' = 1 .. Len(setup)
        /\ \A i \in 1 .. Len(setup) :
              setup'[i].docs = setup[i].docs /\ setup'[i].refs = setup[i].refs
    BY <1>4, <2>1, LaunchKeeps DEF HInv, SetUps
  <2>3. Owned' /\ SetupOfMemory'
    BY <1>1, <1>2, <1>4, <2>2 DEF HInv, Owned, OwnedOnce, SetupOfMemory, Null, NoStep
  <2>4. QED
    BY <1>1, <1>2, <1>4, <2>2, <2>3 DEF HInv
<1>5. Used \in {NoStep, Null} \/ Used > Null
  BY <1>2 DEF NoStep, Null
<1>6. Used # NoStep
  BY DEF Used, NoStep, Null, HInv
<1>7. QED
  BY <1>1, <1>3, <1>4, <1>5, <1>6 DEF FusedRetrieve, HInv

(* The destruction lets go of both steps' tuples: the builder's reference  *)
(* is there, the retrieval step's is not.                                  *)
LEMMA DestroyReleases ==
    ASSUME HInv, DestroyRag
    PROVE  /\ SetUps(setup') /\ Len(setup') = Len(setup) /\ DOMAIN setup' = 1 .. Len(setup')
           /\ \A i \in 1 .. Len(setup) : setup'[i].refs = IF i = retrieval THEN -1 ELSE 0
<1> DEFINE d == Decref(setup, retrieval)
<1>1. setup' = Decref(d, builder) /\ ~freed_used
  BY DEF DestroyRag
<1>2. /\ SetUps(d) /\ Len(d) = Len(setup) /\ Len(setup) \in Nat /\ DOMAIN setup = 1 .. Len(setup)
      /\ \A i \in 1 .. Len(setup) :
            d[i].refs = setup[i].refs - IF i = retrieval THEN 1 ELSE 0
  BY DecrefIs DEF HInv, SetUps
<1> HIDE DEF d
<1>3. /\ SetUps(setup') /\ Len(setup') = Len(setup) /\ DOMAIN setup' = 1 .. Len(setup')
      /\ \A i \in 1 .. Len(setup) : setup'[i].refs = d[i].refs - IF i = builder THEN 1 ELSE 0
  BY <1>1, <1>2, DecrefIs DEF HInv, SetUps
<1>4. \A i \in 1 .. Len(setup) : setup[i].refs = IF builder = i THEN 1 ELSE 0
  BY <1>1, <1>2 DEF HInv, Owned, OwnedOnce
<1>5. QED
  BY <1>2, <1>3, <1>4

LEMMA DestroyH == ASSUME HInv, DestroyRag PROVE HInv'
<1>1. /\ builder' = NoStep /\ retrieval' = NoStep /\ builder_step' = FALSE
      /\ freed_used' = (\E o \in DOMAIN setup : setup'[o].refs < 0)
  BY DEF DestroyRag
<1>2. /\ SetUps(setup') /\ Len(setup') = Len(setup) /\ DOMAIN setup' = 1 .. Len(setup')
      /\ DOMAIN setup = 1 .. Len(setup)
      /\ \A i \in 1 .. Len(setup) : setup'[i].refs = IF i = retrieval THEN -1 ELSE 0
  BY DestroyReleases DEF HInv, SetUps
<1>3. Owned'
  BY <1>1, <1>2 DEF Owned, OwnedOnce, NoStep
<1>4. SetupOfMemory'
  BY <1>1 DEF SetupOfMemory, NoStep, Null
<1>5. QED
  BY <1>1, <1>2, <1>3, <1>4 DEF HInv

LEMMA InitH == HostInit => HInv
<1> SUFFICES ASSUME HostInit PROVE HInv
  OBVIOUS
<1>1. setup = <<>> /\ setup \in Seq(Tuples({}, {}))
  BY DEF HostInit
<1>2. SetUps(setup)
  BY <1>1 DEF SetUps
<1>3. Len(setup) = 0 /\ DOMAIN setup = {}
  BY <1>1
<1>4. Owned /\ SetupOfMemory
  BY <1>3 DEF HostInit, Owned, OwnedOnce, SetupOfMemory, NoStep, Null
<1>5. QED
  BY <1>2, <1>4 DEF HostInit, HInv

LEMMA StepH == HInv /\ [HostNext]_host_vars => HInv'
<1> SUFFICES ASSUME HInv, [HostNext]_host_vars PROVE HInv'
  OBVIOUS
<1>1. CASE \E docs \in Corpora : BuildMemory(docs)
  BY <1>1, BuildMemoryH
<1>2. CASE \E query \in Queries : FusedRetrieve(query)
  BY <1>2, FusedRetrieveH
<1>3. CASE BuildFails
  BY <1>3, BuildFailsH
<1>4. CASE ResetBuilder \/ UNCHANGED host_vars
  BY <1>4 DEF ResetBuilder, host_vars, HInv, Owned, OwnedOnce, SetupOfMemory
<1>5. CASE DestroyRag
  BY <1>5, DestroyH
<1>6. QED
  BY <1>1, <1>2, <1>3, <1>4, <1>5 DEF HostNext

UsesFreed ==
    freed_used' <=> /\ retrieval > Null
                    /\ \/ retrieval # builder /\ \E query \in Queries : FusedRetrieve(query)
                       \/ DestroyRag

(* What each call does to the history of freed tuples. *)
LEMMA FreedStep == HInv /\ [HostNext]_host_vars => [UsesFreed]_host_vars
<1> SUFFICES ASSUME HInv, HostNext, ~UNCHANGED host_vars PROVE UsesFreed
  OBVIOUS
<1>1. /\ ~freed_used /\ freed_used \in BOOLEAN /\ freed_used' \in BOOLEAN
      /\ DOMAIN setup = 1 .. Len(setup) /\ Len(setup) \in Nat
      /\ builder \in {NoStep} \cup 0 .. Len(setup) /\ retrieval \in {NoStep} \cup 0 .. Len(setup)
  <2>1. ~freed_used
    BY DEF HostNext, BuildMemory, FusedRetrieve, BuildFails, ResetBuilder, DestroyRag
  <2>2. HInv'
    BY StepH
  <2> QED
    BY <2>1, <2>2 DEF HInv, SetUps
<1>2. \A o \in 1 .. Len(setup) : setup[o].refs = IF builder = o THEN 1 ELSE 0
  BY <1>1 DEF HInv, Owned, OwnedOnce
<1>3. ASSUME NEW query \in Queries, FusedRetrieve(query)
      PROVE  freed_used' <=> retrieval > Null /\ retrieval # builder
  <2>1. CASE Used = Null
    <3>1. freed_used' = freed_used
      BY <1>3, <2>1 DEF FusedRetrieve, Null
    <3>2. ~(retrieval > Null)
      BY <1>1, <2>1 DEF Used, NoStep, Null
    <3> QED
      BY <1>1, <3>1, <3>2
  <2>2. CASE Used > Null /\ setup[Used].refs < 1
    <3>1. freed_used' = TRUE
      BY <1>3, <2>2 DEF FusedRetrieve, Null
    <3>2. Used \in 1 .. Len(setup) /\ Used # builder
      BY <1>1, <1>2, <2>2 DEF Used, NoStep, Null
    <3>3. retrieval > Null /\ retrieval # builder
      BY <1>1, <2>2, <3>2 DEF Used, NoStep, Null
    <3> QED
      BY <3>1, <3>3
  <2>3. CASE Used > Null /\ ~(setup[Used].refs < 1)
    <3>1. freed_used' = freed_used
      BY <1>3, <2>3 DEF FusedRetrieve, Null
    <3>2. Used \in 1 .. Len(setup) /\ Used = builder
      BY <1>1, <1>2, <2>3 DEF Used, NoStep, Null
    <3>3. ~(retrieval > Null /\ retrieval # builder)
      BY <1>1, <3>2 DEF Used, NoStep, Null
    <3> QED
      BY <1>1, <3>1, <3>3
  <2> QED
    BY <1>1, <2>1, <2>2, <2>3 DEF Used, NoStep, Null
<1>4. ASSUME DestroyRag PROVE freed_used' <=> retrieval > Null
  <2>1. freed_used' = (\E o \in DOMAIN setup : setup'[o].refs < 0)
    BY <1>4 DEF DestroyRag
  <2>2. \A i \in 1 .. Len(setup) : setup'[i].refs = IF i = retrieval THEN -1 ELSE 0
    BY <1>4, DestroyReleases
  <2>3. freed_used' <=> retrieval \in 1 .. Len(setup)
    BY <1>1, <2>1, <2>2
  <2>4. retrieval \in 1 .. Len(setup) <=> retrieval > Null
    BY <1>1 DEF NoStep, Null
  <2> QED
    BY <2>3, <2>4
<1> DEFINE Queried == \E query \in Queries : FusedRetrieve(query)
           WithTuple == retrieval > Null
           Stale == retrieval # builder
           Freed == freed_used'
<1>5. Queried => (Freed <=> WithTuple /\ Stale)
  BY <1>3
<1>6. DestroyRag => (Freed <=> WithTuple)
  BY <1>4
<1>7. ~Queried /\ ~DestroyRag => ~Freed
  <2> HIDE DEF Queried
  <2>1. ASSUME ~Queried, ~DestroyRag PROVE freed_used' = freed_used
    BY <2>1 DEF HostNext, BuildMemory, BuildFails, ResetBuilder, Queried
  <2> QED
    BY <1>1, <2>1
<1>8. UsesFreed <=> (Freed <=> WithTuple /\ ((Stale /\ Queried) \/ DestroyRag))
  BY DEF UsesFreed
<1> HIDE DEF Queried, WithTuple, Stale, Freed
<1> QED
  BY <1>5, <1>6, <1>7, <1>8, Zenon

(* After any builds, failures, setters, queries and destructions: a freed  *)
(* tuple is used exactly by a query whose step holds one that the builder  *)
(* has let go of, and by the destruction after a step was made with one;   *)
(* and until then the builder's set-up is of the index the caller holds.   *)
THEOREM SetUpOwned == HostSpec => FreedUse /\ []SetupOfMemory
<1>1. HInv => SetupOfMemory
  BY DEF HInv
<1>2. QED
  BY InitH, StepH, FreedStep, <1>1, PTL DEF HostSpec, FreedUse, UsesFreed

--------------------------------------------------------------------------------
(* Sizes. *)

Terms == [token : Nat, count : Nat]

LEMMA HostSizes ==
    /\ Lanes \in Nat \ {0} /\ Channels \in Nat \ {0} /\ Vocab \in Nat \ {0} /\ MaxFreq \in Nat \ {0}
    /\ Batch \in Nat \ {0} /\ Lanes <= Vocab
<1>1. Lanes \in Nat \ {0} /\ Channels \in Nat \ {0} /\ Vocab \in Nat \ {0} /\ MaxFreq \in Nat \ {0}
      /\ Vocab % Lanes = 0
  BY HostAssumption
<1>2. Channels * Lanes \in Nat \ {0}
  BY <1>1
<1>3. Vocab = (Vocab \div Lanes) * Lanes + (Vocab % Lanes) /\ Vocab \div Lanes \in Nat
  BY <1>1, DivParts
<1>4. Vocab \div Lanes # 0
  BY <1>1, <1>3
<1>5. 1 * Lanes <= (Vocab \div Lanes) * Lanes
  BY <1>1, <1>3, <1>4, TimesLess
<1> QED
  BY <1>1, <1>2, <1>3, <1>5 DEF Batch

LEMMA CorpusIs ==
    ASSUME NEW docs \in Corpora
    PROVE  /\ docs \in Seq(Seq(Terms)) /\ Len(docs) \in Nat \ {0} /\ DOMAIN docs = 1 .. Len(docs)
           /\ \A d \in 1 .. Len(docs) : docs[d] \in Seq(Terms)
<1>1. docs \in Seq(Seq(Terms)) /\ docs # <<>>
  BY HostAssumption DEF Terms
<1> HIDE DEF Terms
<1>2. Len(docs) # 0
  BY <1>1
<1> QED
  BY <1>1, <1>2

(* The padded corpus is whole super-batches. *)
LEMMA PaddedIs ==
    ASSUME NEW docs \in Corpora
    PROVE  /\ SuperBatches(docs) \in Nat \ {0} /\ Padded(docs) = SuperBatches(docs) * Batch
           /\ Padded(docs) \in Nat /\ Len(docs) <= Padded(docs) /\ Batch <= Padded(docs)
<1> DEFINE k == (Len(docs) + Batch - 1) \div Batch
           n == Len(docs) + Batch - 1
<1>1. Batch \in Nat \ {0} /\ Len(docs) \in Nat \ {0} /\ n \in Nat /\ n >= Batch
  BY HostSizes, CorpusIs
<1> HIDE DEF n
<1>2. n \div Batch \in Nat /\ n % Batch \in 0 .. Batch - 1
      /\ n = (n \div Batch) * Batch + (n % Batch)
  BY <1>1, DivParts
<1>3. k = n \div Batch
  BY DEF n
<1> HIDE DEF k
<1>4. k \in Nat /\ k * Batch \in Nat /\ n < k * Batch + Batch
  BY <1>1, <1>2, <1>3, TimesLess
<1>5. k # 0
  BY <1>1, <1>4
<1>6. Padded(docs) = k * Batch
  BY DEF Padded, k
<1>7. (k * Batch + 0) \div Batch = k
  BY <1>1, <1>4, DivMod
<1>8. SuperBatches(docs) = k
  BY <1>4, <1>6, <1>7 DEF SuperBatches
<1>9. Len(docs) <= k * Batch
  BY <1>1, <1>4 DEF n
<1>10. 1 * Batch <= k * Batch
  BY <1>1, <1>4, <1>5, TimesLess
<1> QED
  BY <1>1, <1>4, <1>5, <1>6, <1>8, <1>9, <1>10

(* Where position p is: super-batch, channel and lane. *)
LEMMA Position ==
    ASSUME NEW docs \in Corpora, NEW p \in Ids(docs)
    PROVE  LET b == p \div Batch
               c == (p % Batch) \div Lanes
               j == p % Lanes
           IN  /\ p \in Nat /\ b \in 0 .. SuperBatches(docs) - 1 /\ c \in Channel /\ j \in Lane
               /\ p = b * Batch + c * Lanes + j
               /\ p \in b * Batch .. (b + 1) * Batch - 1
<1> DEFINE b == p \div Batch
           m == p % Batch
           c == m \div Lanes
           r == m % Lanes
<1>1. /\ Batch \in Nat \ {0} /\ Lanes \in Nat \ {0} /\ Channels \in Nat \ {0}
      /\ SuperBatches(docs) \in Nat /\ Padded(docs) = SuperBatches(docs) * Batch /\ Padded(docs) \in Nat
  BY HostSizes, PaddedIs
<1>2. p \in Nat /\ p \in 0 .. SuperBatches(docs) * Batch - 1
  BY <1>1 DEF Ids
<1>3. b \in Nat /\ m \in 0 .. Batch - 1 /\ p = b * Batch + m
  BY <1>1, <1>2, DivParts
<1>4. b \in 0 .. SuperBatches(docs) - 1
  BY <1>1, <1>2, DivBound
<1>5. m \in 0 .. Channels * Lanes - 1 /\ m \in Nat
  BY <1>1, <1>3 DEF Batch
<1> HIDE DEF b, m
<1>6. c \in 0 .. Channels - 1
  BY <1>1, <1>5, DivBound
<1>7. r \in 0 .. Lanes - 1 /\ m = c * Lanes + r
  BY <1>1, <1>5, DivParts
<1> HIDE DEF c, r
<1>8. p = (b * Channels + c) * Lanes + r /\ b * Channels + c \in Nat
  <2>1. b * Channels \in Nat /\ c \in Nat /\ b * (Channels * Lanes) = (b * Channels) * Lanes
    BY <1>1, <1>3, <1>6
  <2>2. (b * Channels + c) * Lanes = (b * Channels) * Lanes + c * Lanes
    BY <1>1, <2>1
  <2>3. b * Batch = (b * Channels) * Lanes
    BY <2>1 DEF Batch
  <2>4. (b * Channels) * Lanes \in Nat /\ c * Lanes \in Nat
    BY <1>1, <2>1, TimesLess
  <2> QED
    BY <1>3, <1>7, <2>1, <2>2, <2>3, <2>4
<1>9. p % Lanes = r
  BY <1>1, <1>7, <1>8, DivMod
<1>10. b * Batch \in Nat /\ (b + 1) * Batch = b * Batch + Batch /\ c * Lanes \in Nat
  <2>1. b * Batch \in Nat /\ c * Lanes \in Nat
    BY <1>1, <1>3, <1>6, TimesLess
  <2>2. (b + 1) * Batch = b * Batch + Batch
    BY <1>1, <1>3
  <2> QED
    BY <2>1, <2>2
<1>11. p = b * Batch + c * Lanes + r
  BY <1>3, <1>7, <1>10
<1>12. p \in b * Batch .. (b + 1) * Batch - 1
  BY <1>1, <1>3, <1>10
<1> QED
  BY <1>2, <1>4, <1>6, <1>7, <1>9, <1>11, <1>12 DEF b, m, c, r, Channel, Lane

(* A token of a lane is found in the lane's part of the frequencies. *)
LEMMA OwnFrequency ==
    ASSUME NEW token \in Nat
    PROVE  (token \div Lanes) * Lanes + (token % Lanes) = token
  BY HostSizes, DivParts

--------------------------------------------------------------------------------
(* The filter keeps what has weight. *)

(* KeptTerms goes through the document term by term. *)
LEMMA KeptIs ==
    ASSUME NEW doc \in Seq(Terms), NEW lane
    PROVE  \E k \in [0 .. Len(doc) -> Seq(Terms)] :
              /\ KeptTerms(doc, lane) = k[Len(doc)] /\ k[0] = <<>>
              /\ \A n \in 1 .. Len(doc) :
                    k[n] = IF Keeps(lane, doc[n].token) THEN Append(k[n - 1], doc[n]) ELSE k[n - 1]
<1> DEFINE N == Len(doc)
           D(h) == [n \in 0 .. N |->
                      IF n = 0 THEN <<>>
                      ELSE IF Keeps(lane, doc[n].token) THEN Append(h[n - 1], doc[n])
                      ELSE h[n - 1]]
           kept == CHOOSE h : h = D(h)
           V == Seq(Terms)
           step == [x \in (1 .. N) \X V |->
                      IF Keeps(lane, doc[x[1]].token) THEN Append(x[2], doc[x[1]]) ELSE x[2]]
<1>1. N \in Nat /\ <<>> \in V /\ \A i \in 1 .. N : doc[i] \in Terms
  OBVIOUS
<1>2. \A i \in 1 .. N : \A v \in V :
          /\ step[<<i, v>>] = IF Keeps(lane, doc[i].token) THEN Append(v, doc[i]) ELSE v
          /\ step[<<i, v>>] \in V
  <2> TAKE i \in 1 .. N
  <2> TAKE v \in V
  <2>1. doc[i] \in Terms /\ <<i, v>> \in (1 .. N) \X V
    BY <1>1
  <2>2. Append(v, doc[i]) \in V
    BY <2>1
  <2> QED
    BY <2>1, <2>2
<1> HIDE DEF step, V, N
<1>3. PICK h \in [0 .. N -> V] : h[0] = <<>> /\ \A i \in 1 .. N : h[i] = step[<<i, h[i - 1]>>]
  <2> DEFINE none == <<>>
  <2>1. none \in V /\ StaysIn(V, step, N)
    BY <1>1, <1>2 DEF StaysIn
  <2> HIDE DEF none
  <2>2. \E h \in [0 .. N -> V] : Iterates(none, step, N, h)
    BY <1>1, <2>1, Iterate
  <2> QED
    BY <2>2 DEF none, Iterates
<1>4. \A i \in 1 .. N :
          h[i] = IF Keeps(lane, doc[i].token) THEN Append(h[i - 1], doc[i]) ELSE h[i - 1]
  <2> TAKE i \in 1 .. N
  <2>1. h[i - 1] \in V
    BY <1>1
  <2> QED
    BY <1>2, <1>3, <2>1
<1>5. h = D(h)
  <2>1. \A i \in 0 .. N : h[i] = D(h)[i]
    <3>1. \A i \in 0 .. N : i = 0 \/ i \in 1 .. N
      BY <1>1
    <3> QED
      BY <1>3, <1>4, <3>1
  <2> QED
    BY <2>1
<1>6. kept = D(kept)
  BY <1>5
<1>7. KeptTerms(doc, lane) = kept[N]
  BY DEF KeptTerms, N
<1> HIDE DEF kept
<1>8. kept[0] = <<>> /\ \A i \in 1 .. N :
          kept[i] = IF Keeps(lane, doc[i].token) THEN Append(kept[i - 1], doc[i]) ELSE kept[i - 1]
  <2>1. \A i \in 0 .. N : kept[i] = D(kept)[i]
    BY <1>6
  <2> QED
    BY <1>1, <2>1
<1>9. \A i \in 0 .. N : kept[i] = h[i]
  <2>1. \A i \in 1 .. N : kept[i - 1] = h[i - 1] => kept[i] = h[i]
    BY <1>4, <1>8
  <2>2. SameStep(N, kept, h)
    BY <1>3, <1>8, <2>1 DEF SameStep
  <2>3. SameUpTo(N, kept, h)
    BY <1>1, <2>2, SameSteps
  <2> QED
    BY <2>3 DEF SameUpTo
<1>10. kept[N] = h[N]
  BY <1>1, <1>9
<1> QED
  BY <1>3, <1>4, <1>7, <1>10 DEF N, V

(* What the terms of a sequence weigh together. *)
Weight(w, s) == SumFunctionOnSet([i \in 1 .. Len(s) |-> w[s[i]]], 1 .. Len(s))

LEMMA WeightAppend ==
    ASSUME NEW w, \A t \in Terms : w[t] \in Int, NEW s \in Seq(Terms), NEW x \in Terms
    PROVE  Weight(w, s) \in Int /\ Weight(w, Append(s, x)) = Weight(w, s) + w[x]
<1> DEFINE n == Len(s)
           t == Append(s, x)
           f == [i \in 1 .. n |-> w[s[i]]]
           g == [i \in 1 .. n + 1 |-> w[t[i]]]
<1>1. /\ n \in Nat /\ Len(t) = n + 1 /\ t[n + 1] = x /\ \A i \in 1 .. n : t[i] = s[i] /\ s[i] \in Terms
  OBVIOUS
<1> HIDE DEF n, t
<1>2. \A i \in 1 .. n : f[i] = g[i] /\ f[i] \in Int
  <2>1. \A i \in 1 .. n : i \in 1 .. n + 1
    BY <1>1
  <2> QED
    BY <1>1, <2>1
<1>3. g[n + 1] = w[x] /\ w[x] \in Int
  <2>1. n + 1 \in 1 .. n + 1
    BY <1>1
  <2> QED
    BY <1>1, <2>1
<1>4. Weight(w, s) = SumFunctionOnSet(f, 1 .. n) /\ Weight(w, t) = SumFunctionOnSet(g, 1 .. n + 1)
  BY <1>1 DEF Weight, n
<1> HIDE DEF f, g
<1>5. \A i \in 1 .. n + 1 : g[i] \in Int
  <2>1. \A i \in 1 .. n + 1 : i \in 1 .. n \/ i = n + 1
    BY <1>1
  <2> QED
    BY <1>2, <1>3, <2>1
<1>6. /\ SumFunctionOnSet(g, 1 .. n) \in Int
      /\ SumFunctionOnSet(g, 1 .. n + 1) = SumFunctionOnSet(g, 1 .. n) + g[n + 1]
  BY <1>1, <1>5, SumNext
<1>7. SumFunctionOnSet(f, 1 .. n) = SumFunctionOnSet(g, 1 .. n)
  <2> DEFINE S == 1 .. n
  <2>1. IsFiniteSet(S) /\ \A i \in S : f[i] = g[i] /\ f[i] \in Int
    BY <1>1, <1>2, FS_Interval
  <2> HIDE DEF S
  <2>2. SumFunctionOnSet(f, S) = SumFunctionOnSet(g, S)
    BY <2>1, SumSame
  <2> QED
    BY <2>2 DEF S
<1> QED
  BY <1>3, <1>4, <1>6, <1>7 DEF t

(* The kept terms are the lane's, and weigh what the lane's terms of the   *)
(* document weigh.                                                         *)
LEMMA KeptSum ==
    ASSUME NEW doc \in Seq(Terms), NEW lane, NEW w, \A t \in Terms : w[t] \in Int
    PROVE  LET kept == KeptTerms(doc, lane)
               g == [i \in 1 .. Len(doc) |-> IF Keeps(lane, doc[i].token) THEN w[doc[i]] ELSE 0]
           IN  /\ kept \in Seq(Terms)
               /\ \A i \in 1 .. Len(kept) : Keeps(lane, kept[i].token)
               /\ Weight(w, kept) = SumFunctionOnSet(g, 1 .. Len(doc))
<1> DEFINE N == Len(doc)
           g == [i \in 1 .. N |-> IF Keeps(lane, doc[i].token) THEN w[doc[i]] ELSE 0]
<1>1. PICK k \in [0 .. N -> Seq(Terms)] :
              /\ KeptTerms(doc, lane) = k[N] /\ k[0] = <<>>
              /\ \A n \in 1 .. N :
                    k[n] = IF Keeps(lane, doc[n].token) THEN Append(k[n - 1], doc[n]) ELSE k[n - 1]
  BY KeptIs
<1>2. N \in Nat /\ \A i \in 1 .. N : doc[i] \in Terms
  OBVIOUS
<1>3. \A i \in 1 .. N : g[i] \in Int /\ g[i] = IF Keeps(lane, doc[i].token) THEN w[doc[i]] ELSE 0
  BY <1>2
<1> HIDE DEF N, g
<1> DEFINE Right(n) == /\ \A i \in 1 .. Len(k[n]) : Keeps(lane, k[n][i].token)
                       /\ Weight(w, k[n]) = SumFunctionOnSet(g, 1 .. n)
           S == {n \in Nat : n <= N => Right(n)}
<1>4. 0 \in S
  <2>1. k[0] = <<>> /\ Len(k[0]) = 0 /\ 1 .. 0 = {}
    BY <1>1
  <2>2. \A f : SumFunctionOnSet(f, 1 .. 0) = 0
    BY <2>1, SumEmpty
  <2> QED
    BY <2>1, <2>2 DEF Weight
<1>5. ASSUME NEW n \in Nat, n \in S PROVE n + 1 \in S
  <2> SUFFICES ASSUME n + 1 <= N PROVE Right(n + 1)
    OBVIOUS
  <2>1. /\ n + 1 \in 1 .. N /\ (n + 1) - 1 = n /\ n \in 0 .. N /\ n + 1 \in 0 .. N
        /\ \A i \in 1 .. n + 1 : i \in 1 .. N
    BY <1>2
  <2>2. Right(n)
    BY <1>2, <1>5, <2>1
  <2> DEFINE s == k[n]
             t == k[n + 1]
             x == doc[n + 1]
  <2>3. /\ t = IF Keeps(lane, x.token) THEN Append(s, x) ELSE s
        /\ s \in Seq(Terms) /\ x \in Terms
    BY <1>1, <1>2, <2>1
  <2>4. /\ SumFunctionOnSet(g, 1 .. n) \in Int
        /\ SumFunctionOnSet(g, 1 .. n + 1) = SumFunctionOnSet(g, 1 .. n) + g[n + 1]
    BY <1>3, <2>1, SumNext
  <2>5. g[n + 1] = IF Keeps(lane, x.token) THEN w[x] ELSE 0
    BY <1>3, <2>1
  <2>6. /\ \A i \in 1 .. Len(s) : Keeps(lane, s[i].token)
        /\ Weight(w, s) = SumFunctionOnSet(g, 1 .. n)
    BY <2>2
  <2> HIDE DEF s, t, x
  <2>7. CASE Keeps(lane, x.token)
    <3>1. t = Append(s, x) /\ Len(t) = Len(s) + 1 /\ Len(s) \in Nat
      BY <2>3, <2>7
    <3>2. \A i \in 1 .. Len(t) : Keeps(lane, t[i].token)
      <4> TAKE i \in 1 .. Len(t)
      <4>1. CASE i \in 1 .. Len(s)
        <5>1. t[i] = s[i]
          BY <2>3, <3>1, <4>1
        <5> QED
          BY <2>6, <4>1, <5>1
      <4>2. CASE i = Len(s) + 1
        <5>1. t[i] = x
          BY <2>3, <3>1, <4>2
        <5> QED
          BY <2>7, <5>1
      <4> QED
        BY <3>1, <4>1, <4>2
    <3>3. Weight(w, t) = Weight(w, s) + w[x]
      BY <2>3, <3>1, WeightAppend
    <3> QED
      BY <2>4, <2>5, <2>6, <2>7, <3>2, <3>3 DEF t
  <2>8. CASE ~Keeps(lane, x.token)
    <3>1. t = s
      BY <2>3, <2>8
    <3> QED
      BY <2>4, <2>5, <2>6, <2>8, <3>1 DEF t
  <2> QED
    BY <2>7, <2>8
<1>6. Right(N)
  <2>1. N \in S
    <3> HIDE DEF S
    <3> QED
      BY <1>2, <1>4, <1>5, Numbers
  <2> QED
    BY <1>2, <2>1
<1>7. k[N] \in Seq(Terms)
  BY <1>2
<1> QED
  BY <1>1, <1>6, <1>7 DEF N, g

--------------------------------------------------------------------------------
(* What is packed, and where it lies. *)

LEMMA FilteredIs ==
    ASSUME NEW docs \in Corpora, NEW d \in Nat
    PROVE  Filtered(docs, d) \in Seq(Terms) /\ Len(Filtered(docs, d)) \in Nat
<1>1. CASE d < Len(docs)
  <2> DEFINE doc == docs[d + 1]
             w == [t \in Terms |-> 0]
  <2>1. doc \in Seq(Terms) /\ \A t \in Terms : w[t] \in Int
    <3>1. d + 1 \in 1 .. Len(docs)
      BY <1>1, CorpusIs
    <3> QED
      BY <3>1, CorpusIs
  <2> HIDE DEF doc, w
  <2>2. KeptTerms(doc, d % Lanes) \in Seq(Terms)
    BY <2>1, KeptSum
  <2>3. Filtered(docs, d) = KeptTerms(doc, d % Lanes)
    BY <1>1 DEF Filtered, doc
  <2> HIDE DEF Terms
  <2> QED
    BY <2>2, <2>3
<1>2. CASE ~(d < Len(docs))
  BY <1>2 DEF Filtered
<1> QED
  BY <1>1, <1>2

(* A super-batch has the rows that each of its documents needs. *)
LEMMA RowsIs ==
    ASSUME NEW docs \in Corpora, NEW b \in Nat
    PROVE  /\ Rows(docs, b) \in Nat \ {0}
           /\ \A d \in b * Batch .. (b + 1) * Batch - 1 : Len(Filtered(docs, d)) <= Rows(docs, b)
<1> DEFINE D == b * Batch .. (b + 1) * Batch - 1
           f == [d \in D |-> Len(Filtered(docs, d))]
           S == {f[d] : d \in D}
           M == {1} \cup S
<1>1. b * Batch \in Nat /\ (b + 1) * Batch \in Nat
  BY HostSizes, TimesLess
<1>2. IsFiniteSet(D) /\ \A d \in D : d \in Nat
  <2>1. \A x, y \in Nat : IsFiniteSet(x .. y - 1)
    BY FS_Interval
  <2> QED
    BY <1>1, <2>1
<1>3. \A d \in D : f[d] = Len(Filtered(docs, d)) /\ f[d] \in Nat
  BY <1>2, FilteredIs
<1>4. Rows(docs, b) = Max(M)
  BY <1>3 DEF Rows
<1> HIDE DEF f
<1>5. IsFiniteSet(S)
  <2> HIDE DEF D
  <2> QED
    BY <1>2, FiniteRange
<1>6. S \subseteq Nat
  BY <1>3
<1> HIDE DEF S
<1>7. IsFiniteSet(M) /\ M # {} /\ M \in SUBSET Int /\ 1 \in M /\ M \subseteq Nat
  <2>1. IsFiniteSet(S \cup {1})
    BY <1>5, FS_AddElement
  <2>2. M = S \cup {1}
    OBVIOUS
  <2> QED
    BY <1>6, <2>1, <2>2
<1> HIDE DEF M
<1>8. Max(M) \in M /\ \A x \in M : x <= Max(M)
  BY <1>7, MaxIs
<1>9. \A d \in D : f[d] \in M
  BY DEF M, S
<1>10. \A d \in D : Len(Filtered(docs, d)) <= Max(M)
  BY <1>3, <1>8, <1>9
<1>11. Max(M) \in Nat \ {0}
  <2>1. Max(M) \in Nat /\ 1 <= Max(M)
    BY <1>7, <1>8
  <2> QED
    BY <2>1
<1> QED
  BY <1>4, <1>10, <1>11

LEMMA PackedTermType ==
    ASSUME NEW docs \in Corpora, NEW d \in Nat, NEW j \in Lane, NEW row \in Nat \ {0}
    PROVE  PackedTerm(docs, d, j, row) \in Terms
<1>1. CASE row <= Len(Filtered(docs, d))
  <2> DEFINE s == Filtered(docs, d)
  <2>1. s \in Seq(Terms) /\ row \in 1 .. Len(s)
    BY <1>1, FilteredIs
  <2> HIDE DEF s
  <2>2. s[row] \in Terms
    BY <2>1
  <2>3. PackedTerm(docs, d, j, row) = [token |-> s[row].token, count |-> Capped(s[row].count)]
    BY <1>1 DEF PackedTerm, s
  <2> QED
    BY <2>2, <2>3, HostSizes DEF Terms, Capped
<1>2. CASE ~(row <= Len(Filtered(docs, d)))
  BY <1>2 DEF PackedTerm, Terms, Lane
<1> QED
  BY <1>1, <1>2

(* Row by row, a document's terms are in its lane of its channel, after    *)
(* the rows of the super-batches before.                                   *)
LEMMA PackedAt ==
    ASSUME NEW docs \in Corpora, NEW p \in Ids(docs),
           NEW row \in 1 .. Rows(docs, p \div Batch)
    PROVE  DocMem(docs, (p % Batch) \div Lanes)
                 [SumFunctionOnSet(InstMem(docs), 1 .. p \div Batch) + row][p % Lanes]
             = PackedTerm(docs, p, p % Lanes, row)
<1> DEFINE b == p \div Batch
           c == (p % Batch) \div Lanes
           j == p % Lanes
           SB == SuperBatches(docs)
           T == [Lane -> Terms]
           Vector(n, r) == [i \in Lane |-> PackedTerm(docs, (n - 1) * Batch + c * Lanes + i, i, r)]
           Batches(n) == [r \in 1 .. Rows(docs, n - 1) |-> Vector(n, r)]
           q == [n \in 1 .. SB |-> Batches(n)]
           len == InstMem(docs)
<1>1. /\ p \in Nat /\ b \in 0 .. SB - 1 /\ c \in Channel /\ j \in Lane
      /\ p = b * Batch + c * Lanes + j
      /\ p \in b * Batch .. (b + 1) * Batch - 1
  BY Position
<1>2. SB \in Nat \ {0}
  BY PaddedIs
<1>3. DocMem(docs, c) = FlattenSeq(q)
  BY DEF DocMem
<1> HIDE DEF b, c, j, SB
<1>4. \A n \in 1 .. SB : \A r \in 1 .. Rows(docs, n - 1) : Vector(n, r) \in T
  <2> TAKE n \in 1 .. SB
  <2> TAKE r \in 1 .. Rows(docs, n - 1)
  <2>1. n - 1 \in Nat /\ r \in Nat \ {0}
    BY <1>2, RowsIs
  <2>2. (n - 1) * Batch \in Nat /\ c * Lanes \in Nat
    BY <1>1, <2>1, HostSizes, TimesLess DEF Channel
  <2>3. \A i \in Lane : PackedTerm(docs, (n - 1) * Batch + c * Lanes + i, i, r) \in Terms
    <3> TAKE i \in Lane
    <3>1. (n - 1) * Batch + c * Lanes + i \in Nat
      BY <2>2 DEF Lane
    <3> HIDE DEF Terms
    <3> QED
      BY <2>1, <3>1, PackedTermType
  <2> HIDE DEF Terms
  <2> QED
    BY <2>3
<1>5. \A n \in 1 .. SB : Batches(n) \in Seq(T) /\ Len(Batches(n)) = Rows(docs, n - 1)
  <2> TAKE n \in 1 .. SB
  <2>1. Rows(docs, n - 1) \in Nat
    BY <1>2, RowsIs
  <2>2. \A r \in 1 .. Rows(docs, n - 1) : Vector(n, r) \in T
    BY <1>4
  <2> HIDE DEF Vector, T
  <2> QED
    BY <2>1, <2>2
<1>6. q \in Seq(Seq(T)) /\ Len(q) = SB /\ \A n \in 1 .. SB : q[n] = Batches(n)
  <2> HIDE DEF Batches, T
  <2> QED
    BY <1>2, <1>5
<1>7. \A n \in 1 .. Len(q) : len[n] = Len(q[n])
  <2>1. \A n \in 1 .. SB : len[n] = Rows(docs, n - 1)
    BY DEF InstMem, SB
  <2> HIDE DEF q, Batches, len
  <2> QED
    BY <1>5, <1>6, <2>1
<1>8. b + 1 \in 1 .. SB /\ (b + 1) - 1 = b /\ b \in Nat
  BY <1>1, <1>2
<1>9. row \in 1 .. Len(q[b + 1]) /\ q[b + 1] = Batches(b + 1)
  <2>1. row \in 1 .. Rows(docs, b)
    BY DEF b
  <2> HIDE DEF q, Batches
  <2> QED
    BY <1>5, <1>6, <1>8, <2>1
<1>10. Batches(b + 1)[row] = Vector(b + 1, row)
  <2>1. row \in 1 .. Rows(docs, (b + 1) - 1)
    BY <1>8 DEF b
  <2> HIDE DEF Vector
  <2> QED
    BY <2>1
<1>11. Vector(b + 1, row)[j] = PackedTerm(docs, p, j, row)
  <2>1. (b + 1 - 1) * Batch + c * Lanes + j = p
    BY <1>1, <1>8
  <2> QED
    BY <1>1, <2>1
<1> HIDE DEF q, Batches, Vector, len, T
<1>12. FlattenSeq(q)[SumFunctionOnSet(len, 1 .. (b + 1) - 1) + row] = q[b + 1][row]
  <2> DEFINE n == b + 1
  <2>1. n \in 1 .. Len(q) /\ row \in 1 .. Len(q[n])
    BY <1>6, <1>8, <1>9
  <2> HIDE DEF n
  <2>2. Lengths(len, q)
    BY <1>7 DEF Lengths
  <2>3. FoundAt(q, n, row, SumFunctionOnSet(len, 1 .. n - 1) + row)
    BY <1>6, <2>1, <2>2, FlattenAt
  <2> QED
    BY <2>3 DEF n, FoundAt
<1>13. FlattenSeq(q)[SumFunctionOnSet(len, 1 .. b) + row][j] = PackedTerm(docs, p, j, row)
  BY <1>8, <1>9, <1>10, <1>11, <1>12
<1> QED
  BY <1>3, <1>13 DEF b, c, j, len

--------------------------------------------------------------------------------
(* The score that the kernel computes. *)

LEMMA FrequencyNat ==
    ASSUME NEW docs \in Corpora
    PROVE  \A t \in 0 .. Vocab - 1 : DocFreq(docs)[t] \in Nat
<1> TAKE t \in 0 .. Vocab - 1
<1> DEFINE S == {d \in DOMAIN docs : \E i \in DOMAIN docs[d] : docs[d][i].token = t}
<1>1. IsFiniteSet(DOMAIN docs)
  BY CorpusIs, FS_Interval
<1>2. S \in SUBSET DOMAIN docs
  OBVIOUS
<1>3. DocFreq(docs)[t] = Cardinality(S)
  BY DEF DocFreq
<1> HIDE DEF S
<1>4. IsFiniteSet(S)
  BY <1>1, <1>2, FS_Subset
<1> QED
  BY <1>3, <1>4, FS_CardinalityType

(* What a term adds to the score of a document of lane j. *)
Adds(docs, query, j, t) ==
    IF Keeps(j, t.token) /\ t.token \in query
    THEN Idf(Padded(docs), DocFreq(docs)[t.token]) * Capped(t.count) ELSE 0

LEMMA AddsInt ==
    ASSUME NEW docs \in Corpora, NEW query, NEW j, NEW t \in Terms
    PROVE  Adds(docs, query, j, t) \in Int
<1>1. CASE Keeps(j, t.token) /\ t.token \in query
  <2>1. t.token \in 0 .. Vocab - 1 /\ t.count \in Nat
    BY <1>1, HostSizes DEF Keeps, Terms
  <2>2. Idf(Padded(docs), DocFreq(docs)[t.token]) \in Int
    BY <2>1, FrequencyNat, PaddedIs DEF Idf
  <2>3. Capped(t.count) \in Int
    BY <2>1, HostSizes DEF Capped
  <2>4. \A x, y \in Int : x * y \in Int
    OBVIOUS
  <2> QED
    BY <1>1, <2>2, <2>3, <2>4 DEF Adds
<1>2. CASE ~(Keeps(j, t.token) /\ t.token \in query)
  BY <1>2 DEF Adds
<1> QED
  BY <1>1, <1>2

(* The kernel looks a packed term up in the lane's own frequencies. *)
LEMMA PackedScore ==
    ASSUME NEW docs \in Corpora, NEW query, NEW j \in Lane, NEW t \in Terms, Keeps(j, t.token)
    PROVE  TermScore(Image(docs), query, j, [token |-> t.token, count |-> Capped(t.count)])
             = Adds(docs, query, j, t)
<1>1. t.token \in Nat /\ t.token % Lanes = j
  BY DEF Keeps, Terms
<1>2. (t.token \div Lanes) * Lanes + j = t.token
  BY <1>1, OwnFrequency
<1>3. Image(docs).L = Padded(docs) /\ Image(docs).df = DocFreq(docs)
  BY DEF Image
<1> QED
  BY <1>2, <1>3 DEF TermScore, Adds

(* The filling of a row adds nothing. *)
LEMMA FillingScore ==
    ASSUME NEW docs \in Corpora, NEW query, NEW j \in Lane
    PROVE  TermScore(Image(docs), query, j, [token |-> j, count |-> 0]) = 0
<1>1. Lanes \in Nat \ {0} /\ Lanes <= Vocab /\ Vocab \in Nat /\ j \in 0 .. Lanes - 1 /\ j \in Nat
  BY HostSizes DEF Lane
<1>2. j % Lanes = j /\ (j \div Lanes) * Lanes + (j % Lanes) = j
  <2>1. (0 * Lanes + j) % Lanes = j
    BY <1>1, DivMod
  <2>2. 0 * Lanes + j = j
    BY <1>1
  <2> QED
    BY <1>1, <2>1, <2>2, OwnFrequency
<1>3. DocFreq(docs)[j] \in Nat /\ Padded(docs) \in Nat
  BY <1>1, FrequencyNat, PaddedIs
<1>4. Image(docs).L = Padded(docs) /\ Image(docs).df = DocFreq(docs)
  BY DEF Image
<1>5. \A x \in Int : x * 0 = 0
  OBVIOUS
<1>6. Idf(Padded(docs), DocFreq(docs)[j]) \in Int
  BY <1>3 DEF Idf
<1> QED
  BY <1>2, <1>4, <1>5, <1>6 DEF TermScore

(* The kernel's score at a position, with what has been packed there. *)
LEMMA ScoreOfRows ==
    ASSUME NEW docs \in Corpora, NEW query, NEW p \in Ids(docs)
    PROVE  LET R == Rows(docs, p \div Batch)
               f == [row \in 1 .. R |->
                        TermScore(Image(docs), query, p % Lanes, PackedTerm(docs, p, p % Lanes, row))]
           IN  ScoreAt(Image(docs), query, p) = SumFunctionOnSet(f, 1 .. R)
<1> DEFINE b == p \div Batch
           c == (p % Batch) \div Lanes
           j == p % Lanes
           R == Rows(docs, b)
           start == SumFunctionOnSet(InstMem(docs), 1 .. b)
           g == [row \in 1 .. R |->
                   TermScore(Image(docs), query, j, DocMem(docs, c)[start + row][j])]
           f == [row \in 1 .. R |->
                   TermScore(Image(docs), query, j, PackedTerm(docs, p, j, row))]
<1>1. b \in 0 .. SuperBatches(docs) - 1 /\ c \in Channel
  BY Position
<1>2. Image(docs).inst = InstMem(docs) /\ Image(docs).doc[c] = DocMem(docs, c)
  <2>1. Image(docs).doc = [x \in Channel |-> DocMem(docs, x)] /\ Image(docs).inst = InstMem(docs)
    BY DEF Image
  <2> HIDE DEF c
  <2> QED
    BY <1>1, <2>1
<1>3. InstMem(docs)[b + 1] = R
  <2> HIDE DEF b
  <2>1. b + 1 \in 1 .. SuperBatches(docs) /\ (b + 1) - 1 = b
    BY <1>1, PaddedIs
  <2> QED
    BY <2>1 DEF InstMem
<1>4. ScoreAt(Image(docs), query, p) = SumFunction(g)
  BY <1>2, <1>3 DEF ScoreAt
<1>5. DOMAIN g = 1 .. R
  OBVIOUS
<1>6. SumFunction(g) = SumFunctionOnSet(g, 1 .. R)
  <2> HIDE DEF g
  <2> QED
    BY <1>5 DEF SumFunction
<1>7. \A row \in 1 .. R : DocMem(docs, c)[start + row][j] = PackedTerm(docs, p, j, row)
  BY PackedAt
<1>8. g = f
  <2> HIDE DEF b, c, j, R, start
  <2> QED
    BY <1>7
<1> QED
  BY <1>4, <1>6, <1>8

THEOREM ScoreRight ==
    ASSUME NEW docs \in Corpora, NEW query, NEW p \in Ids(docs)
    PROVE  /\ ScoreAt(Image(docs), query, p) = Expected(docs, query, p)
           /\ Expected(docs, query, p) \in Int
<1> DEFINE R == Rows(docs, p \div Batch)
           j == p % Lanes
           kept == Filtered(docs, p)
           m == Len(kept)
           w == [t \in Terms |-> Adds(docs, query, j, t)]
           f == [row \in 1 .. R |-> TermScore(Image(docs), query, j, PackedTerm(docs, p, j, row))]
           u == [i \in 1 .. m |-> w[kept[i]]]
<1>1. p \in Nat /\ p \div Batch \in Nat /\ j \in Lane
      /\ p \in (p \div Batch) * Batch .. (p \div Batch + 1) * Batch - 1
  BY Position
<1>2. R \in Nat \ {0} /\ m \in Nat /\ m <= R /\ kept \in Seq(Terms)
  BY <1>1, RowsIs, FilteredIs
<1>3. ScoreAt(Image(docs), query, p) = SumFunctionOnSet(f, 1 .. R)
  BY ScoreOfRows
<1>4. \A t \in Terms : w[t] = Adds(docs, query, j, t) /\ w[t] \in Int
  BY AddsInt
<1>5. \A i \in 1 .. m : Keeps(j, kept[i].token)
  <2>1. CASE p < Len(docs)
    <3> DEFINE doc == docs[p + 1]
    <3>1. doc \in Seq(Terms) /\ kept = KeptTerms(doc, j)
      <4>1. p + 1 \in 1 .. Len(docs)
        BY <1>1, <2>1, CorpusIs
      <4> QED
        BY <2>1, <4>1, CorpusIs DEF Filtered
    <3> HIDE DEF doc, w
    <3> QED
      BY <1>4, <3>1, KeptSum
  <2>2. CASE ~(p < Len(docs))
    BY <2>2 DEF Filtered
  <2> QED
    BY <2>1, <2>2
<1> HIDE DEF w, j, R
<1>6. \A i \in 1 .. m : f[i] = u[i] /\ f[i] \in Int
  <2> TAKE i \in 1 .. m
  <2>1. kept[i] \in Terms /\ Keeps(j, kept[i].token)
    BY <1>2, <1>5
  <2>2. PackedTerm(docs, p, j, i) = [token |-> kept[i].token, count |-> Capped(kept[i].count)]
    BY <1>2 DEF PackedTerm
  <2>3. i \in 1 .. R
    BY <1>2
  <2> HIDE DEF kept, m
  <2>4. TermScore(Image(docs), query, j, PackedTerm(docs, p, j, i)) = w[kept[i]]
    BY <1>1, <1>4, <2>1, <2>2, PackedScore
  <2>5. f[i] = w[kept[i]] /\ u[i] = w[kept[i]]
    BY <2>3, <2>4
  <2> QED
    BY <1>4, <2>1, <2>5
<1>7. \A i \in m + 1 .. R : f[i] = 0
  <2> TAKE i \in m + 1 .. R
  <2>1. PackedTerm(docs, p, j, i) = [token |-> j, count |-> 0]
    <3>1. ~(i <= m)
      BY <1>2
    <3> QED
      BY <3>1 DEF PackedTerm
  <2>2. i \in 1 .. R
    BY <1>2
  <2> HIDE DEF m
  <2> QED
    BY <1>1, <2>1, <2>2, FillingScore
<1> HIDE DEF f, u, kept, m
<1>8. \A i \in 1 .. R : f[i] \in Int
  <2>1. \A i \in 1 .. R : i \in 1 .. m \/ i \in m + 1 .. R
    BY <1>2
  <2> QED
    BY <1>6, <1>7, <2>1
<1>9. SumFunctionOnSet(f, 1 .. R) = SumFunctionOnSet(f, 1 .. m)
  BY <1>2, <1>7, <1>8, SumPadded
<1>10. SumFunctionOnSet(f, 1 .. m) = SumFunctionOnSet(u, 1 .. m)
  <2> DEFINE S == 1 .. m
  <2>1. IsFiniteSet(S) /\ \A i \in S : f[i] = u[i] /\ f[i] \in Int
    BY <1>2, <1>6, FS_Interval
  <2> HIDE DEF S
  <2>2. SumFunctionOnSet(f, S) = SumFunctionOnSet(u, S)
    BY <2>1, SumSame
  <2> QED
    BY <2>2 DEF S
<1>11. SumFunctionOnSet(u, 1 .. m) = Weight(w, kept)
  BY DEF Weight, u, m
<1>12. Weight(w, kept) = Expected(docs, query, p) /\ Expected(docs, query, p) \in Int
  <2>1. CASE p < Len(docs)
    <3> DEFINE doc == docs[p + 1]
               N == Len(doc)
               g == [i \in 1 .. N |-> IF Keeps(j, doc[i].token) THEN w[doc[i]] ELSE 0]
               h == [i \in DOMAIN doc |-> Adds(docs, query, j, doc[i])]
    <3>1. doc \in Seq(Terms) /\ kept = KeptTerms(doc, j)
      <4>1. p + 1 \in 1 .. Len(docs)
        BY <1>1, <2>1, CorpusIs
      <4> QED
        BY <2>1, <4>1, CorpusIs DEF Filtered, kept, j
    <3>2. Expected(docs, query, p) = SumFunction(h)
      BY <2>1 DEF Expected, Reference, Adds, j
    <3> HIDE DEF doc
    <3>3. Weight(w, kept) = SumFunctionOnSet(g, 1 .. N)
      BY <1>4, <3>1, KeptSum
    <3>4. DOMAIN doc = 1 .. N /\ N \in Nat /\ \A i \in 1 .. N : doc[i] \in Terms
      BY <3>1
    <3> HIDE DEF N
    <3>5. g = h
      <4>1. \A i \in 1 .. N : (IF Keeps(j, doc[i].token) THEN w[doc[i]] ELSE 0)
                                = Adds(docs, query, j, doc[i])
        BY <1>4, <3>4 DEF Adds
      <4> QED
        BY <3>4, <4>1
    <3>6. DOMAIN h = 1 .. N
      BY <3>4
    <3>7. SumFunction(h) = SumFunctionOnSet(h, 1 .. N)
      <4> HIDE DEF h
      <4> QED
        BY <3>6 DEF SumFunction
    <3>8. IsFiniteSet(1 .. N) /\ \A i \in 1 .. N : h[i] \in Int
      BY <3>4, FS_Interval, AddsInt
    <3>9. SumFunctionOnSet(h, 1 .. N) \in Int
      <4> HIDE DEF h
      <4> DEFINE S == 1 .. N
      <4>1. IsFiniteSet(S) /\ \A i \in S : h[i] \in Int
        BY <3>8
      <4> HIDE DEF S
      <4>2. SumFunctionOnSet(h, S) \in Int
        BY <4>1, SumNumber
      <4> QED
        BY <4>2 DEF S
    <3> HIDE DEF g, h
    <3> QED
      BY <3>2, <3>3, <3>5, <3>7, <3>9
  <2>2. CASE ~(p < Len(docs))
    <3>1. kept = <<>> /\ Len(kept) = 0 /\ 1 .. 0 = {}
      BY <2>2 DEF kept, Filtered
    <3>2. \A v : SumFunctionOnSet(v, 1 .. 0) = 0
      BY <3>1, SumEmpty
    <3>3. Weight(w, kept) = 0
      BY <3>1, <3>2 DEF Weight
    <3> QED
      BY <2>2, <3>3 DEF Expected
  <2> QED
    BY <2>1, <2>2
<1> QED
  BY <1>3, <1>9, <1>10, <1>11, <1>12 DEF f, j, R

--------------------------------------------------------------------------------
(* The nodes that hold the best scores. *)

LEMMA SmallestIs ==
    ASSUME NEW I, IsFiniteSet(I), I # {}, I \subseteq Int, NEW f, \A i \in I : f[i] \in Int
    PROVE  /\ Max(Smallest(f, I)) \in Smallest(f, I) /\ Min(Smallest(f, I)) \in Smallest(f, I)
<1> DEFINE S == Smallest(f, I)
<1>1. PICK m \in I : \A i \in I : f[m] <= f[i]
  BY LeastExists
<1>2. m \in S /\ S \subseteq I
  BY <1>1 DEF Smallest
<1>3. S # {} /\ S \in SUBSET Int /\ IsFiniteSet(S)
  <2> HIDE DEF S
  <2> QED
    BY <1>2, FS_Subset
<1> HIDE DEF S
<1>4. Max(S) \in S /\ Min(S) \in S
  BY <1>3, MaxIs, MinIs
<1> QED
  BY <1>4 DEF S

NodeIds == 0 .. Batch - 1
States(L) == [held : [NodeIds -> 0 .. L - 1], min : NodeIds]

(* The nodes hold different ones of the first n positions, min is where    *)
(* the least of their scores is, and no position left out is above it.     *)
Holds(score, n, s) ==
    /\ \A k \in NodeIds : s.held[k] \in 0 .. n - 1
    /\ \A k, l \in NodeIds : k # l => s.held[k] # s.held[l]
    /\ \A k \in NodeIds : score[s.held[s.min]] <= score[s.held[k]]
    /\ \A p \in 0 .. n - 1 : (\A k \in NodeIds : s.held[k] # p) => score[p] <= score[s.held[s.min]]

LEMMA FirstMinIs ==
    ASSUME NEW score, \A p \in NodeIds : score[p] \in Int
    PROVE  FirstMin(score) \in NodeIds /\ \A p \in NodeIds : score[FirstMin(score)] <= score[p]
<1> DEFINE Of(r) == r * Lanes .. (r + 1) * Lanes - 1
           f == [r \in Channel |-> Max(Smallest(score, Of(r)))]
           mins == {f[r] : r \in Channel}
<1>1. Lanes \in Nat \ {0} /\ Channels \in Nat \ {0} /\ Batch \in Nat \ {0}
  BY HostSizes
<1>2. \A r \in Channel : /\ IsFiniteSet(Of(r)) /\ Of(r) # {} /\ Of(r) \subseteq NodeIds
                         /\ \A i \in Of(r) : score[i] \in Int
  <2> TAKE r \in Channel
  <2>1. r \in Nat /\ r + 1 <= Channels
    BY <1>1 DEF Channel
  <2>2. r * Lanes \in Nat /\ (r + 1) * Lanes = r * Lanes + Lanes /\ (r + 1) * Lanes <= Batch
    BY <1>1, <2>1, TimesLess, TimesStep DEF Batch
  <2> DEFINE x == r * Lanes
             y == (r + 1) * Lanes
  <2> HIDE DEF x, y
  <2>3. x \in Nat /\ y = x + Lanes /\ y <= Batch /\ Of(r) = x .. y - 1
    BY <2>2 DEF x, y
  <2>4. x \in x .. y - 1 /\ IsFiniteSet(x .. y - 1) /\ x .. y - 1 \subseteq NodeIds
    BY <1>1, <2>3, FS_Interval DEF NodeIds
  <2> QED
    BY <2>3, <2>4
<1>3. \A r \in Channel : f[r] \in Of(r) /\ \A i \in Of(r) : score[f[r]] <= score[i]
  <2> TAKE r \in Channel
  <2> DEFINE I == Of(r)
  <2>1. IsFiniteSet(I) /\ I # {} /\ I \subseteq Int /\ \A i \in I : score[i] \in Int
    BY <1>2 DEF NodeIds
  <2> HIDE DEF I
  <2>2. Max(Smallest(score, I)) \in Smallest(score, I)
    BY <2>1, SmallestIs
  <2>3. f[r] = Max(Smallest(score, I))
    BY DEF I
  <2> HIDE DEF f
  <2>4. f[r] \in I /\ \A i \in I : score[f[r]] <= score[i]
    BY <2>2, <2>3 DEF Smallest
  <2> QED
    BY <2>4 DEF I
<1>4. FirstMin(score) = Min(Smallest(score, mins))
  <2>1. mins = {Max(Smallest(score, Of(r))) : r \in Channel}
    OBVIOUS
  <2> QED
    BY <2>1 DEF FirstMin, Channel
<1> HIDE DEF f
<1>5. IsFiniteSet(mins)
  <2> DEFINE C == Channel
  <2>1. IsFiniteSet(C)
    BY <1>1, FS_Interval DEF Channel
  <2> HIDE DEF C
  <2>2. IsFiniteSet({f[r] : r \in C})
    BY <2>1, FiniteRange
  <2> QED
    BY <2>2 DEF C
<1>6. mins # {} /\ mins \subseteq NodeIds
  <2>1. 0 \in Channel
    BY <1>1 DEF Channel
  <2> HIDE DEF Of
  <2> QED
    BY <1>2, <1>3, <2>1
<1>7. mins \subseteq Int /\ \A i \in mins : score[i] \in Int
  BY <1>6 DEF NodeIds
<1>8. \A r \in Channel : f[r] \in mins
  OBVIOUS
<1> HIDE DEF mins
<1> DEFINE m == Min(Smallest(score, mins))
<1>9. m \in Smallest(score, mins)
  BY <1>5, <1>6, <1>7, SmallestIs
<1>10. m \in mins /\ \A i \in mins : score[m] <= score[i]
  BY <1>9 DEF Smallest
<1> HIDE DEF m
<1>11. ASSUME NEW p \in NodeIds PROVE score[m] <= score[p]
  <2>1. p \in 0 .. Channels * Lanes - 1
    BY DEF NodeIds, Batch
  <2> DEFINE r == p \div Lanes
             x == r * Lanes
  <2>2. r \in 0 .. Channels - 1
    BY <1>1, <2>1, DivBound
  <2>3. p \in Nat /\ p = r * Lanes + (p % Lanes) /\ p % Lanes \in 0 .. Lanes - 1
    <3>1. p \in Nat
      BY <1>1 DEF NodeIds
    <3> QED
      BY <1>1, <3>1, DivParts
  <2>4. x \in Nat /\ (r + 1) * Lanes = x + Lanes
    BY <1>1, <2>2, TimesLess, TimesStep
  <2>5. p \in Of(r)
    <3>1. p \in x .. x + Lanes - 1
      <4> HIDE DEF r, x
      <4>1. p = x + (p % Lanes)
        BY <2>3 DEF x
      <4> QED
        BY <1>1, <2>3, <2>4, <4>1
    <3> DEFINE y == (r + 1) * Lanes
    <3>2. Of(r) = x .. y - 1
      OBVIOUS
    <3>3. y = x + Lanes /\ x \in Nat /\ Lanes \in Nat
      BY <1>1, <2>4
    <3> HIDE DEF r, x, y, Of
    <3>4. p \in x .. y - 1
      BY <3>1, <3>3
    <3> QED
      BY <3>2, <3>4
  <2>6. r \in Channel
    BY <2>2 DEF Channel
  <2> HIDE DEF r, x, Of
  <2>7. score[f[r]] <= score[p] /\ score[m] <= score[f[r]]
    BY <1>3, <1>8, <1>10, <2>5, <2>6
  <2>8. score[m] \in Int /\ score[f[r]] \in Int /\ score[p] \in Int
    BY <1>7, <1>8, <1>10, <2>6
  <2> QED
    BY <2>7, <2>8
<1>12. FirstMin(score) = m
  BY <1>4 DEF m, mins
<1> QED
  BY <1>6, <1>10, <1>11, <1>12 DEF mins

(* A score that is offered leaves them so. *)
LEMMA OfferHolds ==
    ASSUME NEW L \in Nat, NEW score, \A p \in 0 .. L - 1 : score[p] \in Int,
           NEW n \in Nat, n < L, NEW s \in States(L), Holds(score, n, s)
    PROVE  OfferDoc(score, s, n) \in States(L) /\ Holds(score, n + 1, OfferDoc(score, s, n))
<1>0. /\ Batch \in Nat \ {0} /\ 0 \in NodeIds /\ NodeIds \subseteq Int /\ IsFiniteSet(NodeIds)
      /\ n \in 0 .. L - 1 /\ score[n] \in Int
  BY HostSizes, FS_Interval DEF NodeIds
<1>1. /\ s.held \in [NodeIds -> 0 .. L - 1] /\ s.min \in NodeIds
      /\ \A k \in NodeIds : s.held[k] \in 0 .. n - 1 /\ score[s.held[k]] \in Int
  BY DEF States, Holds
<1>2. CASE score[n] > score[s.held[s.min]]
  <2> DEFINE held == [s.held EXCEPT ![s.min] = n]
             value == [k \in NodeIds |-> score[held[k]]]
             m == Max(Smallest(value, NodeIds))
             t == [held |-> held, min |-> m]
  <2>1. /\ held \in [NodeIds -> 0 .. L - 1]
        /\ \A k \in NodeIds : held[k] = IF k = s.min THEN n ELSE s.held[k]
    BY <1>0, <1>1
  <2>2. OfferDoc(score, s, n) = t
    <3>1. DOMAIN held = NodeIds
      BY <2>1
    <3> QED
      BY <1>2, <3>1 DEF OfferDoc
  <2> HIDE DEF held
  <2>3. \A k \in NodeIds : value[k] = score[held[k]] /\ value[k] \in Int
    BY <2>1
  <2> HIDE DEF value
  <2>4. m \in Smallest(value, NodeIds)
    BY <1>0, <2>3, SmallestIs
  <2>5. m \in NodeIds /\ \A k \in NodeIds : score[held[m]] <= score[held[k]]
    BY <2>3, <2>4 DEF Smallest
  <2> HIDE DEF m
  <2>6. t \in States(L) /\ t.held = held /\ t.min = m
    BY <2>1, <2>5 DEF States
  <2>7. \A k \in NodeIds : held[k] \in 0 .. n
    BY <1>1, <2>1
  <2>8. ASSUME NEW k \in NodeIds, NEW l \in NodeIds, k # l PROVE held[k] # held[l]
    <3>1. s.held[k] # s.held[l] /\ s.held[k] # n /\ s.held[l] # n
      BY <1>1, <2>8 DEF Holds
    <3> QED
      BY <2>1, <2>8, <3>1
  (* What was held least is not above any that is held now. *)
  <2> DEFINE old == score[s.held[s.min]]
  <2>9. old \in Int /\ score[held[m]] \in Int /\ old <= score[held[m]]
    <3>1. old \in Int /\ score[held[m]] \in Int
      BY <1>1, <2>1, <2>5
    <3>2. ASSUME m = s.min PROVE old <= score[held[m]]
      <4>1. held[m] = n
        BY <2>1, <2>5, <3>2
      <4> HIDE DEF old
      <4> QED
        BY <1>0, <1>2, <3>1, <4>1 DEF old
    <3>3. ASSUME m # s.min PROVE old <= score[held[m]]
      <4>1. held[m] = s.held[m]
        BY <2>1, <2>5, <3>3
      <4> QED
        BY <2>5, <4>1 DEF Holds
    <3> QED
      BY <3>1, <3>2, <3>3
  <2>10. ASSUME NEW p \in 0 .. n, \A k \in NodeIds : held[k] # p PROVE score[p] <= score[held[m]]
    <3>1. p # n
      BY <1>1, <2>1, <2>10
    <3>2. p \in 0 .. n - 1 /\ p \in 0 .. L - 1
      BY <3>1
    <3>3. score[p] <= old
      <4>1. CASE p = s.held[s.min]
        BY <1>1, <4>1
      <4>2. CASE p # s.held[s.min]
        <5>1. \A k \in NodeIds : s.held[k] # p
          BY <2>1, <2>10, <4>2
        <5> QED
          BY <3>2, <5>1 DEF Holds
      <4> QED
        BY <4>1, <4>2
    <3> QED
      BY <2>9, <3>2, <3>3
  <2>11. (n + 1) - 1 = n
    OBVIOUS
  <2>12. Holds(score, n + 1, t)
    <3> HIDE DEF t
    <3> QED
      BY <2>5, <2>6, <2>7, <2>8, <2>10, <2>11 DEF Holds
  <2> HIDE DEF t
  <2> QED
    BY <2>2, <2>6, <2>12
<1>3. CASE ~(score[n] > score[s.held[s.min]])
  <2>1. OfferDoc(score, s, n) = s
    BY <1>3 DEF OfferDoc
  <2>2. score[n] <= score[s.held[s.min]]
    <3> DEFINE a == score[n]
               c == score[s.held[s.min]]
    <3>1. a \in Int /\ c \in Int /\ ~(a > c)
      BY <1>0, <1>1, <1>3
    <3> HIDE DEF a, c
    <3>2. a <= c
      BY <3>1
    <3> QED
      BY <3>2 DEF a, c
  <2>3. \A p \in 0 .. (n + 1) - 1 : p = n \/ p \in 0 .. n - 1
    OBVIOUS
  <2>4. \A k \in NodeIds : s.held[k] \in 0 .. (n + 1) - 1
    BY <1>1
  <2>5. Holds(score, n + 1, s)
    BY <2>2, <2>3, <2>4 DEF Holds
  <2> QED
    BY <2>1, <2>5
<1> QED
  BY <1>2, <1>3

(* What topk_parallel_cmp writes: TOP_K different positions, and no        *)
(* position that is left out has a higher score than one of them.          *)
LEMMA TopKIs ==
    ASSUME NEW docs \in Corpora, NEW query
    PROVE  LET ids == TopKIds(Image(docs), query)
           IN  /\ \A k \in 1 .. Batch : ids[k] \in Ids(docs)
               /\ \A k, l \in 1 .. Batch : k # l => ids[k] # ids[l]
               /\ \A p \in Ids(docs) : (\A k \in 1 .. Batch : ids[k] # p) =>
                     \A k \in 1 .. Batch : Expected(docs, query, p) <= Expected(docs, query, ids[k])
<1> DEFINE L == Padded(docs)
           N == L - Batch
           score == [p \in 0 .. L - 1 |-> ScoreAt(Image(docs), query, p)]
           first == [held |-> [n \in 0 .. Batch - 1 |-> n], min |-> FirstMin(score)]
           D(h) == [i \in 0 .. N |->
                      IF i = 0 THEN first ELSE OfferDoc(score, h[i - 1], Batch + i - 1)]
           state == CHOOSE h : h = D(h)
           V == States(L)
           At(i, s) == s \in V /\ Holds(score, Batch + i, s)
<1>1. L \in Nat /\ Batch \in Nat \ {0} /\ N \in Nat /\ L = Batch + N /\ Ids(docs) = 0 .. L - 1
  BY PaddedIs, HostSizes DEF Ids
<1>2. \A p \in 0 .. L - 1 : score[p] = Expected(docs, query, p) /\ score[p] \in Int
  BY ScoreRight DEF Ids
<1>3. TopKIds(Image(docs), query) = [n \in 1 .. Batch |-> state[N].held[n - 1]]
  <2>1. Image(docs).L = L
    BY DEF Image
  <2> QED
    BY <2>1 DEF TopKIds
<1> HIDE DEF score, L, N, state
<1>4. At(0, first)
  <2>1. NodeIds \subseteq 0 .. L - 1 /\ NodeIds = 0 .. Batch - 1
    BY <1>1 DEF NodeIds
  <2>2. FirstMin(score) \in NodeIds /\ \A p \in NodeIds : score[FirstMin(score)] <= score[p]
    BY <1>2, <2>1, FirstMinIs
  <2>3. /\ first.held \in [NodeIds -> 0 .. L - 1] /\ first.min = FirstMin(score)
        /\ \A k \in NodeIds : first.held[k] = k
    BY <2>1
  <2>4. first \in V
    BY <2>2, <2>3 DEF States
  <2> HIDE DEF first, V
  <2>5. Batch + 0 = Batch
    BY <1>1
  <2>6. Holds(score, Batch, first)
    BY <2>1, <2>2, <2>3 DEF Holds
  <2> QED
    BY <2>4, <2>5, <2>6
<1>5. \A i \in 1 .. N : \A s : At(i - 1, s) => At(i, OfferDoc(score, s, Batch + i - 1))
  <2> SUFFICES ASSUME NEW i \in 1 .. N, NEW s, At(i - 1, s)
               PROVE  At(i, OfferDoc(score, s, Batch + i - 1))
    OBVIOUS
  <2> DEFINE n == Batch + i - 1
  <2>1. n \in Nat /\ n < L /\ n = Batch + (i - 1) /\ n + 1 = Batch + i
    BY <1>1
  <2> HIDE DEF n
  <2>2. s \in States(L) /\ Holds(score, n, s)
    BY <2>1
  <2>3. OfferDoc(score, s, n) \in States(L) /\ Holds(score, n + 1, OfferDoc(score, s, n))
    BY <1>1, <1>2, <2>1, <2>2, OfferHolds
  <2> QED
    BY <2>1, <2>3 DEF n
(* The function by which the loop goes exists, so state is one. *)
<1> DEFINE S == {m \in Nat : m <= N => \E h \in [0 .. m -> V] :
                    /\ h[0] = first
                    /\ \A i \in 1 .. m : h[i] = OfferDoc(score, h[i - 1], Batch + i - 1)
                    /\ \A i \in 0 .. m : At(i, h[i])}
<1> HIDE DEF first, V
<1>6. 0 \in S
  <2> DEFINE h == [i \in 0 .. 0 |-> first]
  <2>1. h \in [0 .. 0 -> V] /\ h[0] = first /\ \A i \in 0 .. 0 : At(i, h[i])
    BY <1>4
  <2> HIDE DEF h, At
  <2> QED
    BY <2>1
<1>7. ASSUME NEW m \in Nat, m \in S PROVE m + 1 \in S
  <2> SUFFICES ASSUME m + 1 <= N
               PROVE  \E h \in [0 .. m + 1 -> V] :
                    /\ h[0] = first
                    /\ \A i \in 1 .. m + 1 : h[i] = OfferDoc(score, h[i - 1], Batch + i - 1)
                    /\ \A i \in 0 .. m + 1 : At(i, h[i])
    OBVIOUS
  <2>1. PICK h \in [0 .. m -> V] :
                    /\ h[0] = first
                    /\ \A i \in 1 .. m : h[i] = OfferDoc(score, h[i - 1], Batch + i - 1)
                    /\ \A i \in 0 .. m : At(i, h[i])
    BY <1>1, <1>7
  <2> DEFINE new == OfferDoc(score, h[m], Batch + (m + 1) - 1)
             g == [i \in 0 .. m + 1 |-> IF i = m + 1 THEN new ELSE h[i]]
  <2>2. At(m + 1, new) /\ new \in V
    <3>1. m + 1 \in 1 .. N /\ (m + 1) - 1 = m /\ m \in 0 .. m
      BY <1>1
    <3>2. At(m, h[m])
      BY <2>1, <3>1
    <3>3. At(m + 1, new)
      <4> HIDE DEF At
      <4> QED
        BY <1>5, <3>1, <3>2
    <3> QED
      BY <3>3
  <2> HIDE DEF new, At
  <2>3. \A i \in 0 .. m + 1 : i = m + 1 \/ (i \in 0 .. m /\ i # m + 1)
    OBVIOUS
  <2>4. /\ g \in [0 .. m + 1 -> V] /\ g[m + 1] = new /\ \A i \in 0 .. m : g[i] = h[i]
    BY <2>2, <2>3
  <2> HIDE DEF g
  <2>5. ASSUME NEW i \in 1 .. m + 1 PROVE g[i] = OfferDoc(score, g[i - 1], Batch + i - 1)
    <3>1. CASE i = m + 1
      <4>1. i - 1 = m /\ m \in 0 .. m
        BY <3>1
      <4>2. g[i] = new /\ g[i - 1] = h[m]
        BY <2>4, <3>1, <4>1
      <4> QED
        BY <3>1, <4>2 DEF new
    <3>2. CASE i # m + 1
      <4>1. i \in 1 .. m /\ i \in 0 .. m /\ i - 1 \in 0 .. m
        BY <3>2
      <4> QED
        BY <2>1, <2>4, <4>1
    <3> QED
      BY <3>1, <3>2
  <2>6. \A i \in 0 .. m + 1 : At(i, g[i])
    BY <2>1, <2>2, <2>3, <2>4
  <2>7. g[0] = first
    <3>1. 0 \in 0 .. m
      OBVIOUS
    <3> QED
      BY <2>1, <2>4, <3>1
  <2> QED
    BY <2>4, <2>5, <2>6, <2>7
<1>8. PICK h \in [0 .. N -> V] :
                    /\ h[0] = first
                    /\ \A i \in 1 .. N : h[i] = OfferDoc(score, h[i - 1], Batch + i - 1)
                    /\ \A i \in 0 .. N : At(i, h[i])
  <2>1. N \in S
    <3> HIDE DEF S
    <3> QED
      BY <1>1, <1>6, <1>7, Numbers
  <2> HIDE DEF At
  <2> QED
    BY <1>1, <2>1
<1> HIDE DEF At
<1>9. h = D(h)
  <2>1. \A i \in 0 .. N : h[i] = D(h)[i]
    <3>1. \A i \in 0 .. N : i = 0 \/ (i # 0 /\ i \in 1 .. N)
      BY <1>1
    <3> QED
      BY <1>8, <3>1
  <2> QED
    BY <2>1
<1>10. state = D(state)
  BY <1>9 DEF state
<1>11. /\ state[0] = first
       /\ \A i \in 1 .. N : state[i] = OfferDoc(score, state[i - 1], Batch + i - 1)
  <2>1. \A i \in 0 .. N : state[i] = D(state)[i]
    BY <1>10
  <2>2. 0 \in 0 .. N /\ \A i \in 1 .. N : i \in 0 .. N /\ i # 0
    BY <1>1
  <2> QED
    BY <2>1, <2>2
<1>12. state[N] = h[N]
  <2>1. SameStep(N, state, h)
    BY <1>8, <1>11 DEF SameStep
  <2>2. SameUpTo(N, state, h)
    BY <1>1, <2>1, SameSteps
  <2>3. N \in 0 .. N
    BY <1>1
  <2> QED
    BY <2>2, <2>3 DEF SameUpTo
<1> DEFINE s == state[N]
           ids == TopKIds(Image(docs), query)
<1>13. s \in States(L) /\ Holds(score, L, s)
  <2>1. N \in 0 .. N /\ Batch + N = L
    BY <1>1
  <2>2. At(N, s)
    BY <1>8, <1>12, <2>1
  <2> QED
    BY <2>1, <2>2 DEF At, V
<1>14. \A k \in 1 .. Batch : ids[k] = s.held[k - 1] /\ k - 1 \in NodeIds
  BY <1>1, <1>3 DEF NodeIds
<1>15. \A k \in NodeIds : k + 1 \in 1 .. Batch /\ (k + 1) - 1 = k
  BY <1>1 DEF NodeIds
<1> HIDE DEF s, ids
<1>16. \A k \in NodeIds : s.held[k] \in 0 .. L - 1
  BY <1>13 DEF Holds
<1>17. \A k \in 1 .. Batch : ids[k] \in Ids(docs)
  BY <1>1, <1>14, <1>16
<1>18. ASSUME NEW k \in 1 .. Batch, NEW l \in 1 .. Batch, k # l PROVE ids[k] # ids[l]
  <2>1. k - 1 # l - 1
    BY <1>1, <1>18
  <2> QED
    BY <1>13, <1>14, <2>1 DEF Holds
<1>19. ASSUME NEW p \in Ids(docs), \A k \in 1 .. Batch : ids[k] # p, NEW k \in 1 .. Batch
       PROVE  Expected(docs, query, p) <= Expected(docs, query, ids[k])
  <2>1. \A l \in NodeIds : s.held[l] # p
    <3> TAKE l \in NodeIds
    <3>1. ids[l + 1] = s.held[l]
      BY <1>14, <1>15
    <3> QED
      BY <1>15, <1>19, <3>1
  <2>2. p \in 0 .. L - 1 /\ s.min \in NodeIds
    BY <1>1, <1>13 DEF States
  <2>3. score[p] <= score[s.held[s.min]] /\ score[s.held[s.min]] <= score[ids[k]]
    BY <1>13, <1>14, <2>1, <2>2 DEF Holds
  <2>4. score[p] \in Int /\ score[s.held[s.min]] \in Int /\ score[ids[k]] \in Int
    BY <1>1, <1>2, <1>16, <1>17, <2>2
  <2>5. score[p] <= score[ids[k]]
    BY <2>3, <2>4
  <2> QED
    BY <1>1, <1>2, <1>17, <2>2, <2>5
<1> QED
  BY <1>17, <1>18, <1>19 DEF ids

--------------------------------------------------------------------------------
(* A run that completed leaves the ids of the kernel. *)
LEMMA CompletedIs ==
    ASSUME NEW docs \in Corpora, NEW query, NEW ids,
           ids = [i \in 1 .. Batch |-> TopKIds(Image(docs), query)[i]]
    PROVE  LET found == ToSet(ids)
           IN  /\ found \subseteq Ids(docs) /\ Cardinality(found) = Batch
               /\ \A d \in 0 .. Len(docs) - 1 \ found : \A p \in found :
                     Expected(docs, query, d) <= Expected(docs, query, p)
<1> DEFINE found == ToSet(ids)
           J == 1 .. Batch
           top == TopKIds(Image(docs), query)
<1>1. Batch \in Nat \ {0} /\ IsFiniteSet(J) /\ Cardinality(J) = Batch
  BY HostSizes, FS_Interval
<1>2. /\ \A k \in J : top[k] \in Ids(docs)
      /\ \A k, l \in J : k # l => top[k] # top[l]
      /\ \A p \in Ids(docs) : (\A k \in J : top[k] # p) =>
            \A k \in J : Expected(docs, query, p) <= Expected(docs, query, top[k])
  BY TopKIs
<1> HIDE DEF top
<1>3. DOMAIN ids = J /\ \A k \in J : ids[k] = top[k]
  BY DEF top
<1>4. found = {ids[k] : k \in J}
  BY <1>3 DEF ToSet
<1>5. Cardinality(found) = Batch
  <2>1. ids \in [J -> found]
    <3>1. ids = [k \in J |-> ids[k]]
      BY DEF top
    <3> HIDE DEF found
    <3> QED
      BY <1>4, <3>1
  <2>2. ids \in Bijection(J, found)
    <3> HIDE DEF found, J
    <3>1. \A x, y \in J : ids[x] = ids[y] => x = y
      BY <1>2, <1>3
    <3>2. IsInjective(ids)
      BY <1>3, <3>1 DEF IsInjective
    <3>3. \A t \in found : \E x \in J : ids[x] = t
      BY <1>4
    <3> QED
      BY <2>1, <3>2, <3>3 DEF Bijection, Injection, Surjection
  <2>3. ExistsBijection(J, found)
    BY <2>2 DEF ExistsBijection
  <2> HIDE DEF J, found
  <2> QED
    BY <1>1, <2>3, FS_Bijection
<1>6. \A d \in 0 .. Len(docs) - 1 : d \in Ids(docs)
  BY CorpusIs, PaddedIs DEF Ids
<1>7. found \subseteq Ids(docs)
  BY <1>2, <1>3, <1>4
<1>8. ASSUME NEW d \in 0 .. Len(docs) - 1 \ found, NEW p \in found
      PROVE  Expected(docs, query, d) <= Expected(docs, query, p)
  <2>1. d \in Ids(docs) /\ d \notin found
    BY <1>6
  <2>2. PICK k \in J : p = top[k]
    BY <1>3, <1>4
  <2>3. \A l \in J : top[l] # d
    BY <1>3, <1>4, <2>1
  <2> QED
    BY <1>2, <2>1, <2>2, <2>3
<1> HIDE DEF found
<1> QED
  BY <1>5, <1>7, <1>8 DEF found

(* A token that the bitmap leaves out has no weight. *)
LEMMA SameForBitmap ==
    ASSUME NEW docs, NEW query, NEW d
    PROVE  Expected(docs, BitmapWritten(setup[1], query), d) = Expected(docs, query, d)
<1> DEFINE bitmap == BitmapWritten(setup[1], query)
           doc == docs[d + 1]
           Of(q, term) ==
               IF Keeps(d % Lanes, term.token) /\ term.token \in q
               THEN Idf(Padded(docs), DocFreq(docs)[term.token]) * Capped(term.count)
               ELSE 0
<1>1. \A term : Of(bitmap, term) = Of(query, term)
  BY DEF BitmapWritten, Keeps
<1> HIDE DEF bitmap, doc, Of
<1>2. [i \in DOMAIN doc |-> Of(bitmap, doc[i])] = [i \in DOMAIN doc |-> Of(query, doc[i])]
  BY <1>1
<1>3. /\ Reference(docs, bitmap, d) = SumFunction([i \in DOMAIN doc |-> Of(bitmap, doc[i])])
      /\ Reference(docs, query, d) = SumFunction([i \in DOMAIN doc |-> Of(query, doc[i])])
  BY DEF Reference, Of, doc
<1> QED
  BY <1>2, <1>3 DEF Expected, bitmap

(* A run that completes answers for the corpus of the index passed. *)
LEMMA LaunchAnswers ==
    ASSUME HInv, NEW query, FusedRetrieve(query)
    PROVE  UNCHANGED retrieved \/ AnswerRight'
<1>1. CASE Used > Null /\ ~(setup[Used].refs < 1) /\ Launch(Used, query)
  <2> DEFINE o == Used
             docs == setup[o].docs
             bitmap == BitmapWritten(setup[o], query)
             new == TopKIds(CardImage[docs], bitmap)
  <2>1. /\ ~freed_used /\ o \in 1 .. Len(setup) /\ DOMAIN setup = 1 .. Len(setup)
        /\ docs \in Corpora
    <3>1. ~freed_used
      BY DEF FusedRetrieve
    <3>2. o \in {NoStep} \cup 0 .. Len(setup) /\ Len(setup) \in Nat /\ DOMAIN setup = 1 .. Len(setup)
      BY DEF Used, HInv, Null, SetUps
    <3>3. o \in 1 .. Len(setup)
      BY <1>1, <3>2 DEF NoStep, Null
    <3>4. PICK B, I : setup \in Seq(Tuples(B, I))
      BY DEF HInv, SetUps
    <3>5. docs \in Corpora
      <4>1. setup[o] \in Tuples(B, I)
        BY <3>3, <3>4
      <4> QED
        BY <4>1 DEF Tuples
    <3> QED
      BY <3>1, <3>2, <3>3, <3>5
  <2>2. builder = o /\ docs = bm25_memory
    <3>1. setup[o].refs = IF builder = o THEN 1 ELSE 0
      BY <2>1 DEF HInv, Owned, OwnedOnce
    <3>2. builder = o
      BY <1>1, <3>1
    <3> QED
      BY <1>1, <2>1, <3>2 DEF HInv, SetupOfMemory
  <2>3. PICK n \in 0 .. Channels :
           LET ids == IdsWritten(setup[o], new, n)
           IN  retrieved' = [status |-> IF n = Channels THEN "completed" ELSE "aborted",
                          docs |-> bm25_memory, query |-> query, found |-> ids,
                          ids |-> IF Batch > CutIds THEN SubSeq(ids, 1, Batch - CutIds) ELSE ids]
    BY <1>1 DEF Launch
  <2> HIDE DEF o, docs, bitmap, new
  <2>4. SUFFICES ASSUME n = Channels PROVE AnswerRight'
    BY <2>3 DEF AnswerRight
  <2> DEFINE ids == IdsWritten(setup[o], new, n)
  <2>5. ids = [i \in 1 .. Batch |-> new[i]]
    BY <2>4, HostSizes DEF IdsWritten, Batch
  <2>6. new = TopKIds(Image(docs), bitmap)
    BY <2>1 DEF new, CardImage
  <2>7. retrieved'.docs = docs /\ retrieved'.query = query /\ retrieved'.found = ids
    BY <2>2, <2>3
  <2> HIDE DEF ids
  <2>8. LET found == ToSet(ids)
        IN  /\ found \subseteq Ids(docs) /\ Cardinality(found) = Batch
            /\ \A d \in 0 .. Len(docs) - 1 \ found : \A p \in found :
                  Expected(docs, bitmap, d) <= Expected(docs, bitmap, p)
    BY <2>1, <2>5, <2>6, CompletedIs
  <2>9. \A d : Expected(docs, bitmap, d) = Expected(docs, query, d)
    BY SameForBitmap DEF bitmap, BitmapWritten
  <2> QED
    BY <2>7, <2>8, <2>9 DEF AnswerRight
<1>2. CASE retrieved' = [status |-> "thrown"]
  BY <1>2 DEF AnswerRight
<1>3. Used \in {NoStep} \cup 0 .. Len(setup) /\ Len(setup) \in Nat
  BY DEF Used, HInv, Null, SetUps
<1>4. Used = Null \/ Used > Null
  <2>1. Used # NoStep
    BY DEF Used, NoStep, Null, HInv
  <2> QED
    BY <1>3, <2>1 DEF NoStep, Null
<1>5. CASE Used = Null
  <2>1. retrieved' = [status |-> "thrown"]
    BY <1>5 DEF FusedRetrieve, Null
  <2> QED
    BY <1>2, <2>1
<1>6. CASE Used > Null /\ setup[Used].refs < 1
  <2>1. Used # Null
    BY <1>3, <1>6 DEF NoStep, Null
  <2> QED
    BY <1>6, <2>1 DEF FusedRetrieve
<1>7. CASE Used > Null /\ ~(setup[Used].refs < 1)
  <2>1. Used # Null
    BY <1>3, <1>7 DEF NoStep, Null
  <2>2. Launch(Used, query)
    BY <1>7, <2>1 DEF FusedRetrieve
  <2> QED
    BY <1>1, <1>7, <2>2
<1> QED
  BY <1>4, <1>5, <1>6, <1>7

LEMMA AnswerStep == HInv /\ AnswerRight /\ [HostNext]_host_vars => AnswerRight'
<1> SUFFICES ASSUME HInv, AnswerRight, [HostNext]_host_vars PROVE AnswerRight'
  OBVIOUS
<1>1. CASE \E query \in Queries : FusedRetrieve(query)
  BY <1>1, LaunchAnswers DEF AnswerRight
<1>2. CASE DestroyRag
  BY <1>2 DEF DestroyRag, AnswerRight, NothingRetrieved
<1>3. CASE UNCHANGED retrieved
  BY <1>3 DEF AnswerRight
<1> QED
  BY <1>1, <1>2, <1>3 DEF HostNext, BuildMemory, BuildFails, ResetBuilder, host_vars

(* Whatever the corpora and the queries are: the kernel scores every       *)
(* document as the software reference does, padding with 0, so that        *)
(* packing, filter, frequency tables and row counts fit together.          *)
THEOREM KernelScores == HostSpec => []PackedRight
<1>1. ASSUME HInv PROVE PackedRight
  <2> SUFFICES ASSUME NEW o \in DOMAIN setup, NEW query \in Queries, NEW p \in Ids(setup[o].docs)
               PROVE  ScoreAt(CardImage[setup[o].docs], query, p)
                        = Expected(setup[o].docs, query, p)
    BY DEF PackedRight
  <2>1. PICK B, I : setup \in Seq(Tuples(B, I))
    BY <1>1 DEF HInv, SetUps
  <2>2. setup[o] \in Tuples(B, I)
    BY <2>1
  <2>3. setup[o].docs \in Corpora
    BY <2>2 DEF Tuples
  <2> QED
    BY <2>3, ScoreRight DEF CardImage
<1> QED
  BY InitH, StepH, <1>1, PTL DEF HostSpec

(* The ids of a run that completed are the best of the corpus of the index *)
(* that the caller passed, by the software reference: after any builds,    *)
(* failed ones too, and with whatever earlier runs left on the card.       *)
THEOREM AnswersBest == HostSpec => []AnswerRight
<1>1. HostInit => AnswerRight
  BY DEF HostInit, AnswerRight, NothingRetrieved
<1> QED
  BY InitH, StepH, AnswerStep, <1>1, PTL DEF HostSpec
================================================================================
