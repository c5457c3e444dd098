------------------------------ MODULE RagRetriever -----------------------------
(***************************************************************************)
(* The retriever of rag_test/rag_pipeline.py: how initialize loads the     *)
(* index, the vocabulary and the texts from the cache on disk or builds    *)
(* and saves them, with a process that may be killed at any moment and a   *)
(* corpus that may be revised where it is downloaded from, and the         *)
(* device of its queries, which the user may change.                       *)
(***************************************************************************)
EXTENDS Integers, Sequences

CONSTANTS
    MaxRevisions,   \* bound: revisions of the corpus
    MaxCrashes      \* bound: kills

RetrieverAssumption == MaxRevisions \in Nat /\ MaxCrashes \in Nat

VARIABLES
    corpus,    \* its revision
    disk,      \* the revision each file of the cache was written from
    process,   \* what it is at
    written,   \* files written by this rebuild
    device, fpga_setup, retriever, corpus_texts, vocab_dict,
    answer,    \* what the last query was answered from
    crashes

fields == <<device, fpga_setup, retriever, corpus_texts, vocab_dict>>
retriever_vars == <<corpus, disk, process, written, fields, answer, crashes>>

Missing == 0        \* no file, or a field not set
Partial == -1    \* a file whose writer was killed

Devices == {"cuda", "hybrid"}
Files == {"index", "vocab", "meta"}

NoAnswer == [device |-> "none", index |-> Missing, texts |-> Missing, vocab |-> Missing]

(* retriever.save writes the index and its vocabulary, then corpus_meta.pkl *)
WriteOrder == <<"index", "vocab", "meta">>

LoadableWithoutMeta == disk["index"] > Missing /\ disk["vocab"] > Missing

(* Every file is there and can be read. *)
Loadable == \A f \in Files : disk[f] > Missing

RetrieverInit ==
    /\ corpus = 1 /\ disk = [f \in Files |-> Missing]
    /\ process = "down" /\ written = 0
    /\ device \in Devices /\ fpga_setup = FALSE
    /\ retriever = Missing /\ corpus_texts = Missing /\ vocab_dict = Missing
    /\ answer = NoAnswer /\ crashes = 0

--------------------------------------------------------------------------------
(* The process is started, with a device. *)
Start ==
    /\ process = "down"
    /\ process' = "setup"
    /\ device' \in Devices /\ fpga_setup' = FALSE
    /\ retriever' = Missing /\ corpus_texts' = Missing /\ vocab_dict' = Missing
    /\ UNCHANGED <<corpus, disk, written, answer, crashes>>

(* set_device assigns the device, and initialize runs again. *)
SetDevice ==
    /\ process = "ready"
    /\ device' \in Devices /\ process' = "setup"
    /\ UNCHANGED <<corpus, disk, written, fpga_setup, retriever, corpus_texts, vocab_dict,
                   answer, crashes>>

(* initialize, first part: the card for a hybrid retriever.  Without one   *)
(* it raises: that ends the program at its start, and leaves the device    *)
(* set after set_device.                                                   *)
SetUp ==
    /\ process = "setup"
    /\ \/ device = "hybrid" /\ fpga_setup' = TRUE /\ process' = "cache"
       \/ device = "cuda" /\ process' = "cache" /\ UNCHANGED fpga_setup
       \/ /\ device = "hybrid" /\ UNCHANGED fpga_setup
          /\ process' = IF retriever = Missing THEN "down" ELSE "ready"
    /\ UNCHANGED <<corpus, disk, written, device, retriever, corpus_texts, vocab_dict,
                   answer, crashes>>

(* The cache is loaded, *)
Load ==
    /\ process = "cache" /\ Loadable
    /\ retriever' = disk["index"] /\ corpus_texts' = disk["meta"] /\ vocab_dict' = disk["vocab"]
    /\ process' = "ready"
    /\ UNCHANGED <<corpus, disk, written, device, fpga_setup, answer, crashes>>

(* or, with no cache or one that does not load, the corpus downloaded and  *)
(* indexed.                                                                *)
Build ==
    /\ process = "cache" /\ ~Loadable
    /\ retriever' = corpus /\ corpus_texts' = corpus
    /\ process' = "save" /\ written' = 0
    /\ UNCHANGED <<corpus, disk, device, fpga_setup, vocab_dict, answer, crashes>>

(* The next file is written from what was built. *)
Save ==
    /\ process = "save"
    /\ disk' = [disk EXCEPT ![WriteOrder[written + 1]] = retriever]
    /\ written' = written + 1
    /\ process' = IF written' = Len(WriteOrder) THEN "ready" ELSE "save"
    /\ UNCHANGED <<corpus, fields, answer, crashes>>

(* A query: the documents come from the index, or from the card with the   *)
(* ids that vocab_dict gives the query's tokens; then the texts.  A hybrid *)
(* retriever without a card raises.                                        *)
AnswerQuery ==
    /\ process = "ready"
    /\ answer' = IF device = "hybrid" /\ ~fpga_setup THEN NoAnswer
                 ELSE [device |-> device, index |-> retriever, texts |-> corpus_texts,
                       vocab |-> vocab_dict]
    /\ UNCHANGED <<corpus, disk, process, written, fields, crashes>>

(* The process is killed, perhaps while it writes a file. *)
Kill ==
    /\ process # "down" /\ crashes < MaxCrashes
    /\ process' = "down" /\ crashes' = crashes + 1
    /\ disk' \in {disk} \cup
           (IF process = "save" THEN {[disk EXCEPT ![WriteOrder[written + 1]] = Partial]} ELSE {})
    /\ UNCHANGED <<corpus, written, fields, answer>>

Exit ==
    /\ process = "ready"
    /\ process' = "down"
    /\ UNCHANGED <<corpus, disk, written, fields, answer, crashes>>

Revise ==
    /\ corpus <= MaxRevisions
    /\ corpus' = corpus + 1
    /\ UNCHANGED <<disk, process, written, fields, answer, crashes>>

RetrieverNext ==
    \/ Start \/ SetDevice \/ SetUp \/ Load \/ Build \/ Save \/ AnswerQuery
    \/ Kill \/ Exit \/ Revise

RetrieverSpec == RetrieverInit /\ [][RetrieverNext]_retriever_vars

--------------------------------------------------------------------------------
(* The texts given for a query are those of the documents that were        *)
(* indexed, although index and texts are written apart, writers are killed *)
(* and the corpus changes between two of them.                             *)
TextsOfIndex == answer.texts = answer.index
================================================================================
