------------------------------ MODULE RagGeneration ----------------------------
(***************************************************************************)
(* generate_fix_sentence of the RAG pipeline (aws_ec2_ena/rag_pipeline.py; *)
(* the copy in rag_test differs in what it makes of retrieve's pair): the  *)
(* language model is asked for one token at a time, and after each         *)
(* sentence documents are retrieved with the sentence as the query.  A     *)
(* token is its place in the answer; a retrieval is the number of its      *)
(* query, and the documents it returned have its name.                     *)
(***************************************************************************)
EXTENDS Integers, Sequences, SequencesExt

CONSTANT MaxNewTokens   \* max_new_tokens

GenerationAssumption == MaxNewTokens \in Nat

VARIABLES
    tokens,             \* the kind of every token generated
    prompt,             \* current_prompt: places of tokens, and documents
    generated_text,
    current_sentence,
    queries,            \* the sentences retrieved for
    returned,           \* has it returned,
    response            \* and what?

generation_vars == <<tokens, prompt, generated_text, current_sentence, queries, returned, response>>

(* An end of sentence may be a line break, which strip removes. *)
Kinds == {"word", "stop", "newline"}
SentenceEnd(kind) == kind \in {"stop", "newline"}
Blank(places, kinds) == \A i \in DOMAIN places : kinds[places[i]] = "newline"

Docs(n) == <<"docs", n>>
Token(i) == <<"token", i>>
AsText(places) == [i \in DOMAIN places |-> Token(places[i])]

(* _build_rag_prompt with the documents of the question *)
Prompt == <<Docs(0)>>

GenerationInit ==
    /\ tokens = <<>> /\ prompt = Prompt
    /\ generated_text = <<>> /\ current_sentence = <<>>
    /\ queries = <<>> /\ returned = FALSE /\ response = <<>>

ContinuedWithoutText(text, n) == Prompt \o <<Docs(n)>>

(* _build_continuation_prompt: the prompt of the question, the text        *)
(* generated since the last one, the new documents.                        *)
Continued(text, n) == Prompt \o AsText(text) \o <<Docs(n)>>

SentenceKept(sentence, found) == IF found THEN <<>> ELSE sentence

(* current_sentence after a retrieval, whether it found documents or not. *)
SentenceAfter(sentence, found) == <<>>

(* The loop's exit: no token, the end token, or the budget spent. *)
Stop ==
    /\ ~returned
    /\ returned' = TRUE /\ response' = generated_text
    /\ UNCHANGED <<tokens, prompt, generated_text, current_sentence, queries>>

(* A token that ends no sentence, or one that is blank. *)
Goes(kind, kinds, sentence) == ~SentenceEnd(kind) \/ Blank(sentence, kinds)

NextToken(kind) ==
    LET place == Len(tokens) + 1
        kinds == Append(tokens, kind)
        text == Append(generated_text, place)
        sentence == Append(current_sentence, place)
    IN  /\ ~returned /\ Len(tokens) < MaxNewTokens
        /\ tokens' = kinds
        /\ UNCHANGED <<returned, response>>
        /\ \/ /\ Goes(kind, kinds, sentence)
              /\ generated_text' = text /\ current_sentence' = sentence
              /\ UNCHANGED <<prompt, queries>>
           \/ /\ ~Goes(kind, kinds, sentence)
              /\ queries' = Append(queries, sentence)
              /\ \E found \in BOOLEAN :
                    /\ prompt' = IF found THEN Continued(text, Len(queries')) ELSE prompt
                    /\ generated_text' = IF found THEN <<>> ELSE text
                    /\ current_sentence' = SentenceAfter(sentence, found)

GenerationNext == Stop \/ \E kind \in Kinds : NextToken(kind)

GenerationSpec == GenerationInit /\ [][GenerationNext]_generation_vars

--------------------------------------------------------------------------------
PlacesTo(n) == [i \in 1 .. n |-> i]

(* What the model is given for its next token. *)
Context == prompt \o AsText(generated_text)

(* "The generated sentence is used as a new query": the queries and the    *)
(* sentence begun are the tokens generated, in order, each once.           *)
QueriesPartition == FlattenSeq(queries) \o current_sentence = PlacesTo(Len(tokens))

(* The next token is generated with the question's documents and with the  *)
(* whole of the last sentence and of the one begun before it.              *)
LastSentenceSeen ==
    LET last == IF queries = <<>> THEN <<>> ELSE queries[Len(queries)]
    IN  ~returned =>
            /\ Docs(0) \in ToSet(Context)
            /\ ToSet(AsText(last \o current_sentence)) \subseteq ToSet(Context)
================================================================================
