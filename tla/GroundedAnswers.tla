--------------------------- MODULE GroundedAnswers ---------------------------
(***************************************************************************)
(* services/simple_rag: a question is interpreted, evidence is fetched     *)
(* from the index, a language model puts it into words, and the words are  *)
(* released only if what they claim was given to the model and the index   *)
(* is still the one it was taken from.  The pipeline may replace the index *)
(* between any two reads.                                                  *)
(*                                                                         *)
(* A question is the concepts its words stand for, whether it refers to an *)
(* earlier one, and whether it names somebody.                             *)
(*                                                                         *)
(* AnyGeneration is a mistake the code does not make: it stands before the *)
(* definition it would replace.                                            *)
(***************************************************************************)
EXTENDS KnowledgeChunks

CONSTANTS
    QuestionsOn(_),  \* the questions asked about a meeting with a transcript
    MaxQuestions,    \* how many are asked
    PoolLimit,       \* how many chunks one read of a search finds
    OutputLimit,     \* how many chunks a search returns
    Attempts         \* rag_synthesis_contract_retries + 1

VARIABLES
    turn,    \* the turn that is being answered, or the last one
    anchor,  \* what the last completed turn was about
    asked    \* how many questions have been asked

answerVars == <<turn, anchor, asked>>

flowVars == <<vars, indexVars, answerVars>>

Working == {"generation", "chunks", "vectors", "rows", "pins", "synthesis", "fence", "release"}
Ended   == {"none", "blocked", "error", "clarification", "insufficient", "grounded", "direct"}

Nobody == "nobody"  \* no earlier turn to refer to

(***************************************************************************)
(* What is asked                                                           *)
(***************************************************************************)
Direct      == {"greeting", "farewell", "identity", "capability"}
ListTargets == <<"action", "decision", "risk", "participant">>
LookTargets == <<"date", "location">>

Goal(operation, target, scalar) ==
    [operation |-> operation, target |-> target, scalar |-> scalar, named |-> FALSE]

AskedOf(targets, concepts) == SelectSeq(targets, LAMBDA t : t \in concepts)

(* QueryIntentClassifier.classify                                          *)
Classify(concepts) ==
    CASE concepts \intersect Direct # {} ->
            Goal("direct", CHOOSE d \in concepts \intersect Direct : TRUE, FALSE)
      [] {"overview", "meeting"} \subseteq concepts -> Goal("summarize", "meeting", FALSE)
      [] "count" \in concepts ->
            Goal("count", IF "participant" \in concepts THEN "participant" ELSE "record", TRUE)
      [] concepts \intersect {"email", "phone", "contact"} # {} -> Goal("lookup", "contact", FALSE)
      [] AskedOf(ListTargets, concepts) # <<>> ->
            Goal("list", Head(AskedOf(ListTargets, concepts)), FALSE)
      [] AskedOf(LookTargets, concepts) # <<>> ->
            Goal("lookup", Head(AskedOf(LookTargets, concepts)), TRUE)
      [] OTHER -> Goal("search", "meeting", FALSE)

Standalone(goal) == goal.operation \in {"direct", "summarize"}

AsksForSomebody(goal) ==
    goal.operation \in {"lookup", "list"} /\ goal.target \in {"contact", "entity"}

(* QueryInterpretationService.interpret: the target of an earlier question *)
(* stands in for the meeting as a whole.                                   *)
Resolved(question) ==
    LET goal == Classify(question.concepts)
        full == IF question.refers /\ ~Standalone(goal) /\ goal.target = "meeting"
                THEN [goal EXCEPT !.target = anchor] ELSE goal
    IN  [full EXCEPT !.named = AsksForSomebody(full)]

(* A question that refers to nothing, or asks for somebody and for nobody. *)
Unclear(question) ==
    \/ question.refers /\ ~Standalone(Classify(question.concepts)) /\ anchor = Nobody
    \/ AsksForSomebody(Resolved(question)) /\ ~question.names

(***************************************************************************)
(* The evidence                                                            *)
(***************************************************************************)
(* _SECTIONS: the chunks that answer a goal without a search.              *)
SectionsOf(goal) ==
    CASE goal.operation = "summarize" -> <<"summary-executive", "topic-summary", "transcript-window">>
      [] goal.target = "participant" ->
            <<"fact-participant_count", "participant-overview", "participant-profile", "speaker-stats">>
      [] goal.target = "contact"  -> <<"participant-profile", "entities", "facts">>
      [] goal.target = "entity"   -> <<"entities", "participant-profile", "facts">>
      [] goal.target = "action"   -> <<"actions">>
      [] goal.target = "decision" -> <<"decisions">>
      [] goal.target = "risk"     -> <<"risks">>
      [] goal.target = "date"     -> <<"meeting-metadata", "events", "facts">>
      [] goal.target = "location" -> <<"meeting-metadata", "facts", "events">>
      [] OTHER -> <<"facts", "transcript-window">>

Selected == 8  \* how many chunks are taken without a search

(* A chunk as it is read: with the generation in its metadata.             *)
Read(c) == [chunk |-> c, generation |-> generation]

(* The words of a chunk have something of the name, or have not.           *)
Matching(goal) ==
    LET mine == {c \in chunks : c.id[1] \in Range(SectionsOf(goal))}
    IN  IF goal.named THEN SUBSET mine ELSE {mine}

(* The orders of a set, as sequences.                                      *)
Orders(S) == SetToSeqs(S) \intersect Seq(S)

(* _structured: the chunks of the sections in their order.                 *)
Sorted(sections, cs) ==
    LET Place(c) == <<CHOOSE n \in DOMAIN sections : sections[n] = c.id[1], c.id[2]>>
    IN  \A j, k \in DOMAIN cs : j < k => Before(Place(cs[j]), Place(cs[k]))

FirstReads(cs) == [k \in 1 .. Min({Len(cs), Selected}) |-> Read(cs[k])]

(* _typed_value: what is a number or a name has to be told as it is.       *)
ValueType(c) ==
    CASE c.tells # NoCount -> "number"
      [] c.tells = NoCount /\ c.id[1] \in {"participant-profile", "entities", "facts"} -> "string"
      [] OTHER -> "text"

RefLimit(goal) == IF goal.scalar THEN 4 ELSE 12

(* _bundle: a chunk of another generation is passed over, and so is one    *)
(* without a reference that no chunk before it had; one number is enough   *)
(* for a scalar.                                                           *)
Empty == [facts |-> {}, seen |-> {}, full |-> FALSE]

With(b, goal, gen, r) ==
    LET located == {i \in Segments : Evidence(i) \in r.chunk.cites} \ b.seen
        refs == {i \in located : Cardinality({j \in located : j <= i}) <= RefLimit(goal)}
        type == ValueType(r.chunk)
    IN  IF b.full \/ r.generation # gen \/ refs = {} THEN b
        ELSE [facts |-> b.facts \union {[chunk |-> r.chunk, refs |-> refs, type |-> type]},
              seen |-> b.seen \union refs, full |-> goal.scalar /\ type = "number"]

Bundle(goal, gen, reads) ==
    LET after[k \in 0 .. Len(reads)] ==
            IF k = 0 THEN Empty ELSE With(after[k - 1], goal, gen, reads[k])
    IN  after[Len(reads)].facts

Locked(facts) == {f \in facts : f.type # "text"}

(***************************************************************************)
(* The steps                                                               *)
(***************************************************************************)
NoTurn == [stage |-> "none"]

AnswerInit == turn = NoTurn /\ anchor = Nobody /\ asked = 0

(* safe_guardrail_check, strict: what does not pass is blocked, and so is  *)
(* everything, as an error, while no guardrail answers.                    *)
Refusals == {"blocked", "error"}

(* _execute and run, up to the first read.                                 *)
Receive(question) ==
    /\ turn.stage \in Ended
    /\ asked < MaxQuestions
    /\ generation # 0
    /\ asked' = asked + 1
    /\ \/ \E refusal \in Refusals : turn' = [stage |-> refusal]
       \/ Unclear(question) /\ turn' = [stage |-> "clarification"]
       \/ ~Unclear(question) /\ turn' = [stage |-> "generation", goal |-> Resolved(question)]
    /\ UNCHANGED anchor

IsDirect == turn.goal.operation = "direct"

(* What the evidence is enough for; a direct question needs none.          *)
WithEvidence(gen, reads) ==
    LET facts == IF IsDirect THEN {} ELSE Bundle(turn.goal, gen, reads)
    IN  IF facts = {} /\ ~IsDirect THEN [stage |-> "insufficient"]
        ELSE [stage |-> "synthesis", goal |-> turn.goal, generation |-> gen, facts |-> facts,
              attempt |-> 1]

Completes(t) == anchor' = IF t.stage = "insufficient" THEN turn.goal.target ELSE anchor

(* retrieve: first the generation, then the chunks, which may be others by *)
(* then.                                                                   *)
ReadGeneration ==
    /\ turn.stage = "generation"
    /\ turn' = [stage |-> "chunks", goal |-> turn.goal, generation |-> generation]
    /\ UNCHANGED <<anchor, asked>>

ReadChunks ==
    /\ turn.stage = "chunks"
    /\ \E found \in Matching(turn.goal) : \E cs \in Orders(found) :
        /\ Sorted(SectionsOf(turn.goal), cs)
        /\ turn' = IF found # {} \/ IsDirect
                   THEN WithEvidence(turn.generation, FirstReads(cs))
                   ELSE [stage |-> "vectors", goal |-> turn.goal, generation |-> turn.generation]
    /\ Completes(turn')
    /\ UNCHANGED asked

SomeOf(cs) == UNION {kSubset(n, cs) : n \in 0 .. PoolLimit}

(* What is read for the words of a question, or for the sections it means. *)
LexicalHits == {{Read(c) : c \in cs} : cs \in SomeOf(chunks)}
Pins == {{Read(c) : c \in cs} : cs \in SomeOf({c \in chunks : c.id[1] # "transcript-window"})}

(* Two pools as one, of which a ranking that nothing is said about keeps   *)
(* the first.                                                              *)
Fused(pool, others) ==
    LET all == pool \union others IN kSubset(Min({OutputLimit, Cardinality(all)}), all)

(* vector_candidates: what the vector index returns is read from the table *)
(* and dropped if it has another generation there; without an answer there *)
(* are no hits.                                                            *)
SearchVectors ==
    /\ turn.stage = "vectors"
    /\ \E found \in SomeOf(chunks) :
        turn' = [stage |-> "rows", goal |-> turn.goal, generation |-> turn.generation,
                 hits |-> {Read(c) : c \in found}]
    /\ UNCHANGED <<anchor, asked>>

(* postgres_candidates, which may find another index than the hits are of. *)
SearchRows ==
    /\ turn.stage = "rows"
    /\ \E lexical \in LexicalHits :
        \E best \in Fused(turn.hits, lexical) : turn' = [turn EXCEPT !.stage = "pins", !.hits = best]
    /\ UNCHANGED <<anchor, asked>>

(* intent_pinned, a third read, and what the search returns of them all.   *)
SearchPins ==
    /\ turn.stage = "pins"
    /\ \E pinned \in Pins :
        \E best \in Fused(turn.hits, pinned) :
            \E ranked \in Orders(best) : turn' = WithEvidence(turn.generation, ranked)
    /\ Completes(turn')
    /\ UNCHANGED asked

(* AnswerVerificationService.verify: a text in the right script, that      *)
(* claims facts it was given and no other, at least one, all those that    *)
(* are locked, and tells these as they are.                                *)
Verified(facts, reply) ==
    /\ reply.sound
    /\ facts # {} => reply.claims # {}
    /\ Locked(facts) \subseteq reply.claims
    /\ Locked(facts) # {} => reply.tells

(* synthesize: a reply that does not keep to the contract is asked for     *)
(* again; a provider that fails ends the turn.                             *)
Synthesize ==
    /\ turn.stage = "synthesis"
    /\ \/ \E reply \in [claims : SUBSET turn.facts, tells : BOOLEAN, sound : BOOLEAN] :
            turn' = IF Verified(turn.facts, reply)
                    THEN [stage |-> "fence", goal |-> turn.goal, generation |-> turn.generation,
                          facts |-> turn.facts, claims |-> reply.claims, told |-> reply.tells]
                    ELSE IF turn.attempt < Attempts THEN [turn EXCEPT !.attempt = @ + 1]
                    ELSE [stage |-> "error"]
       \/ turn' = [stage |-> "error"]
    /\ UNCHANGED <<anchor, asked>>

AnyGeneration == generation # 0
SameGeneration == generation = turn.generation

(* The last read: an answer from another index is not given.               *)
Fence ==
    /\ turn.stage = "fence"
    /\ SameGeneration
    /\ turn' = [turn EXCEPT !.stage = "release"]
    /\ UNCHANGED <<anchor, asked>>

(* OutputPolicyService.verify and _persist_result                          *)
Release ==
    /\ turn.stage = "release"
    /\ \E end \in Refusals \union {IF IsDirect THEN "direct" ELSE "grounded"} :
        /\ turn' = IF end \in {"direct", "grounded"} THEN [turn EXCEPT !.stage = end]
                   ELSE [stage |-> end]
        /\ anchor' = IF end \in {"direct", "grounded"} THEN turn.goal.target ELSE anchor
    /\ UNCHANGED asked

(* A stage is late or raises, as the last read does when the index has     *)
(* been replaced: the task runs again, guardrail and all, or gives up.     *)
Raise ==
    /\ turn.stage \in Working
    /\ turn' \in {[stage |-> "generation", goal |-> turn.goal]} \union [stage : Refusals]
    /\ UNCHANGED <<anchor, asked>>

Answering ==
    \/ \E question \in QuestionsOn(transcript) : Receive(question)
    \/ ReadGeneration
    \/ ReadChunks
    \/ SearchVectors
    \/ SearchRows
    \/ SearchPins
    \/ Synthesize
    \/ Fence
    \/ Release
    \/ Raise

FlowInit == Init /\ chunks = {} /\ generation = 0 /\ AnswerInit

FlowNext ==
    \/ Next /\ UNCHANGED <<indexVars, answerVars>>
    \/ BuildChunks /\ UNCHANGED answerVars
    \/ Answering /\ UNCHANGED <<vars, indexVars>>

FlowSpec == FlowInit /\ [][FlowNext]_flowVars /\ Fairness

(***************************************************************************)
(* Properties                                                              *)
(***************************************************************************)

(* When an answer passes the last read, all it claims is in the index as   *)
(* it is then, whatever was replaced since the first read: chunks that an  *)
(* answer may rest on, and segments of the transcript; it has at least one *)
(* of them.  A number of people that was found is told, and is the number  *)
(* of speakers.                                                            *)
AnswersGrounded ==
    [][(turn.stage = "fence" /\ turn'.stage = "release" /\ ~IsDirect) =>
        /\ turn.claims # {}
        /\ \A f \in turn.claims : f.chunk \in chunks /\ f.chunk.eligible /\ f.refs # {}
        /\ \A f \in turn.facts : f.type = "number" =>
            /\ f \in turn.claims /\ turn.told
            /\ Labels # {} => f.chunk.tells = Cardinality(Labels)]_answerVars
=============================================================================
