----------------------------- MODULE ModelCalls -----------------------------
(***************************************************************************)
(* The threads of HierarchicalExtractionService.run that ask a language    *)
(* model about the windows (hierarchical_extraction_service.py), the       *)
(* analysis provider they share (analysis/provider.py), and the provider   *)
(* with a fallback behind it (llm/provider.py).  Who answered is written   *)
(* into a record of the thread and read from there when the call is over;  *)
(* it is also written into two fields that all threads share.              *)
(*                                                                         *)
(* A thread is one of the pool of this run: the record is new with it, and *)
(* is not new with the next window it takes.                               *)
(*                                                                         *)
(* KeepsMarks and KeepsSlot are mistakes the code does not make: each      *)
(* stands before the definition it would replace.                          *)
(***************************************************************************)
EXTENDS TranscriptWindows

CONSTANTS
    RepliesTo(_),  \* what a model may answer about a window of a transcript
    ThreadsIn(_),  \* the threads of the pool: extraction_window_max_workers
    FaultsIn(_)    \* the ends of a request, other than "answer", it may meet

(* extraction_window_max_workers is at least one.                          *)
ASSUME ThreadsAssumption == \A t \in Transcripts : ThreadsIn(t) # {}

VARIABLES
    doing,     \* thread -> what it does, one of Doings
    window,    \* thread -> the window it has taken
    tried,     \* thread -> how often it has asked for this window
    said,      \* thread -> the reply it has
    record,    \* thread -> its execution record, _execution
    slot,      \* who is in _fallback_slot: a set of at most one thread
    taken,     \* how many windows the threads have taken, in order
    replies,   \* window -> what was said and the source written beside it
    broken,    \* the windows whose call raised
    cancelled, \* the main thread has met an exception
    named,     \* last_provider_name and last_provider_model of the provider
    by         \* window -> who really answered (history)

callVars == <<doing, window, tried, said, record, slot, taken, replies, broken,
              cancelled, named, by>>

Doings == {"idle", "primary", "waiting", "fallback", "naming"}

(* post_json: after its attempts a request has JSON, or an                 *)
(* LLMProviderError (status, timeout, no JSON), or another exception, as   *)
(* when the connection breaks in the body.  The JSON may have no content,  *)
(* or not the shape that the adapter takes for granted.                    *)
Sent(t) ==
    {"answer"} \union (FaultsIn(t) \intersect {"refused", "broken", "empty", "misshapen"})

(* OpenAICompatibleLLMProvider.generate_json                               *)
OpenAICompatible(e) ==
    CASE e = "empty" -> "refused" [] e = "misshapen" -> "broken" [] OTHER -> e

(* OllamaLLMProvider.generate_json: so is JSON that the length cut off.    *)
Ollama(e) ==
    CASE e = "empty" -> "refused" [] e = "misshapen" -> "broken" [] OTHER -> e

(* call_with_llm_circuit: an open circuit is an LLMProviderError too, and  *)
(* only opens after others.  What else is raised is raised again.          *)
WithCircuit(ends) == IF ends = {"answer"} THEN ends ELSE ends \union {"refused"}

PrimaryEnds(t)  == WithCircuit({OpenAICompatible(e) : e \in Sent(t)})
FallbackEnds(t) == WithCircuit({Ollama(e) : e \in Sent(t)})

Threads == ThreadsIn(transcript)

Nothing == <<>>

(* FallbackLLMProvider.__init__: what a thread reads that has asked nobody. *)
FreshRecord == [provider |-> "primary", fallbackUsed |-> FALSE]

(* What the pool of a run begins with.                                     *)
NoCalls(t) ==
    [doing   |-> [p \in ThreadsIn(t) |-> "idle"],
     window  |-> [p \in ThreadsIn(t) |-> 0],
     tried   |-> [p \in ThreadsIn(t) |-> 0],
     said    |-> [p \in ThreadsIn(t) |-> Nothing],
     record  |-> [p \in ThreadsIn(t) |-> FreshRecord]]

CallsInit ==
    /\ doing = NoCalls(transcript).doing
    /\ window = NoCalls(transcript).window
    /\ tried = NoCalls(transcript).tried
    /\ said = NoCalls(transcript).said
    /\ record = NoCalls(transcript).record
    /\ slot = {}
    /\ taken = 0
    /\ replies = <<>>
    /\ broken = {}
    /\ cancelled = FALSE
    /\ named = [provider |-> "analysis", model |-> "primary"]
    /\ by = <<>>

(* The text of the executive summary is words; or a value that has to be   *)
(* turned into words, or words where an object is asked for; or nothing;   *)
(* or null, or another value that counts as none.                          *)
Texts == {"words", "value", "none", "null"}

(* A summary in words, or a record other than an entity, is intelligence;  *)
(* a reply without either is only an echo.                                 *)
HasIntelligence(reply) ==
    \/ reply.executive.text = "words"
    \/ \E k \in DOMAIN reply.items : reply.items[k].section # "entities"

(* _generate_chain begins: of the record only the marks of a fallback are  *)
(* taken back; the provider of the call before stays.                      *)
KeepsMarks(r) == r
Reset(r) == [r EXCEPT !.fallbackUsed = FALSE]

Take(p) ==
    /\ doing[p] = "idle"
    /\ ~cancelled
    /\ taken < Len(windows)
    /\ taken' = taken + 1
    /\ window' = [window EXCEPT ![p] = taken + 1]
    /\ tried' = [tried EXCEPT ![p] = 1]
    /\ record' = [record EXCEPT ![p] = Reset(@)]
    /\ doing' = [doing EXCEPT ![p] = "primary"]
    /\ UNCHANGED <<said, slot, replies, broken, cancelled, named, by>>

Echoes(p, reply) == ~HasIntelligence(reply) /\ tried[p] = 1

(* build_result asks again, once, when the reply is an echo.               *)
AsksAgain(p, rec) ==
    /\ tried' = [tried EXCEPT ![p] = 2]
    /\ record' = [record EXCEPT ![p] = Reset(rec)]
    /\ doing' = [doing EXCEPT ![p] = "primary"]
    /\ UNCHANGED <<said, named, broken>>

(* The reply is merged: the source beside it is what the record of the     *)
(* thread says, and last_provider_name is overwritten.                     *)
TakesReply(p, who, reply, rec) ==
    /\ said' = [said EXCEPT ![p] = [reply |-> reply, source |-> rec, who |-> who]]
    /\ record' = [record EXCEPT ![p] = rec]
    /\ named' = [named EXCEPT !.provider = rec.provider]
    /\ doing' = [doing EXCEPT ![p] = "naming"]
    /\ UNCHANGED <<tried, broken>>

(* The call of this window raises.                                         *)
GivesUp(p) ==
    /\ broken' = broken \union {window[p]}
    /\ tried' = [tried EXCEPT ![p] = 0]
    /\ doing' = [doing EXCEPT ![p] = "idle"]
    /\ UNCHANGED <<said, named>>

(* _merge_llm_result raises: a field, as speakerLabels or warnings, has    *)
(* not the type that it takes for granted.                                 *)
CannotMerge(p, rec) ==
    /\ GivesUp(p)
    /\ record' = [record EXCEPT ![p] = rec]

(* build_result has a reply of `who`.                                      *)
Returns(p, who, reply, rec) ==
    \/ Echoes(p, reply) /\ AsksAgain(p, rec)
    \/ ~Echoes(p, reply) /\ reply.merges /\ TakesReply(p, who, reply, rec)
    \/ ~Echoes(p, reply) /\ ~reply.merges /\ CannotMerge(p, rec)

PrimaryAnswers(p) ==
    /\ doing[p] = "primary"
    /\ \E reply \in RepliesTo(transcript) :
        Returns(p, "primary", reply, [record[p] EXCEPT !.provider = "primary"])
    /\ UNCHANGED <<window, slot, taken, replies, cancelled, by>>

(* An LLMProviderError of the primary: the record is the fallback's before *)
(* the thread waits for the slot.                                          *)
PrimaryRefuses(p) ==
    /\ doing[p] = "primary"
    /\ "refused" \in PrimaryEnds(transcript)
    /\ record' = [record EXCEPT ![p] = [provider |-> "fallback", fallbackUsed |-> TRUE]]
    /\ doing' = [doing EXCEPT ![p] = "waiting"]
    /\ UNCHANGED <<window, tried, said, slot, taken, replies, broken, cancelled, named, by>>

EnterSlot(p) ==
    /\ doing[p] = "waiting"
    /\ slot = {}
    /\ slot' = {p}
    /\ doing' = [doing EXCEPT ![p] = "fallback"]
    /\ UNCHANGED <<window, tried, said, record, taken, replies, broken, cancelled, named, by>>

FallbackAnswers(p) ==
    /\ doing[p] = "fallback"
    /\ slot' = slot \ {p}
    /\ \E reply \in RepliesTo(transcript) :
        Returns(p, "fallback", reply, [record[p] EXCEPT !.provider = "fallback"])
    /\ UNCHANGED <<window, taken, replies, cancelled, by>>

(* FallbackLLMProviderError, or an exception that no                       *)
(* `except LLMProviderError` meets.                                        *)
Raises(p) ==
    /\ GivesUp(p)
    /\ UNCHANGED <<window, record, taken, replies, cancelled, by>>

PrimaryBreaks(p) ==
    /\ doing[p] = "primary"
    /\ "broken" \in PrimaryEnds(transcript)
    /\ Raises(p)
    /\ UNCHANGED slot

KeepsSlot(p) ==
    /\ doing[p] = "fallback"
    /\ FallbackEnds(transcript) # {"answer"}
    /\ UNCHANGED slot
    /\ Raises(p)

FallbackFails(p) ==
    /\ doing[p] = "fallback"
    /\ FallbackEnds(transcript) # {"answer"}
    /\ slot' = slot \ {p}
    /\ Raises(p)

(* The second assignment of build_result, and the local result.            *)
NameModel(p) ==
    /\ doing[p] = "naming"
    /\ named' = [named EXCEPT !.model = record[p].provider]
    /\ replies' = [w \in DOMAIN replies \union {window[p]} |->
                    IF w = window[p] THEN [reply |-> said[p].reply, source |-> said[p].source]
                    ELSE replies[w]]
    /\ by' = [w \in DOMAIN by \union {window[p]} |->
                IF w = window[p] THEN said[p].who ELSE by[w]]
    /\ said' = [said EXCEPT ![p] = Nothing]
    /\ tried' = [tried EXCEPT ![p] = 0]
    /\ doing' = [doing EXCEPT ![p] = "idle"]
    /\ UNCHANGED <<window, record, slot, taken, broken, cancelled>>

Work(p) ==
    \/ Take(p)
    \/ PrimaryAnswers(p)
    \/ PrimaryRefuses(p)
    \/ PrimaryBreaks(p)
    \/ EnterSlot(p)
    \/ FallbackAnswers(p)
    \/ FallbackFails(p)
    \/ NameModel(p)

(* list(executor.map(...)): the main thread reads the results in order and *)
(* meets an exception when all before it are there; what no thread has     *)
(* taken is cancelled.                                                     *)
MeetException ==
    /\ ~cancelled
    /\ \E w \in broken : \A v \in 1 .. (w - 1) : v \in DOMAIN replies
    /\ cancelled' = TRUE
    /\ UNCHANGED <<doing, window, tried, said, record, slot, taken, replies, broken, named, by>>

(* The end of the `with` waits for every thread.                           *)
CallsFailed == cancelled /\ \A p \in Threads : doing[p] = "idle"

AllAnswered == DOMAIN replies = DOMAIN windows

(***************************************************************************)
(* Properties                                                              *)
(***************************************************************************)

(* The source stored beside an answer is who gave it, and it is marked as  *)
(* a fallback exactly when it was one: the record belongs to a thread that *)
(* has asked before, for another window or for this one, and other threads *)
(* are asking at the same time.  The two names the result row takes from   *)
(* the provider are of somebody who answered; they need not be of one.     *)
ProvenanceTrue ==
    /\ \A w \in DOMAIN replies :
        replies[w].source = [provider |-> by[w], fallbackUsed |-> by[w] = "fallback"]
    /\ (AllAnswered /\ windows # <<>>) =>
        \A f \in {"provider", "model"} : \E w \in DOMAIN by : by[w] = named[f]

(* The fallback, a model on the same host, has one request at a time.      *)
OneFallback ==
    \A p, q \in Threads : (doing[p] = "fallback" /\ doing[q] = "fallback") => p = q

(* A thread that is in a request, which has a timeout; that is let into    *)
(* the slot; that writes its answer; or that may take a window.            *)
GoesOn(p) ==
    \/ doing[p] \in {"primary", "fallback", "naming"}
    \/ doing[p] = "waiting" /\ slot = {}
    \/ doing[p] = "idle" /\ ~cancelled /\ taken < Len(windows)

(* Nobody waits for somebody who waits or is gone: a thread goes on, or    *)
(* the main thread meets an exception or has all there is.                 *)
NobodyStuck ==
    \/ \E p \in Threads : GoesOn(p)
    \/ ~cancelled /\ \E w \in broken : \A v \in 1 .. (w - 1) : v \in DOMAIN replies
    \/ CallsFailed
    \/ AllAnswered
=============================================================================
