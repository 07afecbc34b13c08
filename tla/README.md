# TLA+ models of OmniCall

OmniCall takes meeting audio, transcribes and analyses it, indexes the result
and answers questions about it. This directory holds TLA+ models of the parts
of the backend in which several processes change the same state, and of the way
from a transcript to an answer, the TLC
configurations that check them on small instances, and TLAPS proofs of what
they promise for every instance. Paths below are relative to `src/`.

To check a run: `tlc -config <Run>.cfg MC<Module>.tla` (`KnowledgeFlow.cfg` goes
with `MCKnowledgeFlow.tla`). To check the proofs:
`tlapm <Module>_proofs.tla`. `PROJECT.json` says which lines of the code each
definition stands for and which mistake in the code each property would find.

## 1. The system

One FastAPI process (`backend/Dockerfile`: one uvicorn worker) serves HTTP and
writes PostgreSQL, which is authoritative. It publishes Celery tasks to
RabbitMQ. Celery workers run the meeting pipeline, the chat answers and the
repairs of the vector index; a beat process runs the reconciliation. Redis has
the per-meeting lock, the counters of the middlewares and the event streams.
Milvus has the vectors, MinIO the recordings.

| Component | State it keeps | Operations | Talks to |
|---|---|---|---|
| Meeting processing (`services/meeting_service.py`, `services/processing_pipeline_service.py`, `tasks/processing_tasks.py`) | `meetings.status`, `attempts`, transcript checkpoint, intelligence result | upload, queue, pipeline stages, retry, reconciliation | PostgreSQL, broker, lock, models, index |
| Lock (`providers/lock_provider.py`) | `lock:meeting-processing:<id>`: a token with a TTL | acquire (SET NX EX), compare-and-expire, compare-and-delete, heartbeat | Redis |
| Chat turns (`services/chat_service.py`, `repositories/chat_repository.py`, `tasks/chat_tasks.py`) | `chat_turns` with a token lease, `chat_messages`, `meetings.pending_chat_status` | ask, claim, persist, requeue, give up, take over | PostgreSQL, broker |
| Index and repair (`services/retrieval/index_service.py`, `repositories/retrieval_repository.py`, `providers/vector_provider.py`) | `meeting_retrieval_snapshots` with repair status, token and lease; vectors | index, claim, publish, restore, rebuild, finish | PostgreSQL, Milvus, broker, lock |
| Deletion (`services/admin_meeting_service.py`, `services/admin_account_service.py`) | removes all of the above | lock, revoke, vectors, rows, objects | all of the above |
| Circuit breaker (`providers/circuit_breaker.py`) | state, failure count, opening time, per process and service | call, state | Milvus, MinIO, model providers |
| Concurrency limiter (`middlewares/concurrency_middleware.py`) | a Redis counter per account and route group with an expiry, the process's `_active_keys` | arrival, end of a request, clean-up at exit | Redis |
| Rate limiter (`middlewares/rate_limit_middleware.py`) | a sorted set per client, a list in memory when Redis is away | arrival | Redis |
| Feedback, progress, events (`chat_service.py`, `providers/chat_event_provider.py`) | feedback rows with a revision, `chat_turns.progress`, a Redis stream | set, clear, snapshot, stream | PostgreSQL, Redis |
| Windows, extraction, reduction (`services/processing/*`) | window checkpoints; otherwise pure | split, extract, merge, validate | model providers |
| Retrieval search and chunks (`services/retrieval/*`) | none | candidates, fusion, rerank, generation fence | PostgreSQL, Milvus |
| Grounded answering (`services/simple_rag/*`) | none | interpretation, retrieval, synthesis, verification, output policy | model providers |
| Model providers (`providers/llm`, `providers/analysis`, `providers/voice`) | none | call, fall back, retry | external models |
| Authentication (`services/auth_service.py`, `dependencies/auth.py`) | accounts, sessions | register, login, logout, current user | PostgreSQL |
| Logs and metrics | append-only | record, read | PostgreSQL, Prometheus |
| Frontend (`frontend/src/features/*/hooks`) | hook state, IndexedDB recording | record, upload, watch, stream | HTTP |

What is hard about it, and what makes it correct:

* **The same task twice.** RabbitMQ redelivers (`acks_late`,
  `reject_on_worker_lost`), reconciliation republishes, a publish that raised
  may have arrived. A meeting that is READY is not run again; a turn has one
  answer; a repair token that is no longer the claim's does nothing.
* **Leases that end under their holder.** The Redis lock, the turn lease and
  the repair lease have a time limit. Whoever lost one must not write.
* **Commit, then publish.** Between the two the process may die. What was
  queued is taken up, what was asked is answered, what was marked is repaired.
* **Two stores.** Milvus and PostgreSQL cannot commit together: missing vectors
  are marked, deleted meetings leave none.
* **Deletion in the middle of everything.** Nothing comes back.
* **Calls that end later than the state they began under** (breaker, limiter).
* **Threads behind one provider.** The windows of a transcript are asked about at
  the same time; who answered, and the one slot of the fallback, are shared or
  kept per thread. The source stored with an answer is who gave it, and no
  thread waits for ever.
* **Numbers that are local.** Each window counts its citations, each reply its
  records from one; they are merged, dropped, linked and copied into chunks. A
  claim's evidence stays the segments the model meant.
* **An index that is replaced while it is read.** An answer reads it up to six
  times. What it claims is in the index at the last read.

## 2. Modules

| Module | Models | Code |
|---|---|---|
| `MeetingProcessing` | one meeting: request, broker, lock, pipeline, reconciliation, deletion | `meeting_service.py`, `processing_pipeline_service.py`, `lock_provider.py`, `admin_meeting_service.py` |
| `MeetingPromise` | what users are promised of a meeting: a result is published with its transcript and stays while it can be read; what is deleted stays deleted | abstract |
| `ChatPromise` | what the chat promises: questions in order, one answer each | abstract |
| `ChatTurn` | the turns of one meeting: leases, retries, takeover | `chat_service.py`, `chat_repository.py`, `chat_tasks.py`, `processing_reconciliation_service.py` |
| `RetrievalRepair` | snapshot, vectors, repair claims of one meeting | `index_service.py`, `retrieval_repository.py`, `processing_tasks.py` |
| `CircuitBreaker` | one breaker and its threads | `circuit_breaker.py` |
| `ConcurrencyLimiter` | the counter of one account and route group | `concurrency_middleware.py` |
| `TranscriptWindows` | the loop that cuts a transcript into overlapping windows | `transcript_window_service.py` |
| `ModelCalls` | the threads that ask about the windows, the provider they share, its fallback | `hierarchical_extraction_service.py`, `analysis/provider.py`, `llm/provider.py`, `llm/transport.py` |
| `KnowledgeExtraction` | checkpoint, what is made of a reply, reduction, validation, a second run | `analysis/provider.py`, `intelligence_reducer.py`, `result_validation.py`, `transcript_window_repository.py` |
| `KnowledgeChunks` | the chunks of a stored result and the index they replace | `chunk_builder.py` |
| `GroundedAnswers` | questions: interpretation, evidence, synthesis, verification, last read | `simple_rag/*`, `search_service.py`, `candidate_service.py` |

The last five are one system: each extends the one before it with variables
and steps of its own, and `GroundedAnswers` has the specification of all
(`FlowSpec`). The meeting's status and lock are not in it: `Retry` stands for
what `MeetingProcessing` shows of how a pipeline comes to run again.

`MC<Module>` gives a module's parameters values TLC can use;
`<Module>_proofs` has its theorems (`KnowledgeFlow_proofs` those of the last five
modules together).

**How code becomes steps.** A database transaction that reads under a row lock
and commits is one step. A read without a lock and the write that uses it are
two steps. Each call to Redis, RabbitMQ or Milvus is a step, and it may fail
having been applied or not. In MeetingProcessing `[flush; fence; commit]` is
one step: the flushed UPDATE keeps the row locked, and the fence has renewed
the whole TTL just before.

**State.** `pc` is where an execution stands in the task; `seen`,
`seenAttempts`, `job`, `token`, `lost` are the locals that survive a step. A
token is a fresh uuid in the code: here it has the name of the worker that drew
it, and `Orphan` once that execution has ended without giving it back.
`RetrievalRepair` has explicit tokens, because a claim passes from the
publisher to the broker to a worker. `superseded`, `ousted`, `tests` are
history: no action reads them.

**Faults.** `FaultBudget` gives each kind of fault a number of times it may
happen (`Spend`). An orphaned lease may expire at any time at no cost; a
live holder's lease that expires costs one `expiry` (a pause longer than the
TTL, a heartbeat that stopped, a flushed Redis); `RetrievalRepair` counts the
lease of a claim (`lease`) and the meeting's lock (`expiry`) apart, and the
deletions that begin (`delete`) and those that fail half way (`removal`).

**Words.** The content of a transcript is what the code asks of it: what a
segment weighs, its label, the name it introduces, whether it says anything.
What a model says is a member of `RepliesTo`: records with a section, an id or
none, words in some of the six fields that make a signature (`says`), a claim that
stands for all other wording, citations by segment or by number; links; a summary
or none. A reply need not be well formed: citations and the topics of a summary
are a list, or raw (a string or an object, of which the code takes the characters
or keys), or cannot be iterated, which stands for every type at which the reducer
raises; a summary may be a value or null; a reply may be one that cannot be merged
(`merges`). Out of a name or a signature `Ascii` takes what `_normalized_name`
leaves of it, which may be nothing. A reply names no `recordType`: the prompt has
none, and a record is of the type of its section. Citations, ids and places follow the code; which chunk
is most like a question is any choice within the limits of the search. A
question is the concepts the classifier finds in it.

**Over-approximations.** How long a row has been stale is not modelled:
reconciliation may look at any time. A worker that waits for a PostgreSQL row
lock of another one may in the model sometimes go on where the database would
have made it wait. Both only add behaviours.

**Mutants.** Definitions such as `NoLossSeen` or `ReleaseByKey` stand before the
definition they would replace and are used nowhere: each is a mistake the code
does not make, and makes a property fail.

## 3. Runs

Fault kinds happen at most once each unless said otherwise.

| Run | Instance | Distinct states | Shows |
|---|---|---|---|
| `MeetingPipeline` | 2 workers, 1 request, no task retry, 1 message at the broker; `expiry`, `redis`, `crash` | 2.6 M | A superseded pipeline writes nothing but FAILED; nobody releases a lock that is not theirs; `MeetingPromise` is kept: no READY result is replaced; READY is not reprocessed; no attempt is lost |
| `MeetingRecovery` | 1 worker, 1 retry; `crash`, `broker`, `delete`, `storage`, `expiry`; fair | 444 k | QUEUED is taken up, PROCESSING has somebody to end it and settles, `MeetingPromise` is kept through deletions |
| `MeetingUnfenced` | 2 workers; `expiry`; a violation | | the FAILED of a superseded pipeline is not fenced |
| `ChatSafety` | 2 workers, 2 questions, 1 retry; `expiry`, `raise`, `crash` | 418 k | lease, pending status, silence of the ousted, and the refinement of `ChatPromise`: order and single answers |
| `ChatLiveness` | 2 workers, 1 question, 1 retry; all six kinds; fair | 394 k | `ChatPromise!FairSpec`: each question is answered once or goes with its meeting |
| `ChatAdoptsToken` | 2 workers, 1 question; `raise`; a violation | | a task without a token ends another worker's turn |
| `RepairClaims` | 2 workers, 3 tokens, 1 retry; two failures of Milvus; `broker`, `lease`, `expiry`, `crash`, `delete`, `removal` | 1.8 M | claim and token agree, stale tokens touch nothing, missing vectors are marked, a deletion leaves none |
| `RepairEnds` | 1 worker, 3 tokens, 1 retry; two failures of Milvus; `broker`, `redis`, `database`, `removal`, `crash`, `delete`; fair | 358 k | every repair ends or goes with its meeting |
| `BreakerCalls` | 3 threads, threshold 2, recovery 2 ticks, 2 outages; fair | 7.8 k | count and state agree; the breaker closes for good |
| `BreakerTests` | 2 threads, threshold 1; a violation | | two test calls at once |
| `LimiterFaults` | 6 requests, limit 2, key of 2 ticks; `slow`, `redis`, `kill`; fair | 11 k | the overrun is bounded; nobody is refused while there is room; a polling client is served |
| `KnowledgeFlow` | 4 kinds of transcript (below), target 3, hard limit 4, overlap 1; fair | 196 k | no segment is lost, windows fit, a restart has the same transcript; the source of an answer is true; evidence cited in lists was seen by the model; what has evidence survives but for a decision of the signature of an action; what is rejected the model said; the index says what was said and the evidence supports; an answer rests on the index of its last read; asking ends |

**Why the bounds are enough.** The races are between two executions, so two
workers; a third one adds a copy of the second. Two turns are needed for order,
one for an answer. One message waiting at the broker and one in each worker is
the duplicate that redelivery and reconciliation make; retries of a task are
published whatever the bound. One retry distinguishes the first attempt, a
retry, and the last. `attempts` is kept modulo 2, which shows a lost increment;
in `MeetingRecovery` modulo 1, since nothing there is about attempts. Three
tokens are the one in the claim, one that is stale at the broker and one in a
worker's hands; a token is drawn again only when nothing has it. The rebuild
has to fail twice (pipeline and repair), so Milvus fails twice. Six requests
are one more than `BoundedOverrun` allows with that budget. Symmetry over workers, tokens
or threads is used in safety runs only.

`KnowledgeFlow` checks each question on the transcripts it takes. Windows: every
transcript of four segments that weigh 1, 2, 3 or 5, so that windows end below, at and
past the target, the overlap and the next segment do and do not fit the hard
limit of 4, and a segment is past it alone; run twice, so that the checkpoint is
read. Replies: two windows that share a segment, each with every reply of one or
two records with and without ids, right and wrong citations, links and
summaries; and with replies that are not well formed: a citation that is no list,
and is one of the window, of another window, or of nothing; what cannot be
iterated, in a record, in a link, in a summary; a null summary; an action and
a decision without a word in the signature; what cannot be merged. Threads: three windows for two threads, so that one thread asks
twice, with every end of a request for both models; run twice. Questions: two, the
second of which may refer to the first, about a meeting that is processed
twice, so that the index may be replaced between any two reads; one chunk found by each read
of a search and two kept; two attempts at an answer. Whether an answer tells a
fact is a Boolean of the reply (a substring test in the code), and the types of
facts are those the properties tell apart.

`CHECK_DEADLOCK FALSE` stands in the runs of the meeting, the chat, the
repair and the knowledge flow: their requests, runs, questions and faults are bounded, and a meeting at rest (READY,
answered, deleted) has nothing left to do. The breaker and the limiter never
stop, and there deadlock is checked.

**Fairness.** Weak fairness of a live worker's next step (Celery prefetches
and runs; a redelivered message is received again), of accepted requests, of the
periodic reconciliation (`celery_app.py` beat schedule), of an orphaned lease's expiry (Redis TTL,
`lease_expires_at`), and of time. Never of a fault, of a new question or
upload, of a service's return, nor of a live lease's expiry. In the limiter the client
polls and requests end; in the breaker callers keep coming and calls end, since the
clients have timeouts. In the knowledge flow the threads of the pool and the main thread that
waits for them are fair: every request has a timeout and a number of attempts.
Neither a second run nor any step of an answer is.

**The exceptions the properties name.** They are what the code does not
protect against, found while the properties were being written.

* `QueuedIsTakenUp` stops at `revoked`: a deletion revokes the task id, which is
  the meeting id, before it removes anything. When the removal then fails, the
  meeting's later messages are discarded until the workers restart.
* `NotStranded` and `ProcessingSettles` hold while nothing but expiries has
  happened, and they no more often than the task is retried: each may cost the
  execution that lost the lock, and with it one delivery. A worker
  that dies in PROCESSING gets its message redelivered, finds its own lock, and
  is acknowledged as `locked`; reconciliation looks at QUEUED only.
* `PipelineSkipsReady` excepts a pipeline that has raised. That may be the one
  that has just committed READY: if giving the repair claim back raises
  (`processing_pipeline_service.py:358`), the handler writes FAILED over it.
* `MeetingPromise` lets a READY meeting be opened again, and only then get
  another result. The second of two
  uploads that both read DRAFT, with idempotency keys of their own, writes UPLOADED
  over whatever the row says after the first has been queued or processed, and the
  meeting may be processed again. `MeetingPipeline` has one
  request at a time; the theorems are for any number of them.
* `MissingVectorsAreMarked` excepts a deletion that is under way or has failed:
  one that fails after it has removed the vectors leaves a READY meeting with
  none, and no repair. It assumes that a call to Milvus that has timed out is not
  applied later.
* `NoOrphanVectors` excepts the expiry of a live lock: the fence of a repair
  comes after its rebuild, so an expired lock lets a deletion in between.
* `RejectedForCause` names the ways in which what a model says makes the
  validation reject a meeting: a link to what is no record of the result
  (`_normalize_relationships`, "keep malformed LLM graph claims from invalidating
  an otherwise usable result", `analysis/provider.py:599`, accepts a link to a
  record that the reducer then drops for want of evidence, and one to the meeting);
  evidence that is no list (`_normalize_citation_ids` passes a string, and the
  reducer takes its characters for citations); null for the summary of every
  window. A reply may also end the run before that, by an exception: in
  `_merge_llm_result` (`CannotMerge`), or in the reducer, which iterates what is
  null or makes a number of what is none (`ReduceRaises`). A meeting that fails
  so may be run again and fail again.
* `EvidenceSeenByModel` excepts records that were not cited in a list: the keys
  of an object are not looked up, and a number of another window is taken for
  evidence.
* `CitedClaimsSurvive` excepts decisions whose signature an action of the result
  has. The signature is the ASCII letters of six fields whose names the prompt does
  not give: all claims in another script, and all in other fields, are alike, and
  one such action drops every such decision with its evidence, although
  `intelligence_reducer.py:368` speaks only of records "whose cited transcript
  cannot establish provenance". The property is also about evidence and not about wording: ids are made from the place
  in a reply, so different claims of two windows may share one, and the words of
  the later are lost while its evidence is kept.
* `ProcessingSettles` says nothing of a meeting after a publish that raised: the
  broker's fault is spent, and the premise is false.
* `ProvenanceTrue` says of the provider and the model named in the result row
  only that each is of somebody who answered: threads write the two fields in two
  assignments (`analysis/provider.py:99`).
* `RefusalsJustified` holds until a process is killed, and allows one place for
  each error of Redis: a DECR that was lost is never made up for.
* `Serves` holds while the process lives and Redis answers: refused
  requests renew the expiry of the key, and with it of any count left behind.

## 4. Where code and documents disagree

* `MeetingUnfenced`: `docs/explanations/worker-explanation.md` says the
  heartbeat "fences state changes after ownership loss". The `except Exception`
  handler of the pipeline writes FAILED without a fence, over the PROCESSING of
  the new owner.
* `ChatAdoptsToken`: the same document says terminal persistence
  "compare-and-swaps the same token". `save_error_response` of a task that never
  had one takes the token it finds on the turn.
* `BreakerTests`: `circuit_breaker.py` says "one test call is allowed through".
  Nothing keeps the second caller out until the first returns.

## 5. Proofs

Constants are only assumed to be what the modules' `ASSUME`s say: names that
differ, limits that are numbers. Workers, requests, threads, retries, tokens
and fault budgets are arbitrary; queues are unbounded in the type invariants.
`ConcurrencyLimiter` assumes finitely many requests. The knowledge flow assumes a pool of at least one
thread (`max(1, ...)` in the code), and
of its transcripts that they are not empty (the provider raises otherwise) and
that `TokensOf` adds up the weights; that the target is not above the hard
limit, which `settings.py` has by default and does not check; and of replies that no
record has the id of a speaker or of their number (`sha1` of the label, and an
id that is made free of others); of what they say, and of what `Ascii` leaves of a
name, nothing. Transcripts, replies, threads, faults, limits,
questions and numbers of runs are arbitrary.

| Module | Theorems | Argument |
|---|---|---|
| `MeetingProcessing_proofs` | `TypeCorrect`, `HolderCorrect`, `SupersededTheorem`, `ReleaseTheorem`, `ReadyResultTheorem`, `PipelineSkipsTheorem`, `AttemptsTheorem`, `DeletedTheorem`, `PromiseTheorem`, `NotStrandedTheorem` | `HolderInv` is the inductive invariant: whoever owns the lock has not been superseded, and what it read of the row still holds. It is needed because the fence compares only the token. Every step that writes is fenced, so the writer is the owner and its locals are current; the action properties follow step by step. `PromiseTheorem` maps every step to one of `MeetingPromise` or a stutter; `PromiseInv` adds what that needs: a result has its transcript, and who owns the lock when it commits has not seen READY. `NotStrandedTheorem` needs `RunInv`: while undisturbed, PROCESSING has an execution that owns the lock or will run, or a message, and the retries of every message and execution are at most the expiries there were (`BudgetInv`: budgets only shrink). So whoever finds the lock taken leaves the meeting to its owner, and who loses it has a retry left |
| `ChatTurn_proofs` | `TypeCorrect`, `LeaseCorrect`, `AnsweredOnceTheorem`, `EarlierTurnsTheorem`, `PendingTheorem`, `OustedTheorem`, `PromiseTheorem` | `LeaseInv`: a lease with a worker's name belongs to an execution that works on that turn and has not been ousted. A lemma reduces every step to one change of one turn (asked, claimed, requeued, closed, deleted) under its guard; order, single answer and pending status are preserved by each, and each maps to a step or a stutter of `ChatPromise` |
| `RetrievalRepair_proofs` | `TypeCorrect`, `ClaimCorrect`, `StaleTheorem`, `MarkedTheorem`, `NoOrphanTheorem` | `ClaimInv`: status and token agree, and a rebuild has the row lock and the claim. Then the mark can only be taken away by the worker that has just inserted, or by a deletion, which then is at work or has spent a `removal` (`MarkedInv`). `NoOrphanTheorem`: while no live lock has expired, a repair past its start owns the lock, and so does the deletion while it removes. Neither assumes anything of the faults: `BudgetInv` says that what has happened stays happened |
| `CircuitBreaker_proofs` | `TypeCorrect`, `CountTheorem` | `ClosedIffBelowThreshold` is inductive with the type invariant |
| `ConcurrencyLimiter_proofs` | `TypeCorrect`, `OverrunTheorem`, `RefusalTheorem` | `OverrunInv`: the count is at least the counted requests less `Limit` for each expiry; the uncounted ones each took an error. `CountInv` is the other side: until a kill the count is at most the counted requests and the errors. The set cardinalities come from the library's theorems |
| `TranscriptWindows_proofs` | lemmas | `WInv`: `WindowsSound`, that the newest segment of the current window is in no window before it, and that the segments taken are in the windows in order. Without them a flush could not be shown to add a segment |
| `KnowledgeExtraction_proofs` | lemmas | `KInv`. `CInv` for the calls: each window is with one thread, whose record says who answered once there is a reply, and what is stored is so. `RowsWhole`: the rows have every segment, and none before all earlier ones; `Restored = transcript` follows by counting places, and is needed because `Retry` begins with the rows alone. `AnswersFine`: no record of a reply has an id the reducer makes, and what was cited in lists are numbers of the window. `ResultFine`, proved of `Reduced` once: the evidence, the claims and the summary are as the properties say, and what can be invalid but the links is evidence that was no list (`SomethingRaw`) or a summary that no window has (`SummaryWhole`). It speaks of the answers, so every step that keeps a result has to keep them (`ReducedThere`) |
| `KnowledgeFlow_proofs` | `FlowInvariant`, `FlowTyped`, `FlowWindows`, `FlowRestores`, `FlowProvenance`, `FlowEvidence`, `FlowClaims`, `FlowRejects`, `FlowIndex`, `FlowAnswers`, `FlowAsking` | `FInv` adds `IndexFine`, a chunk that cites evidence is eligible and tells the number of speakers if any, and `TurnFine`, the generation of a turn is not newer than the index, and a fact whose generation is still that of the index is a chunk of it. Generations never come back, so comparing them in the last read is enough. `FlowAsking` needs `AskInv`: the slot holds exactly the thread that asks the fallback, and a window that was taken has an answer, has raised or is with a thread. When no thread goes on, the first window without an answer has raised, and the main thread meets that |

**Only model-checked:** everything under fairness (`QueuedIsTakenUp`,
`ProcessingSettles`, `AnswersEveryQuestion`, `RepairEnds`, `Recovers`,
`Serves`, `AskingEnds`), because liveness and `ENABLED` are out of the prover's reach; and the
violations. Of `ProcessingSettles` and `AskingEnds` the safety part is proved
(`NotStrandedTheorem`, `FlowAsking`): there is always somebody to go on.
`AskingGoesOn`, `AnsweredOnce`, `EarlierTurnsClosed`, `ReadyResultImmutable` and
`DeletedStaysDeleted` are theorems and in no run: the last four follow from the
promises, which the runs check, and the first is part of why `AskingEnds` holds. `AnswersEveryQuestion` includes the safety part, which is proved.

## 6. Plan

Done: (1) `MeetingProcessing`, (2) `ChatPromise` and `ChatTurn`, (3)
`RetrievalRepair`, (4) `CircuitBreaker`, (5) `ConcurrencyLimiter`, (6) the
knowledge flow from transcript to answer, each with its theorems. What is left, by
what is most worth knowing:

1. Meeting and repair together: what happens to the repair when a meeting that
   is READY becomes FAILED or UPLOADED and is processed again.
2. Admission: the idempotency key, one asset per meeting, the
   per-user task limit, all read before they are written; the rate limiter
   and its fallback. Abstract specification: an atomic admission.
3. Feedback with its revision, progress, and the snapshot that precedes the
   event stream: nothing is lost between them.
4. Sessions against logout and deletion of accounts; account deletion,
   which takes the locks of all its meetings.
5. The frontend's recording, status synchronisation and chat watch hooks.
6. In the knowledge flow: questions with several goals, and deletion during an
   answer.

Until then a whole answer is one
`Run` of `ChatTurn` (`GroundedAnswers` opens it), a generation of vectors is
there or not, and objects in MinIO are not in the state.

## 7. Not modelled

HTTP controllers and DTOs (translation only), logs and metrics (nothing reads
them back into a decision), the schema beyond the rows above, scripts run by hand on a
stopped system, and deployment. Of the models: transcription, speakers, embedding,
ranking and guardrails are external, and only their outcome is in the state;
prompts and wording are left out. The provider for an endpoint with its own JSON
and the time limits of stages are failures like any other. Of the content:
observations, which no reply has, and
the numbers of speakers whose labels differ only in case. In the meeting and the
chat which stage raised does not matter, only that one did.
