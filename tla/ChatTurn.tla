------------------------------- MODULE ChatTurn -------------------------------
(***************************************************************************)
(* The durable chat turns of ONE meeting: the HTTP request that queues a   *)
(* question, the broker, the workers that claim a token lease on a turn    *)
(* and answer it, their retries, and the reconciliation that takes a turn  *)
(* back from a worker whose lease has expired.                             *)
(*                                                                         *)
(* A step is a transaction: every one that changes a turn first locks its  *)
(* row (SELECT ... FOR UPDATE), so nothing comes between its reads and its *)
(* commit.  A token is a fresh uuid: it is named here after the worker     *)
(* whose execution drew it, and Orphan once that execution has ended.      *)
(*                                                                         *)
(* NoCompare, KeepLease, KeepPending, AskAgain, PersistEvidence and        *)
(* QueuedOnly are mistakes the code does not make: each stands before the  *)
(* definition it would replace, and breaks a property.                     *)
(***************************************************************************)
EXTENDS Naturals, FiniteSets, FiniteSetsExt

CONSTANTS
  Workers,      \* processes that execute omnicall.chat.generate_answer
  LastTurn,     \* how many questions are asked
  MaxRetries,   \* max_retries of the Celery task
  MaxMessages,  \* bound on the broker queue for new and republished messages
  FaultBudget   \* how often each kind of fault may happen

FaultKinds == {"expiry", "crash", "broker", "database", "raise", "delete"}
Turns == 1..LastTurn

Nobody == "nobody"    \* lease_token is NULL
Orphan == "orphan"    \* the token of an execution that has ended

ASSUME WorkerNames == {Nobody, Orphan} \cap Workers = {}
ASSUME ChatParameters == /\ LastTurn \in Nat \ {0}
                         /\ MaxRetries \in Nat
                         /\ MaxMessages \in Nat \ {0}
                         /\ FaultBudget \in [FaultKinds -> Nat]

VARIABLES
  status,       \* chat_turns.status, "deleted" once the meeting is
  lease,        \* whose token chat_turns.lease_token is
  expired,      \* the turns whose lease_expires_at has passed
  answers,      \* assistant messages per turn
  pending,      \* meetings.pending_chat_status
  queue,        \* messages at the broker, by turn and retry count
  unpublished,  \* turns whose request has committed and not yet published
  pc, job, token, retries, outcome,   \* one value per worker
  toPublish,    \* turns the reconciliation has requeued and not yet published
  ousted,       \* history: the executions whose lease another actor has ended
  faults        \* what is left of FaultBudget

rows    == <<status, lease, expired, answers, pending>>
workers == <<pc, job, token, retries, outcome>>
vars    == <<rows, queue, unpublished, workers, toPublish, ousted, faults>>

Active   == {"queued", "started"}
Terminal == {"completed", "error"}   \* "blocked", "clarification_needed" as well
Labels   == {"idle", "open", "claim", "run", "persist", "report", "requeue",
             "giveup", "settle"}

TypeOK ==
  /\ status \in [Turns -> {"absent", "deleted"} \cup Active \cup Terminal]
  /\ lease \in [Turns -> Workers \cup {Nobody, Orphan}]
  /\ expired \in SUBSET Turns
  /\ answers \in [Turns -> Nat]
  /\ pending \in {"none", "queued", "started"}
  /\ queue \in [Turns \X (0..MaxRetries) -> Nat]
  /\ unpublished \in SUBSET Turns
  /\ pc \in [Workers -> Labels]
  /\ job \in [Workers -> Turns]
  /\ token \in [Workers -> BOOLEAN]
  /\ retries \in [Workers -> 0..MaxRetries]
  /\ outcome \in [Workers -> {"ack", "retry"}]
  /\ toPublish \in SUBSET Turns
  /\ ousted \in SUBSET Workers
  /\ faults \in [FaultKinds -> Nat]

Init ==
  /\ status = [t \in Turns |-> "absent"] /\ lease = [t \in Turns |-> Nobody]
  /\ expired = {} /\ answers = [t \in Turns |-> 0] /\ pending = "none"
  /\ queue = [m \in Turns \X (0..MaxRetries) |-> 0] /\ unpublished = {}
  /\ pc = [w \in Workers |-> "idle"] /\ job = [w \in Workers |-> 1]
  /\ token = [w \in Workers |-> FALSE] /\ retries = [w \in Workers |-> 0]
  /\ outcome = [w \in Workers |-> "ack"]
  /\ toPublish = {} /\ ousted = {} /\ faults = FaultBudget

-----------------------------------------------------------------------------
(* Helpers.                                                                *)

Spend(kind) == faults[kind] > 0 /\ faults' = [faults EXCEPT ![kind] = @ - 1]

Goto(w, label)  == pc' = [pc EXCEPT ![w] = label]
Finish(w, how)  == Goto(w, "settle") /\ outcome' = [outcome EXCEPT ![w] = how]

\* The task's `except`: another attempt while one is left.
Failed(w) == Goto(w, IF retries[w] < MaxRetries THEN "requeue" ELSE "giveup")

HasRoom == MapThenSumSet(LAMBDA m : queue[m], DOMAIN queue) < MaxMessages
Put(t, r) == queue' = [queue EXCEPT ![<<t, r>>] = @ + 1]

\* claim_for_terminal, mark_queued_if_owned: started, and under our token.
NoCompare(w) == status[job[w]] # "deleted"
Owns(w) == status[job[w]] = "started" /\ lease[job[w]] = w

\* mark_queued; the caller decides on pending.
KeepLease(ts) ==
  /\ status' = [t \in Turns |-> IF t \in ts THEN "queued" ELSE status[t]]
  /\ UNCHANGED <<lease, expired>>
BackToQueue(ts) ==
  /\ status' = [t \in Turns |-> IF t \in ts THEN "queued" ELSE status[t]]
  /\ lease' = [t \in Turns |-> IF t \in ts THEN Nobody ELSE lease[t]]
  /\ expired' = expired \ ts

\* The assistant message and mark_terminal, in one commit.
KeepPending(t, how) ==
  /\ status' = [status EXCEPT ![t] = how]
  /\ lease' = [lease EXCEPT ![t] = Nobody]
  /\ expired' = expired \ {t}
  /\ answers' = [answers EXCEPT ![t] = @ + 1]
  /\ UNCHANGED pending
Close(t, how) ==
  /\ status' = [status EXCEPT ![t] = how]
  /\ lease' = [lease EXCEPT ![t] = Nobody]
  /\ expired' = expired \ {t}
  /\ answers' = [answers EXCEPT ![t] = @ + 1]
  /\ pending' = "none"

\* An execution ends with its token still on a turn.
Disown(w) == lease' = [t \in Turns |-> IF lease[t] = w THEN Orphan ELSE lease[t]]

-----------------------------------------------------------------------------
(* HTTP: POST .../chat.                                                    *)

\* Under the lock of the meeting row: no active turn, then the user message
\* and the turn with the next sequence number.
AskAgain(t) ==
  /\ status[t] = "absent"
  /\ \A u \in Turns : u < t => status[u] # "absent"
  /\ status' = [status EXCEPT ![t] = "queued"]
  /\ pending' = "queued"
  /\ unpublished' = unpublished \cup {t}
  /\ UNCHANGED <<lease, expired, answers, queue, workers, toPublish, ousted, faults>>
Ask(t) ==
  /\ status[t] = "absent"
  /\ \A u \in Turns : u < t => status[u] \in Terminal
  /\ status' = [status EXCEPT ![t] = "queued"]
  /\ pending' = "queued"
  /\ unpublished' = unpublished \cup {t}
  /\ UNCHANGED <<lease, expired, answers, queue, workers, toPublish, ousted, faults>>

\* A failed publish is swallowed; the broker may have the message or not, and
\* an API process that dies here leaves it unpublished.
AskPublish(t) ==
  /\ t \in unpublished
  /\ unpublished' = unpublished \ {t}
  /\ \/ HasRoom /\ Put(t, 0) /\ UNCHANGED faults
     \/ (Spend("broker") \/ Spend("crash")) /\ UNCHANGED queue
  /\ UNCHANGED <<rows, workers, toPublish, ousted>>

\* The administrator's deletion cascades to messages and turns.
DeleteMeeting ==
  /\ Spend("delete") /\ \A t \in Turns : status[t] # "deleted"
  /\ status' = [t \in Turns |-> "deleted"]
  /\ lease' = [t \in Turns |-> Nobody]
  /\ answers' = [t \in Turns |-> 0]
  /\ expired' = {} /\ pending' = "none"
  /\ UNCHANGED <<queue, unpublished, workers, toPublish, ousted>>

-----------------------------------------------------------------------------
(* The worker.                                                             *)

Receive(w) ==
  /\ pc[w] = "idle"
  /\ \E t \in Turns, r \in 0..MaxRetries :
        /\ queue[<<t, r>>] > 0
        /\ queue' = [queue EXCEPT ![<<t, r>>] = @ - 1]
        /\ job' = [job EXCEPT ![w] = t]
        /\ retries' = [retries EXCEPT ![w] = r]
  /\ Goto(w, "open")
  /\ UNCHANGED <<rows, unpublished, token, outcome, toPublish, ousted, faults>>

\* The first look at the row, before the `try`.
Open(w) ==
  /\ pc[w] = "open"
  /\ IF status[job[w]] = "deleted" THEN Finish(w, "ack")
                                   ELSE Goto(w, "claim") /\ UNCHANGED outcome
  /\ UNCHANGED <<rows, queue, unpublished, job, token, retries, toPublish, ousted,
                 faults>>

\* mark_started draws a token; a turn that is not queued is left to whoever
\* has it or had it.
Claim(w) ==
  /\ pc[w] = "claim"
  /\ IF status[job[w]] = "queued"
       THEN /\ status' = [status EXCEPT ![job[w]] = "started"]
            /\ lease' = [lease EXCEPT ![job[w]] = w]
            /\ pending' = "started"
            /\ token' = [token EXCEPT ![w] = TRUE]
            /\ Goto(w, "run") /\ UNCHANGED outcome
       ELSE Finish(w, "ack") /\ UNCHANGED <<status, lease, pending, token>>
  /\ UNCHANGED <<expired, answers, queue, unpublished, job, retries, toPublish,
                 ousted, faults>>

\* The service cannot be built or the row not read: it knows no token yet.
SetupRaises(w) ==
  /\ pc[w] = "claim" /\ Spend("raise") /\ Failed(w)
  /\ UNCHANGED <<rows, queue, unpublished, job, token, retries, outcome, toPublish,
                 ousted>>

\* The commit of the claim fails: the service keeps a token no row has.
ClaimCommitFails(w) ==
  /\ pc[w] = "claim" /\ status[job[w]] = "queued" /\ Spend("database")
  /\ token' = [token EXCEPT ![w] = TRUE]
  /\ Failed(w)
  /\ UNCHANGED <<rows, queue, unpublished, job, retries, outcome, toPublish, ousted>>

\* Guardrail, retrieval, synthesis: commits of the progress in between touch
\* the rows of the meeting and raise when a deletion has removed them.
Run(w) ==
  /\ pc[w] = "run"
  /\ IF status[job[w]] = "deleted" THEN Failed(w) ELSE Goto(w, "persist")
  /\ UNCHANGED <<rows, queue, unpublished, job, token, retries, outcome, toPublish,
                 ousted, faults>>

\* _persist_result: compare the token under the row lock, or roll back.  (On a
\* deleted turn the reload may raise instead.)
PersistEvidence(w) ==
  /\ pc[w] = "persist" /\ Owns(w)
  /\ Close(job[w], "grounded") /\ Goto(w, "report")
  /\ UNCHANGED <<outcome, queue, unpublished, job, token, retries, toPublish, ousted,
                 faults>>
Persist(w) ==
  /\ pc[w] = "persist"
  /\ \/ /\ Owns(w)
        /\ \E how \in Terminal : Close(job[w], how)
        /\ Goto(w, "report") /\ UNCHANGED outcome
     \/ ~Owns(w) /\ Finish(w, "ack") /\ UNCHANGED rows
     \/ status[job[w]] = "deleted" /\ Failed(w) /\ UNCHANGED <<rows, outcome>>
  /\ UNCHANGED <<queue, unpublished, job, token, retries, toPublish, ousted, faults>>

\* The last progress events, each with a commit of its own.
Report(w) ==
  /\ pc[w] = "report"
  /\ Finish(w, "ack")
  /\ UNCHANGED <<rows, queue, unpublished, job, token, retries, toPublish, ousted,
                 faults>>

StageRaises(w) ==
  /\ pc[w] \in {"run", "persist", "report"} /\ Spend("raise") /\ Failed(w)
  /\ UNCHANGED <<rows, queue, unpublished, job, token, retries, outcome, toPublish,
                 ousted>>

\* mark_queued_if_owned with the token the service knows, and task.retry.
Requeue(w) ==
  /\ pc[w] = "requeue"
  /\ IF token[w] /\ Owns(w)
       THEN BackToQueue({job[w]}) /\ UNCHANGED <<answers, pending>>
       ELSE UNCHANGED rows
  /\ Finish(w, "retry")
  /\ UNCHANGED <<queue, unpublished, job, token, retries, toPublish, ousted, faults>>

\* save_error_response: a queued turn is first started under a new token; the
\* token compared is the service's own, or whatever the row has if the service
\* never had one.
MayGiveUp(w) == \/ status[job[w]] = "queued" /\ ~token[w]
                \/ status[job[w]] = "started" /\ (token[w] => lease[job[w]] = w)
GiveUp(w) ==
  /\ pc[w] = "giveup"
  /\ IF MayGiveUp(w)
       THEN /\ Close(job[w], "error")
            /\ ousted' = ousted \cup ({lease[job[w]]} \cap (Workers \ {w}))
       ELSE UNCHANGED <<rows, ousted>>
  /\ Finish(w, "ack")
  /\ UNCHANGED <<queue, unpublished, job, token, retries, toPublish, faults>>

\* A database error outside the `try` fails the task for good: Celery
\* acknowledges the message, and a token that is on the turn stays there.
HandlerFails(w) ==
  /\ pc[w] \in {"open", "requeue", "giveup"} /\ Spend("database")
  /\ Disown(w) /\ Finish(w, "ack")
  /\ UNCHANGED <<status, expired, answers, pending, queue, unpublished, job, token,
                 retries, toPublish, ousted>>

EndOfTask(w) ==
  /\ Goto(w, "idle")
  /\ token' = [token EXCEPT ![w] = FALSE]
  /\ retries' = [retries EXCEPT ![w] = 0]
  /\ outcome' = [outcome EXCEPT ![w] = "ack"]
  /\ ousted' = ousted \ {w}
  /\ job' = [job EXCEPT ![w] = 1]

\* acks_late: acknowledge, after task.retry has published the next attempt;
\* a publish that fails rejects the message and the attempt is lost.
Settle(w) ==
  /\ pc[w] = "settle"
  /\ \/ outcome[w] = "ack" /\ UNCHANGED <<queue, faults>>
     \/ outcome[w] = "retry" /\ Put(job[w], retries[w] + 1) /\ UNCHANGED faults
     \/ outcome[w] = "retry" /\ Spend("broker") /\ UNCHANGED queue
  /\ EndOfTask(w)
  /\ UNCHANGED <<rows, unpublished, toPublish>>

\* reject_on_worker_lost: the message goes back to the queue.
Crash(w) ==
  /\ pc[w] # "idle" /\ Spend("crash")
  /\ Put(job[w], retries[w])
  /\ Disown(w) /\ EndOfTask(w)
  /\ UNCHANGED <<status, expired, answers, pending, unpublished, toPublish>>

Work(w) == Receive(w) \/ Open(w) \/ Claim(w) \/ Run(w) \/ Persist(w) \/ Report(w)
           \/ Requeue(w) \/ GiveUp(w) \/ Settle(w)

Fault(w) == SetupRaises(w) \/ ClaimCommitFails(w) \/ StageRaises(w)
            \/ HandlerFails(w) \/ Crash(w)

-----------------------------------------------------------------------------
(* Reconciliation, and time.                                               *)

\* lease_expires_at passes: the reconciliation may take the turn back.
LeaseExpires(t) ==
  /\ status[t] = "started" /\ t \notin expired
  /\ \/ lease[t] = Orphan /\ UNCHANGED faults
     \/ lease[t] # Orphan /\ Spend("expiry")
  /\ expired' = expired \cup {t}
  /\ UNCHANGED <<status, lease, answers, pending, queue, unpublished, workers,
                 toPublish, ousted>>

\* list_stale_active; how long a turn has been queued is not modelled.
QueuedOnly == {t \in Turns : status[t] = "queued"}
Stale == {t \in Turns : \/ status[t] = "queued"
                        \/ status[t] = "started" /\ t \in expired}

ReconScan ==
  /\ toPublish = {} /\ Stale # {}
  /\ BackToQueue(Stale)
  /\ pending' = "queued"
  /\ toPublish' = Stale
  /\ ousted' = ousted \cup ({lease[t] : t \in Stale} \cap Workers)
  /\ UNCHANGED <<answers, queue, unpublished, workers, faults>>

ReconPublish(t) ==
  /\ t \in toPublish
  /\ \/ HasRoom /\ Put(t, 0) /\ UNCHANGED faults
     \/ Spend("broker") /\ UNCHANGED queue
  /\ toPublish' = toPublish \ {t}
  /\ UNCHANGED <<rows, unpublished, workers, ousted>>

Reconcile == ReconScan \/ \E t \in Turns : ReconPublish(t)

Next ==
  \/ \E t \in Turns : Ask(t) \/ AskPublish(t) \/ LeaseExpires(t)
  \/ DeleteMeeting
  \/ \E w \in Workers : Work(w) \/ Fault(w)
  \/ Reconcile

Spec == Init /\ [][Next]_vars

\* Workers run, beat keeps beating, and the lease of a dead worker runs out.
Fairness ==
  /\ \A w \in Workers : WF_vars(Work(w))
  /\ \A t \in Turns : WF_vars(LeaseExpires(t) /\ lease[t] = Orphan)
  /\ WF_vars(Reconcile)

FairSpec == Spec /\ Fairness

-----------------------------------------------------------------------------
(* Properties.                                                             *)

Steps(w) == pc[w] # pc'[w]

\* The lease and the turn agree, and a worker's name on a lease is that of an
\* execution that is working on the turn and knows its token.
LeaseInv ==
  /\ \A t \in Turns : status[t] = "started" <=> lease[t] # Nobody
  /\ \A t \in Turns : t \in expired => status[t] = "started"
  /\ \A w \in Workers, t \in Turns : lease[t] = w =>
        /\ job[w] = t /\ token[w] /\ w \notin ousted
        /\ pc[w] \in {"run", "persist", "requeue", "giveup"}
  /\ \A w \in ousted : token[w]
  /\ \A w \in Workers : pc[w] \in {"idle", "open", "claim"} => ~token[w]
  /\ \A w \in Workers : pc[w] \in {"run", "persist"} => token[w]

\* A turn has its one answer exactly when it is terminal: no redelivery, retry,
\* takeover or late worker adds a second assistant message.
AnsweredOnce ==
  \A t \in Turns : answers[t] = IF status[t] \in Terminal THEN 1 ELSE 0

\* Questions are answered in order, one at a time: whatever a turn reads of
\* the history before it is settled.
EarlierTurnsClosed ==
  \A t, u \in Turns : u < t /\ status[t] \notin {"absent", "deleted"}
                        => status[u] \in Terminal

\* The meeting list shows an answer as pending exactly while a turn is active.
PendingIffActive ==
  pending = "none" <=> \A t \in Turns : status[t] \notin Active

\* A worker whose lease was taken back changes no turn and writes no answer,
\* not even when it gives up.
OustedNeverWrites ==
  [][\A w \in ousted : Steps(w) => /\ status' = status /\ answers' = answers
                                   /\ pending' = pending]_vars

\* What the chat promises, and that ChatTurn implements it.
Promise == INSTANCE ChatPromise WITH
  turn <- [t \in Turns |-> CASE status[t] \in Active   -> "open"
                             [] status[t] \in Terminal -> "answered"
                             [] OTHER                  -> status[t]]
KeepsPromise == Promise!Spec
AnswersEveryQuestion == Promise!FairSpec

-----------------------------------------------------------------------------
(* What the documents say and the code does not keep.                      *)

\* worker-explanation.md: "terminal persistence compare-and-swaps the same
\* token".  A task that gives up before it ever had a token takes the one it
\* finds and ends the turn of the worker that holds it.
OnlyTheHolderEndsATurn ==
  [][\A w \in Workers, t \in Turns :
        Steps(w) /\ status[t] = "started" /\ status'[t] \in Terminal
          => lease[t] = w]_vars
=============================================================================
