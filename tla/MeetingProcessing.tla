-------------------------- MODULE MeetingProcessing --------------------------
(***************************************************************************)
(* The life of ONE meeting row: the HTTP call that queues it, the Celery   *)
(* broker, the workers that run the processing pipeline under a Redis      *)
(* lock, the periodic reconciliation, and the administrator's deletion.    *)
(*                                                                         *)
(* A database commit is one step.  [flush; fence; commit] is one step too: *)
(* the flushed UPDATE holds the row lock until the commit, and the fence   *)
(* (compare-and-expire) has just renewed the whole TTL, which the commit   *)
(* that follows it at once is assumed not to outlive.  Everything else may *)
(* interleave: between a read and the write that uses it, between a fence  *)
(* and the next one, between a commit and the publish that follows it.     *)
(*                                                                         *)
(* NeverGone, WriteBack, NoLossSeen, ReconScanFailed, ReleaseByKey,        *)
(* LoadAnyway and OnlyRollback are mistakes the code does not make: each   *)
(* stands before the definition it would replace, and breaks a property.   *)
(***************************************************************************)
EXTENDS Naturals, FiniteSets, FiniteSetsExt

CONSTANTS
  Workers,      \* processes that execute omnicall.processing.process_meeting
  Calls,        \* concurrent requests of the owner: upload, POST .../process
  MaxRetries,   \* max_retries of the Celery task
  MaxMessages,  \* bound on the broker queue
  AttemptsMod,  \* meeting.attempts is kept modulo this number
  FaultBudget   \* how often each kind of fault may happen

FaultKinds == {"expiry", "redis", "crash", "broker", "storage", "delete"}

Free    == "free"       \* the lock key does not exist
Orphan  == "orphan"     \* it holds the token of an execution that is gone
Deleter == "deleter"    \* it holds the token of an administrator's request

ASSUME ProcessNames == {Free, Orphan, Deleter} \cap Workers = {}
ASSUME Parameters == /\ MaxRetries \in Nat
                     /\ MaxMessages \in Nat \ {0}
                     /\ AttemptsMod \in Nat \ {0}
                     /\ FaultBudget \in [FaultKinds -> Nat]

VARIABLES
  status,       \* meetings.status, "none" once the row is deleted
  attempts,     \* meetings.attempts
  checkpoint,   \* a transcript checkpoint is committed
  result,       \* whose pipeline run wrote the committed result
  lock,         \* who owns lock:meeting-processing:<id>
  queue,        \* messages waiting at the broker, by their retry count
  revoked,      \* the workers' set of revoked task ids holds this meeting
  pc, seen, seenAttempts, lost, retries, outcome,   \* one value per worker
  callPc, callSeen,                                 \* one value per call
  reconPc, delPc,
  superseded,   \* history: the executions since whose acquisition another followed
  faults        \* what is left of FaultBudget

durable   == <<status, attempts, checkpoint, result>>
workerVars == <<pc, seen, seenAttempts, lost, retries, outcome>>
callVars  == <<callPc, callSeen>>
vars == <<durable, lock, queue, revoked, workerVars, callVars, reconPc, delPc,
          superseded, faults>>

Statuses == {"DRAFT", "UPLOADED", "QUEUED", "PROCESSING", "READY", "FAILED", "none"}
Stages   == {"transcribe", "checkpoint", "extract", "index", "commit"}
Holding  == {"load", "requeue", "start", "repair", "fail", "release"} \cup Stages
Labels   == {"idle", "acquire", "settle"} \cup Holding
NoResult == "noresult"

TypeOK ==
  /\ status \in Statuses
  /\ attempts \in 0..(AttemptsMod - 1)
  /\ checkpoint \in BOOLEAN
  /\ result \in Workers \cup {NoResult}
  /\ lock \in Workers \cup {Free, Orphan, Deleter}
  /\ queue \in [0..MaxRetries -> Nat]
  /\ revoked \in BOOLEAN
  /\ pc \in [Workers -> Labels]
  /\ seen \in [Workers -> Statuses \cup {"expired"}]
  /\ seenAttempts \in [Workers -> 0..(AttemptsMod - 1)]
  /\ lost \in [Workers -> BOOLEAN]
  /\ retries \in [Workers -> 0..MaxRetries]
  /\ outcome \in [Workers -> {"ack", "retry"}]
  /\ callPc \in [Calls -> {"idle", "store", "write", "publish", "undo"}]
  /\ callSeen \in [Calls -> Statuses]
  /\ reconPc \in {"idle", "publish"}
  /\ delPc \in {"idle", "revoke", "rows", "release"}
  /\ superseded \in SUBSET Workers
  /\ faults \in [FaultKinds -> Nat]

Init ==
  /\ status = "DRAFT" /\ attempts = 0 /\ checkpoint = FALSE /\ result = NoResult
  /\ lock = Free /\ queue = [r \in 0..MaxRetries |-> 0] /\ revoked = FALSE
  /\ pc = [w \in Workers |-> "idle"]
  /\ seen = [w \in Workers |-> "DRAFT"]
  /\ seenAttempts = [w \in Workers |-> 0]
  /\ lost = [w \in Workers |-> FALSE]
  /\ retries = [w \in Workers |-> 0]
  /\ outcome = [w \in Workers |-> "ack"]
  /\ callPc = [c \in Calls |-> "idle"]
  /\ callSeen = [c \in Calls |-> "DRAFT"]
  /\ reconPc = "idle" /\ delPc = "idle"
  /\ superseded = {}
  /\ faults = FaultBudget

-----------------------------------------------------------------------------
(* Helpers.                                                                *)

Spend(kind) == faults[kind] > 0 /\ faults' = [faults EXCEPT ![kind] = @ - 1]

NeverGone == TRUE
Exists == status # "none"

\* The UPDATE that a flush emits: SQLAlchemy writes the column only when the
\* new value differs from the one the session loaded.
WriteBack(old, new) == IF old = new THEN status ELSE old
Flush(old, new) == IF old = new THEN status ELSE new

\* assert_owned(refresh=True): the heartbeat has not failed and Redis still
\* holds our token.
NoLossSeen(w) == ~lost[w]
Owns(w) == ~lost[w] /\ lock = w

Goto(w, label) == pc' = [pc EXCEPT ![w] = label]

\* Leave the pipeline through the `finally` of process_meeting.
Leave(w, how) == Goto(w, "release") /\ outcome' = [outcome EXCEPT ![w] = how]

HasRoom == MapThenSumSet(LAMBDA r : queue[r], 0..MaxRetries) < MaxMessages
Put(r)  == queue' = [queue EXCEPT ![r] = @ + 1]

\* The locals of an execution end with it (the values here mean nothing).
Forget(w) ==
  /\ seen' = [seen EXCEPT ![w] = "DRAFT"]
  /\ seenAttempts' = [seenAttempts EXCEPT ![w] = 0]
  /\ lost' = [lost EXCEPT ![w] = FALSE]
  /\ superseded' = superseded \ {w}

\* Every execution that believes it holds the lock when another one gets it.
Believers == {x \in Workers : pc[x] \in Holding}

-----------------------------------------------------------------------------
(* HTTP: upload and POST .../process.                                      *)

CallEnds(c) == callPc' = [callPc EXCEPT ![c] = "idle"]

\* upload_asset: a meeting that has left DRAFT has an asset and takes no other.
\* The object is stored before the row is looked at again.
UploadRead(c) ==
  /\ callPc[c] = "idle" /\ status = "DRAFT"
  /\ callPc' = [callPc EXCEPT ![c] = "store"]
  /\ UNCHANGED <<durable, lock, queue, revoked, workerVars, callSeen, reconPc, delPc,
                 superseded, faults>>

\* The asset and UPLOADED in one commit, over whatever the row says by then.  It
\* is refused when the row is gone (foreign key), or when another upload has made
\* an asset with the same idempotency key (unique constraint).
UploadWrite(c) ==
  /\ callPc[c] = "store"
  /\ \/ Exists /\ status' = "UPLOADED"
     \/ status # "DRAFT" /\ UNCHANGED status
  /\ CallEnds(c)
  /\ UNCHANGED <<attempts, checkpoint, result, lock, queue, revoked, workerVars,
                 callSeen, reconPc, delPc, superseded, faults>>

\* put_object raises, or the API process dies.
UploadFails(c) ==
  /\ callPc[c] = "store" /\ CallEnds(c)
  /\ Spend("storage") \/ Spend("crash")
  /\ UNCHANGED <<durable, lock, queue, revoked, workerVars, callSeen, reconPc, delPc,
                 superseded>>

Upload(c) == UploadRead(c) \/ UploadWrite(c) \/ UploadFails(c)

\* queue_processing reads the row; the other statuses answer without a change.
CallRead(c) ==
  /\ callPc[c] = "idle"
  /\ status \in {"UPLOADED", "FAILED"}
  /\ callPc' = [callPc EXCEPT ![c] = "write"]
  /\ callSeen' = [callSeen EXCEPT ![c] = status]
  /\ UNCHANGED <<durable, lock, queue, revoked, workerVars, reconPc, delPc,
                 superseded, faults>>

\* update_status(QUEUED); commit().  A row deleted meanwhile raises instead.
CallWrite(c) ==
  /\ callPc[c] = "write"
  /\ IF Exists
       THEN /\ status' = Flush(callSeen[c], "QUEUED")
            /\ callPc' = [callPc EXCEPT ![c] = "publish"]
       ELSE CallEnds(c) /\ UNCHANGED status
  /\ callSeen' = [callSeen EXCEPT ![c] = "DRAFT"]
  /\ UNCHANGED <<attempts, checkpoint, result, lock, queue, revoked, workerVars,
                 reconPc, delPc, superseded, faults>>

\* Reading meeting.id for the call reloads the row; it raises when a deletion
\* came before it, and nothing is published then.
CallPublish(c) ==
  /\ callPc[c] = "publish"
  /\ \/ HasRoom /\ Put(0)
     \/ ~Exists /\ UNCHANGED queue
  /\ CallEnds(c)
  /\ UNCHANGED <<durable, lock, revoked, workerVars, callSeen, reconPc, delPc,
                 superseded, faults>>

\* send_task raises; the broker may have accepted the message all the same.
CallPublishFails(c) ==
  /\ callPc[c] = "publish" /\ Spend("broker")
  /\ \/ HasRoom /\ Put(0)
     \/ UNCHANGED queue
  /\ callPc' = [callPc EXCEPT ![c] = "undo"]
  /\ callSeen' = [callSeen EXCEPT ![c] = status]
  /\ UNCHANGED <<durable, lock, revoked, workerVars, reconPc, delPc, superseded>>

\* The `except` branch: update_status(FAILED); commit().
CallUndo(c) ==
  /\ callPc[c] = "undo"
  /\ CallEnds(c)
  /\ callSeen' = [callSeen EXCEPT ![c] = "DRAFT"]
  /\ status' = IF Exists THEN Flush(callSeen[c], "FAILED") ELSE status
  /\ UNCHANGED <<attempts, checkpoint, result, lock, queue, revoked, workerVars,
                 reconPc, delPc, superseded, faults>>

\* The API process dies after its commit and before the publish.
CallDies(c) ==
  /\ callPc[c] = "publish" /\ Spend("crash") /\ CallEnds(c)
  /\ UNCHANGED <<durable, lock, queue, revoked, workerVars, callSeen, reconPc,
                 delPc, superseded>>

Call(c) == CallRead(c) \/ CallWrite(c) \/ CallPublish(c) \/ CallPublishFails(c)
           \/ CallUndo(c) \/ CallDies(c)

-----------------------------------------------------------------------------
(* Beat: republish a meeting whose row has stayed QUEUED.  How long it has *)
(* stayed is not modelled: any QUEUED row may be stale.                    *)

ReconScanFailed ==
  /\ reconPc = "idle" /\ status = "FAILED"
  /\ reconPc' = "publish"
  /\ UNCHANGED <<durable, lock, queue, revoked, workerVars, callVars, delPc,
                 superseded, faults>>
ReconScan ==
  /\ reconPc = "idle" /\ status = "QUEUED"
  /\ reconPc' = "publish"
  /\ UNCHANGED <<durable, lock, queue, revoked, workerVars, callVars, delPc,
                 superseded, faults>>

ReconPublish ==
  /\ reconPc = "publish"
  /\ \/ HasRoom /\ Put(0) /\ UNCHANGED faults
     \/ Spend("broker") /\ UNCHANGED queue
  /\ reconPc' = "idle"
  /\ UNCHANGED <<durable, lock, revoked, workerVars, callVars, delPc, superseded>>

Reconcile == ReconScan \/ ReconPublish

-----------------------------------------------------------------------------
(* The worker: delivery and the lock.                                      *)

Receive(w) ==
  /\ pc[w] = "idle" /\ ~revoked
  /\ \E r \in 0..MaxRetries :
        /\ queue[r] > 0
        /\ queue' = [queue EXCEPT ![r] = @ - 1]
        /\ retries' = [retries EXCEPT ![w] = r]
  /\ Goto(w, "acquire")
  /\ UNCHANGED <<durable, lock, revoked, seen, seenAttempts, lost, outcome,
                 callVars, reconPc, delPc, superseded, faults>>

\* A revoked task id is acknowledged without being run.
Discard(w) ==
  /\ pc[w] = "idle" /\ revoked
  /\ \E r \in 0..MaxRetries :
        queue[r] > 0 /\ queue' = [queue EXCEPT ![r] = @ - 1]
  /\ UNCHANGED <<durable, lock, revoked, workerVars, callVars, reconPc, delPc,
                 superseded, faults>>

\* SET NX EX, then the heartbeat's first renewal.
Acquire(w) ==
  /\ pc[w] = "acquire" /\ lock = Free
  /\ lock' = w
  /\ lost' = [lost EXCEPT ![w] = FALSE]
  /\ superseded' = Believers
  /\ Goto(w, "load")
  /\ UNCHANGED <<durable, queue, revoked, seen, seenAttempts, retries, outcome,
                 callVars, reconPc, delPc, faults>>

\* The "locked" return: the message is acknowledged and nothing is written.
FindLocked(w) ==
  /\ pc[w] = "acquire" /\ lock # Free
  /\ Goto(w, "settle") /\ outcome' = [outcome EXCEPT ![w] = "ack"]
  /\ UNCHANGED <<durable, lock, queue, revoked, seen, seenAttempts, lost, retries,
                 callVars, reconPc, delPc, superseded, faults>>

\* Redis raises on acquire; the key may have been set before the reply was lost.
AcquireFails(w) ==
  /\ pc[w] = "acquire" /\ Spend("redis")
  /\ lock' \in IF lock = Free THEN {Free, Orphan} ELSE {lock}
  /\ Goto(w, "settle") /\ outcome' = [outcome EXCEPT ![w] = "retry"]
  /\ UNCHANGED <<durable, queue, revoked, seen, seenAttempts, lost, retries,
                 callVars, reconPc, delPc, superseded>>

\* The heartbeat thread finds another token, or its renewal raises: the loss
\* is sticky and the thread stops renewing.
HeartbeatFails(w) ==
  /\ pc[w] \in {"load", "requeue", "start"} \cup Stages /\ ~lost[w]
  /\ \/ lock # w /\ UNCHANGED faults
     \/ lock = w /\ Spend("redis")
  /\ lost' = [lost EXCEPT ![w] = TRUE]
  /\ UNCHANGED <<durable, lock, queue, revoked, pc, seen, seenAttempts, retries,
                 outcome, callVars, reconPc, delPc, superseded>>

\* Compare-and-delete.  When Redis is away the exception is swallowed and the
\* token stays until its TTL.
ReleaseByKey(w) ==
  /\ pc[w] = "release"
  /\ lock' = Free
  /\ Goto(w, "settle") /\ Forget(w)
  /\ UNCHANGED <<durable, queue, revoked, retries, outcome, callVars, reconPc,
                 delPc, faults>>
Release(w) ==
  /\ pc[w] = "release"
  /\ \/ lock' = (IF lock = w THEN Free ELSE lock) /\ UNCHANGED faults
     \/ lock' = (IF lock = w THEN Orphan ELSE lock) /\ Spend("redis")
  /\ Goto(w, "settle") /\ Forget(w)
  /\ UNCHANGED <<durable, queue, revoked, retries, outcome, callVars, reconPc,
                 delPc>>

\* acks_late: acknowledge, after task.retry has published the next attempt
\* while there is one left; a publish that fails loses the attempt.
Settle(w) ==
  /\ pc[w] = "settle"
  /\ IF outcome[w] = "retry" /\ retries[w] < MaxRetries
       THEN \/ Put(retries[w] + 1) /\ UNCHANGED faults
            \/ Spend("broker") /\ UNCHANGED queue
       ELSE UNCHANGED <<queue, faults>>
  /\ Goto(w, "idle")
  /\ retries' = [retries EXCEPT ![w] = 0]
  /\ outcome' = [outcome EXCEPT ![w] = "ack"]
  /\ UNCHANGED <<durable, lock, revoked, seen, seenAttempts, lost, callVars,
                 reconPc, delPc, superseded>>

-----------------------------------------------------------------------------
(* The worker: _process_with_lock.                                         *)

\* Read the row and dispatch on its status.
LoadAnyway(w) ==
  /\ pc[w] = "load"
  /\ seen' = [seen EXCEPT ![w] = status]
  /\ seenAttempts' = [seenAttempts EXCEPT ![w] = attempts]
  /\ IF lost[w] \/ ~Exists
       THEN Leave(w, "retry")
       ELSE /\ Goto(w, IF status = "FAILED" THEN "requeue" ELSE "start")
            /\ UNCHANGED outcome
  /\ UNCHANGED <<durable, lock, queue, revoked, lost, retries, callVars, reconPc,
                 delPc, superseded, faults>>
Load(w) ==
  /\ pc[w] = "load"
  /\ seen' = [seen EXCEPT ![w] = status]
  /\ seenAttempts' = [seenAttempts EXCEPT ![w] = attempts]
  /\ IF lost[w] THEN Leave(w, "retry")                        \* lock_lost
     ELSE IF status \in {"none", "READY"} THEN Leave(w, "ack") \* missing, skipped
     ELSE /\ Goto(w, IF status = "FAILED" THEN "requeue" ELSE "start")
          /\ UNCHANGED outcome
  /\ UNCHANGED <<durable, lock, queue, revoked, lost, retries, callVars, reconPc,
                 delPc, superseded, faults>>

\* A FAILED meeting first goes back to QUEUED; the commit expires the row, so
\* the next flush and the next read of attempts see the database.
Requeue(w) ==
  /\ pc[w] = "requeue"
  /\ IF Owns(w) /\ Exists
       THEN /\ status' = Flush(seen[w], "QUEUED")
            /\ seen' = [seen EXCEPT ![w] = "expired"]
            /\ Goto(w, "start") /\ UNCHANGED outcome
       ELSE Leave(w, "retry") /\ UNCHANGED <<status, seen>>
  /\ UNCHANGED <<attempts, checkpoint, result, lock, queue, revoked, seenAttempts,
                 lost, retries, callVars, reconPc, delPc, superseded, faults>>

\* PROCESSING and attempts + 1, fenced, in one commit.
Start(w) ==
  /\ pc[w] = "start"
  /\ IF Owns(w) /\ Exists
       THEN /\ status' = Flush(seen[w], "PROCESSING")
            /\ attempts' = ((IF seen[w] = "expired" THEN attempts
                                                    ELSE seenAttempts[w]) + 1)
                           % AttemptsMod
            /\ seen' = [seen EXCEPT ![w] = status']
            /\ Goto(w, "transcribe") /\ UNCHANGED outcome
       ELSE Leave(w, "retry") /\ UNCHANGED <<status, attempts, seen>>
  /\ UNCHANGED <<checkpoint, result, lock, queue, revoked, seenAttempts, lost,
                 retries, callVars, reconPc, delPc, superseded, faults>>

\* With a checkpoint the transcript is restored and no fence is asked.
Transcribe(w) ==
  /\ pc[w] = "transcribe"
  /\ IF checkpoint \/ Owns(w)
       THEN Goto(w, "checkpoint") /\ UNCHANGED outcome
       ELSE Leave(w, "retry")
  /\ UNCHANGED <<durable, lock, queue, revoked, seen, seenAttempts, lost, retries,
                 callVars, reconPc, delPc, superseded, faults>>

\* The extraction service commits windows and checkpoint, without a fence; the
\* foreign key fails when the meeting is gone.
SaveCheckpoint(w) ==
  /\ pc[w] = "checkpoint"
  /\ IF Exists THEN checkpoint' = TRUE /\ Goto(w, "extract")
               ELSE UNCHANGED checkpoint /\ Goto(w, "fail")
  /\ seen' = [seen EXCEPT ![w] = status]
  /\ UNCHANGED <<status, attempts, result, lock, queue, revoked, seenAttempts, lost,
                 retries, outcome, callVars, reconPc, delPc, superseded, faults>>

\* The language model calls, then the fence before validation; and the result
\* and chunk rows flushed in the open transaction around the vector write.
Extract(w) ==
  /\ pc[w] \in {"extract", "index"}
  /\ IF Owns(w)
       THEN /\ Goto(w, IF pc[w] = "extract" THEN "index" ELSE "commit")
            /\ UNCHANGED outcome
       ELSE Leave(w, "retry")
  /\ UNCHANGED <<durable, lock, queue, revoked, seen, seenAttempts, lost, retries,
                 callVars, reconPc, delPc, superseded, faults>>

\* READY and the result, fenced, in one commit; the flush fails on a deleted row.
Commit(w) ==
  /\ pc[w] = "commit"
  /\ IF ~Exists THEN Goto(w, "fail") /\ UNCHANGED <<status, result, outcome>>
     ELSE IF Owns(w)
       THEN /\ status' = Flush(seen[w], "READY")
            /\ result' = w
            /\ Goto(w, "repair") /\ UNCHANGED outcome
       ELSE Leave(w, "retry") /\ UNCHANGED <<status, result>>
  /\ UNCHANGED <<attempts, checkpoint, lock, queue, revoked, seen, seenAttempts,
                 lost, retries, callVars, reconPc, delPc, superseded, faults>>

\* What follows the READY commit, without a fence: the repair of vectors that
\* failed is claimed and published (RetrievalRepair has the claim).  If giving
\* the claim back raises, or the row is gone, it is an exception like any other.
PublishRepair(w) ==
  /\ pc[w] = "repair"
  /\ \/ Leave(w, "ack")
     \/ Goto(w, "fail") /\ UNCHANGED outcome
  /\ UNCHANGED <<durable, lock, queue, revoked, seen, seenAttempts, lost, retries,
                 callVars, reconPc, delPc, superseded, faults>>

\* Any other exception of a stage.
StageRaises(w) ==
  /\ pc[w] \in Stages
  /\ Goto(w, "fail")
  /\ UNCHANGED <<durable, lock, queue, revoked, seen, seenAttempts, lost, retries,
                 outcome, callVars, reconPc, delPc, superseded, faults>>

\* `except Exception`: rollback, reload, FAILED, commit, and no fence.  A row
\* deleted before the reload is "missing", after it makes the flush raise.
OnlyRollback(w) ==
  /\ pc[w] = "fail" /\ Leave(w, "ack")
  /\ UNCHANGED <<durable, lock, queue, revoked, seen, seenAttempts, lost, retries,
                 callVars, reconPc, delPc, superseded, faults>>
WriteFailed(w) ==
  /\ pc[w] = "fail"
  /\ status' = IF Exists THEN "FAILED" ELSE status
  /\ \/ Leave(w, "ack")
     \/ ~Exists /\ Leave(w, "retry")
  /\ UNCHANGED <<attempts, checkpoint, result, lock, queue, revoked, seen,
                 seenAttempts, lost, retries, callVars, reconPc, delPc, superseded,
                 faults>>

Work(w) ==
  \/ Receive(w) \/ Discard(w) \/ Acquire(w) \/ FindLocked(w)
  \/ Load(w) \/ Requeue(w) \/ Start(w)
  \/ Transcribe(w) \/ SaveCheckpoint(w) \/ Extract(w) \/ Commit(w)
  \/ PublishRepair(w) \/ WriteFailed(w) \/ Release(w) \/ Settle(w)

-----------------------------------------------------------------------------
(* Deletion by an administrator or the owner: lock, revoke, rows, commit.  *)

\* (The deletion of a deleted meeting answers 404 and leaves everything alone.)
DelAcquire ==
  /\ delPc = "idle" /\ lock = Free /\ Exists /\ Spend("delete")
  /\ lock' = Deleter
  /\ superseded' = Believers
  /\ delPc' = "revoke"
  /\ UNCHANGED <<durable, queue, revoked, workerVars, callVars, reconPc>>

DelRevoke ==
  /\ delPc = "revoke"
  /\ \/ revoked' = TRUE /\ delPc' = "rows" /\ UNCHANGED faults
     \/ Spend("broker") /\ delPc' = "release" /\ UNCHANGED revoked
  /\ UNCHANGED <<durable, lock, queue, workerVars, callVars, reconPc, superseded>>

\* Vectors, rows and objects; any failure rolls the transaction back, and
\* nothing undoes the revocation.
DelRows ==
  /\ delPc = "rows"
  /\ \/ /\ status' = "none" /\ checkpoint' = FALSE /\ result' = NoResult
        /\ UNCHANGED faults
     \/ Spend("storage") /\ UNCHANGED <<status, checkpoint, result>>
  /\ delPc' = "release"
  /\ UNCHANGED <<attempts, lock, queue, revoked, workerVars, callVars, reconPc,
                 superseded>>

DelRelease ==
  /\ delPc = "release"
  /\ \/ lock' = (IF lock = Deleter THEN Free ELSE lock) /\ UNCHANGED faults
     \/ lock' = (IF lock = Deleter THEN Orphan ELSE lock) /\ Spend("redis")
  /\ delPc' = "idle"
  /\ UNCHANGED <<durable, queue, revoked, workerVars, callVars, reconPc, superseded>>

Delete == DelRevoke \/ DelRows \/ DelRelease

-----------------------------------------------------------------------------
(* The environment.                                                        *)

\* The worker process dies: its transaction is rolled back, the broker gets
\* the message back, and the token it held stays until its TTL.  The set of
\* revoked ids is kept by the parent process, which may have died too.
Crash(w) ==
  /\ pc[w] # "idle" /\ Spend("crash")
  /\ Put(retries[w])
  /\ Goto(w, "idle") /\ Forget(w)
  /\ retries' = [retries EXCEPT ![w] = 0]
  /\ outcome' = [outcome EXCEPT ![w] = "ack"]
  /\ lock' = IF lock = w THEN Orphan ELSE lock
  /\ revoked' \in {revoked, FALSE}
  /\ UNCHANGED <<durable, callVars, reconPc, delPc>>

\* The TTL of a token nobody renews runs out.
OrphanExpires ==
  /\ lock = Orphan /\ lock' = Free
  /\ UNCHANGED <<durable, queue, revoked, workerVars, callVars, reconPc, delPc,
                 superseded, faults>>

\* A live holder's token runs out or is lost by Redis: a pause longer than the
\* TTL, a heartbeat that stopped, a deletion (which has none) that takes longer.
LiveExpires ==
  /\ lock \notin {Free, Orphan} /\ Spend("expiry")
  /\ lock' = Free
  /\ UNCHANGED <<durable, queue, revoked, workerVars, callVars, reconPc, delPc,
                 superseded>>

Next ==
  \/ \E c \in Calls : Upload(c) \/ Call(c)
  \/ Reconcile
  \/ \E w \in Workers : Work(w) \/ StageRaises(w) \/ AcquireFails(w)
                        \/ HeartbeatFails(w) \/ Crash(w)
  \/ DelAcquire \/ Delete
  \/ OrphanExpires \/ LiveExpires

Spec == Init /\ [][Next]_vars

\* Workers that are alive run, requests that were accepted go on, beat keeps
\* beating, and a TTL runs out.
Fairness ==
  /\ \A w \in Workers : WF_vars(Work(w))
  /\ \A c \in Calls : WF_vars(CallWrite(c) \/ CallPublish(c) \/ CallUndo(c))
  /\ WF_vars(Reconcile)
  /\ WF_vars(Delete)
  /\ WF_vars(OrphanExpires)

FairSpec == Spec /\ Fairness
-----------------------------------------------------------------------------
(* Properties.                                                             *)

Steps(w) == pc[w] # pc'[w]

\* What owning the lock means, the inductive core of the properties below: the
\* owner is alive in the pipeline and has not been superseded, the meeting it
\* works on has not become READY since it looked, the attempts it read are
\* still current, and nothing is left of a deleted meeting.
HolderInv ==
  /\ \A w \in Workers : lock = w =>
        /\ w \notin superseded
        /\ pc[w] \in Holding
        /\ pc[w] \in {"requeue", "start"} \cup Stages => status # "READY"
        /\ pc[w] = "start" /\ seen[w] # "expired" => seenAttempts[w] = attempts
  /\ status = "none" => result = NoResult /\ ~checkpoint

\* Once another execution has acquired the lock, the pipeline of the earlier
\* one commits nothing but a FAILED: no status of its own, no result.
SupersededNeverAdvances ==
  [][\A w \in superseded : Steps(w) => /\ status' \in {status, "FAILED"}
                                       /\ result' = result
                                       /\ attempts' = attempts]_vars

\* A worker's step never takes the lock away from another holder (a late
\* release of an expired token is the case to fear).
ReleaseRespectsOwner ==
  [][\A w \in Workers : Steps(w) /\ lock # w /\ lock # Free => lock' = lock]_vars

\* The result users read of a READY meeting is never replaced under them by
\* a second pipeline run: not by a redelivery, nor by a slow worker.
ReadyResultImmutable ==
  [][status = "READY" /\ status' = "READY" => result' = result]_vars

\* A pipeline leaves a READY meeting READY, unless it has raised: a redelivered
\* or duplicated message does not reprocess.
PipelineSkipsReady ==
  [][\A w \in Workers : Steps(w) /\ status = "READY" /\ pc[w] # "fail"
                           => status' = "READY"]_vars

\* meetings.attempts is read, kept in the session and written back: the lock
\* and the fence must make the read-modify-write atomic.
AttemptsNotLost ==
  [][\A w \in Workers : pc[w] = "start" /\ pc'[w] = "transcribe"
                           => attempts' = (attempts + 1) % AttemptsMod]_vars

\* Nothing brings a deleted meeting back: no worker, request or reconciliation
\* that read the row before the deletion.
DeletedStaysDeleted ==
  [][status = "none" => status' = "none" /\ result' = NoResult /\ ~checkpoint']_vars

\* A meeting waiting in QUEUED is eventually taken up (or deleted), whatever
\* was lost on the way: the publish, the worker, the lock.  What stops it is a
\* deletion that failed after it had revoked the meeting's task id.
QueuedIsTakenUp == status = "QUEUED" ~> status # "QUEUED" \/ revoked

\* What users are promised of the meeting (MeetingPromise) is kept by every step
\* of every worker, request, reconciliation and deletion.
Meeting == CASE status = "none"  -> "deleted"
             [] status = "READY" -> "ready"
             [] OTHER            -> "open"
Promise == INSTANCE MeetingPromise WITH Runs <- Workers, NoRun <- NoResult,
             meeting <- Meeting, transcript <- checkpoint, published <- result
KeepsMeetingPromise == Promise!Spec

\* No worker has died, no message was lost, Redis answers, nobody deletes the
\* meeting, and the lock has expired no more often than the task may be retried.
Expiries == FaultBudget["expiry"] - faults["expiry"]
Undisturbed == /\ \A kind \in FaultKinds \ {"expiry"} : faults[kind] = FaultBudget[kind]
               /\ Expiries <= MaxRetries

\* A meeting in PROCESSING always has somebody who will take it further, also
\* when its worker has lost the lock: an execution, or a message at the broker.
WillRun(w) ==
  \/ pc[w] \in {"acquire", "load", "requeue", "start", "fail"} \cup Stages
  \/ /\ pc[w] \in {"release", "settle"}
     /\ outcome[w] = "retry" /\ retries[w] < MaxRetries
NotStranded ==
  status = "PROCESSING" /\ Undisturbed
    => \/ \E w \in Workers : WillRun(w)
       \/ \E r \in 0..MaxRetries : queue[r] > 0

\* A meeting in PROCESSING settles, if it is Undisturbed until then.
ProcessingSettles ==
  status = "PROCESSING" ~> status # "PROCESSING" \/ ~Undisturbed

-----------------------------------------------------------------------------
(* What the documents say and the code does not keep.                      *)

\* worker-explanation.md: the heartbeat "fences state changes after ownership
\* loss".  The FAILED of the exception handler is not fenced.
StateChangesFenced ==
  [][\A w \in superseded : Steps(w) => status' = status]_vars
=============================================================================
