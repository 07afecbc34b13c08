--------------------------- MODULE RetrievalRepair ---------------------------
(***************************************************************************)
(* The retrieval snapshot of ONE meeting and its vectors in Milvus: the    *)
(* pipeline that indexes a result, the repair it leaves in PostgreSQL when *)
(* Milvus fails, the claims (a fresh token each) under which the pipeline  *)
(* and the periodic reconciliation publish the repair task, the workers    *)
(* that run it, and the deletion of the meeting.                           *)
(*                                                                         *)
(* A database transaction is one step, except the rebuild of the vectors,  *)
(* which keeps the snapshot row locked over its calls to Milvus.  A call   *)
(* to Milvus that fails has been applied or not; one that was sent is      *)
(* never applied later than the failure its sender sees.                   *)
(*                                                                         *)
(* AnyToken, AnyStatus, IgnoreFailure, PendingOnly, RestoreAsFailed and    *)
(* RowsOnly are mistakes the code does not make: each stands before the    *)
(* definition it would replace, and breaks a property.                     *)
(***************************************************************************)
EXTENDS Naturals, FiniteSets, FiniteSetsExt

CONSTANTS
  Workers,      \* processes that execute omnicall.processing.repair_retrieval_index
  Tokens,       \* repair_lease_token: a token may be drawn again when nothing has it
  MaxRetries,   \* max_retries of the Celery task
  MaxMessages,  \* bound on the broker queue when the reconciliation publishes
  FaultBudget   \* how often each kind of fault may happen

FaultKinds == {"milvus", "redis", "broker", "database", "crash",
               "lease", "expiry",       \* of the repair, of the lock, under its holder
               "delete", "removal"}     \* a deletion begins, and fails
Publishers == {"pipeline", "beat"}

Nobody == "nobody"    \* no lock holder, no row lock, repair_lease_token is NULL
Orphan == "orphan"    \* the lock holds the token of an execution that has ended
Holders == Workers \cup {"pipeline", "deleter", Orphan, Nobody}

ASSUME Names == /\ Workers \cap (Publishers \cup {"deleter", Orphan, Nobody}) = {}
                /\ Nobody \notin Tokens
ASSUME RepairParameters == /\ MaxRetries \in Nat
                           /\ MaxMessages \in Nat \ {0}
                           /\ FaultBudget \in [FaultKinds -> Nat]

VARIABLES
  snapshot,     \* meeting_retrieval_snapshots: "absent", "ready" or "deleted"
  repair,       \* its repair_status
  claim,        \* its repair_lease_token
  expired,      \* its repair_lease_expires_at has passed
  rowLock,      \* the worker whose transaction has the row locked
  vectors,      \* what Milvus has of the current generation: "none" or "all"
  lock,         \* who owns lock:meeting-processing:<id>
  queue,        \* messages at the broker, by token and retry count
  pc, token, retries,     \* one value per worker
  pubPc, pubToken,        \* one value per publisher
  delPc,
  faults        \* what is left of FaultBudget

row     == <<snapshot, repair, claim, expired>>
workers == <<pc, token, retries>>
pubs    == <<pubPc, pubToken>>
vars    == <<row, rowLock, vectors, lock, queue, workers, pubs, delPc, faults>>

Rebuilding == {"delete", "insert", "finish"}
Labels     == {"idle", "acquire", "start", "lock", "requeue", "retry", "release"}
              \cup Rebuilding

TypeOK ==
  /\ snapshot \in {"absent", "ready", "deleted"}
  /\ repair \in {"none", "pending", "queued", "started"}
  /\ claim \in Tokens \cup {Nobody}
  /\ expired \in BOOLEAN
  /\ rowLock \in Workers \cup {Nobody}
  /\ vectors \in {"none", "all"}
  /\ lock \in Holders
  /\ queue \in [Tokens \X (0..MaxRetries) -> Nat]
  /\ pc \in [Workers -> Labels]
  /\ token \in [Workers -> Tokens \cup {Nobody}]
  /\ retries \in [Workers -> 0..MaxRetries]
  /\ pubPc \in [Publishers -> {"index", "claim", "publish", "restore", "release", "done"}]
  /\ pubToken \in [Publishers -> Tokens \cup {Nobody}]
  /\ delPc \in {"idle", "vectors", "rows", "release"}
  /\ faults \in [FaultKinds -> Nat]

Init ==
  /\ snapshot = "absent" /\ repair = "none" /\ claim = Nobody /\ expired = FALSE
  /\ rowLock = Nobody /\ vectors = "none" /\ lock = Nobody
  /\ queue = [m \in Tokens \X (0..MaxRetries) |-> 0]
  /\ pc = [w \in Workers |-> "idle"]
  /\ token = [w \in Workers |-> Nobody]
  /\ retries = [w \in Workers |-> 0]
  /\ pubPc = [p \in Publishers |-> IF p = "pipeline" THEN "index" ELSE "claim"]
  /\ pubToken = [p \in Publishers |-> Nobody]
  /\ delPc = "idle" /\ faults = FaultBudget

-----------------------------------------------------------------------------
(* Helpers.                                                                *)

Spend(kind) == faults[kind] > 0 /\ faults' = [faults EXCEPT ![kind] = @ - 1]

HasRoom == MapThenSumSet(LAMBDA m : queue[m], DOMAIN queue) < MaxMessages
Put(k, r) == queue' = [queue EXCEPT ![<<k, r>>] = @ + 1]

Goto(w, label) == pc' = [pc EXCEPT ![w] = label]

\* The claim is in `status` and has token k (every *_if_owned function).
AnyToken(k, states)  == snapshot = "ready" /\ repair \in states
AnyStatus(k, states) == snapshot = "ready" /\ claim = k
Owned(k, states) == snapshot = "ready" /\ repair \in states /\ claim = k

SetRepair(state, k) == repair' = state /\ claim' = k /\ expired' = FALSE

\* Compare-and-delete of the lock; without Redis the token stays until its TTL.
Unlock(h) == \/ lock' = (IF lock = h THEN Nobody ELSE lock) /\ UNCHANGED faults
             \/ lock = h /\ lock' = Orphan /\ Spend("redis")

\* Nobody is left who could act on the claim with token k.
InUse(k) == \/ claim = k
            \/ \E r \in 0..MaxRetries : queue[<<k, r>>] > 0
            \/ \E w \in Workers : token[w] = k
            \/ \E p \in Publishers : pubToken[p] = k
Abandoned == /\ \A r \in 0..MaxRetries : claim # Nobody => queue[<<claim, r>>] = 0
             /\ \A w \in Workers : token[w] # claim
             /\ \A p \in Publishers : pubToken[p] # claim

\* The outcomes of a call to Milvus that should have left the vectors as `v`.
MilvusFails(v) == Spend("milvus") /\ vectors' \in {vectors, v}

-----------------------------------------------------------------------------
(* The pipeline, up to the commit that makes the meeting READY.            *)

\* Delete, insert and the snapshot with the outcome, under the meeting's lock.
Index ==
  /\ pubPc["pipeline"] = "index" /\ lock = Nobody
  /\ lock' = "pipeline" /\ snapshot' = "ready"
  /\ \/ /\ vectors' = "all" /\ repair' = "none"
        /\ pubPc' = [pubPc EXCEPT !["pipeline"] = "release"] /\ UNCHANGED faults
     \/ /\ MilvusFails("all") /\ repair' = "pending"
        /\ pubPc' = [pubPc EXCEPT !["pipeline"] = "claim"]
  /\ UNCHANGED <<claim, expired, rowLock, queue, workers, pubToken, delPc>>

PipelineEnds ==
  /\ pubPc["pipeline"] = "release"
  /\ Unlock("pipeline")
  /\ pubPc' = [pubPc EXCEPT !["pipeline"] = "done"]
  /\ UNCHANGED <<row, rowLock, vectors, queue, workers, pubToken, delPc>>

-----------------------------------------------------------------------------
(* Publishing: the pipeline once, the reconciliation again and again.      *)

After(p) == IF p = "pipeline" THEN "release" ELSE "claim"

\* The beat recovers a claim whose lease has expired as well; how long a
\* repair has been pending is not modelled.
PendingOnly(p) == repair = "pending"
MayClaim(p) == \/ repair = "pending"
               \/ p = "beat" /\ repair \in {"queued", "started"} /\ expired

\* Committed before the publish; SKIP LOCKED passes over a rebuild.
Claim(p) ==
  /\ pubPc[p] = "claim" /\ snapshot = "ready" /\ rowLock = Nobody /\ MayClaim(p)
  /\ \E k \in {x \in Tokens : ~InUse(x)} :
        SetRepair("queued", k) /\ pubToken' = [pubToken EXCEPT ![p] = k]
  /\ pubPc' = [pubPc EXCEPT ![p] = "publish"]
  /\ UNCHANGED <<snapshot, rowLock, vectors, lock, queue, workers, delPc, faults>>

\* The pipeline finds the repair claimed already, or the snapshot gone.
NothingToClaim ==
  /\ pubPc["pipeline"] = "claim" /\ rowLock = Nobody
  /\ snapshot # "ready" \/ repair # "pending"
  /\ pubPc' = [pubPc EXCEPT !["pipeline"] = "release"]
  /\ UNCHANGED <<row, rowLock, vectors, lock, queue, workers, pubToken, delPc, faults>>

Forget(p) == pubToken' = [pubToken EXCEPT ![p] = Nobody]

\* A publish that raises may have reached the broker all the same.
Publish(p) ==
  /\ pubPc[p] = "publish"
  /\ \/ /\ p = "beat" => HasRoom
        /\ Put(pubToken[p], 0) /\ Forget(p) /\ UNCHANGED faults
        /\ pubPc' = [pubPc EXCEPT ![p] = After(p)]
     \/ /\ Spend("broker") /\ (Put(pubToken[p], 0) \/ UNCHANGED queue)
        /\ pubPc' = [pubPc EXCEPT ![p] = "restore"] /\ UNCHANGED pubToken
  /\ UNCHANGED <<row, rowLock, vectors, lock, workers, delPc>>

\* restore_repair_pending_if_owned.
RestoreAsFailed(p) ==
  /\ pubPc[p] = "restore" /\ rowLock = Nobody
  /\ IF Owned(pubToken[p], {"queued"}) THEN SetRepair("failed", Nobody)
                                       ELSE UNCHANGED <<repair, claim, expired>>
  /\ Forget(p)
  /\ pubPc' = [pubPc EXCEPT ![p] = After(p)]
  /\ UNCHANGED <<snapshot, rowLock, vectors, lock, queue, workers, delPc, faults>>
Restore(p) ==
  /\ pubPc[p] = "restore" /\ rowLock = Nobody
  /\ IF Owned(pubToken[p], {"queued"}) THEN SetRepair("pending", Nobody)
                                       ELSE UNCHANGED <<repair, claim, expired>>
  /\ Forget(p)
  /\ pubPc' = [pubPc EXCEPT ![p] = After(p)]
  /\ UNCHANGED <<snapshot, rowLock, vectors, lock, queue, workers, delPc, faults>>

\* The process dies: the claim stays with nobody to publish it.
PublisherDies(p) ==
  /\ pubPc[p] \in {"publish", "restore"} \/ (p = "pipeline" /\ pubPc[p] = "claim")
  /\ Spend("crash") /\ Forget(p)
  /\ lock' = IF lock = p THEN Orphan ELSE lock
  /\ pubPc' = [pubPc EXCEPT ![p] = IF p = "pipeline" THEN "done" ELSE "claim"]
  /\ UNCHANGED <<row, rowLock, vectors, queue, workers, delPc>>

Publishing(p) == Claim(p) \/ Publish(p) \/ Restore(p)

-----------------------------------------------------------------------------
(* The worker.                                                             *)

Receive(w) ==
  /\ pc[w] = "idle"
  /\ \E k \in Tokens, r \in 0..MaxRetries :
        /\ queue[<<k, r>>] > 0
        /\ queue' = [queue EXCEPT ![<<k, r>>] = @ - 1]
        /\ token' = [token EXCEPT ![w] = k]
        /\ retries' = [retries EXCEPT ![w] = r]
  /\ Goto(w, "acquire")
  /\ UNCHANGED <<row, rowLock, vectors, lock, pubs, delPc, faults>>

\* The lock of the meeting; when it is taken the task is retried, and when
\* Redis raises it fails for good.
Acquire(w) ==
  /\ pc[w] = "acquire"
  /\ \/ lock = Nobody /\ lock' = w /\ Goto(w, "start") /\ UNCHANGED faults
     \/ lock # Nobody /\ Goto(w, "retry") /\ UNCHANGED <<lock, faults>>
     \/ /\ Spend("redis") /\ Goto(w, "release")
        /\ lock' \in IF lock = Nobody THEN {Nobody, Orphan} ELSE {lock}
  /\ UNCHANGED <<row, rowLock, vectors, queue, token, retries, pubs, delPc>>

\* mark_repair_started_if_owned, and its commit.
Start(w) ==
  /\ pc[w] = "start" /\ rowLock = Nobody
  /\ IF Owned(token[w], {"queued"})
       THEN SetRepair("started", claim) /\ Goto(w, "lock")
       ELSE UNCHANGED <<repair, claim, expired>> /\ Goto(w, "release")
  /\ UNCHANGED <<snapshot, rowLock, vectors, lock, queue, token, retries, pubs, delPc,
                 faults>>

\* lock_started_repair_if_owned, in the transaction of the rebuild.
Lock(w) ==
  /\ pc[w] = "lock" /\ rowLock = Nobody
  /\ IF Owned(token[w], {"started"}) THEN rowLock' = w /\ Goto(w, "delete")
                                     ELSE UNCHANGED rowLock /\ Goto(w, "release")
  /\ UNCHANGED <<row, vectors, lock, queue, token, retries, pubs, delPc, faults>>

\* The heartbeat does not start, the database or an embedding fails.
Raises(w) ==
  /\ pc[w] \in {"start", "lock", "delete"} /\ Spend("database")
  /\ rowLock' = IF rowLock = w THEN Nobody ELSE rowLock
  /\ Goto(w, "requeue")
  /\ UNCHANGED <<row, vectors, lock, queue, token, retries, pubs, delPc>>

\* The two calls of upsert_chunks; a failure rolls the rebuild back.
DeleteVectors(w) ==
  /\ pc[w] = "delete"
  /\ \/ vectors' = "none" /\ Goto(w, "insert") /\ UNCHANGED <<rowLock, faults>>
     \/ MilvusFails("none") /\ rowLock' = Nobody /\ Goto(w, "requeue")
  /\ UNCHANGED <<row, lock, queue, token, retries, pubs, delPc>>

IgnoreFailure(w) ==
  /\ pc[w] = "insert" /\ Goto(w, "finish")
  /\ \/ vectors' = "all" /\ UNCHANGED faults
     \/ MilvusFails("all")
  /\ UNCHANGED <<row, rowLock, lock, queue, token, retries, pubs, delPc>>
InsertVectors(w) ==
  /\ pc[w] = "insert"
  /\ \/ vectors' = "all" /\ Goto(w, "finish") /\ UNCHANGED <<rowLock, faults>>
     \/ MilvusFails("all") /\ rowLock' = Nobody /\ Goto(w, "requeue")
  /\ UNCHANGED <<row, lock, queue, token, retries, pubs, delPc>>

\* finish_repair_if_owned under the row lock, then the fence, then the commit.
FinishRepair(w) ==
  /\ pc[w] = "finish"
  /\ \/ /\ lock = w /\ SetRepair("none", Nobody) /\ Goto(w, "release")
        /\ UNCHANGED faults
     \/ /\ (lock # w /\ UNCHANGED faults) \/ (lock = w /\ Spend("redis"))
        /\ Goto(w, "requeue") /\ UNCHANGED <<repair, claim, expired>>
  /\ rowLock' = Nobody
  /\ UNCHANGED <<snapshot, vectors, lock, queue, token, retries, pubs, delPc>>

\* requeue_repair_if_owned in a session of its own, whose failure is swallowed.
Requeue(w) ==
  /\ pc[w] = "requeue" /\ rowLock = Nobody
  /\ \/ /\ Owned(token[w], {"queued", "started"}) /\ SetRepair("queued", claim)
        /\ UNCHANGED faults
     \/ /\ (~Owned(token[w], {"queued", "started"}) /\ UNCHANGED faults) \/ Spend("database")
        /\ UNCHANGED <<repair, claim, expired>>
  /\ Goto(w, "retry")
  /\ UNCHANGED <<snapshot, rowLock, vectors, lock, queue, token, retries, pubs, delPc>>

\* task.retry publishes before the `finally` releases the lock.
Retry(w) ==
  /\ pc[w] = "retry"
  /\ \/ retries[w] < MaxRetries /\ Put(token[w], retries[w] + 1) /\ UNCHANGED faults
     \/ retries[w] < MaxRetries /\ Spend("broker") /\ UNCHANGED queue
     \/ retries[w] = MaxRetries /\ UNCHANGED <<queue, faults>>
  /\ Goto(w, "release")
  /\ UNCHANGED <<row, rowLock, vectors, lock, token, retries, pubs, delPc>>

EndOfTask(w) ==
  /\ Goto(w, "idle")
  /\ token' = [token EXCEPT ![w] = Nobody]
  /\ retries' = [retries EXCEPT ![w] = 0]

Release(w) ==
  /\ pc[w] = "release"
  /\ Unlock(w) /\ EndOfTask(w)
  /\ UNCHANGED <<row, rowLock, vectors, queue, pubs, delPc>>

\* The process dies: rollback, redelivery, and the lock left to its TTL.
Crash(w) ==
  /\ pc[w] # "idle" /\ Spend("crash")
  /\ Put(token[w], retries[w]) /\ EndOfTask(w)
  /\ lock' = IF lock = w THEN Orphan ELSE lock
  /\ rowLock' = IF rowLock = w THEN Nobody ELSE rowLock
  /\ vectors' \in CASE pc[w] = "delete" -> {vectors, "none"}
                    [] pc[w] = "insert" -> {vectors, "all"}
                    [] OTHER            -> {vectors}
  /\ UNCHANGED <<row, pubs, delPc>>

Work(w) ==
  \/ Receive(w) \/ Acquire(w) \/ Start(w) \/ Lock(w)
  \/ DeleteVectors(w) \/ InsertVectors(w) \/ FinishRepair(w)
  \/ Requeue(w) \/ Retry(w) \/ Release(w)

-----------------------------------------------------------------------------
(* Deletion of the meeting, and time.                                      *)

DelBegin ==
  /\ delPc = "idle" /\ snapshot = "ready" /\ lock = Nobody /\ Spend("delete")
  /\ lock' = "deleter" /\ delPc' = "vectors"
  /\ UNCHANGED <<row, rowLock, vectors, queue, workers, pubs>>

\* Vectors first; a failure answers 503 and keeps the meeting.
RowsOnly ==
  /\ delPc = "vectors" /\ delPc' = "rows"
  /\ UNCHANGED <<row, rowLock, vectors, lock, queue, workers, pubs, faults>>
DelVectors ==
  /\ delPc = "vectors"
  /\ \/ vectors' = "none" /\ delPc' = "rows" /\ UNCHANGED faults
     \/ Spend("removal") /\ vectors' \in {vectors, "none"} /\ delPc' = "release"
  /\ UNCHANGED <<row, rowLock, lock, queue, workers, pubs>>

\* The rows and the objects; the cascade waits for a rebuild's row lock.
DelRows ==
  /\ delPc = "rows" /\ rowLock = Nobody
  /\ \/ snapshot' = "deleted" /\ SetRepair("none", Nobody) /\ UNCHANGED faults
     \/ Spend("removal") /\ UNCHANGED row
  /\ delPc' = "release"
  /\ UNCHANGED <<rowLock, vectors, lock, queue, workers, pubs>>

DelRelease ==
  /\ delPc = "release"
  /\ Unlock("deleter") /\ delPc' = "idle"
  /\ UNCHANGED <<row, rowLock, vectors, queue, workers, pubs>>

Delete == DelVectors \/ DelRows \/ DelRelease

\* repair_lease_expires_at passes, also under somebody who still has the token.
LeaseExpires ==
  /\ repair \in {"queued", "started"} /\ ~expired /\ expired' = TRUE
  /\ (Abandoned /\ UNCHANGED faults) \/ Spend("lease")
  /\ UNCHANGED <<snapshot, repair, claim, rowLock, vectors, lock, queue, workers, pubs,
                 delPc>>

LockExpires ==
  /\ \/ lock = Orphan /\ UNCHANGED faults
     \/ lock \notin {Orphan, Nobody} /\ Spend("expiry")
  /\ lock' = Nobody
  /\ UNCHANGED <<row, rowLock, vectors, queue, workers, pubs, delPc>>

Next ==
  \/ Index \/ NothingToClaim \/ PipelineEnds
  \/ \E p \in Publishers : Publishing(p) \/ PublisherDies(p)
  \/ \E w \in Workers : Work(w) \/ Raises(w) \/ Crash(w)
  \/ DelBegin \/ Delete
  \/ LeaseExpires \/ LockExpires

Spec == Init /\ [][Next]_vars

\* Workers run, the pipeline goes on, beat keeps beating, deletions end, and
\* the leases of the dead run out.
Fairness ==
  /\ \A w \in Workers : WF_vars(Work(w))
  /\ \A p \in Publishers : WF_vars(Publishing(p))
  /\ WF_vars(NothingToClaim) /\ WF_vars(PipelineEnds) /\ WF_vars(Delete)
  /\ WF_vars(LeaseExpires /\ Abandoned)
  /\ WF_vars(LockExpires /\ lock = Orphan)

FairSpec == Spec /\ Fairness

-----------------------------------------------------------------------------
(* Properties.                                                             *)

Steps(w) == pc[w] # pc'[w]

\* The repair state and its token agree; whoever rebuilds the vectors has the
\* row locked and the claim started in its own name.
ClaimInv ==
  /\ repair \in {"queued", "started"} <=> claim # Nobody
  /\ expired => claim # Nobody
  /\ snapshot # "ready" => repair = "none"
  /\ snapshot = "absent" <=> pubPc["pipeline"] = "index"
  /\ delPc # "idle" => snapshot # "absent"
  /\ \A w \in Workers :
        /\ pc[w] \in Rebuilding <=> rowLock = w
        /\ rowLock = w => repair = "started" /\ claim = token[w]
        /\ pc[w] = "idle" <=> token[w] = Nobody
  /\ \A p \in Publishers : pubPc[p] \in {"publish", "restore"} <=> pubToken[p] # Nobody

Happened(kind) == faults[kind] # FaultBudget[kind]

\* PostgreSQL knows when Milvus lacks the vectors of a live meeting: the mark
\* goes away only after a rebuild has put all of them back.  A deletion that
\* fails after it has begun with the vectors leaves no mark.
MissingVectorsAreMarked ==
  snapshot = "ready" /\ repair = "none"
    => vectors = "all" \/ delPc = "rows" \/ Happened("removal")

\* A task whose token is no longer the claim's (a duplicate, a copy of a
\* publish that raised, a worker whose lease was taken) touches nothing.
StaleTokenIsNoop ==
  [][\A w \in Workers : Steps(w) /\ pc[w] # "idle" /\ token[w] # claim
        => UNCHANGED <<row, vectors>>]_vars

\* A repair is never abandoned: it ends, or the meeting is deleted.
RepairEnds == repair # "none" ~> repair = "none"

\* The vectors of a deleted meeting are gone with it, and no rebuild that is
\* still under way puts them back, unless its lock has expired.
NoOrphanVectors == snapshot = "deleted" => vectors = "none" \/ Happened("expiry")
=============================================================================
