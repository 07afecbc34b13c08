------------------------ MODULE RetrievalRepair_proofs ------------------------
(* Theorems about RetrievalRepair, for any workers and tokens, any retry     *)
(* limit and any fault budget.                                               *)
EXTENDS RetrievalRepair, TLAPS

LEMMA SpendType ==
  ASSUME NEW kind \in FaultKinds, faults \in [FaultKinds -> Nat], Spend(kind)
  PROVE  faults' \in [FaultKinds -> Nat]
BY DEF Spend

LEMMA PutType ==
  ASSUME NEW k, NEW r, queue \in [Tokens \X (0..MaxRetries) -> Nat], Put(k, r)
  PROVE  queue' \in [Tokens \X (0..MaxRetries) -> Nat]
<1>1. CASE <<k, r>> \in Tokens \X (0..MaxRetries)
  <2>1. queue[<<k, r>>] \in Nat
    BY <1>1
  <2> QED BY <1>1, <2>1 DEF Put
<1>2. CASE <<k, r>> \notin Tokens \X (0..MaxRetries)
  <2>1. \A m \in Tokens \X (0..MaxRetries) : queue'[m] = queue[m]
    BY <1>2 DEF Put
  <2>2. queue' = [m \in Tokens \X (0..MaxRetries) |-> queue[m]]
    BY <1>2 DEF Put
  <2> QED BY <2>2
<1> QED BY <1>1, <1>2

LEMMA GotoType ==
  ASSUME NEW w \in Workers, NEW label \in Labels, pc \in [Workers -> Labels],
         Goto(w, label)
  PROVE  pc' \in [Workers -> Labels]
BY DEF Goto

LEMMA EndOfTaskType ==
  ASSUME TypeOK, NEW w \in Workers, EndOfTask(w)
  PROVE  /\ pc' \in [Workers -> Labels]
         /\ token' \in [Workers -> Tokens \cup {Nobody}]
         /\ retries' \in [Workers -> 0..MaxRetries]
<1>1. 0 \in 0..MaxRetries
  BY RepairParameters
<1>2. pc' \in [Workers -> Labels]
  BY GotoType DEF EndOfTask, TypeOK, Labels
<1> QED BY <1>1, <1>2 DEF EndOfTask, TypeOK

LEMMA UnlockType ==
  ASSUME TypeOK, NEW h, Unlock(h)
  PROVE  lock' \in Holders /\ faults' \in [FaultKinds -> Nat]
<1>1. "redis" \in FaultKinds
  BY DEF FaultKinds
<1>2. CASE UNCHANGED faults /\ lock' = (IF lock = h THEN Nobody ELSE lock)
  BY <1>2 DEF TypeOK, Holders
<1>3. CASE lock' = Orphan /\ Spend("redis")
  BY <1>1, <1>3, SpendType DEF TypeOK, Holders
<1> QED BY <1>2, <1>3 DEF Unlock

\* A claim, a publish, a restore or a dying publisher.
LEMMA PublisherType ==
  ASSUME TypeOK, NEW p \in Publishers, Publishing(p) \/ PublisherDies(p)
  PROVE  TypeOK'
<1> USE DEF row, workers
<1>1. After(p) \in {"index", "claim", "publish", "restore", "release", "done"}
  BY DEF After
<1>2. "crash" \in FaultKinds /\ "broker" \in FaultKinds
  BY DEF FaultKinds
<1>3. CASE Claim(p)
  BY <1>3 DEF Claim, SetRepair, TypeOK
<1>4. CASE Publish(p)
  <2>1. queue' \in [Tokens \X (0..MaxRetries) -> Nat]
    BY <1>4, PutType DEF Publish, TypeOK
  <2>2. faults' \in [FaultKinds -> Nat]
    BY <1>2, <1>4, SpendType DEF Publish, TypeOK
  <2>3. pubPc' \in [Publishers -> {"index", "claim", "publish", "restore", "release", "done"}]
    BY <1>1, <1>4 DEF Publish, TypeOK
  <2>4. pubToken' \in [Publishers -> Tokens \cup {Nobody}]
    BY <1>4 DEF Publish, Forget, TypeOK
  <2> QED BY <1>4, <2>1, <2>2, <2>3, <2>4 DEF Publish, TypeOK
<1>5. CASE Restore(p)
  BY <1>1, <1>5 DEF Restore, SetRepair, Forget, TypeOK
<1>6. CASE PublisherDies(p)
  <2>1. faults' \in [FaultKinds -> Nat]
    BY <1>2, <1>6, SpendType DEF PublisherDies, TypeOK
  <2> QED BY <1>6, <2>1 DEF PublisherDies, Forget, TypeOK, Holders
<1> QED BY <1>3, <1>4, <1>5, <1>6 DEF Publishing

\* What a worker does.
LEMMA WorkerType ==
  ASSUME TypeOK, NEW w \in Workers, Work(w) \/ Raises(w) \/ Crash(w)
  PROVE  TypeOK'
<1> USE DEF row, pubs
<1>a. {"milvus", "redis", "broker", "database", "crash"} \subseteq FaultKinds
  BY DEF FaultKinds
<1>b. \A kind \in FaultKinds : Spend(kind) => faults' \in [FaultKinds -> Nat]
  BY SpendType DEF TypeOK
<1>c. \A label \in Labels : Goto(w, label) => pc' \in [Workers -> Labels]
  BY GotoType DEF TypeOK
<1>d. {"idle", "acquire", "start", "lock", "requeue", "retry", "release", "delete",
       "insert", "finish"} \subseteq Labels
  BY DEF Labels, Rebuilding
<1>1. CASE Receive(w)
  <2>1. PICK k \in Tokens, r \in 0..MaxRetries :
          /\ queue[<<k, r>>] > 0
          /\ queue' = [queue EXCEPT ![<<k, r>>] = @ - 1]
          /\ token' = [token EXCEPT ![w] = k]
          /\ retries' = [retries EXCEPT ![w] = r]
    BY <1>1 DEF Receive
  <2>2. <<k, r>> \in Tokens \X (0..MaxRetries) /\ queue[<<k, r>>] - 1 \in Nat
    BY <2>1 DEF TypeOK
  <2>3. queue' \in [Tokens \X (0..MaxRetries) -> Nat]
    BY <2>1, <2>2 DEF TypeOK
  <2>4. pc' \in [Workers -> Labels]
    BY <1>1, <1>c, <1>d DEF Receive
  <2> QED BY <1>1, <2>1, <2>3, <2>4 DEF Receive, TypeOK
<1>2. CASE Acquire(w)
  <2>1. faults' \in [FaultKinds -> Nat] /\ pc' \in [Workers -> Labels]
    BY <1>2, <1>a, <1>b, <1>c, <1>d DEF Acquire, TypeOK
  <2>2. lock' \in Holders
    BY <1>2 DEF Acquire, TypeOK, Holders
  <2> QED BY <1>2, <2>1, <2>2 DEF Acquire, TypeOK
<1>3. CASE Start(w)
  <2>1. pc' \in [Workers -> Labels]
    BY <1>3, <1>c, <1>d DEF Start
  <2> QED BY <1>3, <2>1 DEF Start, SetRepair, TypeOK
<1>4. CASE Lock(w)
  <2>1. pc' \in [Workers -> Labels]
    BY <1>4, <1>c, <1>d DEF Lock
  <2> QED BY <1>4, <2>1 DEF Lock, TypeOK
<1>5. CASE DeleteVectors(w) \/ InsertVectors(w)
  <2>1. pc' \in [Workers -> Labels] /\ faults' \in [FaultKinds -> Nat]
    BY <1>5, <1>a, <1>b, <1>c, <1>d DEF DeleteVectors, InsertVectors, MilvusFails, TypeOK
  <2>2. vectors' \in {"none", "all"}
    BY <1>5 DEF DeleteVectors, InsertVectors, MilvusFails, TypeOK
  <2> QED BY <1>5, <2>1, <2>2 DEF DeleteVectors, InsertVectors, TypeOK
<1>6. CASE FinishRepair(w)
  <2>1. pc' \in [Workers -> Labels] /\ faults' \in [FaultKinds -> Nat]
    BY <1>6, <1>a, <1>b, <1>c, <1>d DEF FinishRepair, TypeOK
  <2> QED BY <1>6, <2>1 DEF FinishRepair, SetRepair, TypeOK
<1>7. CASE Requeue(w)
  <2>1. pc' \in [Workers -> Labels] /\ faults' \in [FaultKinds -> Nat]
    BY <1>7, <1>a, <1>b, <1>c, <1>d DEF Requeue, TypeOK
  <2> QED BY <1>7, <2>1 DEF Requeue, SetRepair, TypeOK
<1>8. CASE Retry(w)
  <2>1. pc' \in [Workers -> Labels] /\ faults' \in [FaultKinds -> Nat]
    BY <1>8, <1>a, <1>b, <1>c, <1>d DEF Retry, TypeOK
  <2>2. queue' \in [Tokens \X (0..MaxRetries) -> Nat]
    BY <1>8, PutType DEF Retry, TypeOK
  <2> QED BY <1>8, <2>1, <2>2 DEF Retry, TypeOK
<1>9. CASE Release(w)
  <2>1. lock' \in Holders /\ faults' \in [FaultKinds -> Nat]
    BY <1>9, UnlockType DEF Release
  <2> QED BY <1>9, <2>1, EndOfTaskType DEF Release, TypeOK
<1>10. CASE Raises(w)
  <2>1. pc' \in [Workers -> Labels] /\ faults' \in [FaultKinds -> Nat]
    BY <1>10, <1>a, <1>b, <1>c, <1>d DEF Raises
  <2> QED BY <1>10, <2>1 DEF Raises, TypeOK
<1>11. CASE Crash(w)
  <2>1. queue' \in [Tokens \X (0..MaxRetries) -> Nat]
    BY <1>11, PutType DEF Crash, TypeOK
  <2>2. faults' \in [FaultKinds -> Nat]
    BY <1>11, <1>a, <1>b DEF Crash
  <2>3. vectors' \in {"none", "all"}
    BY <1>11 DEF Crash, TypeOK
  <2>4. lock' \in Holders /\ rowLock' \in Workers \cup {Nobody}
    BY <1>11 DEF Crash, TypeOK, Holders
  <2> QED BY <1>11, <2>1, <2>2, <2>3, <2>4, EndOfTaskType DEF Crash, TypeOK
<1> QED BY <1>1, <1>2, <1>3, <1>4, <1>5, <1>6, <1>7, <1>8, <1>9, <1>10, <1>11 DEF Work

LEMMA TypeNext ==
  ASSUME TypeOK, [Next]_vars
  PROVE  TypeOK'
<1> USE DEF row, workers, pubs
<1>a. \A kind \in FaultKinds : Spend(kind) => faults' \in [FaultKinds -> Nat]
  BY SpendType DEF TypeOK
<1>b. {"milvus", "removal", "lease", "expiry", "delete"} \subseteq FaultKinds
  BY DEF FaultKinds
<1>1. CASE Index
  <2>1. faults' \in [FaultKinds -> Nat]
    BY <1>1, <1>a, <1>b DEF Index, MilvusFails, TypeOK
  <2> QED BY <1>1, <2>1 DEF Index, MilvusFails, TypeOK, Holders
<1>2. CASE NothingToClaim
  BY <1>2 DEF NothingToClaim, TypeOK
<1>3. CASE PipelineEnds
  <2>1. lock' \in Holders /\ faults' \in [FaultKinds -> Nat]
    BY <1>3, UnlockType DEF PipelineEnds
  <2> QED BY <1>3, <2>1 DEF PipelineEnds, TypeOK
<1>4. ASSUME NEW p \in Publishers, Publishing(p) \/ PublisherDies(p) PROVE TypeOK'
  BY <1>4, PublisherType
<1>5. ASSUME NEW w \in Workers, Work(w) \/ Raises(w) \/ Crash(w) PROVE TypeOK'
  BY <1>5, WorkerType
<1>6. CASE DelBegin
  <2>1. faults' \in [FaultKinds -> Nat]
    BY <1>6, <1>a, <1>b DEF DelBegin
  <2> QED BY <1>6, <2>1 DEF DelBegin, TypeOK, Holders
<1>7. CASE DelVectors
  <2>1. faults' \in [FaultKinds -> Nat]
    BY <1>7, <1>a, <1>b DEF DelVectors, MilvusFails, TypeOK
  <2> QED BY <1>7, <2>1 DEF DelVectors, MilvusFails, TypeOK
<1>8. CASE DelRows
  <2>1. faults' \in [FaultKinds -> Nat]
    BY <1>8, <1>a, <1>b DEF DelRows, TypeOK
  <2> QED BY <1>8, <2>1 DEF DelRows, SetRepair, TypeOK
<1>9. CASE DelRelease
  <2>1. lock' \in Holders /\ faults' \in [FaultKinds -> Nat]
    BY <1>9, UnlockType DEF DelRelease
  <2> QED BY <1>9, <2>1 DEF DelRelease, TypeOK
<1>10. CASE LeaseExpires
  <2>1. faults' \in [FaultKinds -> Nat]
    BY <1>10, <1>a, <1>b DEF LeaseExpires, TypeOK
  <2> QED BY <1>10, <2>1 DEF LeaseExpires, TypeOK
<1>11. CASE LockExpires
  <2>1. faults' \in [FaultKinds -> Nat]
    BY <1>11, <1>a, <1>b DEF LockExpires, TypeOK
  <2> QED BY <1>11, <2>1 DEF LockExpires, TypeOK, Holders
<1>12. CASE UNCHANGED vars
  BY <1>12 DEF vars, TypeOK
<1> QED BY <1>1, <1>2, <1>3, <1>4, <1>5, <1>6, <1>7, <1>8, <1>9, <1>10, <1>11, <1>12
        DEF Next, Delete

THEOREM TypeCorrect == Spec => []TypeOK
<1>1. Init => TypeOK
  <2>1. 0 \in 0..MaxRetries
    BY RepairParameters
  <2>2. ASSUME Init PROVE faults \in [FaultKinds -> Nat]
    BY <2>2, RepairParameters DEF Init
  <2>3. ASSUME Init PROVE lock \in Holders /\ rowLock \in Workers \cup {Nobody}
    BY <2>3 DEF Init, Holders
  <2>4. ASSUME Init
        PROVE  pubPc \in [Publishers -> {"index", "claim", "publish", "restore", "release",
                                         "done"}]
    BY <2>4 DEF Init
  <2>5. ASSUME Init
        PROVE  /\ queue \in [Tokens \X (0..MaxRetries) -> Nat]
               /\ pc \in [Workers -> Labels]
               /\ token \in [Workers -> Tokens \cup {Nobody}]
               /\ retries \in [Workers -> 0..MaxRetries]
    BY <2>1, <2>5 DEF Init, Labels
  <2>6. ASSUME Init PROVE pubToken \in [Publishers -> Tokens \cup {Nobody}]
    BY <2>6 DEF Init
  <2> QED BY <2>2, <2>3, <2>4, <2>5, <2>6 DEF Init, TypeOK
<1> QED BY <1>1, TypeNext, PTL DEF Spec
-----------------------------------------------------------------------------
(* The claims and the row lock.                                            *)

LEMMA ClaimOfPublisher ==
  ASSUME TypeOK, ClaimInv, NEW p \in Publishers, Publishing(p) \/ PublisherDies(p)
  PROVE  ClaimInv'
<1> USE DEF TypeOK, ClaimInv, row, workers, Rebuilding, Nobody, Publishers
<1>1. CASE Claim(p)
  <2>1. /\ UNCHANGED <<snapshot, rowLock, pc, token, delPc>>
        /\ rowLock = Nobody /\ snapshot = "ready" /\ pubPc[p] = "claim"
        /\ repair' = "queued" /\ expired' = FALSE
        /\ pubPc' = [pubPc EXCEPT ![p] = "publish"]
    BY <1>1 DEF Claim, SetRepair
  <2>2. PICK k \in Tokens : claim' = k /\ pubToken' = [pubToken EXCEPT ![p] = k]
    BY <1>1 DEF Claim, SetRepair
  <2>3. k # Nobody
    BY Names
  <2>4. \A w \in Workers : /\ pc'[w] \notin Rebuilding /\ rowLock' # w
                           /\ pc'[w] = "idle" <=> token'[w] = Nobody
    BY <2>1, Names
  <2>5. \A q \in Publishers : pubPc'[q] \in {"publish", "restore"} <=> pubToken'[q] # Nobody
    BY <2>1, <2>2, <2>3
  <2>6. snapshot' = "absent" <=> pubPc'["pipeline"] = "index"
    BY <2>1
  <2> QED BY <2>1, <2>2, <2>3, <2>4, <2>5, <2>6
<1>2. CASE Publish(p)
  BY <1>2 DEF Publish, Forget, After
<1>3. CASE Restore(p)
  BY <1>3, Names DEF Restore, SetRepair, Forget, After, Owned
<1>4. CASE PublisherDies(p)
  BY <1>4 DEF PublisherDies, Forget
<1> QED BY <1>1, <1>2, <1>3, <1>4 DEF Publishing

\* The worker that rebuilds is the only one, and the claim stays its own.
LEMMA ClaimOfWorker ==
  ASSUME TypeOK, ClaimInv, NEW w \in Workers, Work(w) \/ Raises(w) \/ Crash(w)
  PROVE  ClaimInv'
<1> USE DEF TypeOK, ClaimInv, row, pubs, Rebuilding, Goto
<1>n. Nobody \notin Workers /\ Nobody \notin Tokens
  BY Names
<1>1. CASE Receive(w)
  BY <1>1, <1>n DEF Receive
<1>2. CASE Acquire(w)
  BY <1>2, <1>n DEF Acquire
<1>3. CASE Start(w)
  BY <1>3, <1>n DEF Start, Owned, SetRepair
<1>4. CASE Lock(w)
  BY <1>4, <1>n DEF Lock, Owned
<1>5. CASE DeleteVectors(w) \/ InsertVectors(w)
  BY <1>5, <1>n DEF DeleteVectors, InsertVectors
<1>6. CASE FinishRepair(w)
  BY <1>6, <1>n DEF FinishRepair, SetRepair
<1>7. CASE Requeue(w)
  BY <1>7, <1>n DEF Requeue, Owned, SetRepair
<1>8. CASE Retry(w)
  BY <1>8, <1>n DEF Retry
<1>9. CASE Release(w)
  BY <1>9, <1>n DEF Release, EndOfTask
<1>10. CASE Raises(w)
  BY <1>10, <1>n DEF Raises
<1>11. CASE Crash(w)
  BY <1>11, <1>n DEF Crash, EndOfTask
<1> QED BY <1>1, <1>2, <1>3, <1>4, <1>5, <1>6, <1>7, <1>8, <1>9, <1>10, <1>11 DEF Work

\* A claim has its token as long as somebody may act on it, and a rebuild has
\* the row to itself.
THEOREM ClaimCorrect == Spec => []ClaimInv
<1>1. Init => ClaimInv
  BY Names DEF Init, ClaimInv, Rebuilding, Nobody, Publishers
<1>2. TypeOK /\ ClaimInv /\ [Next]_vars => ClaimInv'
  <2> SUFFICES ASSUME TypeOK, ClaimInv, [Next]_vars PROVE ClaimInv'
    OBVIOUS
  <2> USE DEF TypeOK, ClaimInv, row, workers, pubs, Publishers
  <2>1. CASE Index
    BY <2>1 DEF Index
  <2>2. CASE NothingToClaim \/ PipelineEnds
    BY <2>2 DEF NothingToClaim, PipelineEnds
  <2>3. CASE DelBegin \/ DelVectors \/ DelRelease \/ LockExpires
    BY <2>3 DEF DelBegin, DelVectors, DelRelease, LockExpires
  <2>4. CASE DelRows
    <3>1. \A w \in Workers : rowLock # w /\ pc[w] \notin Rebuilding
      BY <2>4, Names DEF DelRows
    <3>2. snapshot # "absent"
      BY <2>4 DEF DelRows
    <3>3. CASE snapshot' = "deleted" /\ SetRepair("none", Nobody)
      BY <2>4, <3>1, <3>2, <3>3, Names DEF DelRows, SetRepair, Nobody
    <3>4. CASE UNCHANGED row
      BY <2>4, <3>4 DEF DelRows
    <3> QED BY <2>4, <3>3, <3>4 DEF DelRows
  <2>5. CASE LeaseExpires
    BY <2>5, Names DEF LeaseExpires
  <2>6. CASE UNCHANGED vars
    BY <2>6 DEF vars
  <2> QED BY <2>1, <2>2, <2>3, <2>4, <2>5, <2>6, ClaimOfPublisher, ClaimOfWorker
          DEF Next, Delete
<1> QED BY <1>1, <1>2, TypeCorrect, PTL DEF Spec
-----------------------------------------------------------------------------
(* What the claims are for.                                                *)

LEMMA StaleStep ==
  ASSUME TypeOK, ClaimInv, [Next]_vars, NEW w \in Workers,
         Steps(w), pc[w] # "idle", token[w] # claim
  PROVE  UNCHANGED <<row, vectors>>
<1> USE DEF TypeOK, Goto
<1>1. pc[w] \notin Rebuilding
  BY DEF ClaimInv
<1>2. UNCHANGED pc => FALSE
  BY DEF Steps
<1>3. ASSUME NEW v \in Workers, Work(v) \/ Raises(v) \/ Crash(v), v # w PROVE pc'[w] = pc[w]
  BY <1>3 DEF Work, Receive, Acquire, Start, Lock, DeleteVectors, InsertVectors,
     FinishRepair, Requeue, Retry, Release, EndOfTask, Raises, Crash
<1>4. ASSUME Work(w) \/ Raises(w) \/ Crash(w) PROVE UNCHANGED <<row, vectors>>
  <2>1. ~Receive(w) /\ ~DeleteVectors(w) /\ ~InsertVectors(w) /\ ~FinishRepair(w)
    BY <1>1 DEF Receive, DeleteVectors, InsertVectors, FinishRepair, Rebuilding
  <2>2. CASE Acquire(w) \/ Lock(w) \/ Retry(w) \/ Release(w) \/ Raises(w)
    BY <2>2 DEF Acquire, Lock, Retry, Release, Raises
  <2>3. CASE Start(w) \/ Requeue(w)
    BY <2>3 DEF Start, Requeue, Owned, row
  <2>4. CASE Crash(w)
    BY <1>1, <2>4 DEF Crash, Rebuilding
  <2> QED BY <1>4, <2>1, <2>2, <2>3, <2>4 DEF Work
<1>5. ASSUME NEW p \in Publishers, Publishing(p) \/ PublisherDies(p) PROVE UNCHANGED pc
  BY <1>5 DEF Publishing, Claim, Publish, Restore, PublisherDies, workers
<1>6. ASSUME \/ Index \/ NothingToClaim \/ PipelineEnds \/ DelBegin \/ Delete
             \/ LeaseExpires \/ LockExpires \/ UNCHANGED vars
      PROVE  UNCHANGED pc
  BY <1>6 DEF Index, NothingToClaim, PipelineEnds, DelBegin, Delete, DelVectors, DelRows,
     DelRelease, LeaseExpires, LockExpires, workers, vars
<1>7. PICK v \in Workers : Work(v) \/ Raises(v) \/ Crash(v)
  BY <1>2, <1>5, <1>6 DEF Next
<1>8. v = w
  BY <1>3, <1>7 DEF Steps
<1> QED BY <1>4, <1>7, <1>8

\* A worker whose token is not the claim's changes neither the row nor Milvus.
THEOREM StaleTheorem == Spec => StaleTokenIsNoop
<1>1. TypeOK /\ ClaimInv /\ [Next]_vars
        => [\A w \in Workers : Steps(w) /\ pc[w] # "idle" /\ token[w] # claim
              => UNCHANGED <<row, vectors>>]_vars
  BY StaleStep
<1> QED BY <1>1, TypeCorrect, ClaimCorrect, PTL DEF Spec, StaleTokenIsNoop

\* No kind of fault is forgotten: what is left of the budget never grows.
LEMMA Spent ==
  ASSUME TypeOK, NEW k \in FaultKinds, Spend(k), NEW kind \in FaultKinds
  PROVE  faults'[kind] = faults[kind] \/ (kind = k /\ faults'[kind] = faults[kind] - 1)
BY DEF Spend, TypeOK

LEMMA BudgetShrinks ==
  ASSUME TypeOK, [Next]_vars, NEW kind \in FaultKinds
  PROVE  faults'[kind] <= faults[kind]
<1>1. \A k \in FaultKinds : Spend(k) => faults'[kind] <= faults[kind]
  BY Spent DEF TypeOK
<1>2. {"milvus", "redis", "broker", "database", "crash", "lease", "expiry", "delete",
       "removal"} = FaultKinds
  BY DEF FaultKinds
<1>3. UNCHANGED faults => faults'[kind] <= faults[kind]
  BY DEF TypeOK
<1>4. ASSUME NEW w \in Workers, Work(w) \/ Raises(w) \/ Crash(w)
      PROVE  faults'[kind] <= faults[kind]
  BY <1>1, <1>2, <1>3, <1>4 DEF Work, Receive, Acquire, Start, Lock, DeleteVectors,
     InsertVectors, MilvusFails, FinishRepair, Requeue, Retry, Release, Unlock, Raises, Crash
<1>5. ASSUME NEW p \in Publishers, Publishing(p) \/ PublisherDies(p)
      PROVE  faults'[kind] <= faults[kind]
  BY <1>1, <1>2, <1>3, <1>5 DEF Publishing, Claim, Publish, Restore, PublisherDies
<1>6. ASSUME \/ Index \/ NothingToClaim \/ PipelineEnds \/ DelBegin \/ Delete
             \/ LeaseExpires \/ LockExpires \/ UNCHANGED vars
      PROVE  faults'[kind] <= faults[kind]
  BY <1>1, <1>2, <1>3, <1>6 DEF Index, MilvusFails, NothingToClaim, PipelineEnds, Unlock,
     DelBegin, Delete, DelVectors, DelRows, DelRelease, LeaseExpires, LockExpires, vars
<1> QED BY <1>4, <1>5, <1>6 DEF Next

BudgetInv == \A kind \in FaultKinds : faults[kind] <= FaultBudget[kind]

\* What has happened has happened.
LEMMA HappenedStays ==
  ASSUME TypeOK, BudgetInv, [Next]_vars, NEW kind \in FaultKinds
  PROVE  /\ Happened(kind) => Happened(kind)'
         /\ faults'[kind] < faults[kind] => Happened(kind)'
         /\ faults'[kind] <= FaultBudget[kind]
BY BudgetShrinks, TypeNext, RepairParameters DEF BudgetInv, Happened, TypeOK

LEMMA SpentHappened ==
  ASSUME TypeOK, BudgetInv, [Next]_vars, NEW kind \in FaultKinds, Spend(kind)
  PROVE  Happened(kind)'
<1>1. faults'[kind] < faults[kind]
  BY DEF Spend, TypeOK
<1> QED BY <1>1, HappenedStays

LEMMA BudgetCorrect == Spec => []BudgetInv
<1>1. Init => BudgetInv
  BY RepairParameters DEF Init, BudgetInv
<1>2. TypeOK /\ BudgetInv /\ [Next]_vars => BudgetInv'
  BY HappenedStays DEF BudgetInv
<1> QED BY <1>1, <1>2, TypeCorrect, PTL DEF Spec

\* Until a deletion has failed: the mark is right while none has removed the
\* vectors, every rebuild that reaches the last step has put all of them back,
\* and a deletion that is over has taken the row with it.
MarkedInv ==
  ~Happened("removal") =>
    /\ delPc \in {"idle", "vectors"} =>
         /\ snapshot = "ready" /\ repair = "none" => vectors = "all"
         /\ \A w \in Workers : pc[w] = "finish" => vectors = "all"
    /\ delPc = "release" => snapshot = "deleted"

\* The vectors and the mark under a worker's step.
LEMMA MarkedOfWorker ==
  ASSUME TypeOK, ClaimInv, MarkedInv, NEW w \in Workers, Work(w) \/ Raises(w) \/ Crash(w),
         ~Happened("removal")
  PROVE  MarkedInv'
<1> USE DEF TypeOK, Goto, row, pubs
<1>1. pc[w] \in Rebuilding => /\ repair = "started"
                             /\ \A v \in Workers : v # w => pc[v] \notin Rebuilding
  BY DEF ClaimInv
<1>2. CASE Receive(w) \/ Acquire(w) \/ Lock(w) \/ Retry(w)
  BY <1>2 DEF Receive, Acquire, Lock, Retry, MarkedInv
<1>3. CASE Start(w) \/ Requeue(w)
  BY <1>3 DEF Start, Requeue, SetRepair, MarkedInv
<1>4. CASE DeleteVectors(w) \/ InsertVectors(w)
  BY <1>1, <1>4 DEF DeleteVectors, InsertVectors, Rebuilding, MarkedInv
<1>5. CASE FinishRepair(w)
  BY <1>1, <1>5 DEF FinishRepair, SetRepair, Rebuilding, MarkedInv
<1>6. CASE Raises(w)
  BY <1>6 DEF Raises, MarkedInv
<1>7. CASE Release(w)
  BY <1>7 DEF Release, EndOfTask, MarkedInv
<1>8. CASE Crash(w)
  BY <1>1, <1>8 DEF Crash, EndOfTask, Rebuilding, MarkedInv
<1> QED BY <1>2, <1>3, <1>4, <1>5, <1>6, <1>7, <1>8 DEF Work

\* And under a step of the deletion.
LEMMA MarkedOfDeletion ==
  ASSUME TypeOK, ClaimInv, BudgetInv, MarkedInv, [Next]_vars, DelBegin \/ Delete,
         ~Happened("removal"), ~Happened("removal")'
  PROVE  MarkedInv'
<1> USE DEF MarkedInv, row, workers, pubs
<1>1. ~Spend("removal")
  BY SpentHappened DEF FaultKinds
<1>2. CASE DelBegin
  BY <1>2 DEF DelBegin
<1>3. CASE DelVectors
  BY <1>1, <1>3 DEF DelVectors
<1>4. CASE DelRows
  BY <1>1, <1>4 DEF DelRows, SetRepair
<1>5. CASE DelRelease
  <2>1. \A w \in Workers : pc[w] \notin Rebuilding
    BY <1>5, Names DEF DelRelease, ClaimInv, Nobody
  <2> QED BY <1>5, <2>1 DEF DelRelease, Rebuilding
<1> QED BY <1>2, <1>3, <1>4, <1>5 DEF Delete

\* Milvus lacks vectors of a live meeting only with the mark, unless a deletion
\* has begun with them.
THEOREM MarkedTheorem == Spec => []MissingVectorsAreMarked
<1>1. Init => MarkedInv
  BY DEF Init, MarkedInv
<1>2. TypeOK /\ ClaimInv /\ BudgetInv /\ MarkedInv /\ [Next]_vars => MarkedInv'
  <2> SUFFICES ASSUME TypeOK, ClaimInv, BudgetInv, MarkedInv, [Next]_vars,
                      ~Happened("removal")'
               PROVE  MarkedInv'
    BY DEF MarkedInv
  <2>1. ~Happened("removal")
    BY HappenedStays DEF FaultKinds
  <2>2. ASSUME NEW w \in Workers, Work(w) \/ Raises(w) \/ Crash(w) PROVE MarkedInv'
    BY <2>1, <2>2, MarkedOfWorker
  <2>3. ASSUME NEW p \in Publishers, Publishing(p) \/ PublisherDies(p) PROVE MarkedInv'
    BY <2>1, <2>3 DEF Publishing, Claim, Publish, Restore, PublisherDies, SetRepair, row,
       workers, MarkedInv
  <2>4. CASE Index
    <3>1. \A w \in Workers : pc[w] \notin Rebuilding
      BY <2>4 DEF Index, ClaimInv
    <3>2. delPc = "idle"
      BY <2>4 DEF Index, ClaimInv
    <3> QED BY <2>1, <2>4, <3>1, <3>2 DEF Index, Rebuilding, workers, MarkedInv
  <2>5. CASE NothingToClaim \/ PipelineEnds \/ LeaseExpires \/ LockExpires \/ UNCHANGED vars
    BY <2>1, <2>5 DEF NothingToClaim, PipelineEnds, LeaseExpires, LockExpires, vars, row,
       workers, MarkedInv
  <2>6. CASE DelBegin \/ Delete
    BY <2>1, <2>6, MarkedOfDeletion
  <2> QED BY <2>2, <2>3, <2>4, <2>5, <2>6 DEF Next
<1>3. TypeOK /\ MarkedInv => MissingVectorsAreMarked
  BY DEF TypeOK, MarkedInv, MissingVectorsAreMarked
<1> QED BY <1>1, <1>2, <1>3, TypeCorrect, ClaimCorrect, BudgetCorrect, PTL DEF Spec

\* While the locks outlive their holders, the lock keeps the deletion and the
\* rebuilds of the vectors apart.
ApartInv ==
  ~Happened("expiry") =>
    /\ \A w \in Workers : pc[w] \in {"start", "lock"} \cup Rebuilding => lock = w
    /\ delPc \in {"vectors", "rows"} => lock = "deleter"
    /\ delPc = "rows" => vectors = "none"
    /\ snapshot = "deleted" => vectors = "none"

LEMMA ApartOfWorker ==
  ASSUME TypeOK, ClaimInv, ApartInv, NEW w \in Workers, Work(w) \/ Raises(w) \/ Crash(w),
         ~Happened("expiry")
  PROVE  ApartInv'
<1> USE DEF TypeOK, Goto, row, pubs, ApartInv, Rebuilding
<1>1. "deleter" # w /\ Nobody # w /\ Nobody # "deleter"
  BY Names DEF Nobody
<1>2. pc[w] \in Rebuilding => snapshot = "ready" /\ delPc # "rows"
  BY <1>1 DEF ClaimInv
<1>3. CASE Receive(w) \/ Lock(w) \/ Retry(w)
  BY <1>3 DEF Receive, Lock, Retry
<1>4. CASE Acquire(w)
  BY <1>1, <1>4, Names DEF Acquire, Nobody
<1>5. CASE Start(w) \/ Requeue(w)
  BY <1>5 DEF Start, Requeue
<1>6. CASE DeleteVectors(w) \/ InsertVectors(w)
  BY <1>1, <1>2, <1>6 DEF DeleteVectors, InsertVectors
<1>7. CASE FinishRepair(w)
  BY <1>7 DEF FinishRepair
<1>8. CASE Raises(w)
  BY <1>8 DEF Raises
<1>9. CASE Release(w)
  BY <1>1, <1>9 DEF Release, Unlock, EndOfTask
<1>10. CASE Crash(w)
  BY <1>1, <1>2, <1>10 DEF Crash, EndOfTask
<1> QED BY <1>3, <1>4, <1>5, <1>6, <1>7, <1>8, <1>9, <1>10 DEF Work

\* The vectors of a deleted meeting do not come back, unless a lock expires
\* under its holder.
THEOREM NoOrphanTheorem == Spec => []NoOrphanVectors
<1>1. Init => ApartInv
  BY DEF Init, ApartInv, Rebuilding
<1>2. TypeOK /\ ClaimInv /\ BudgetInv /\ ApartInv /\ [Next]_vars => ApartInv'
  <2> SUFFICES ASSUME TypeOK, ClaimInv, BudgetInv, ApartInv, [Next]_vars,
                      ~Happened("expiry")'
               PROVE  ApartInv'
    BY DEF ApartInv
  <2> USE DEF ApartInv, row, workers, pubs
  <2>1. ~Happened("expiry") /\ ~Spend("expiry")
    BY HappenedStays, SpentHappened DEF FaultKinds
  <2>2. \A w \in Workers : w \notin {"pipeline", "beat", "deleter", Orphan, Nobody}
    BY Names DEF Publishers
  <2>3. ASSUME NEW w \in Workers, Work(w) \/ Raises(w) \/ Crash(w) PROVE ApartInv'
    BY <2>1, <2>3, ApartOfWorker
  <2>4. ASSUME NEW p \in Publishers, Publishing(p) \/ PublisherDies(p) PROVE ApartInv'
    <3>1. UNCHANGED <<snapshot, pc, vectors, delPc>>
      BY <2>4 DEF Publishing, Claim, Publish, Restore, PublisherDies, SetRepair
    <3>2. UNCHANGED lock \/ (lock = p /\ lock' = Orphan)
      BY <2>4 DEF Publishing, Claim, Publish, Restore, PublisherDies
    <3> QED BY <2>1, <2>2, <3>1, <3>2 DEF Publishers
  <2>5. CASE Index
    <3>1. delPc = "idle"
      BY <2>5 DEF Index, ClaimInv
    <3>2. \A w \in Workers : pc[w] \notin {"start", "lock"} \cup Rebuilding
      BY <2>1, <2>2, <2>5 DEF Index
    <3> QED BY <2>1, <2>5, <3>1, <3>2 DEF Index
  <2>6. CASE NothingToClaim \/ PipelineEnds
    BY <2>1, <2>2, <2>6 DEF NothingToClaim, PipelineEnds, Unlock
  <2>7. CASE DelBegin \/ DelVectors \/ DelRows \/ DelRelease
    BY <2>1, <2>2, <2>7 DEF DelBegin, DelVectors, DelRows, DelRelease, Unlock
  <2>8. CASE LeaseExpires \/ UNCHANGED vars
    BY <2>1, <2>8 DEF LeaseExpires, vars
  <2>9. CASE LockExpires
    BY <2>1, <2>2, <2>9 DEF LockExpires, Orphan
  <2> QED BY <2>3, <2>4, <2>5, <2>6, <2>7, <2>8, <2>9 DEF Next, Delete
<1>3. ApartInv => NoOrphanVectors
  BY DEF ApartInv, NoOrphanVectors
<1> QED BY <1>1, <1>2, <1>3, TypeCorrect, ClaimCorrect, BudgetCorrect, PTL DEF Spec
=============================================================================
