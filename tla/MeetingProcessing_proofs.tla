----------------------- MODULE MeetingProcessing_proofs -----------------------
(* Theorems about MeetingProcessing, for any number of workers and calls,    *)
(* any retry limit and any fault budget.                                     *)
EXTENDS MeetingProcessing, TLAPS

LEMMA SpendType ==
  ASSUME NEW kind \in FaultKinds, faults \in [FaultKinds -> Nat], Spend(kind)
  PROVE  faults' \in [FaultKinds -> Nat]
BY DEF Spend

LEMMA PutType ==
  ASSUME NEW r \in 0..MaxRetries, queue \in [0..MaxRetries -> Nat], Put(r)
  PROVE  queue' \in [0..MaxRetries -> Nat]
BY DEF Put

LEMMA TakeType ==
  ASSUME NEW r \in 0..MaxRetries, queue \in [0..MaxRetries -> Nat], queue[r] > 0,
         queue' = [queue EXCEPT ![r] = @ - 1]
  PROVE  queue' \in [0..MaxRetries -> Nat]
OBVIOUS

LEMMA ModType ==
  ASSUME NEW n \in Nat
  PROVE  (n + 1) % AttemptsMod \in 0..(AttemptsMod - 1)
BY Parameters

LEMMA GotoType ==
  ASSUME NEW w \in Workers, NEW label \in Labels, pc \in [Workers -> Labels],
         Goto(w, label)
  PROVE  pc' \in [Workers -> Labels]
BY DEF Goto

LEMMA LeaveType ==
  ASSUME NEW w \in Workers, NEW how \in {"ack", "retry"},
         pc \in [Workers -> Labels], outcome \in [Workers -> {"ack", "retry"}],
         Leave(w, how)
  PROVE  /\ pc' \in [Workers -> Labels]
         /\ outcome' \in [Workers -> {"ack", "retry"}]
BY DEF Leave, Goto, Labels, Holding

LEMMA ForgetType ==
  ASSUME TypeOK, NEW w \in Workers, Forget(w)
  PROVE  /\ seen' \in [Workers -> Statuses \cup {"expired"}]
         /\ seenAttempts' \in [Workers -> 0..(AttemptsMod - 1)]
         /\ lost' \in [Workers -> BOOLEAN]
         /\ superseded' \in SUBSET Workers
BY Parameters DEF Forget, TypeOK, Statuses

LEMMA LabelsHave ==
  {"idle", "acquire", "settle", "load", "requeue", "start", "repair", "fail",
   "release", "transcribe", "checkpoint", "extract", "index", "commit"} \subseteq Labels
BY DEF Labels, Holding, Stages

LEMMA TypeNext ==
  ASSUME TypeOK, [Next]_vars
  PROVE  TypeOK'
<1> USE DEF TypeOK, Statuses, Free, Orphan, Deleter, NoResult,
            durable, workerVars, callVars, Exists, Flush, Believers
<1>a. ASSUME NEW k \in FaultKinds, Spend(k) PROVE faults' \in [FaultKinds -> Nat]
  BY <1>a, SpendType
<1>b. ASSUME NEW r \in 0..MaxRetries, Put(r) PROVE queue' \in [0..MaxRetries -> Nat]
  BY <1>b, PutType
<1>c. ASSUME NEW r \in 0..MaxRetries, queue[r] > 0,
             queue' = [queue EXCEPT ![r] = @ - 1]
      PROVE  queue' \in [0..MaxRetries -> Nat]
  BY <1>c, TakeType
<1>d. 0 \in 0..MaxRetries /\ 0 \in 0..(AttemptsMod - 1)
  BY Parameters
<1>k. {"expiry", "redis", "crash", "broker", "storage", "delete"} \subseteq FaultKinds
  BY DEF FaultKinds
<1>l. \A w \in Workers, label \in Labels : Goto(w, label) => pc' \in [Workers -> Labels]
  BY GotoType
<1>m. \A w \in Workers, how \in {"ack", "retry"} : Leave(w, how) =>
         /\ pc' \in [Workers -> Labels]
         /\ outcome' \in [Workers -> {"ack", "retry"}]
  BY LeaveType
<1>1. ASSUME NEW c \in Calls, Upload(c) PROVE TypeOK'
  <2>1. CASE UploadRead(c)        BY <2>1 DEF UploadRead
  <2>2. CASE UploadWrite(c)       BY <2>2 DEF UploadWrite, CallEnds
  <2>3. CASE UploadFails(c)
    <3>1. faults' \in [FaultKinds -> Nat]
      BY <2>3, <1>a, <1>k DEF UploadFails
    <3> QED BY <2>3, <3>1 DEF UploadFails, CallEnds
  <2> QED BY <1>1, <2>1, <2>2, <2>3 DEF Upload
<1>2. ASSUME NEW c \in Calls, Call(c) PROVE TypeOK'
  <2>1. CASE CallRead(c)          BY <2>1 DEF CallRead
  <2>2. CASE CallWrite(c)
    <3>1. CASE Exists   BY <2>2, <3>1, SMTT(30) DEF CallWrite
    <3>2. CASE ~Exists  BY <2>2, <3>2, ZenonT(60) DEF CallWrite, CallEnds
    <3> QED BY <3>1, <3>2
  <2>3. CASE CallPublish(c)       BY <2>3, <1>b, <1>d, SMTT(30) DEF CallPublish, CallEnds
  <2>4. CASE CallPublishFails(c)
    <3>1. queue' \in [0..MaxRetries -> Nat] /\ faults' \in [FaultKinds -> Nat]
      BY <2>4, <1>a, <1>b, <1>d, <1>k DEF CallPublishFails
    <3> QED BY <2>4, <3>1, SMTT(30) DEF CallPublishFails
  <2>5. CASE CallUndo(c)          BY <2>5 DEF CallUndo, CallEnds
  <2>6. CASE CallDies(c)
    <3>1. faults' \in [FaultKinds -> Nat]
      BY <2>6, <1>a, <1>k DEF CallDies
    <3> QED BY <2>6, <3>1 DEF CallDies, CallEnds
  <2> QED BY <1>2, <2>1, <2>2, <2>3, <2>4, <2>5, <2>6 DEF Call
<1>3. CASE Reconcile
  <2>1. CASE ReconScan     BY <2>1 DEF ReconScan
  <2>2. CASE ReconPublish
    <3>1. queue' \in [0..MaxRetries -> Nat] /\ faults' \in [FaultKinds -> Nat]
      BY <2>2, <1>a, <1>b, <1>d, <1>k DEF ReconPublish
    <3> QED BY <2>2, <3>1 DEF ReconPublish
  <2> QED BY <1>3, <2>1, <2>2 DEF Reconcile
<1>4. ASSUME NEW w \in Workers,
             Work(w) \/ StageRaises(w) \/ AcquireFails(w) \/ HeartbeatFails(w)
                     \/ Crash(w)
      PROVE  TypeOK'
  <2>1. CASE Receive(w)
    <3>1. pc' \in [Workers -> Labels] /\ queue' \in [0..MaxRetries -> Nat]
      BY <2>1, <1>c, <1>l, LabelsHave DEF Receive
    <3> QED BY <2>1, <3>1, ZenonT(60) DEF Receive
  <2>2. CASE Discard(w)        BY <2>2, <1>c, ZenonT(60) DEF Discard
  <2>3. CASE Acquire(w)
    <3>1. pc' \in [Workers -> Labels]
      BY <2>3, <1>l, LabelsHave DEF Acquire
    <3> QED BY <2>3, <3>1, ZenonT(60) DEF Acquire
  <2>4. CASE FindLocked(w)
    <3>1. pc' \in [Workers -> Labels]
      BY <2>4, <1>l, LabelsHave DEF FindLocked
    <3> QED BY <2>4, <3>1, ZenonT(60) DEF FindLocked
  <2>5. CASE Load(w)
    <3>1. /\ pc' \in [Workers -> Labels]
          /\ outcome' \in [Workers -> {"ack", "retry"}]
      <4>1. CASE lost[w]
        BY <2>5, <4>1, <1>m DEF Load
      <4>2. CASE ~lost[w] /\ status \in {"none", "READY"}
        BY <2>5, <4>2, <1>m DEF Load
      <4>3. CASE ~lost[w] /\ status \notin {"none", "READY"}
        BY <2>5, <4>3, <1>l, LabelsHave DEF Load
      <4> QED BY <4>1, <4>2, <4>3
    <3> QED BY <2>5, <3>1, ZenonT(60) DEF Load
  <2>6. CASE Requeue(w)
    <3>1. CASE Owns(w) /\ Exists
      <4>1. pc' \in [Workers -> Labels]
        BY <2>6, <3>1, <1>l, LabelsHave DEF Requeue
      <4> QED BY <2>6, <3>1, <4>1, ZenonT(60) DEF Requeue
    <3>2. CASE ~(Owns(w) /\ Exists)
      BY <2>6, <3>2, <1>m, SMTT(30) DEF Requeue
    <3> QED BY <3>1, <3>2
  <2>7. CASE Start(w)
    <3>1. CASE Owns(w) /\ Exists
      <4>1. pc' \in [Workers -> Labels]
        BY <2>7, <3>1, <1>l, LabelsHave DEF Start
      <4>2. PICK n \in Nat : attempts' = (n + 1) % AttemptsMod
        <5>1. CASE seen[w] = "expired"
          BY <2>7, <3>1, <5>1, Parameters DEF Start
        <5>2. CASE seen[w] # "expired"
          BY <2>7, <3>1, <5>2, Parameters DEF Start
        <5> QED BY <5>1, <5>2
      <4>3. attempts' \in 0..(AttemptsMod - 1)
        BY <4>2, ModType
      <4>4. status' \in Statuses
        BY <2>7, <3>1 DEF Start
      <4>5. seen' \in [Workers -> Statuses \cup {"expired"}]
        BY <2>7, <3>1, <4>4, ZenonT(60) DEF Start
      <4> QED BY <2>7, <3>1, <4>1, <4>3, <4>4, <4>5, ZenonT(60) DEF Start
    <3>2. CASE ~(Owns(w) /\ Exists)
      BY <2>7, <3>2, <1>m, SMTT(30) DEF Start
    <3> QED BY <3>1, <3>2
  <2>8. CASE Transcribe(w)
    <3>1. CASE checkpoint \/ Owns(w)
      BY <2>8, <3>1, <1>l, LabelsHave, SMTT(30) DEF Transcribe
    <3>2. CASE ~(checkpoint \/ Owns(w))
      BY <2>8, <3>2, <1>m, SMTT(30) DEF Transcribe
    <3> QED BY <3>1, <3>2
  <2>9. CASE SaveCheckpoint(w)
    <3>1. pc' \in [Workers -> Labels] /\ checkpoint' \in BOOLEAN
      BY <2>9, <1>l, LabelsHave DEF SaveCheckpoint
    <3> QED BY <2>9, <3>1, ZenonT(60) DEF SaveCheckpoint
  <2>10. CASE Extract(w)
    <3>1. CASE Owns(w)
      BY <2>10, <3>1, <1>l, LabelsHave, SMTT(30) DEF Extract
    <3>2. CASE ~Owns(w)
      BY <2>10, <3>2, <1>m, SMTT(30) DEF Extract
    <3> QED BY <3>1, <3>2
  <2>11. CASE Commit(w)
    <3>1. CASE ~Exists
      <4>1. pc' \in [Workers -> Labels]
        BY <2>11, <3>1, <1>l, LabelsHave DEF Commit
      <4> QED BY <2>11, <3>1, <4>1, SMTT(30) DEF Commit
    <3>2. CASE Exists /\ Owns(w)
      <4>1. pc' \in [Workers -> Labels]
        BY <2>11, <3>2, <1>l, LabelsHave DEF Commit
      <4> QED BY <2>11, <3>2, <4>1, SMTT(30) DEF Commit
    <3>3. CASE Exists /\ ~Owns(w)
      BY <2>11, <3>3, <1>m, SMTT(30) DEF Commit
    <3> QED BY <3>1, <3>2, <3>3
  <2>12. CASE WriteFailed(w)
    BY <2>12, <1>m, SMTT(30) DEF WriteFailed
  <2>13. CASE Release(w)
    <3>1. pc' \in [Workers -> Labels] /\ faults' \in [FaultKinds -> Nat]
      BY <2>13, <1>l, <1>a, <1>k, LabelsHave DEF Release
    <3>2. /\ seen' \in [Workers -> Statuses \cup {"expired"}]
          /\ seenAttempts' \in [Workers -> 0..(AttemptsMod - 1)]
          /\ lost' \in [Workers -> BOOLEAN]
          /\ superseded' \in SUBSET Workers
      BY <2>13, ForgetType DEF Release
    <3> QED BY <2>13, <3>1, <3>2, SMTT(30) DEF Release
  <2>14. CASE Settle(w)
    <3>1. queue' \in [0..MaxRetries -> Nat]
      <4>1. CASE outcome[w] = "retry" /\ retries[w] < MaxRetries
        <5>1. retries[w] + 1 \in 0..MaxRetries
          BY <4>1, Parameters, SMTT(30)
        <5> QED BY <2>14, <4>1, <5>1, <1>b DEF Settle
      <4>2. CASE ~(outcome[w] = "retry" /\ retries[w] < MaxRetries)
        BY <2>14, <4>2 DEF Settle
      <4> QED BY <4>1, <4>2
    <3>2. pc' \in [Workers -> Labels]
      BY <2>14, <1>l, LabelsHave DEF Settle
    <3>3. faults' \in [FaultKinds -> Nat]
      BY <2>14, <1>a, <1>k DEF Settle
    <3> QED BY <2>14, <3>1, <3>2, <3>3, <1>d, ZenonT(60) DEF Settle
  <2>15. CASE StageRaises(w)
    BY <2>15, <1>l, LabelsHave, SMTT(30) DEF StageRaises
  <2>16. CASE AcquireFails(w)
    <3>1. pc' \in [Workers -> Labels]
      BY <2>16, <1>l, LabelsHave DEF AcquireFails
    <3> QED BY <2>16, <3>1, <1>a, <1>k, ZenonT(60) DEF AcquireFails
  <2>17. CASE HeartbeatFails(w)
    <3>1. faults' \in [FaultKinds -> Nat]
      BY <2>17, <1>a, <1>k DEF HeartbeatFails
    <3> QED BY <2>17, <3>1, SMTT(30) DEF HeartbeatFails
  <2>18. CASE Crash(w)
    <3>1. pc' \in [Workers -> Labels] /\ queue' \in [0..MaxRetries -> Nat]
      BY <2>18, <1>b, <1>l, LabelsHave DEF Crash
    <3>2. faults' \in [FaultKinds -> Nat]
      BY <2>18, <1>a, <1>k DEF Crash
    <3> QED BY <2>18, <3>1, <3>2, <1>d, ForgetType, ZenonT(60) DEF Crash
  <2>19. CASE PublishRepair(w)
    <3>1. /\ pc' \in [Workers -> Labels]
          /\ outcome' \in [Workers -> {"ack", "retry"}]
      BY <2>19, <1>l, <1>m, LabelsHave DEF PublishRepair
    <3> QED BY <2>19, <3>1, SMTT(30) DEF PublishRepair
  <2> QED BY <1>4, <2>1, <2>2, <2>3, <2>4, <2>5, <2>6, <2>7, <2>8, <2>9, <2>10,
             <2>11, <2>12, <2>13, <2>14, <2>15, <2>16, <2>17, <2>18, <2>19
             DEF Work
<1>5. CASE DelAcquire
  BY <1>5, <1>a, <1>k DEF DelAcquire
<1>6. CASE Delete
  BY <1>6, <1>a, <1>k, ZenonT(60) DEF Delete, DelRevoke, DelRows, DelRelease
<1>7. CASE OrphanExpires
  BY <1>7 DEF OrphanExpires
<1>8. CASE LiveExpires
  BY <1>8, <1>a, <1>k, ZenonT(60) DEF LiveExpires
<1>9. CASE UNCHANGED vars
  BY <1>9 DEF vars
<1> QED BY <1>1, <1>2, <1>3, <1>4, <1>5, <1>6, <1>7, <1>8, <1>9 DEF Next

\* Type correctness: in particular the retry count of a message never passes
\* the task's limit, and no session ever writes the expired marker to the row.
THEOREM TypeCorrect == Spec => []TypeOK
<1>1. Init => TypeOK
  <2> SUFFICES ASSUME Init PROVE TypeOK
    OBVIOUS
  <2> USE DEF Init
  <2>1. attempts \in 0..(AttemptsMod - 1) /\ faults \in [FaultKinds -> Nat]
    BY Parameters
  <2>2. queue \in [0..MaxRetries -> Nat]
    OBVIOUS
  <2>3. seenAttempts \in [Workers -> 0..(AttemptsMod - 1)]
    BY Parameters
  <2>4. retries \in [Workers -> 0..MaxRetries]
    BY Parameters
  <2>5. pc \in [Workers -> Labels]
    BY LabelsHave
  <2> QED BY <2>1, <2>2, <2>3, <2>4, <2>5 DEF TypeOK, Statuses, Free, NoResult
<1> QED BY <1>1, TypeNext, PTL DEF Spec
-----------------------------------------------------------------------------
(* Ownership of the lock.                                                  *)

\* HolderInv is inductive relative to TypeOK: no release, expiry, crash or
\* deletion leaves a worker owning the lock without being entitled to it.
LEMMA HolderStep ==
  ASSUME TypeOK, HolderInv, [Next]_vars
  PROVE  HolderInv'
<1> USE DEF TypeOK, HolderInv, Holding, Stages, Exists, Flush, Owns, Goto, Leave,
            Forget, Believers, durable, workerVars, callVars, Free, Orphan, Deleter
<1>1. ASSUME NEW c \in Calls, Upload(c) PROVE HolderInv'
  BY <1>1 DEF Upload, UploadRead, UploadWrite, UploadFails
<1>2. ASSUME NEW c \in Calls, Call(c) PROVE HolderInv'
  <2>1. CASE CallRead(c)          BY <2>1 DEF CallRead
  <2>2. CASE CallWrite(c)         BY <2>2 DEF CallWrite
  <2>3. CASE CallPublish(c)       BY <2>3 DEF CallPublish
  <2>4. CASE CallPublishFails(c)  BY <2>4 DEF CallPublishFails
  <2>5. CASE CallUndo(c)          BY <2>5 DEF CallUndo
  <2>6. CASE CallDies(c)          BY <2>6 DEF CallDies
  <2> QED BY <1>2, <2>1, <2>2, <2>3, <2>4, <2>5, <2>6 DEF Call
<1>3. CASE Reconcile
  BY <1>3 DEF Reconcile, ReconScan, ReconPublish
<1>4. ASSUME NEW w \in Workers,
             Work(w) \/ StageRaises(w) \/ AcquireFails(w) \/ HeartbeatFails(w)
                     \/ Crash(w)
      PROVE  HolderInv'
  <2>1. CASE Receive(w)         BY <2>1 DEF Receive
  <2>2. CASE Discard(w)         BY <2>2 DEF Discard
  <2>3. CASE Acquire(w)         BY <2>3 DEF Acquire
  <2>4. CASE FindLocked(w)      BY <2>4 DEF FindLocked
  <2>5. CASE Load(w)
    <3>1. CASE lost[w]
      BY <2>5, <3>1 DEF Load
    <3>2. CASE ~lost[w] /\ status \in {"none", "READY"}
      BY <2>5, <3>2 DEF Load
    <3>3. CASE ~lost[w] /\ status \notin {"none", "READY"}
      BY <2>5, <3>3 DEF Load
    <3> QED BY <3>1, <3>2, <3>3
  <2>6. CASE Requeue(w)         BY <2>6 DEF Requeue
  <2>7. CASE Start(w)           BY <2>7 DEF Start
  <2>8. CASE Transcribe(w)      BY <2>8 DEF Transcribe
  <2>9. CASE SaveCheckpoint(w)  BY <2>9 DEF SaveCheckpoint
  <2>10. CASE Extract(w)        BY <2>10 DEF Extract
  <2>11. CASE Commit(w)         BY <2>11 DEF Commit
  <2>12. CASE WriteFailed(w)    BY <2>12 DEF WriteFailed
  <2>13. CASE Release(w)        BY <2>13, ProcessNames DEF Release
  <2>14. CASE Settle(w)         BY <2>14 DEF Settle
  <2>15. CASE StageRaises(w)    BY <2>15 DEF StageRaises
  <2>16. CASE AcquireFails(w)   BY <2>16, ProcessNames DEF AcquireFails
  <2>17. CASE HeartbeatFails(w) BY <2>17 DEF HeartbeatFails
  <2>18. CASE Crash(w)          BY <2>18, ProcessNames DEF Crash
  <2>19. CASE PublishRepair(w)  BY <2>19 DEF PublishRepair
  <2> QED BY <1>4, <2>1, <2>2, <2>3, <2>4, <2>5, <2>6, <2>7, <2>8, <2>9, <2>10,
             <2>11, <2>12, <2>13, <2>14, <2>15, <2>16, <2>17, <2>18, <2>19
             DEF Work
<1>5. CASE DelAcquire
  BY <1>5, ProcessNames DEF DelAcquire
<1>6. CASE Delete
  <2>1. CASE DelRevoke   BY <2>1 DEF DelRevoke
  <2>2. CASE DelRows     BY <2>2 DEF DelRows
  <2>3. CASE DelRelease  BY <2>3, ProcessNames DEF DelRelease
  <2> QED BY <1>6, <2>1, <2>2, <2>3 DEF Delete
<1>7. CASE OrphanExpires
  BY <1>7, ProcessNames DEF OrphanExpires
<1>8. CASE LiveExpires
  BY <1>8, ProcessNames DEF LiveExpires
<1>9. CASE UNCHANGED vars
  BY <1>9 DEF vars
<1> QED BY <1>1, <1>2, <1>3, <1>4, <1>5, <1>6, <1>7, <1>8, <1>9 DEF Next

\* The lock's owner is entitled to it in every reachable state.
THEOREM HolderCorrect == Spec => []HolderInv
<1>1. Init => HolderInv
  BY ProcessNames DEF Init, HolderInv, Free
<1>2. TypeOK /\ HolderInv /\ [Next]_vars => HolderInv'
  BY HolderStep
<1> QED BY <1>1, <1>2, TypeCorrect, PTL DEF Spec
-----------------------------------------------------------------------------
(* Action properties.                                                      *)

WorkerStep(w) == Work(w) \/ StageRaises(w) \/ AcquireFails(w)
                 \/ HeartbeatFails(w) \/ Crash(w)

\* Only its own actions move a worker.
LEMMA StepIsOwn ==
  ASSUME TypeOK, [Next]_vars, NEW w \in Workers, Steps(w)
  PROVE  WorkerStep(w)
<1> USE DEF TypeOK, Steps, workerVars
<1>1. ASSUME NEW x \in Workers, WorkerStep(x), x # w PROVE FALSE
  <2>1. \A label \in Labels : Goto(x, label) => pc'[w] = pc[w]
    BY <1>1 DEF Goto
  <2>2. \A how \in {"ack", "retry"} : Leave(x, how) => pc'[w] = pc[w]
    BY <1>1 DEF Goto, Leave
  <2>3. CASE Receive(x) \/ Discard(x) \/ Acquire(x) \/ FindLocked(x)
    BY <2>1, <2>3, LabelsHave DEF Receive, Discard, Acquire, FindLocked
  <2>4. CASE Load(x) \/ Requeue(x) \/ Start(x)
    BY <2>1, <2>2, <2>4, LabelsHave DEF Load, Requeue, Start
  <2>5. CASE Transcribe(x) \/ SaveCheckpoint(x) \/ Extract(x) \/ Commit(x)
    BY <2>1, <2>2, <2>5, LabelsHave DEF Transcribe, SaveCheckpoint, Extract, Commit
  <2>6. CASE PublishRepair(x) \/ WriteFailed(x) \/ Release(x) \/ Settle(x)
             \/ StageRaises(x)
    BY <2>1, <2>2, <2>6, LabelsHave DEF PublishRepair, WriteFailed, Release, Settle,
                                        StageRaises
  <2>7. CASE AcquireFails(x) \/ HeartbeatFails(x) \/ Crash(x)
    BY <2>1, <2>7, LabelsHave DEF AcquireFails, HeartbeatFails, Crash
  <2> QED BY <1>1, <2>3, <2>4, <2>5, <2>6, <2>7 DEF WorkerStep, Work
<1>2. CASE Reconcile \/ DelAcquire \/ Delete \/ OrphanExpires \/ LiveExpires
  BY <1>2 DEF Reconcile, ReconScan, ReconPublish, DelAcquire, Delete, DelRevoke,
              DelRows, DelRelease, OrphanExpires, LiveExpires
<1>3. ASSUME NEW c \in Calls, Upload(c) \/ Call(c) PROVE FALSE
  BY <1>3 DEF Upload, UploadRead, UploadWrite, UploadFails, Call, CallRead, CallWrite,
              CallPublish, CallPublishFails, CallUndo, CallDies
<1>4. CASE UNCHANGED vars
  BY <1>4 DEF vars
<1> QED BY <1>1, <1>2, <1>3, <1>4 DEF Next, WorkerStep

\* The fence: a superseded execution commits nothing but a FAILED.
THEOREM SupersededTheorem == Spec => SupersededNeverAdvances
<1>1. ASSUME TypeOK, HolderInv, [Next]_vars, NEW w \in superseded, Steps(w)
      PROVE  status' \in {status, "FAILED"} /\ result' = result /\ attempts' = attempts
  <2>1. w \in Workers /\ ~Owns(w)
    BY <1>1, w \in Workers DEF TypeOK, HolderInv, Owns
  <2>2. WorkerStep(w)
    BY <1>1, <2>1, StepIsOwn
  <2>3. CASE Receive(w) \/ Discard(w) \/ Acquire(w) \/ FindLocked(w) \/ Load(w)
    BY <2>3 DEF Receive, Discard, Acquire, FindLocked, Load, durable
  <2>4. CASE Requeue(w) \/ Start(w) \/ Transcribe(w) \/ SaveCheckpoint(w)
    BY <2>1, <2>4 DEF Requeue, Start, Transcribe, SaveCheckpoint, durable
  <2>5. CASE Extract(w) \/ Commit(w) \/ PublishRepair(w) \/ WriteFailed(w)
    BY <2>1, <2>5 DEF Extract, Commit, PublishRepair, WriteFailed, durable
  <2>6. CASE Release(w) \/ Settle(w) \/ StageRaises(w) \/ AcquireFails(w)
             \/ HeartbeatFails(w) \/ Crash(w)
    BY <2>6 DEF Release, Settle, StageRaises, AcquireFails, HeartbeatFails, Crash, durable
  <2> QED BY <2>2, <2>3, <2>4, <2>5, <2>6 DEF WorkerStep, Work
<1>2. TypeOK /\ HolderInv /\ [Next]_vars
        => [\A w \in superseded : Steps(w) => /\ status' \in {status, "FAILED"}
                                              /\ result' = result
                                              /\ attempts' = attempts]_vars
  BY <1>1
<1> QED BY <1>2, TypeCorrect, HolderCorrect, PTL DEF Spec, SupersededNeverAdvances

\* A worker that does not own the lock cannot free or take somebody's lock.
THEOREM ReleaseTheorem == Spec => ReleaseRespectsOwner
<1>1. ASSUME TypeOK, [Next]_vars, NEW w \in Workers, Steps(w), lock # w, lock # Free
      PROVE  lock' = lock
  <2>1. WorkerStep(w)
    BY <1>1, StepIsOwn
  <2>2. CASE Receive(w) \/ Discard(w) \/ Acquire(w) \/ FindLocked(w) \/ Load(w)
             \/ Requeue(w) \/ Start(w) \/ Transcribe(w) \/ SaveCheckpoint(w)
    BY <1>1, <2>2 DEF Receive, Discard, Acquire, FindLocked, Load, Requeue, Start,
                      Transcribe, SaveCheckpoint
  <2>3. CASE Extract(w) \/ Commit(w) \/ PublishRepair(w) \/ WriteFailed(w) \/ Release(w)
             \/ Settle(w) \/ StageRaises(w) \/ AcquireFails(w) \/ HeartbeatFails(w)
             \/ Crash(w)
    BY <1>1, <2>3 DEF Extract, Commit, PublishRepair, WriteFailed, Release, Settle,
                      StageRaises, AcquireFails, HeartbeatFails, Crash
  <2> QED BY <2>1, <2>2, <2>3 DEF WorkerStep, Work
<1>2. TypeOK /\ [Next]_vars
        => [\A w \in Workers : Steps(w) /\ lock # w /\ lock # Free => lock' = lock]_vars
  BY <1>1
<1> QED BY <1>2, TypeCorrect, PTL DEF Spec, ReleaseRespectsOwner

\* Where a result can change: in the commit of the lock's owner, while the
\* meeting is not READY; or in its deletion.
LEMMA ResultStep ==
  ASSUME TypeOK, HolderInv, [Next]_vars, result' # result
  PROVE  status # "READY" \/ status' = "none"
<1>1. ASSUME NEW w \in Workers, Commit(w) PROVE status # "READY" \/ status' = "none"
  BY <1>1 DEF Commit, Owns, HolderInv, Stages
<1>2. ASSUME NEW w \in Workers, WorkerStep(w), ~Commit(w) PROVE FALSE
  BY <1>2 DEF WorkerStep, Work, Receive, Discard, Acquire, FindLocked, Load, Requeue, Start,
              Transcribe, SaveCheckpoint, Extract, PublishRepair, WriteFailed, Release,
              Settle, StageRaises, AcquireFails, HeartbeatFails, Crash, durable
<1>3. CASE Reconcile \/ DelAcquire \/ OrphanExpires \/ LiveExpires
  BY <1>3 DEF Reconcile, ReconScan, ReconPublish, DelAcquire, OrphanExpires,
              LiveExpires, durable
<1>4. ASSUME NEW c \in Calls, Upload(c) \/ Call(c) PROVE FALSE
  BY <1>4 DEF Upload, UploadRead, UploadWrite, UploadFails, Call, CallRead, CallWrite,
              CallPublish, CallPublishFails, CallUndo, CallDies, durable
<1>5. CASE Delete
  BY <1>5 DEF Delete, DelRevoke, DelRows, DelRelease, durable
<1>6. CASE UNCHANGED vars
  BY <1>6 DEF vars, durable
<1> QED BY <1>1, <1>2, <1>3, <1>4, <1>5, <1>6 DEF Next, WorkerStep

\* The result of a READY meeting is never replaced under its readers.
THEOREM ReadyResultTheorem == Spec => ReadyResultImmutable
<1>1. TypeOK /\ HolderInv /\ [Next]_vars
        => [status = "READY" /\ status' = "READY" => result' = result]_vars
  BY ResultStep
<1> QED BY <1>1, TypeCorrect, HolderCorrect, PTL DEF Spec, ReadyResultImmutable

\* Redeliveries and duplicates do not reprocess a READY meeting.
THEOREM PipelineSkipsTheorem == Spec => PipelineSkipsReady
<1>1. ASSUME TypeOK, HolderInv, [Next]_vars, NEW w \in Workers,
             Steps(w), status = "READY", pc[w] # "fail"
      PROVE  status' = "READY"
  <2>1. WorkerStep(w)
    BY <1>1, StepIsOwn
  <2>2. pc[w] \in {"requeue", "start"} \cup Stages => ~Owns(w)
    BY <1>1 DEF HolderInv, Owns
  <2>3. CASE Receive(w) \/ Discard(w) \/ Acquire(w) \/ FindLocked(w) \/ Load(w)
    BY <1>1, <2>3 DEF Receive, Discard, Acquire, FindLocked, Load, durable
  <2>4. CASE Requeue(w) \/ Start(w) \/ Transcribe(w) \/ SaveCheckpoint(w)
    BY <1>1, <2>2, <2>4 DEF Requeue, Start, Transcribe, SaveCheckpoint, durable
  <2>5. CASE Extract(w) \/ Commit(w) \/ PublishRepair(w) \/ WriteFailed(w)
    BY <1>1, <2>2, <2>5 DEF Extract, Commit, PublishRepair, WriteFailed, durable, Stages
  <2>6. CASE Release(w) \/ Settle(w) \/ StageRaises(w) \/ AcquireFails(w)
             \/ HeartbeatFails(w) \/ Crash(w)
    BY <1>1, <2>6 DEF Release, Settle, StageRaises, AcquireFails, HeartbeatFails, Crash,
                      durable
  <2> QED BY <2>1, <2>3, <2>4, <2>5, <2>6 DEF WorkerStep, Work
<1>2. TypeOK /\ HolderInv /\ [Next]_vars
        => [\A w \in Workers : Steps(w) /\ status = "READY" /\ pc[w] # "fail"
                                  => status' = "READY"]_vars
  BY <1>1
<1> QED BY <1>2, TypeCorrect, HolderCorrect, PTL DEF Spec, PipelineSkipsReady

\* No increment of meetings.attempts is lost.
THEOREM AttemptsTheorem == Spec => AttemptsNotLost
<1>1. ASSUME TypeOK, HolderInv, [Next]_vars, NEW w \in Workers,
             pc[w] = "start", pc'[w] = "transcribe"
      PROVE  attempts' = (attempts + 1) % AttemptsMod
  <2>1. WorkerStep(w)
    BY <1>1, StepIsOwn DEF Steps
  <2>2. Start(w)
    BY <1>1, <2>1 DEF WorkerStep, Work, Receive, Discard, Acquire, FindLocked, Load,
           Requeue, Transcribe, SaveCheckpoint, Extract, Commit, PublishRepair,
           WriteFailed, Release, Settle, StageRaises, AcquireFails, HeartbeatFails, Crash,
           Stages, Goto, TypeOK
  <2>3. Owns(w) /\ Exists
    BY <1>1, <2>2 DEF Start, Leave, Goto, TypeOK
  <2>4. seen[w] # "expired" => seenAttempts[w] = attempts
    BY <1>1, <2>3 DEF HolderInv, Owns
  <2> QED BY <2>2, <2>3, <2>4 DEF Start
<1>2. TypeOK /\ HolderInv /\ [Next]_vars
        => [\A w \in Workers : pc[w] = "start" /\ pc'[w] = "transcribe"
                                  => attempts' = (attempts + 1) % AttemptsMod]_vars
  BY <1>1
<1> QED BY <1>2, TypeCorrect, HolderCorrect, PTL DEF Spec, AttemptsNotLost

\* A deleted meeting stays deleted.
THEOREM DeletedTheorem == Spec => DeletedStaysDeleted
<1>1. ASSUME TypeOK, [Next]_vars, status = "none" PROVE status' = "none"
  <2>1. ASSUME NEW w \in Workers, WorkerStep(w) PROVE status' = "none"
    BY <1>1, <2>1 DEF WorkerStep, Work, Receive, Discard, Acquire, FindLocked, Load,
         Requeue, Start, Transcribe, SaveCheckpoint, Extract, Commit, PublishRepair,
         WriteFailed, Release, Settle, StageRaises, AcquireFails, HeartbeatFails, Crash,
         durable, Exists
  <2>2. ASSUME NEW c \in Calls, Upload(c) \/ Call(c) PROVE status' = "none"
    BY <1>1, <2>2 DEF Upload, UploadRead, UploadWrite, UploadFails, Call, CallRead,
         CallWrite, CallPublish, CallPublishFails, CallUndo, CallDies, durable, Exists
  <2>3. CASE Reconcile \/ DelAcquire \/ Delete \/ OrphanExpires \/ LiveExpires
    BY <1>1, <2>3 DEF Reconcile, ReconScan, ReconPublish, DelAcquire, Delete,
         DelRevoke, DelRows, DelRelease, OrphanExpires, LiveExpires, durable
  <2>4. CASE UNCHANGED vars
    BY <1>1, <2>4 DEF vars, durable
  <2> QED BY <1>1, <2>1, <2>2, <2>3, <2>4 DEF Next, WorkerStep
<1>2. TypeOK /\ HolderInv /\ HolderInv' /\ [Next]_vars
        => [status = "none" => status' = "none" /\ result' = NoResult /\ ~checkpoint']_vars
  BY <1>1 DEF HolderInv
<1> QED BY <1>2, TypeCorrect, HolderCorrect, PTL DEF Spec, DeletedStaysDeleted
-----------------------------------------------------------------------------
(* What users are promised.                                                *)

\* The owner of the lock has not seen a READY row, whoever works with the
\* transcript has kept it, and so has whoever made the meeting READY.
PromiseInv ==
  /\ \A w \in Workers :
       /\ lock = w /\ pc[w] \in {"start"} \cup Stages => seen[w] # "READY"
       /\ pc[w] \in {"extract", "index", "commit"} /\ Exists => checkpoint
  /\ status = "READY" => checkpoint

LEMMA PromiseInvStep ==
  ASSUME TypeOK, HolderInv, PromiseInv, [Next]_vars
  PROVE  PromiseInv'
<1> USE DEF TypeOK, HolderInv, PromiseInv, Holding, Stages, Exists, Flush, Owns, Goto,
            Leave, Forget, durable, workerVars, Free, Orphan, Deleter
<1>1. ASSUME NEW c \in Calls, Upload(c) \/ Call(c) PROVE PromiseInv'
  BY <1>1 DEF Upload, UploadRead, UploadWrite, UploadFails, Call, CallRead, CallWrite,
     CallPublish, CallPublishFails, CallUndo, CallDies
<1>2. ASSUME NEW w \in Workers, WorkerStep(w) PROVE PromiseInv'
  <2>1. CASE Receive(w) \/ Discard(w) \/ Acquire(w) \/ FindLocked(w)
    BY <2>1 DEF Receive, Discard, Acquire, FindLocked
  <2>2. CASE Load(w)
    <3>1. CASE lost[w]
      BY <2>2, <3>1 DEF Load
    <3>2. CASE ~lost[w] /\ status \in {"none", "READY"}
      BY <2>2, <3>2 DEF Load
    <3>3. CASE ~lost[w] /\ status \notin {"none", "READY"}
      BY <2>2, <3>3 DEF Load
    <3> QED BY <3>1, <3>2, <3>3
  <2>3. CASE Requeue(w)         BY <2>3 DEF Requeue
  <2>4. CASE Start(w)           BY <2>4 DEF Start
  <2>5. CASE Transcribe(w)      BY <2>5 DEF Transcribe
  <2>6. CASE SaveCheckpoint(w)  BY <2>6 DEF SaveCheckpoint
  <2>7. CASE Extract(w)         BY <2>7 DEF Extract
  <2>8. CASE Commit(w)          BY <2>8 DEF Commit
  <2>9. CASE PublishRepair(w) \/ WriteFailed(w) \/ StageRaises(w)
    BY <2>9 DEF PublishRepair, WriteFailed, StageRaises
  <2>10. CASE Release(w) \/ Settle(w)
    BY <2>10, ProcessNames DEF Release, Settle
  <2>11. CASE AcquireFails(w)   BY <2>11, ProcessNames DEF AcquireFails
  <2>12. CASE HeartbeatFails(w) BY <2>12 DEF HeartbeatFails
  <2>13. CASE Crash(w)          BY <2>13, ProcessNames DEF Crash
  <2> QED BY <1>2, <2>1, <2>2, <2>3, <2>4, <2>5, <2>6, <2>7, <2>8, <2>9, <2>10, <2>11,
             <2>12, <2>13 DEF WorkerStep, Work
<1>3. CASE Reconcile \/ DelAcquire \/ OrphanExpires \/ LiveExpires
  BY <1>3, ProcessNames DEF Reconcile, ReconScan, ReconPublish, DelAcquire, OrphanExpires,
     LiveExpires
<1>4. CASE Delete
  BY <1>4, ProcessNames DEF Delete, DelRevoke, DelRows, DelRelease
<1>5. CASE UNCHANGED vars
  BY <1>5 DEF vars
<1> QED BY <1>1, <1>2, <1>3, <1>4, <1>5 DEF Next, WorkerStep

LEMMA PromiseInvCorrect == Spec => []PromiseInv
<1>1. Init => PromiseInv
  BY ProcessNames DEF Init, PromiseInv, Stages, Free
<1>2. TypeOK /\ HolderInv /\ PromiseInv /\ [Next]_vars => PromiseInv'
  BY PromiseInvStep
<1> QED BY <1>1, <1>2, TypeCorrect, HolderCorrect, PTL DEF Spec

\* A step of a request makes a meeting that exists UPLOADED, QUEUED or FAILED;
\* it changes nothing else of what is promised.
LEMMA CallPromise ==
  ASSUME TypeOK, NEW c \in Calls, Upload(c) \/ Call(c)
  PROVE  /\ UNCHANGED <<checkpoint, result>>
         /\ status' # status => status # "none" /\ status' \in {"UPLOADED", "QUEUED", "FAILED"}
<1> USE DEF Exists, Flush, durable
<1>1. CASE Upload(c)
  BY <1>1 DEF Upload, UploadRead, UploadWrite, UploadFails
<1>2. CASE Call(c)
  BY <1>2 DEF Call, CallRead, CallWrite, CallPublish, CallPublishFails, CallUndo, CallDies
<1> QED BY <1>1, <1>2

\* Of the workers' steps only SaveCheckpoint keeps a transcript, only Commit
\* publishes, and the others at most take the result out of sight.
LEMMA WorkerPromise ==
  ASSUME TypeOK, HolderInv, PromiseInv, NEW w \in Workers, WorkerStep(w)
  PROVE  \/ Promise!Transcribe \/ Promise!Publish \/ Promise!Reopen
         \/ UNCHANGED <<Meeting, checkpoint, result>>
<1> USE DEF Exists, Flush, Owns, durable, Meeting
<1>1. CASE Receive(w) \/ Discard(w) \/ Acquire(w) \/ FindLocked(w) \/ Load(w)
           \/ Transcribe(w) \/ Extract(w)
  BY <1>1 DEF Receive, Discard, Acquire, FindLocked, Load, Transcribe, Extract
<1>2. CASE Requeue(w) \/ Start(w)
  <2>1. Owns(w) => status # "READY"
    BY <1>2 DEF HolderInv, Requeue, Start
  <2>2. status' # status => Owns(w) /\ status # "none" /\ status' \notin {"none", "READY"}
    BY <1>2 DEF Requeue, Start
  <2>3. UNCHANGED <<checkpoint, result>>
    BY <1>2 DEF Requeue, Start
  <2> QED BY <2>1, <2>2, <2>3
<1>3. CASE SaveCheckpoint(w)
  <2>1. status' = status /\ result' = result /\ Meeting' = Meeting
    BY <1>3 DEF SaveCheckpoint
  <2>2. checkpoint' = checkpoint \/ (status # "none" /\ checkpoint' = TRUE)
    BY <1>3 DEF SaveCheckpoint
  <2>3. CASE checkpoint' # checkpoint
    <3>1. ~checkpoint /\ checkpoint' = TRUE /\ Meeting = "open"
      BY <2>2, <2>3 DEF TypeOK, PromiseInv
    <3> QED BY <2>1, <3>1 DEF Promise!Transcribe
  <2> QED BY <2>1, <2>3
<1>4. CASE Commit(w)
  <2>1. CASE Exists /\ Owns(w)
    <3>1. pc[w] = "commit" /\ lock = w
      BY <1>4, <2>1 DEF Commit
    <3>2. status # "READY" /\ seen[w] # "READY" /\ checkpoint
      BY <2>1, <3>1 DEF HolderInv, PromiseInv, Stages
    <3>3. status' = "READY" /\ result' = w /\ checkpoint' = checkpoint
      BY <1>4, <2>1, <3>2 DEF Commit
    <3> QED BY <2>1, <3>2, <3>3 DEF Promise!Publish
  <2>2. CASE ~(Exists /\ Owns(w))
    BY <1>4, <2>2 DEF Commit
  <2> QED BY <2>1, <2>2
<1>5. CASE PublishRepair(w) \/ WriteFailed(w)
  <2>1. UNCHANGED <<checkpoint, result>>
    BY <1>5 DEF PublishRepair, WriteFailed
  <2>2. status' # status => status # "none" /\ status' = "FAILED"
    BY <1>5 DEF PublishRepair, WriteFailed
  <2> QED BY <2>1, <2>2 DEF Promise!Reopen
<1>6. CASE Release(w) \/ Settle(w) \/ StageRaises(w) \/ AcquireFails(w)
           \/ HeartbeatFails(w) \/ Crash(w)
  BY <1>6 DEF Release, Settle, StageRaises, AcquireFails, HeartbeatFails, Crash
<1> QED BY <1>1, <1>2, <1>3, <1>4, <1>5, <1>6 DEF WorkerStep, Work

\* What the machinery does is allowed by the promise: a result is published
\* with its transcript and not replaced while it can be read, a failure takes
\* it out of sight only, and a deleted meeting stays deleted.
THEOREM PromiseTheorem == Spec => KeepsMeetingPromise
<1>1. Init => Promise!Init
  BY DEF Init, Promise!Init, Meeting
<1>2. ASSUME TypeOK, HolderInv, PromiseInv, [Next]_vars
      PROVE  Promise!Next \/ UNCHANGED <<Meeting, checkpoint, result>>
  <2>1. ASSUME NEW c \in Calls, Upload(c) \/ Call(c)
        PROVE  Promise!Reopen \/ UNCHANGED <<Meeting, checkpoint, result>>
    BY <1>2, <2>1, CallPromise DEF Meeting, Promise!Reopen
  <2>2. ASSUME NEW w \in Workers, WorkerStep(w)
        PROVE  Promise!Next \/ UNCHANGED <<Meeting, checkpoint, result>>
    BY <1>2, <2>2, WorkerPromise DEF Promise!Next
  <2>3. CASE Reconcile \/ DelAcquire \/ OrphanExpires \/ LiveExpires \/ UNCHANGED vars
    BY <2>3 DEF Reconcile, ReconScan, ReconPublish, DelAcquire, OrphanExpires,
       LiveExpires, vars, durable, Meeting
  <2>4. CASE Delete
    <3>1. UNCHANGED <<status, checkpoint, result>>
          \/ (status' = "none" /\ checkpoint' = FALSE /\ result' = NoResult)
      BY <2>4 DEF Delete, DelRevoke, DelRows, DelRelease, durable
    <3> QED BY <1>2, <3>1 DEF HolderInv, TypeOK, Meeting, Promise!Delete, Promise!Next
  <2> QED BY <1>2, <2>1, <2>2, <2>3, <2>4 DEF Next, WorkerStep, Promise!Next
<1>3. TypeOK /\ HolderInv /\ PromiseInv /\ [Next]_vars => [Promise!Next]_(Promise!vars)
  BY <1>2 DEF Promise!vars
<1> QED BY <1>1, <1>3, TypeCorrect, HolderCorrect, PromiseInvCorrect, PTL
        DEF Spec, KeepsMeetingPromise, Promise!Spec
-----------------------------------------------------------------------------
(* Who takes a meeting further.                                            *)

\* What is left of the budget never grows.
BudgetInv == \A kind \in FaultKinds : faults[kind] <= FaultBudget[kind]

LEMMA BudgetShrinks ==
  ASSUME TypeOK, [Next]_vars, NEW kind \in FaultKinds
  PROVE  faults'[kind] <= faults[kind]
<1>1. \A k \in FaultKinds : Spend(k) => faults'[kind] <= faults[kind]
  BY DEF Spend, TypeOK
<1>2. {"expiry", "redis", "crash", "broker", "storage", "delete"} = FaultKinds
  BY DEF FaultKinds
<1>3. UNCHANGED faults => faults'[kind] <= faults[kind]
  BY DEF TypeOK
<1>4. ASSUME NEW w \in Workers, WorkerStep(w) PROVE faults'[kind] <= faults[kind]
  BY <1>1, <1>2, <1>3, <1>4 DEF WorkerStep, Work, Receive, Discard, Acquire, FindLocked,
     Load, Requeue, Start, Transcribe, SaveCheckpoint, Extract, Commit, PublishRepair,
     WriteFailed, Release, Settle, StageRaises, AcquireFails, HeartbeatFails, Crash
<1>5. ASSUME NEW c \in Calls, Upload(c) \/ Call(c) PROVE faults'[kind] <= faults[kind]
  BY <1>1, <1>2, <1>3, <1>5 DEF Upload, UploadRead, UploadWrite, UploadFails, Call, CallRead,
     CallWrite, CallPublish, CallPublishFails, CallUndo, CallDies
<1>6. CASE Reconcile \/ DelAcquire \/ Delete \/ OrphanExpires \/ LiveExpires
           \/ UNCHANGED vars
  BY <1>1, <1>2, <1>3, <1>6 DEF Reconcile, ReconScan, ReconPublish, DelAcquire, Delete,
     DelRevoke, DelRows, DelRelease, OrphanExpires, LiveExpires, vars
<1> QED BY <1>4, <1>5, <1>6 DEF Next, WorkerStep

LEMMA BudgetStep ==
  ASSUME TypeOK, BudgetInv, [Next]_vars
  PROVE  BudgetInv'
<1> SUFFICES ASSUME NEW kind \in FaultKinds PROVE faults'[kind] <= FaultBudget[kind]
  BY DEF BudgetInv
<1>1. faults'[kind] <= faults[kind] /\ faults[kind] <= FaultBudget[kind]
  BY BudgetShrinks DEF BudgetInv
<1>2. faults'[kind] \in Nat /\ faults[kind] \in Nat /\ FaultBudget[kind] \in Nat
  BY TypeNext, Parameters DEF TypeOK
<1> QED BY <1>1, <1>2

LEMMA BudgetCorrect == Spec => []BudgetInv
<1>1. Init => BudgetInv
  BY Parameters DEF Init, BudgetInv
<1>2. TypeOK /\ BudgetInv /\ [Next]_vars => BudgetInv'
  BY BudgetStep
<1> QED BY <1>1, <1>2, TypeCorrect, PTL DEF Spec

\* A step after which the meeting is undisturbed is no fault but an expiry.
LEMMA QuietStep ==
  ASSUME TypeOK, BudgetInv, [Next]_vars, Undisturbed'
  PROVE  /\ Undisturbed
         /\ \A kind \in FaultKinds \ {"expiry"} : ~Spend(kind)
         /\ Expiries \in Nat /\ Expiries' \in Nat
         /\ Expiries <= Expiries' /\ Expiries' <= MaxRetries
         /\ Spend("expiry") => Expiries' = Expiries + 1
<1>1. \A kind \in FaultKinds :
        /\ faults[kind] \in Nat /\ faults'[kind] \in Nat /\ FaultBudget[kind] \in Nat
        /\ faults'[kind] <= faults[kind] /\ faults[kind] <= FaultBudget[kind]
  BY BudgetShrinks, TypeNext, Parameters DEF TypeOK, BudgetInv
<1>2. "expiry" \in FaultKinds
  BY DEF FaultKinds
<1>3. \A kind \in FaultKinds \ {"expiry"} : faults'[kind] = FaultBudget[kind]
  BY DEF Undisturbed
<1>4. \A kind \in FaultKinds \ {"expiry"} : faults[kind] = faults'[kind]
  BY <1>1, <1>3
<1>5. ASSUME NEW kind \in FaultKinds, Spend(kind) PROVE faults'[kind] = faults[kind] - 1
  BY <1>5 DEF Spend, TypeOK
<1>6. \A kind \in FaultKinds \ {"expiry"} : ~Spend(kind)
  BY <1>1, <1>4, <1>5
<1>7. Expiries = FaultBudget["expiry"] - faults["expiry"]
      /\ Expiries' = FaultBudget["expiry"] - faults'["expiry"]
  BY DEF Expiries
<1>8. Expiries \in Nat /\ Expiries' \in Nat /\ Expiries <= Expiries'
  BY <1>1, <1>2, <1>7
<1>9. Expiries' <= MaxRetries /\ MaxRetries \in Nat
  BY Parameters DEF Undisturbed
<1>10. Expiries <= MaxRetries
  BY <1>8, <1>9
<1>11. Undisturbed
  BY <1>3, <1>4, <1>10 DEF Undisturbed
<1> QED BY <1>1, <1>2, <1>5, <1>6, <1>7, <1>8, <1>9, <1>11

\* While the meeting is undisturbed an execution loses its lock by an expiry
\* only, and a retry is owed to a lock that was lost: neither a message nor an
\* execution has more retries behind it than there were expiries, and one that
\* has lost its lock has fewer.
RunInv ==
  Undisturbed =>
    /\ status # "none" /\ ~revoked /\ delPc = "idle" /\ lock \in Workers \cup {Free}
    /\ \A r \in 0..MaxRetries : queue[r] > 0 => r <= Expiries
    /\ \A w \in Workers :
         /\ retries[w] <= Expiries
         /\ lock = w => ~lost[w]
         /\ pc[w] \in Holding /\ lock # w => retries[w] < Expiries
         /\ pc[w] \in {"release", "settle"} /\ outcome[w] = "retry"
              => retries[w] < Expiries
         /\ lock = w /\ pc[w] \in {"repair", "release"} => status # "PROCESSING"

LEMMA NextRetry ==
  ASSUME NEW r \in 0..MaxRetries, r < MaxRetries
  PROVE  r + 1 \in 0..MaxRetries
BY Parameters

LEMMA PutMore ==
  ASSUME NEW r \in 0..MaxRetries, queue \in [0..MaxRetries -> Nat], Put(r)
  PROVE  /\ queue'[r] > 0
         /\ \A q \in 0..MaxRetries : /\ queue[q] > 0 => queue'[q] > 0
                                     /\ queue'[q] > 0 => queue[q] > 0 \/ q = r
BY DEF Put

\* Under a worker's step the number of expiries stays what it is.
LEMMA RunOfWorker ==
  ASSUME TypeOK, HolderInv, PromiseInv, RunInv, NEW w \in Workers, WorkerStep(w), Undisturbed,
         \A kind \in FaultKinds \ {"expiry"} : ~Spend(kind),
         Expiries \in Nat, Expiries' = Expiries, Expiries <= MaxRetries
  PROVE  RunInv'
<1> USE DEF TypeOK, HolderInv, RunInv, Holding, Stages, Exists, Flush, Owns, Goto,
            Leave, Forget, durable, workerVars
<1>a. Free \notin Workers /\ Orphan \notin Workers
  BY ProcessNames
<1>b. ~Spend("redis") /\ ~Spend("crash") /\ ~Spend("broker")
  BY DEF FaultKinds
<1>c. 0 \in 0..MaxRetries /\ MaxRetries \in Nat
  BY Parameters
<1>1. CASE Receive(w)
  <2>1. PICK r \in 0..MaxRetries : /\ queue[r] > 0
                                   /\ queue' = [queue EXCEPT ![r] = @ - 1]
                                   /\ retries' = [retries EXCEPT ![w] = r]
    BY <1>1 DEF Receive
  <2>2. \A q \in 0..MaxRetries : queue'[q] > 0 => queue[q] > 0
    BY <2>1
  <2> QED BY <1>1, <2>1, <2>2, <1>a DEF Receive
<1>2. ~Discard(w)
  BY DEF Discard
<1>3. CASE Acquire(w)           BY <1>3, <1>a DEF Acquire
<1>4. CASE FindLocked(w)        BY <1>4, <1>a DEF FindLocked
<1>5. CASE Load(w)
  <2>1. CASE lost[w]
    BY <1>5, <2>1, ZenonT(60) DEF Load
  <2>2. CASE ~lost[w] /\ status \in {"none", "READY"}
    BY <1>5, <2>2, ZenonT(60) DEF Load
  <2>3. CASE ~lost[w] /\ status \notin {"none", "READY"}
    BY <1>5, <2>3, ZenonT(60) DEF Load
  <2> QED BY <2>1, <2>2, <2>3
<1>6. CASE Requeue(w)
  <2>1. CASE Owns(w)            BY <1>6, <2>1, ZenonT(60) DEF Requeue
  <2>2. CASE ~Owns(w)           BY <1>6, <2>2, ZenonT(60) DEF Requeue
  <2> QED BY <2>1, <2>2
<1>7. CASE Start(w)
  <2>1. CASE Owns(w)            BY <1>7, <2>1, ZenonT(60) DEF Start
  <2>2. CASE ~Owns(w)           BY <1>7, <2>2, ZenonT(60) DEF Start
  <2> QED BY <2>1, <2>2
<1>8. CASE Transcribe(w)        BY <1>8, ZenonT(60) DEF Transcribe
<1>9. CASE SaveCheckpoint(w)    BY <1>9 DEF SaveCheckpoint
<1>10. CASE Extract(w)          BY <1>10 DEF Extract
<1>11. CASE Commit(w)
  <2>1. CASE Exists /\ Owns(w)
    <3>1. seen[w] # "READY"
      BY <1>11, <2>1 DEF Commit, PromiseInv
    <3>2. status' = "READY"
      BY <1>11, <2>1, <3>1 DEF Commit
    <3> QED BY <1>11, <2>1, <3>2 DEF Commit
  <2>2. CASE ~(Exists /\ Owns(w))
    BY <1>11, <2>2 DEF Commit
  <2> QED BY <2>1, <2>2
<1>12. CASE PublishRepair(w)    BY <1>12 DEF PublishRepair
<1>13. CASE WriteFailed(w)      BY <1>13 DEF WriteFailed
<1>14. CASE Release(w)          BY <1>14, <1>a, <1>b DEF Release
<1>15. CASE Settle(w)
  <2>1. CASE outcome[w] = "retry" /\ retries[w] < MaxRetries
    <3>1. retries[w] + 1 \in 0..MaxRetries /\ retries[w] + 1 <= Expiries
      BY <1>15, <1>c, <2>1, SMTT(30) DEF Settle
    <3>2. \A q \in 0..MaxRetries : queue'[q] > 0 => queue[q] > 0 \/ q = retries[w] + 1
      BY <1>15, <1>b, <2>1, <3>1, PutMore DEF Settle
    <3> QED BY <1>15, <1>c, <3>1, <3>2, SMTT(30) DEF Settle
  <2>2. CASE ~(outcome[w] = "retry" /\ retries[w] < MaxRetries)
    BY <1>15, <1>c, <2>2, SMTT(30) DEF Settle
  <2> QED BY <2>1, <2>2
<1>16. CASE StageRaises(w)      BY <1>16 DEF StageRaises
<1>17. CASE HeartbeatFails(w)   BY <1>17, <1>b DEF HeartbeatFails
<1>18. ~AcquireFails(w) /\ ~Crash(w)
  BY <1>b DEF AcquireFails, Crash
<1> QED BY <1>1, <1>2, <1>3, <1>4, <1>5, <1>6, <1>7, <1>8, <1>9, <1>10, <1>11, <1>12,
           <1>13, <1>14, <1>15, <1>16, <1>17, <1>18 DEF WorkerStep, Work

LEMMA RunInvStep ==
  ASSUME TypeOK, HolderInv, PromiseInv, BudgetInv, RunInv, [Next]_vars
  PROVE  RunInv'
<1> SUFFICES ASSUME Undisturbed' PROVE RunInv'
  BY DEF RunInv
<1>1. /\ Undisturbed
      /\ \A kind \in FaultKinds \ {"expiry"} : ~Spend(kind)
      /\ Expiries \in Nat /\ Expiries' \in Nat
      /\ Expiries <= Expiries' /\ Expiries' <= MaxRetries
      /\ Spend("expiry") => Expiries' = Expiries + 1
  BY QuietStep
<1>2. UNCHANGED faults => Expiries' = Expiries
  BY DEF Expiries
<1>3. ~Spend("redis") /\ ~Spend("crash") /\ ~Spend("broker") /\ ~Spend("storage")
      /\ ~Spend("delete")
  BY <1>1 DEF FaultKinds
<1>4. 0 \in 0..MaxRetries
  BY Parameters
<1>5. ASSUME NEW w \in Workers, WorkerStep(w) PROVE RunInv'
  <2>1. UNCHANGED faults
    BY <1>3, <1>5 DEF WorkerStep, Work, Receive, Discard, Acquire, FindLocked,
       Load, Requeue, Start, Transcribe, SaveCheckpoint, Extract, Commit, PublishRepair,
       WriteFailed, Release, Settle, StageRaises, AcquireFails, HeartbeatFails, Crash
  <2> QED BY <1>1, <1>2, <1>5, <2>1, RunOfWorker
<1>6. ASSUME NEW c \in Calls, Upload(c) \/ Call(c) PROVE RunInv'
  <2>1. UNCHANGED <<lock, revoked, workerVars, delPc, faults>>
    BY <1>3, <1>6 DEF Upload, UploadRead, UploadWrite, UploadFails, Call, CallRead,
       CallWrite, CallPublish, CallPublishFails, CallUndo, CallDies
  <2>2. UNCHANGED queue \/ Put(0)
    BY <1>3, <1>6 DEF Upload, UploadRead, UploadWrite, UploadFails, Call, CallRead,
       CallWrite, CallPublish, CallPublishFails, CallUndo, CallDies
  <2>3. \A q \in 0..MaxRetries : queue'[q] > 0 => queue[q] > 0 \/ q = 0
    BY <1>4, <2>2, PutMore DEF TypeOK
  <2>4. status' = status \/ status' \notin {"none", "PROCESSING"}
    BY <1>6, CallPromise
  <2> QED BY <1>1, <1>2, <2>1, <2>3, <2>4 DEF RunInv, workerVars
<1>7. CASE Reconcile
  <2>1. UNCHANGED <<durable, lock, revoked, workerVars, delPc, faults>>
    BY <1>3, <1>7 DEF Reconcile, ReconScan, ReconPublish
  <2>2. UNCHANGED queue \/ Put(0)
    BY <1>3, <1>7 DEF Reconcile, ReconScan, ReconPublish
  <2>3. \A q \in 0..MaxRetries : queue'[q] > 0 => queue[q] > 0 \/ q = 0
    BY <1>4, <2>2, PutMore DEF TypeOK
  <2> QED BY <1>1, <1>2, <2>1, <2>3 DEF RunInv, durable, workerVars
<1>8. ~DelAcquire /\ ~Delete /\ ~OrphanExpires
  BY <1>1, <1>3, ProcessNames DEF DelAcquire, Delete, DelRevoke, DelRows, DelRelease,
     OrphanExpires, RunInv, Orphan, Free
<1>9. CASE LiveExpires
  <2>1. Expiries' = Expiries + 1 /\ lock' = Free
        /\ UNCHANGED <<durable, queue, revoked, workerVars, delPc>>
    BY <1>1, <1>9 DEF LiveExpires
  <2>2. Free \notin Workers
    BY ProcessNames
  <2> QED BY <1>1, <2>1, <2>2 DEF RunInv, durable, workerVars, TypeOK
<1>10. CASE UNCHANGED vars
  BY <1>1, <1>2, <1>10 DEF RunInv, vars, durable, workerVars
<1> QED BY <1>5, <1>6, <1>7, <1>8, <1>9, <1>10 DEF Next, WorkerStep

LEMMA RunInvCorrect == Spec => []RunInv
<1>1. Init => RunInv
  <2> SUFFICES ASSUME Init PROVE RunInv
    OBVIOUS
  <2>1. Expiries = 0
    BY Parameters DEF Init, Expiries, FaultKinds
  <2> QED BY <2>1, ProcessNames DEF Init, RunInv, Holding, Stages, Free
<1>2. TypeOK /\ HolderInv /\ PromiseInv /\ BudgetInv /\ RunInv /\ [Next]_vars => RunInv'
  BY RunInvStep
<1> QED BY <1>1, <1>2, TypeCorrect, HolderCorrect, PromiseInvCorrect, BudgetCorrect, PTL
        DEF Spec

\* A step moves no worker but its own.
LEMMA OthersStay ==
  ASSUME TypeOK, NEW w \in Workers, WorkerStep(w), NEW x \in Workers, x # w
  PROVE  pc'[x] = pc[x] /\ outcome'[x] = outcome[x] /\ retries'[x] = retries[x]
<1> USE DEF TypeOK, Goto, Leave, workerVars
<1>1. CASE Receive(w) \/ Discard(w) \/ Acquire(w) \/ FindLocked(w)
  BY <1>1 DEF Receive, Discard, Acquire, FindLocked
<1>2. CASE Load(w) \/ Requeue(w) \/ Start(w)
  BY <1>2 DEF Load, Requeue, Start
<1>3. CASE Transcribe(w) \/ SaveCheckpoint(w) \/ Extract(w) \/ Commit(w)
  BY <1>3 DEF Transcribe, SaveCheckpoint, Extract, Commit
<1>4. CASE PublishRepair(w) \/ WriteFailed(w) \/ Release(w) \/ Settle(w) \/ StageRaises(w)
  BY <1>4 DEF PublishRepair, WriteFailed, Release, Settle, StageRaises
<1>5. CASE AcquireFails(w) \/ HeartbeatFails(w) \/ Crash(w)
  BY <1>5 DEF AcquireFails, HeartbeatFails, Crash
<1> QED BY <1>1, <1>2, <1>3, <1>4, <1>5 DEF WorkerStep, Work

Runner == (\E w \in Workers : WillRun(w)) \/ (\E r \in 0..MaxRetries : queue[r] > 0)

\* Who was to take the meeting further and has made a step is so still, has
\* taken the meeting out of PROCESSING, or leaves it to the owner of the lock
\* or to the message it publishes.
LEMMA RunnerSteps ==
  ASSUME TypeOK, TypeOK', HolderInv, RunInv, RunInv', NEW w \in Workers, WorkerStep(w),
         WillRun(w), Undisturbed, Undisturbed', Expiries' = Expiries,
         \A kind \in FaultKinds \ {"expiry"} : ~Spend(kind),
         Expiries \in Nat, Expiries <= MaxRetries, status = "PROCESSING", status' = "PROCESSING"
  PROVE  Runner'
<1> USE DEF TypeOK, Goto, Leave, Stages
<1>a. MaxRetries \in Nat
  BY Parameters
<1>b. ~Spend("redis") /\ ~Spend("crash") /\ ~Spend("broker")
  BY DEF FaultKinds
<1>c. pc'[w] \in {"acquire", "load", "requeue", "start", "fail"} \cup Stages => Runner'
  BY DEF Runner, WillRun
<1>d. pc'[w] \in {"release", "settle"} /\ outcome'[w] = "retry" => Runner'
  <2> SUFFICES ASSUME pc'[w] \in {"release", "settle"}, outcome'[w] = "retry"
               PROVE  WillRun(w)'
    BY DEF Runner
  <2>1. retries'[w] < Expiries /\ retries'[w] \in Nat
    BY DEF RunInv
  <2> QED BY <1>a, <2>1 DEF WillRun
<1>1. ~Receive(w) /\ ~Discard(w)
  BY DEF Receive, Discard, WillRun
<1>2. CASE Acquire(w)
  BY <1>2, <1>c DEF Acquire
<1>3. CASE FindLocked(w)
  <2>1. PICK v \in Workers : lock = v
    BY <1>3 DEF FindLocked, RunInv
  <2>2. v # w /\ pc[v] \in Holding
    BY <1>3, <2>1 DEF FindLocked, HolderInv, Holding
  <2>3. pc[v] \in {"load", "requeue", "start", "fail"} \cup Stages
    BY <2>1, <2>2 DEF RunInv, Holding
  <2>4. pc'[v] = pc[v]
    BY <2>2, OthersStay
  <2> QED BY <2>3, <2>4 DEF Runner, WillRun
<1>4. CASE Load(w)
  <2>1. CASE lost[w]
    BY <1>4, <1>d, <2>1 DEF Load
  <2>2. CASE ~lost[w]
    BY <1>4, <1>c, <2>2 DEF Load
  <2> QED BY <2>1, <2>2
<1>5. CASE Requeue(w)          BY <1>5, <1>c, <1>d DEF Requeue
<1>6. CASE Start(w)            BY <1>6, <1>c, <1>d DEF Start
<1>7. CASE Transcribe(w)       BY <1>7, <1>c, <1>d DEF Transcribe
<1>8. CASE SaveCheckpoint(w)   BY <1>8, <1>c DEF SaveCheckpoint
<1>9. CASE Extract(w)          BY <1>9, <1>c, <1>d DEF Extract
<1>10. CASE Commit(w)
  <2>1. CASE Exists /\ Owns(w)
    <3>1. lock' = w /\ pc'[w] = "repair"
      BY <1>10, <2>1 DEF Commit, Owns
    <3> QED BY <3>1 DEF RunInv
  <2>2. CASE ~Exists
    BY <1>10, <1>c, <2>2 DEF Commit
  <2>3. CASE Exists /\ ~Owns(w)
    BY <1>10, <1>d, <2>3 DEF Commit
  <2> QED BY <2>1, <2>2, <2>3
<1>11. ~PublishRepair(w)
  BY DEF PublishRepair, WillRun
<1>12. ~WriteFailed(w)
  BY DEF WriteFailed, Exists
<1>13. CASE Release(w)
  <2>1. outcome[w] = "retry"
    BY <1>13 DEF Release, WillRun
  <2> QED BY <1>13, <1>d, <2>1 DEF Release
<1>14. CASE Settle(w)
  <2>1. outcome[w] = "retry" /\ retries[w] < MaxRetries
    BY <1>14 DEF Settle, WillRun
  <2>2. retries[w] \in 0..MaxRetries
    OBVIOUS
  <2>3. retries[w] + 1 \in 0..MaxRetries
    BY <2>1, <2>2, NextRetry
  <2>4. Put(retries[w] + 1)
    BY <1>14, <1>b, <2>1 DEF Settle
  <2>5. queue'[retries[w] + 1] > 0
    BY <2>3, <2>4, PutMore
  <2> QED BY <2>3, <2>5 DEF Runner
<1>15. CASE StageRaises(w)     BY <1>15, <1>c DEF StageRaises
<1>16. CASE HeartbeatFails(w)
  <2>1. pc'[w] = pc[w] /\ pc[w] \in {"load", "requeue", "start"} \cup Stages
    BY <1>16 DEF HeartbeatFails
  <2> QED BY <1>c, <2>1
<1>17. ~AcquireFails(w) /\ ~Crash(w)
  BY <1>b DEF AcquireFails, Crash
<1> QED BY <1>1, <1>2, <1>3, <1>4, <1>5, <1>6, <1>7, <1>8, <1>9, <1>10, <1>11, <1>12,
           <1>13, <1>14, <1>15, <1>16, <1>17 DEF WorkerStep, Work

\* Only the owner of the lock, in Start, makes a meeting PROCESSING.
LEMMA WhoProcesses ==
  ASSUME TypeOK, HolderInv, PromiseInv, [Next]_vars,
         status # "PROCESSING", status' = "PROCESSING"
  PROVE  \E w \in Workers : WorkerStep(w) /\ pc'[w] = "transcribe"
<1>1. ASSUME NEW w \in Workers, WorkerStep(w) PROVE pc'[w] = "transcribe"
  <2>1. Start(w)
    BY <1>1 DEF WorkerStep, Work, Receive, Discard, Acquire, FindLocked, Load, Requeue,
       Transcribe, SaveCheckpoint, Extract, Commit, PublishRepair, WriteFailed, Release,
       Settle, StageRaises, AcquireFails, HeartbeatFails, Crash, durable, Flush
  <2> QED BY <2>1 DEF Start, Goto, TypeOK
<1>2. ASSUME NEW c \in Calls, Upload(c) \/ Call(c) PROVE FALSE
  BY <1>2, CallPromise
<1>3. ~(Reconcile \/ DelAcquire \/ Delete \/ OrphanExpires \/ LiveExpires
        \/ UNCHANGED vars)
  BY DEF Reconcile, ReconScan, ReconPublish, DelAcquire, Delete, DelRevoke, DelRows,
     DelRelease, OrphanExpires, LiveExpires, vars, durable
<1> QED BY <1>1, <1>2, <1>3 DEF Next, WorkerStep

LEMMA NotStrandedStep ==
  ASSUME TypeOK, HolderInv, PromiseInv, BudgetInv, RunInv, RunInv', NotStranded, [Next]_vars
  PROVE  NotStranded'
<1> SUFFICES ASSUME Undisturbed', status' = "PROCESSING" PROVE Runner'
  BY DEF NotStranded, Runner
<1>1. /\ Undisturbed
      /\ \A kind \in FaultKinds \ {"expiry"} : ~Spend(kind)
      /\ Expiries \in Nat /\ Expiries <= MaxRetries
  BY QuietStep DEF Undisturbed
<1>2. UNCHANGED faults => Expiries' = Expiries
  BY DEF Expiries
<1>3. ~Spend("redis") /\ ~Spend("crash") /\ ~Spend("broker") /\ ~Spend("storage")
      /\ ~Spend("delete")
  BY <1>1 DEF FaultKinds
<1>4. 0 \in 0..MaxRetries
  BY Parameters
<1>5. CASE status # "PROCESSING"
  BY <1>5, WhoProcesses DEF Runner, WillRun, Stages
<1>6. CASE status = "PROCESSING"
  <2>1. Runner
    BY <1>1, <1>6 DEF NotStranded, Runner
  <2>2. ASSUME NEW w \in Workers, WorkerStep(w) PROVE Runner'
    <3>1. UNCHANGED faults
      BY <1>3, <2>2 DEF WorkerStep, Work, Receive, Discard, Acquire, FindLocked,
         Load, Requeue, Start, Transcribe, SaveCheckpoint, Extract, Commit, PublishRepair,
         WriteFailed, Release, Settle, StageRaises, AcquireFails, HeartbeatFails, Crash
    <3>2. CASE WillRun(w)
      BY <1>1, <1>2, <1>6, <2>2, <3>1, <3>2, TypeNext, RunnerSteps
    <3>3. ASSUME NEW x \in Workers, x # w, WillRun(x) PROVE Runner'
      BY <2>2, <3>3, OthersStay DEF Runner, WillRun
    <3>4. ASSUME NEW r \in 0..MaxRetries, queue[r] > 0 PROVE Runner'
      <4>1. CASE Receive(w) \/ Discard(w)
        <5>1. ~Discard(w)
          BY <1>1 DEF Discard, RunInv
        <5> QED BY <4>1, <5>1 DEF Receive, Goto, TypeOK, Runner, WillRun
      <4>2. CASE ~Receive(w) /\ ~Discard(w)
        <5>a. retries[w] < MaxRetries => retries[w] + 1 \in 0..MaxRetries
          BY NextRetry DEF TypeOK
        <5>1. UNCHANGED queue \/ \E q \in 0..MaxRetries : Put(q)
          BY <1>3, <2>2, <4>2, <5>a DEF WorkerStep, Work, Acquire, FindLocked, Load,
             Requeue, Start, Transcribe, SaveCheckpoint, Extract, Commit, PublishRepair,
             WriteFailed, Release, Settle, StageRaises, AcquireFails, HeartbeatFails, Crash
        <5>2. queue'[r] > 0
          BY <3>4, <5>1, PutMore DEF TypeOK
        <5> QED BY <5>2 DEF Runner
      <4> QED BY <4>1, <4>2
    <3> QED BY <2>1, <3>2, <3>3, <3>4 DEF Runner
  <2>3. ASSUME UNCHANGED workerVars, UNCHANGED queue \/ Put(0) PROVE Runner'
    <3>1. \A q \in 0..MaxRetries : queue[q] > 0 => queue'[q] > 0
      BY <1>4, <2>3, PutMore DEF TypeOK
    <3> QED BY <2>1, <2>3, <3>1 DEF Runner, WillRun, workerVars
  <2>4. ASSUME NEW c \in Calls, Upload(c) \/ Call(c) PROVE Runner'
    BY <1>3, <2>3, <2>4 DEF Upload, UploadRead, UploadWrite, UploadFails, Call, CallRead,
       CallWrite, CallPublish, CallPublishFails, CallUndo, CallDies
  <2>5. CASE Reconcile \/ DelAcquire \/ Delete \/ OrphanExpires \/ LiveExpires
             \/ UNCHANGED vars
    BY <1>3, <2>3, <2>5 DEF Reconcile, ReconScan, ReconPublish, DelAcquire, Delete,
       DelRevoke, DelRows, DelRelease, OrphanExpires, LiveExpires, vars
  <2> QED BY <2>2, <2>4, <2>5 DEF Next, WorkerStep
<1> QED BY <1>5, <1>6

\* A meeting in PROCESSING has somebody who takes it further, as long as nothing
\* worse happens than locks that expire, and they no more often than the task
\* is retried.
THEOREM NotStrandedTheorem == Spec => []NotStranded
<1>1. Init => NotStranded
  BY DEF Init, NotStranded
<1>2. TypeOK /\ HolderInv /\ PromiseInv /\ BudgetInv /\ RunInv /\ RunInv' /\ NotStranded
        /\ [Next]_vars => NotStranded'
  BY NotStrandedStep
<1> QED BY <1>1, <1>2, TypeCorrect, HolderCorrect, PromiseInvCorrect, BudgetCorrect,
           RunInvCorrect, PTL DEF Spec
=============================================================================
