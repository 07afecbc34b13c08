--------------------------- MODULE ChatTurn_proofs ---------------------------
(* Theorems about ChatTurn, for any number of workers and questions, any     *)
(* retry limit and any fault budget.                                         *)
EXTENDS ChatTurn, TLAPS

LEMMA SpendType ==
  ASSUME NEW kind \in FaultKinds, faults \in [FaultKinds -> Nat], Spend(kind)
  PROVE  faults' \in [FaultKinds -> Nat]
BY DEF Spend

LEMMA PutType ==
  ASSUME NEW t \in Turns, NEW r \in 0..MaxRetries,
         queue \in [Turns \X (0..MaxRetries) -> Nat], Put(t, r)
  PROVE  queue' \in [Turns \X (0..MaxRetries) -> Nat]
<1>1. <<t, r>> \in Turns \X (0..MaxRetries)
  OBVIOUS
<1>2. queue[<<t, r>>] \in Nat
  BY <1>1
<1> QED BY <1>1, <1>2 DEF Put

LEMMA GotoType ==
  ASSUME NEW w \in Workers, NEW label \in Labels, pc \in [Workers -> Labels],
         Goto(w, label)
  PROVE  pc' \in [Workers -> Labels]
BY DEF Goto

LEMMA FailedType ==
  ASSUME NEW w \in Workers, pc \in [Workers -> Labels], Failed(w)
  PROVE  pc' \in [Workers -> Labels]
BY DEF Failed, Goto, Labels

LEMMA FinishType ==
  ASSUME NEW w \in Workers, NEW how \in {"ack", "retry"}, pc \in [Workers -> Labels],
         outcome \in [Workers -> {"ack", "retry"}], Finish(w, how)
  PROVE  /\ pc' \in [Workers -> Labels]
         /\ outcome' \in [Workers -> {"ack", "retry"}]
BY DEF Finish, Goto, Labels

\* Closing or requeueing turns keeps the rows well typed.
LEMMA CloseType ==
  ASSUME TypeOK, NEW t \in Turns, NEW how \in Terminal, Close(t, how)
  PROVE  /\ status' \in [Turns -> {"absent", "deleted"} \cup Active \cup Terminal]
         /\ lease' \in [Turns -> Workers \cup {Nobody, Orphan}]
         /\ expired' \in SUBSET Turns
         /\ answers' \in [Turns -> Nat]
         /\ pending' \in {"none", "queued", "started"}
BY DEF Close, TypeOK, Terminal, Active

LEMMA BackToQueueType ==
  ASSUME TypeOK, NEW ts \in SUBSET Turns, BackToQueue(ts)
  PROVE  /\ status' \in [Turns -> {"absent", "deleted"} \cup Active \cup Terminal]
         /\ lease' \in [Turns -> Workers \cup {Nobody, Orphan}]
         /\ expired' \in SUBSET Turns
BY DEF BackToQueue, TypeOK, Terminal, Active

LEMMA DisownType ==
  ASSUME TypeOK, NEW w \in Workers, Disown(w)
  PROVE  lease' \in [Turns -> Workers \cup {Nobody, Orphan}]
BY DEF Disown, TypeOK

LEMMA EndOfTaskType ==
  ASSUME TypeOK, NEW w \in Workers, EndOfTask(w)
  PROVE  /\ pc' \in [Workers -> Labels]
         /\ token' \in [Workers -> BOOLEAN]
         /\ retries' \in [Workers -> 0..MaxRetries]
         /\ outcome' \in [Workers -> {"ack", "retry"}]
         /\ ousted' \in SUBSET Workers
         /\ job' \in [Workers -> Turns]
<1>1. 0 \in 0..MaxRetries /\ 1 \in Turns
  BY ChatParameters DEF Turns
<1> QED BY <1>1 DEF EndOfTask, TypeOK, Goto, Labels

THEOREM TypeCorrect == Spec => []TypeOK
<1>1. Init => TypeOK
  <2>1. 0 \in 0..MaxRetries /\ 1 \in Turns
    BY ChatParameters DEF Turns
  <2> QED BY <2>1, ChatParameters DEF Init, TypeOK, Labels
<1>2. TypeOK /\ [Next]_vars => TypeOK'
  <2> SUFFICES ASSUME TypeOK, [Next]_vars PROVE TypeOK'
    OBVIOUS
  <2> USE DEF rows, workers
  <2>a. \A k \in FaultKinds : Spend(k) => faults' \in [FaultKinds -> Nat]
    BY SpendType DEF TypeOK
  <2>b. \A t \in Turns, r \in 0..MaxRetries :
           Put(t, r) => queue' \in [Turns \X (0..MaxRetries) -> Nat]
    BY PutType DEF TypeOK
  <2>c. 0 \in 0..MaxRetries /\ 1 \in Turns
    BY ChatParameters DEF Turns
  <2>d. {"expiry", "crash", "broker", "database", "raise", "delete"} \subseteq FaultKinds
    BY DEF FaultKinds
  <2>e. \A w \in Workers, label \in Labels : Goto(w, label) => pc' \in [Workers -> Labels]
    BY GotoType DEF TypeOK
  <2>f. \A w \in Workers : Failed(w) => pc' \in [Workers -> Labels]
    BY FailedType DEF TypeOK
  <2>g. \A w \in Workers, how \in {"ack", "retry"} : Finish(w, how) =>
           /\ pc' \in [Workers -> Labels]
           /\ outcome' \in [Workers -> {"ack", "retry"}]
    BY FinishType DEF TypeOK
  <2>1. ASSUME NEW t \in Turns, Ask(t) PROVE TypeOK'
    BY <2>1 DEF Ask, TypeOK, Active
  <2>2. ASSUME NEW t \in Turns, AskPublish(t) PROVE TypeOK'
    <3>1. /\ queue' \in [Turns \X (0..MaxRetries) -> Nat]
          /\ faults' \in [FaultKinds -> Nat]
      BY <2>2, <2>a, <2>b, <2>c, <2>d DEF AskPublish, TypeOK
    <3> QED BY <2>2, <3>1 DEF AskPublish, TypeOK
  <2>3. ASSUME NEW t \in Turns, LeaseExpires(t) PROVE TypeOK'
    <3>1. faults' \in [FaultKinds -> Nat]
      BY <2>3, <2>a, <2>d DEF LeaseExpires, TypeOK
    <3> QED BY <2>3, <3>1 DEF LeaseExpires, TypeOK
  <2>4. CASE DeleteMeeting
    <3>1. faults' \in [FaultKinds -> Nat]
      BY <2>4, <2>a, <2>d DEF DeleteMeeting
    <3> QED BY <2>4, <3>1 DEF DeleteMeeting, TypeOK
  <2>5. ASSUME NEW w \in Workers, Work(w) PROVE TypeOK'
    <3>1. CASE Receive(w)
      <4>1. PICK t \in Turns, r \in 0..MaxRetries :
              /\ queue[<<t, r>>] > 0
              /\ queue' = [queue EXCEPT ![<<t, r>>] = @ - 1]
              /\ job' = [job EXCEPT ![w] = t]
              /\ retries' = [retries EXCEPT ![w] = r]
        BY <3>1 DEF Receive
      <4>2. <<t, r>> \in Turns \X (0..MaxRetries) /\ queue[<<t, r>>] - 1 \in Nat
        BY <4>1 DEF TypeOK
      <4>3. queue' \in [Turns \X (0..MaxRetries) -> Nat]
        BY <4>1, <4>2 DEF TypeOK
      <4>4. pc' \in [Workers -> Labels]
        BY <3>1, <2>e DEF Receive, Labels
      <4> QED BY <3>1, <4>1, <4>3, <4>4 DEF Receive, TypeOK
    <3>2. CASE Open(w)
      <4>1. pc' \in [Workers -> Labels] /\ outcome' \in [Workers -> {"ack", "retry"}]
        <5>1. CASE status[job[w]] = "deleted"
          BY <3>2, <5>1, <2>g DEF Open
        <5>2. CASE status[job[w]] # "deleted"
          BY <3>2, <5>2, <2>e DEF Open, Labels, TypeOK
        <5> QED BY <5>1, <5>2
      <4> QED BY <3>2, <4>1 DEF Open, TypeOK
    <3>3. CASE Claim(w)
      <4>1. CASE status[job[w]] = "queued"
        <5>1. pc' \in [Workers -> Labels]
          BY <3>3, <4>1, <2>e DEF Claim, Labels
        <5> QED BY <3>3, <4>1, <5>1 DEF Claim, TypeOK, Active
      <4>2. CASE status[job[w]] # "queued"
        <5>1. pc' \in [Workers -> Labels] /\ outcome' \in [Workers -> {"ack", "retry"}]
          BY <3>3, <4>2, <2>g DEF Claim
        <5> QED BY <3>3, <4>2, <5>1 DEF Claim, TypeOK
      <4> QED BY <4>1, <4>2
    <3>4. CASE Run(w)
      <4>1. pc' \in [Workers -> Labels]
        BY <3>4, <2>e, <2>f DEF Run, Labels
      <4> QED BY <3>4, <4>1 DEF Run, TypeOK
    <3>5. CASE Persist(w)
      <4>1. job[w] \in Turns
        BY DEF TypeOK
      <4>2. ASSUME NEW how \in Terminal, Close(job[w], how), Goto(w, "report"),
                   UNCHANGED outcome
            PROVE  TypeOK'
        <5>1. pc' \in [Workers -> Labels]
          BY <4>2, <2>e DEF Labels
        <5> QED BY <3>5, <4>1, <4>2, <5>1, CloseType DEF Persist, TypeOK
      <4>3. CASE Finish(w, "ack") /\ UNCHANGED rows
        <5>1. pc' \in [Workers -> Labels] /\ outcome' \in [Workers -> {"ack", "retry"}]
          BY <4>3, <2>g
        <5> QED BY <3>5, <4>3, <5>1 DEF Persist, TypeOK
      <4>4. CASE Failed(w) /\ UNCHANGED <<rows, outcome>>
        <5>1. pc' \in [Workers -> Labels]
          BY <4>4, <2>f
        <5> QED BY <3>5, <4>4, <5>1 DEF Persist, TypeOK
      <4> QED BY <3>5, <4>2, <4>3, <4>4 DEF Persist
    <3>6. CASE Report(w)
      <4>1. pc' \in [Workers -> Labels] /\ outcome' \in [Workers -> {"ack", "retry"}]
        BY <3>6, <2>g DEF Report
      <4> QED BY <3>6, <4>1 DEF Report, TypeOK
    <3>7. CASE Requeue(w)
      <4>1. pc' \in [Workers -> Labels] /\ outcome' \in [Workers -> {"ack", "retry"}]
        BY <3>7, <2>g DEF Requeue
      <4>2. {job[w]} \in SUBSET Turns
        BY DEF TypeOK
      <4>3. CASE token[w] /\ Owns(w)
        BY <3>7, <4>1, <4>2, <4>3, BackToQueueType DEF Requeue, TypeOK
      <4>4. CASE ~(token[w] /\ Owns(w))
        BY <3>7, <4>1, <4>4 DEF Requeue, TypeOK
      <4> QED BY <4>3, <4>4
    <3>8. CASE GiveUp(w)
      <4>1. pc' \in [Workers -> Labels] /\ outcome' \in [Workers -> {"ack", "retry"}]
        BY <3>8, <2>g DEF GiveUp
      <4>2. job[w] \in Turns /\ "error" \in Terminal
        BY DEF TypeOK, Terminal
      <4>3. CASE MayGiveUp(w)
        <5>1. ousted' \in SUBSET Workers
          BY <3>8, <4>3 DEF GiveUp, TypeOK
        <5>2. Close(job[w], "error")
          BY <3>8, <4>3 DEF GiveUp
        <5> QED BY <3>8, <4>1, <4>2, <5>1, <5>2, CloseType DEF GiveUp, TypeOK
      <4>4. CASE ~MayGiveUp(w)
        BY <3>8, <4>1, <4>4 DEF GiveUp, TypeOK
      <4> QED BY <4>3, <4>4
    <3>9. CASE Settle(w)
      <4>1. faults' \in [FaultKinds -> Nat]
        BY <3>9, <2>a, <2>d DEF Settle, TypeOK
      <4>2. queue' \in [Turns \X (0..MaxRetries) -> Nat]
        <5>1. CASE retries[w] + 1 \in 0..MaxRetries
          BY <3>9, <5>1, <2>b DEF Settle, TypeOK
        <5>2. CASE retries[w] + 1 \notin 0..MaxRetries
          BY <3>9, <5>2 DEF Settle, TypeOK, Put
        <5> QED BY <5>1, <5>2
      <4> QED BY <3>9, <4>1, <4>2, EndOfTaskType DEF Settle, TypeOK
    <3> QED BY <2>5, <3>1, <3>2, <3>3, <3>4, <3>5, <3>6, <3>7, <3>8, <3>9 DEF Work
  <2>6. ASSUME NEW w \in Workers, Fault(w) PROVE TypeOK'
    <3>1. CASE SetupRaises(w)
      <4>1. faults' \in [FaultKinds -> Nat] /\ pc' \in [Workers -> Labels]
        BY <3>1, <2>a, <2>d, <2>f DEF SetupRaises
      <4> QED BY <3>1, <4>1 DEF SetupRaises, TypeOK
    <3>2. CASE ClaimCommitFails(w)
      <4>1. faults' \in [FaultKinds -> Nat] /\ pc' \in [Workers -> Labels]
        BY <3>2, <2>a, <2>d, <2>f DEF ClaimCommitFails
      <4> QED BY <3>2, <4>1 DEF ClaimCommitFails, TypeOK
    <3>3. CASE StageRaises(w)
      <4>1. faults' \in [FaultKinds -> Nat] /\ pc' \in [Workers -> Labels]
        BY <3>3, <2>a, <2>d, <2>f DEF StageRaises
      <4> QED BY <3>3, <4>1 DEF StageRaises, TypeOK
    <3>4. CASE HandlerFails(w)
      <4>1. faults' \in [FaultKinds -> Nat]
        BY <3>4, <2>a, <2>d DEF HandlerFails
      <4>2. pc' \in [Workers -> Labels] /\ outcome' \in [Workers -> {"ack", "retry"}]
        BY <3>4, <2>g DEF HandlerFails
      <4> QED BY <3>4, <4>1, <4>2, DisownType DEF HandlerFails, TypeOK
    <3>5. CASE Crash(w)
      <4>1. /\ faults' \in [FaultKinds -> Nat]
            /\ queue' \in [Turns \X (0..MaxRetries) -> Nat]
        BY <3>5, <2>a, <2>b, <2>d DEF Crash, TypeOK
      <4> QED BY <3>5, <4>1, DisownType, EndOfTaskType DEF Crash, TypeOK
    <3> QED BY <2>6, <3>1, <3>2, <3>3, <3>4, <3>5 DEF Fault
  <2>7. CASE ReconScan
    <3>1. Stale \in SUBSET Turns
      BY DEF Stale
    <3> QED BY <2>7, <3>1, BackToQueueType DEF ReconScan, TypeOK
  <2>8. ASSUME NEW t \in Turns, ReconPublish(t) PROVE TypeOK'
    <3>1. /\ queue' \in [Turns \X (0..MaxRetries) -> Nat]
          /\ faults' \in [FaultKinds -> Nat]
      BY <2>8, <2>a, <2>b, <2>c, <2>d DEF ReconPublish, TypeOK
    <3> QED BY <2>8, <3>1 DEF ReconPublish, TypeOK
  <2>9. CASE UNCHANGED vars
    BY <2>9 DEF vars, TypeOK
  <2> QED BY <2>1, <2>2, <2>3, <2>4, <2>5, <2>6, <2>7, <2>8, <2>9 DEF Next, Reconcile
<1> QED BY <1>1, <1>2, PTL DEF Spec
-----------------------------------------------------------------------------
(* The leases.                                                             *)

\* LeaseInv is inductive relative to TypeOK: claim, persistence, retry, giving
\* up, takeover and crash all leave lease, turn and worker in agreement.
LEMMA LeaseStep ==
  ASSUME TypeOK, LeaseInv, [Next]_vars
  PROVE  LeaseInv'
<1> USE DEF TypeOK, LeaseInv, rows, workers, Active, Terminal, Nobody, Orphan
<1>n. Nobody \notin Workers /\ Orphan \notin Workers /\ Nobody # Orphan
  BY WorkerNames
<1>f. \A w \in Workers : Failed(w) =>
         \/ pc' = [pc EXCEPT ![w] = "requeue"] \/ pc' = [pc EXCEPT ![w] = "giveup"]
  BY DEF Failed, Goto
<1>g. \A w \in Workers, how \in {"ack", "retry"} :
         Finish(w, how) => pc' = [pc EXCEPT ![w] = "settle"]
  BY DEF Finish, Goto
<1>1. ASSUME NEW t \in Turns, Ask(t) PROVE LeaseInv'
  BY <1>1 DEF Ask
<1>2. ASSUME NEW t \in Turns, AskPublish(t) PROVE LeaseInv'
  BY <1>2 DEF AskPublish
<1>3. ASSUME NEW t \in Turns, LeaseExpires(t) PROVE LeaseInv'
  BY <1>3 DEF LeaseExpires
<1>4. CASE DeleteMeeting
  BY <1>4, <1>n DEF DeleteMeeting
<1>5. ASSUME NEW w \in Workers, Work(w) PROVE LeaseInv'
  <2>1. CASE Receive(w)
    <3>1. pc[w] = "idle" /\ \A t \in Turns : lease[t] # w
      BY <2>1 DEF Receive
    <3> QED BY <2>1, <3>1 DEF Receive, Goto
  <2>2. CASE Open(w)
    <3>1. pc' = [pc EXCEPT ![w] = "settle"] \/ pc' = [pc EXCEPT ![w] = "claim"]
      BY <2>2, <1>g DEF Open, Goto
    <3>2. UNCHANGED <<status, lease, expired, job, token, ousted>> /\ pc[w] = "open"
      BY <2>2 DEF Open
    <3> QED BY <3>1, <3>2
  <2>3. CASE Claim(w)
    <3>1. CASE status[job[w]] = "queued"
      <4>1. lease[job[w]] = Nobody /\ job[w] \notin expired /\ w \notin ousted
        BY <2>3, <3>1 DEF Claim
      <4>2. job[w] \in Turns /\ pc[w] = "claim" /\ \A t \in Turns : lease[t] # w
        BY <2>3 DEF Claim
      <4>3. /\ status' = [status EXCEPT ![job[w]] = "started"]
            /\ lease' = [lease EXCEPT ![job[w]] = w]
            /\ token' = [token EXCEPT ![w] = TRUE]
            /\ pc' = [pc EXCEPT ![w] = "run"]
            /\ UNCHANGED <<expired, job, ousted>>
        BY <2>3, <3>1 DEF Claim, Goto
      <4>4. \A x \in Workers, t \in Turns : lease'[t] = x =>
               /\ job[x] = t /\ token'[x] /\ x \notin ousted
               /\ pc'[x] \in {"run", "persist", "requeue", "giveup"}
        BY <4>1, <4>2, <4>3
      <4>5. \A t \in Turns : /\ status'[t] = "started" <=> lease'[t] # Nobody
                             /\ t \in expired => status'[t] = "started"
        BY <4>1, <4>2, <4>3, <1>n
      <4>6. \A x \in Workers : /\ x \in ousted => token'[x]
                               /\ pc'[x] \in {"idle", "open", "claim"} => ~token'[x]
                               /\ pc'[x] \in {"run", "persist"} => token'[x]
        BY <4>2, <4>3
      <4> QED BY <4>3, <4>4, <4>5, <4>6
    <3>2. CASE status[job[w]] # "queued"
      BY <2>3, <3>2, <1>g DEF Claim
    <3> QED BY <3>1, <3>2
  <2>4. CASE Run(w)
    <3>1. \E label \in {"requeue", "giveup", "persist"} : pc' = [pc EXCEPT ![w] = label]
      BY <2>4, <1>f DEF Run, Goto
    <3>2. UNCHANGED <<status, lease, expired, job, token, ousted>>
      BY <2>4 DEF Run
    <3> QED BY <2>4, <3>1, <3>2 DEF Run
  <2>5. CASE Persist(w)
    <3>1. CASE Owns(w) /\ \E how \in Terminal : Close(job[w], how) /\ Goto(w, "report")
      BY <2>5, <3>1, <1>n DEF Persist, Owns, Close, Goto
    <3>2. CASE ~Owns(w) /\ Finish(w, "ack") /\ UNCHANGED rows
      BY <2>5, <3>2, <1>g, <1>n DEF Persist, Owns
    <3>3. CASE status[job[w]] = "deleted" /\ Failed(w) /\ UNCHANGED rows
      BY <2>5, <3>3, <1>f DEF Persist
    <3> QED BY <2>5, <3>1, <3>2, <3>3 DEF Persist
  <2>6. CASE Report(w)
    BY <2>6, <1>g DEF Report
  <2>7. CASE Requeue(w)
    <3>1. CASE token[w] /\ Owns(w)
      BY <2>7, <3>1, <1>g, <1>n DEF Requeue, Owns, BackToQueue
    <3>2. CASE ~(token[w] /\ Owns(w))
      BY <2>7, <3>2, <1>g, <1>n DEF Requeue, Owns
    <3> QED BY <3>1, <3>2
  <2>8. CASE GiveUp(w)
    <3>1. CASE MayGiveUp(w)
      <4>1. \A x \in ousted' : x \in Workers /\ token[x]
        BY <2>8, <3>1 DEF GiveUp
      <4>2. \A x \in ousted' \ ousted : x = lease[job[w]] /\ x # w
        BY <2>8, <3>1 DEF GiveUp
      <4> QED BY <2>8, <3>1, <4>1, <4>2, <1>g, <1>n DEF GiveUp, Close
    <3>2. CASE ~MayGiveUp(w)
      BY <2>8, <3>2, <1>g, <1>n DEF GiveUp, MayGiveUp
    <3> QED BY <3>1, <3>2
  <2>9. CASE Settle(w)
    BY <2>9, <1>n DEF Settle, EndOfTask, Goto
  <2> QED BY <1>5, <2>1, <2>2, <2>3, <2>4, <2>5, <2>6, <2>7, <2>8, <2>9 DEF Work
<1>6. ASSUME NEW w \in Workers, Fault(w) PROVE LeaseInv'
  <2>1. CASE SetupRaises(w)
    BY <2>1, <1>f DEF SetupRaises
  <2>2. CASE ClaimCommitFails(w)
    BY <2>2, <1>f DEF ClaimCommitFails
  <2>3. CASE StageRaises(w)
    BY <2>3, <1>f DEF StageRaises
  <2>4. CASE HandlerFails(w)
    BY <2>4, <1>g, <1>n DEF HandlerFails, Disown
  <2>5. CASE Crash(w)
    BY <2>5, <1>n DEF Crash, Disown, EndOfTask, Goto
  <2> QED BY <1>6, <2>1, <2>2, <2>3, <2>4, <2>5 DEF Fault
<1>7. CASE ReconScan
  <2>1. \A x \in ousted' : x \in Workers /\ token[x]
    BY <1>7, <1>n DEF ReconScan, Stale
  <2>2. \A x \in ousted' \ ousted : \E t \in Stale : x = lease[t]
    BY <1>7 DEF ReconScan
  <2> QED BY <1>7, <2>1, <2>2, <1>n DEF ReconScan, BackToQueue, Stale
<1>8. ASSUME NEW t \in Turns, ReconPublish(t) PROVE LeaseInv'
  BY <1>8 DEF ReconPublish
<1>9. CASE UNCHANGED vars
  BY <1>9 DEF vars
<1> QED BY <1>1, <1>2, <1>3, <1>4, <1>5, <1>6, <1>7, <1>8, <1>9 DEF Next, Reconcile

\* Leases, turns and workers agree in every reachable state.
THEOREM LeaseCorrect == Spec => []LeaseInv
<1>1. Init => LeaseInv
  BY WorkerNames DEF Init, LeaseInv, Nobody
<1>2. TypeOK /\ LeaseInv /\ [Next]_vars => LeaseInv'
  BY LeaseStep
<1> QED BY <1>1, <1>2, TypeCorrect, PTL DEF Spec
-----------------------------------------------------------------------------
(* The turns.                                                              *)

\* All that a step can do to the turns of a meeting.
TurnsSame   == UNCHANGED <<status, answers, pending>>
Started(t)  == /\ status[t] = "queued" /\ status' = [status EXCEPT ![t] = "started"]
               /\ pending' = "started" /\ UNCHANGED answers
Closed(t)   == /\ status[t] \in Active
               /\ \E how \in Terminal : Close(t, how)
Requeued(ts) == /\ ts \subseteq {t \in Turns : status[t] \in Active}
                /\ BackToQueue(ts) /\ UNCHANGED answers
                /\ pending' = pending \/ (pending' = "queued" /\ ts # {})

LEMMA TurnChange ==
  ASSUME TypeOK, LeaseInv, [Next]_vars
  PROVE  \/ TurnsSame
         \/ DeleteMeeting
         \/ \E t \in Turns : Ask(t) \/ Started(t) \/ Closed(t)
         \/ \E ts \in SUBSET Turns : Requeued(ts)
<1> USE DEF TypeOK, rows, workers
<1>1. ASSUME NEW t \in Turns, AskPublish(t) \/ LeaseExpires(t) \/ ReconPublish(t)
      PROVE  TurnsSame
  BY <1>1 DEF AskPublish, LeaseExpires, ReconPublish, TurnsSame
<1>2. ASSUME NEW w \in Workers, Fault(w) PROVE TurnsSame
  BY <1>2 DEF Fault, SetupRaises, ClaimCommitFails, StageRaises, HandlerFails, Crash,
              TurnsSame
<1>3. ASSUME NEW w \in Workers, Receive(w) \/ Open(w) \/ Run(w) \/ Report(w) \/ Settle(w)
      PROVE  TurnsSame
  BY <1>3 DEF Receive, Open, Run, Report, Settle, TurnsSame
<1>4. ASSUME NEW w \in Workers, Claim(w) PROVE TurnsSame \/ Started(job[w])
  BY <1>4 DEF Claim, Started, TurnsSame
<1>5. ASSUME NEW w \in Workers, Persist(w) PROVE TurnsSame \/ Closed(job[w])
  BY <1>5 DEF Persist, Owns, Closed, Active, TurnsSame
<1>6. ASSUME NEW w \in Workers, Requeue(w) PROVE TurnsSame \/ Requeued({job[w]})
  BY <1>6 DEF Requeue, Owns, Requeued, Active, TurnsSame
<1>7. ASSUME NEW w \in Workers, GiveUp(w) PROVE TurnsSame \/ Closed(job[w])
  <2>1. CASE MayGiveUp(w)
    BY <1>7, <2>1 DEF GiveUp, MayGiveUp, Closed, Active, Terminal
  <2>2. CASE ~MayGiveUp(w)
    BY <1>7, <2>2 DEF GiveUp, TurnsSame
  <2> QED BY <2>1, <2>2
<1>8. CASE ReconScan
  <2>1. Stale \in SUBSET Turns /\ Stale \subseteq {t \in Turns : status[t] \in Active}
    BY DEF Stale, Active
  <2> QED BY <1>8, <2>1 DEF ReconScan, Requeued
<1>9. CASE UNCHANGED vars
  BY <1>9 DEF vars, TurnsSame
<1>10. \A w \in Workers : job[w] \in Turns /\ {job[w]} \in SUBSET Turns
  OBVIOUS
<1> QED BY <1>1, <1>2, <1>3, <1>4, <1>5, <1>6, <1>7, <1>8, <1>9, <1>10
        DEF Next, Work, Reconcile

TurnInv == AnsweredOnce /\ EarlierTurnsClosed /\ PendingIffActive

LEMMA TurnStep ==
  ASSUME TypeOK, LeaseInv, TurnInv, [Next]_vars
  PROVE  TurnInv'
<1> USE DEF TypeOK, TurnInv, AnsweredOnce, EarlierTurnsClosed, PendingIffActive,
            Active, Terminal
<1>n. Turns \subseteq Nat
  BY DEF Turns
<1>1. CASE TurnsSame
  BY <1>1 DEF TurnsSame
<1>2. CASE DeleteMeeting
  BY <1>2 DEF DeleteMeeting
<1>3. ASSUME NEW t \in Turns, Ask(t) PROVE TurnInv'
  <2>1. \A u \in Turns : u > t => status[u] \in {"absent", "deleted"}
    BY <1>3, <1>n DEF Ask
  <2>2. status' = [status EXCEPT ![t] = "queued"] /\ pending' = "queued"
        /\ answers' = answers /\ status[t] = "absent"
    BY <1>3 DEF Ask
  <2>3. \A u \in Turns : u < t => status[u] \in Terminal
    BY <1>3 DEF Ask
  <2>4. EarlierTurnsClosed'
    BY <2>1, <2>2, <2>3, <1>n
  <2> QED BY <2>2, <2>4
<1>4. ASSUME NEW t \in Turns, Started(t) PROVE TurnInv'
  BY <1>4 DEF Started
<1>5. ASSUME NEW t \in Turns, Closed(t) PROVE TurnInv'
  <2>1. PICK how \in Terminal : Close(t, how)
    BY <1>5 DEF Closed
  <2>2. \A u \in Turns : u # t => status[u] \notin Active
    <3>1. ASSUME NEW u \in Turns, u < t, status[u] \in Active PROVE FALSE
      BY <1>5, <3>1 DEF Closed
    <3>2. ASSUME NEW u \in Turns, t < u, status[u] \in Active PROVE FALSE
      BY <1>5, <3>2 DEF Closed
    <3> QED BY <3>1, <3>2, <1>n
  <2>3. AnsweredOnce'
    BY <1>5, <2>1 DEF Closed, Close
  <2>4. EarlierTurnsClosed'
    BY <1>5, <2>1 DEF Closed, Close
  <2>5. PendingIffActive'
    BY <2>1, <2>2 DEF Close
  <2> QED BY <2>3, <2>4, <2>5
<1>6. ASSUME NEW ts \in SUBSET Turns, Requeued(ts) PROVE TurnInv'
  <2>1. AnsweredOnce'
    BY <1>6 DEF Requeued, BackToQueue
  <2>2. EarlierTurnsClosed'
    BY <1>6 DEF Requeued, BackToQueue
  <2>3. PendingIffActive'
    BY <1>6 DEF Requeued, BackToQueue
  <2> QED BY <2>1, <2>2, <2>3
<1> QED BY <1>1, <1>2, <1>3, <1>4, <1>5, <1>6, TurnChange

LEMMA TurnsCorrect == Spec => []TurnInv
<1>1. Init => TurnInv
  BY DEF Init, TurnInv, AnsweredOnce, EarlierTurnsClosed, PendingIffActive, Active, Terminal
<1>2. TypeOK /\ LeaseInv /\ TurnInv /\ [Next]_vars => TurnInv'
  BY TurnStep
<1> QED BY <1>1, <1>2, TypeCorrect, LeaseCorrect, PTL DEF Spec

\* One assistant message for every terminal turn, and none for any other.
THEOREM AnsweredOnceTheorem == Spec => []AnsweredOnce
<1>1. TurnInv => AnsweredOnce
  BY DEF TurnInv
<1> QED BY <1>1, TurnsCorrect, PTL

\* The history a turn reads is settled.
THEOREM EarlierTurnsTheorem == Spec => []EarlierTurnsClosed
<1>1. TurnInv => EarlierTurnsClosed
  BY DEF TurnInv
<1> QED BY <1>1, TurnsCorrect, PTL

\* The pending flag of the meeting and its turns agree.
THEOREM PendingTheorem == Spec => []PendingIffActive
<1>1. TurnInv => PendingIffActive
  BY DEF TurnInv
<1> QED BY <1>1, TurnsCorrect, PTL
-----------------------------------------------------------------------------
(* A worker that lost its lease.                                           *)

LEMMA StepIsOwn ==
  ASSUME TypeOK, [Next]_vars, NEW w \in Workers, Steps(w)
  PROVE  Work(w) \/ Fault(w)
<1> USE DEF TypeOK, Steps, workers
<1>1. ASSUME NEW x \in Workers, x # w, Work(x) PROVE FALSE
  BY <1>1 DEF Work, Receive, Open, Claim, Run, Persist, Report, Requeue, GiveUp, Settle,
              EndOfTask, Finish, Failed, Goto
<1>2. ASSUME NEW x \in Workers, x # w, Fault(x) PROVE FALSE
  BY <1>2 DEF Fault, SetupRaises, ClaimCommitFails, StageRaises, HandlerFails, Crash,
              EndOfTask, Finish, Failed, Goto
<1>3. ASSUME NEW t \in Turns, Ask(t) \/ AskPublish(t) \/ LeaseExpires(t) \/ ReconPublish(t)
      PROVE  FALSE
  BY <1>3 DEF Ask, AskPublish, LeaseExpires, ReconPublish
<1>4. CASE DeleteMeeting \/ ReconScan
  BY <1>4 DEF DeleteMeeting, ReconScan
<1>5. CASE UNCHANGED vars
  BY <1>5 DEF vars
<1> QED BY <1>1, <1>2, <1>3, <1>4, <1>5 DEF Next, Reconcile

\* After a takeover the worker that lost the turn writes nothing more to it.
THEOREM OustedTheorem == Spec => OustedNeverWrites
<1>1. ASSUME TypeOK, LeaseInv, [Next]_vars, NEW w \in ousted, Steps(w)
      PROVE  status' = status /\ answers' = answers /\ pending' = pending
  <2>1. w \in Workers /\ token[w] /\ pc[w] \notin {"idle", "open", "claim"}
    BY <1>1 DEF TypeOK, LeaseInv
  <2>2. lease[job[w]] # w
    BY <1>1, <2>1 DEF TypeOK, LeaseInv
  <2>3. Work(w) \/ Fault(w)
    BY <1>1, <2>1, StepIsOwn
  <2>4. CASE Fault(w)
    BY <2>4 DEF Fault, SetupRaises, ClaimCommitFails, StageRaises, HandlerFails, Crash, rows
  <2>5. CASE Receive(w) \/ Open(w) \/ Claim(w)
    BY <2>1, <2>5 DEF Receive, Open, Claim
  <2>6. CASE Run(w) \/ Report(w) \/ Settle(w)
    BY <2>6 DEF Run, Report, Settle, rows
  <2>7. CASE Persist(w) \/ Requeue(w)
    BY <2>2, <2>7 DEF Persist, Requeue, Owns, rows
  <2>8. CASE GiveUp(w)
    <3>1. ~MayGiveUp(w)
      BY <2>1, <2>2 DEF MayGiveUp
    <3> QED BY <2>8, <3>1 DEF GiveUp, rows
  <2> QED BY <2>3, <2>4, <2>5, <2>6, <2>7, <2>8 DEF Work
<1>2. TypeOK /\ LeaseInv /\ [Next]_vars
        => [\A w \in ousted : Steps(w) => /\ status' = status /\ answers' = answers
                                          /\ pending' = pending]_vars
  BY <1>1
<1> QED BY <1>2, TypeCorrect, LeaseCorrect, PTL DEF Spec, OustedNeverWrites
-----------------------------------------------------------------------------
(* The promise.                                                            *)

LEMMA PromiseStep ==
  ASSUME TypeOK, TurnInv, LeaseInv, [Next]_vars
  PROVE  [Promise!Next]_(Promise!promise)
<1> USE DEF TypeOK, Active, Terminal
<1>t. Promise!Turns = Turns
  BY DEF Promise!Turns, Turns
<1>1. CASE TurnsSame
  BY <1>1 DEF TurnsSame, Promise!promise
<1>2. CASE DeleteMeeting
  BY <1>2, <1>t DEF DeleteMeeting, Promise!Next, Promise!DeleteMeeting
<1>3. ASSUME NEW t \in Turns, Ask(t) PROVE Promise!Ask(t)
  BY <1>3, <1>t DEF Ask, Promise!Ask
<1>4. ASSUME NEW t \in Turns, Started(t) PROVE UNCHANGED Promise!promise
  BY <1>4 DEF Started, Promise!promise
<1>5. ASSUME NEW t \in Turns, Closed(t) PROVE Promise!Answer(t)
  <2> PICK how \in Terminal : Close(t, how)
    BY <1>5 DEF Closed
  <2>1. status[t] \in Active /\ answers[t] = 0
    BY <1>5 DEF Closed, TurnInv, AnsweredOnce
  <2>2. answers' = [answers EXCEPT ![t] = 1]
    BY <2>1 DEF Close
  <2>3. \A u \in Turns : status'[u] = IF u = t THEN how ELSE status[u]
    BY DEF Close
  <2> QED BY <2>1, <2>2, <2>3 DEF Promise!Answer
<1>6. ASSUME NEW ts \in SUBSET Turns, Requeued(ts) PROVE UNCHANGED Promise!promise
  BY <1>6 DEF Requeued, BackToQueue, Promise!promise
<1> QED BY <1>t, <1>1, <1>2, <1>3, <1>4, <1>5, <1>6, TurnChange DEF Promise!Next

\* ChatTurn implements ChatPromise: turns open one at a time, in order, and
\* each is answered by one message in one step.
THEOREM PromiseTheorem == Spec => KeepsPromise
<1>1. Init => Promise!Init
  BY DEF Init, Promise!Init, Promise!Turns, Turns, Active, Terminal
<1>2. TypeOK /\ TurnInv /\ LeaseInv /\ [Next]_vars => [Promise!Next]_(Promise!promise)
  BY PromiseStep
<1> QED BY <1>1, <1>2, TypeCorrect, TurnsCorrect, LeaseCorrect, PTL
        DEF Spec, KeepsPromise, Promise!Spec
=============================================================================
