---------------------------- MODULE CircuitBreaker ----------------------------
(***************************************************************************)
(* One CircuitBreaker object (Milvus, MinIO, an embedding or a language    *)
(* model has one in every process) and the threads that call through it.   *)
(* The lock covers the decision and the bookkeeping, not the call: calls   *)
(* that began under one state of the breaker end under another.            *)
(*                                                                         *)
(* A rejected call changes nothing and is not an action.  With `enabled`   *)
(* FALSE the breaker is not there.                                         *)
(*                                                                         *)
(* NeverAgain, KeepCount and OpensLate are mistakes the code does not make.*)
(***************************************************************************)
EXTENDS Naturals, FiniteSets

CONSTANTS
  Threads,      \* callers in this process
  Threshold,    \* failure_threshold
  Recovery,     \* recovery_seconds, in ticks of the clock
  Outages       \* bound on how often the service goes away

ASSUME BreakerParameters == /\ Threshold \in Nat \ {0}
                            /\ Recovery \in Nat
                            /\ Outages \in Nat

VARIABLES
  state,        \* _state
  failures,     \* _failure_count, which stops at Threshold
  elapsed,      \* time since _opened_at, which stops at Recovery
  at,           \* a thread is not in `call`, inside func, or back with an outcome
  tests,        \* history: the threads in a call that was admitted in HALF_OPEN
  up,           \* the service answers
  outages       \* what is left of Outages

breaker == <<state, failures, elapsed>>
vars == <<breaker, at, tests, up, outages>>

TypeOK ==
  /\ state \in {"CLOSED", "OPEN", "HALF_OPEN"}
  /\ failures \in 0..Threshold
  /\ elapsed \in 0..Recovery
  /\ at \in [Threads -> {"out", "func", "returned", "raised"}]
  /\ tests \in SUBSET {t \in Threads : at[t] # "out"}
  /\ up \in BOOLEAN
  /\ outages \in 0..Outages

Init ==
  /\ state = "CLOSED" /\ failures = 0 /\ elapsed = 0
  /\ at = [t \in Threads |-> "out"] /\ tests = {}
  /\ up = TRUE /\ outages = Outages

-----------------------------------------------------------------------------

Goto(t, label) == at' = [at EXCEPT ![t] = label]

\* Every thread that arrives once the recovery time is over is let through.
NeverAgain == state # "OPEN"
Admits == state = "OPEN" => elapsed = Recovery

Enter(t) ==
  /\ at[t] = "out" /\ Admits
  /\ Goto(t, "func")
  /\ state' = IF state = "OPEN" THEN "HALF_OPEN" ELSE state
  /\ tests' = IF state' = "HALF_OPEN" THEN tests \cup {t} ELSE tests
  /\ UNCHANGED <<failures, elapsed, up, outages>>

\* func(*args, **kwargs), outside the lock.
Func(t) ==
  /\ at[t] = "func"
  /\ Goto(t, IF up THEN "returned" ELSE "raised")
  /\ UNCHANGED <<breaker, tests, up, outages>>

\* _on_success closes the breaker from whatever state it is in.
KeepCount(t) ==
  /\ at[t] = "returned" /\ Goto(t, "out") /\ tests' = tests \ {t}
  /\ state' = "CLOSED"
  /\ UNCHANGED <<failures, elapsed, up, outages>>
OnSuccess(t) ==
  /\ at[t] = "returned" /\ Goto(t, "out") /\ tests' = tests \ {t}
  /\ failures' = 0 /\ state' = "CLOSED"
  /\ UNCHANGED <<elapsed, up, outages>>

OpensLate(t) ==
  /\ at[t] = "raised" /\ Goto(t, "out") /\ tests' = tests \ {t}
  /\ failures' = IF failures <= Threshold THEN failures + 1 ELSE failures
  /\ IF state = "HALF_OPEN" \/ failures' > Threshold
       THEN state' = "OPEN" /\ elapsed' = 0
       ELSE UNCHANGED <<state, elapsed>>
  /\ UNCHANGED <<up, outages>>

\* _on_failure: a failed test, or the count at its threshold, opens the
\* breaker and starts the recovery time again, also when it was open already.
OnFailure(t) ==
  /\ at[t] = "raised" /\ Goto(t, "out") /\ tests' = tests \ {t}
  /\ failures' = IF failures < Threshold THEN failures + 1 ELSE failures
  /\ IF state = "HALF_OPEN" \/ failures' = Threshold
       THEN state' = "OPEN" /\ elapsed' = 0
       ELSE UNCHANGED <<state, elapsed>>
  /\ UNCHANGED <<up, outages>>

Call(t) == Enter(t) \/ Func(t) \/ OnSuccess(t) \/ OnFailure(t)

\* The `state` property moves an open breaker on when it is read.
ReadState ==
  /\ state = "OPEN" /\ elapsed = Recovery
  /\ state' = "HALF_OPEN"
  /\ UNCHANGED <<failures, elapsed, at, tests, up, outages>>

Tick ==
  /\ state = "OPEN" /\ elapsed < Recovery
  /\ elapsed' = elapsed + 1
  /\ UNCHANGED <<state, failures, at, tests, up, outages>>

GoesDown == /\ up /\ outages > 0
            /\ up' = FALSE /\ outages' = outages - 1
            /\ UNCHANGED <<breaker, at, tests>>
ComesUp  == /\ ~up /\ up' = TRUE
            /\ UNCHANGED <<breaker, at, tests, outages>>

Next ==
  \/ \E t \in Threads : Call(t)
  \/ ReadState \/ Tick \/ GoesDown \/ ComesUp

Spec == Init /\ [][Next]_vars

\* Callers keep coming, every call ends (the clients have timeouts), and time
\* passes.  The service owes nothing.
Fairness ==
  /\ \A t \in Threads : WF_vars(Call(t))
  /\ WF_vars(Tick)

FairSpec == Spec /\ Fairness

-----------------------------------------------------------------------------
(* Properties.                                                             *)

\* The breaker is closed exactly while fewer failures than the threshold have
\* come in a row, whatever the order in which calls of before and after an
\* opening end: a success that comes late cannot leave an old count behind.
ClosedIffBelowThreshold == state = "CLOSED" <=> failures < Threshold

\* When the service has come back for good the breaker closes for good: the
\* late failures of calls that were under way cannot keep it open.
Recovers == <>[]up => <>[](state = "CLOSED")

\* circuit_breaker.py: "HALF_OPEN - one test call is allowed through".
OneTestCall == Cardinality(tests) <= 1
=============================================================================
