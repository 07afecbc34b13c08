------------------------ MODULE CircuitBreaker_proofs ------------------------
(* Theorems about CircuitBreaker, for any threads, threshold, recovery time  *)
(* and number of outages.                                                    *)
EXTENDS CircuitBreaker, TLAPS

THEOREM TypeCorrect == Spec => []TypeOK
<1>1. Init => TypeOK
  BY BreakerParameters DEF Init, TypeOK
<1>2. TypeOK /\ [Next]_vars => TypeOK'
  <2> SUFFICES ASSUME TypeOK, [Next]_vars PROVE TypeOK'
    OBVIOUS
  <2> USE BreakerParameters DEF TypeOK, Goto, breaker
  <2>1. ASSUME NEW t \in Threads, Enter(t) PROVE TypeOK'
    BY <2>1 DEF Enter
  <2>2. ASSUME NEW t \in Threads, Func(t) PROVE TypeOK'
    BY <2>2 DEF Func
  <2>3. ASSUME NEW t \in Threads, OnSuccess(t) PROVE TypeOK'
    BY <2>3 DEF OnSuccess
  <2>4. ASSUME NEW t \in Threads, OnFailure(t) PROVE TypeOK'
    BY <2>4 DEF OnFailure
  <2>5. CASE ReadState \/ Tick
    BY <2>5 DEF ReadState, Tick
  <2>6. CASE GoesDown
    <3>1. outages' \in 0..Outages /\ UNCHANGED <<state, failures, elapsed, at, tests>>
      BY <2>6 DEF GoesDown
    <3>2. up' \in BOOLEAN
      BY <2>6 DEF GoesDown
    <3> QED BY <3>1, <3>2
  <2>7. CASE ComesUp \/ UNCHANGED vars
    BY <2>7 DEF ComesUp, vars
  <2> QED BY <2>1, <2>2, <2>3, <2>4, <2>5, <2>6, <2>7 DEF Next, Call
<1> QED BY <1>1, <1>2, PTL DEF Spec

\* The count and the state never come apart.
THEOREM CountTheorem == Spec => []ClosedIffBelowThreshold
<1>1. Init => ClosedIffBelowThreshold
  BY BreakerParameters DEF Init, ClosedIffBelowThreshold
<1>2. TypeOK /\ ClosedIffBelowThreshold /\ [Next]_vars => ClosedIffBelowThreshold'
  <2> SUFFICES ASSUME TypeOK, ClosedIffBelowThreshold, [Next]_vars
               PROVE  ClosedIffBelowThreshold'
    OBVIOUS
  <2> USE BreakerParameters DEF TypeOK, ClosedIffBelowThreshold, breaker
  <2>1. ASSUME NEW t \in Threads, Enter(t) \/ Func(t) PROVE ClosedIffBelowThreshold'
    BY <2>1 DEF Enter, Func
  <2>2. ASSUME NEW t \in Threads, OnSuccess(t) PROVE ClosedIffBelowThreshold'
    BY <2>2 DEF OnSuccess
  <2>3. ASSUME NEW t \in Threads, OnFailure(t) PROVE ClosedIffBelowThreshold'
    BY <2>3 DEF OnFailure
  <2>4. CASE ReadState \/ Tick \/ GoesDown \/ ComesUp \/ UNCHANGED vars
    BY <2>4 DEF ReadState, Tick, GoesDown, ComesUp, vars
  <2> QED BY <2>1, <2>2, <2>3, <2>4 DEF Next, Call
<1> QED BY <1>1, <1>2, TypeCorrect, PTL DEF Spec
=============================================================================
