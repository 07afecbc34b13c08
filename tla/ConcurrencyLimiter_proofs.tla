---------------------- MODULE ConcurrencyLimiter_proofs ----------------------
(* Theorems about ConcurrencyLimiter, for any finite set of requests, any    *)
(* limit and expiry time and any fault budget.                               *)
EXTENDS ConcurrencyLimiter, FiniteSetTheorems, TLAPS

LEMMA SpendType ==
  ASSUME TypeOK, NEW kind \in FaultKinds, Spend(kind)
  PROVE  /\ faults' \in [FaultKinds -> Nat]
         /\ faults'[kind] = faults[kind] - 1
         /\ \A k \in FaultKinds \ {kind} : faults'[k] = faults[k]
BY DEF Spend, TypeOK

LEMMA MadeType ==
  ASSUME TypeOK
  PROVE  Made \in {Forever} \cup 1..TTL /\ Made # Gone
BY LimiterParameters DEF TypeOK, Made, Gone, Forever

THEOREM TypeCorrect == Spec => []TypeOK
<1>1. Init => TypeOK
  <2>1. ASSUME Init PROVE faults \in [FaultKinds -> Nat]
    BY <2>1, LimiterParameters DEF Init
  <2>2. ASSUME Init PROVE active \in BOOLEAN
    BY <2>2 DEF Init
  <2>3. ASSUME Init PROVE /\ count \in Int /\ ttl \in {Gone, Forever} \cup 1..TTL
                          /\ ttl = Gone => count = 0
    BY <2>3 DEF Init
  <2> QED BY <2>1, <2>2, <2>3 DEF Init, TypeOK
<1>2. TypeOK /\ [Next]_vars => TypeOK'
  <2> SUFFICES ASSUME TypeOK, [Next]_vars PROVE TypeOK'
    OBVIOUS
  <2>a. "redis" \in FaultKinds /\ "slow" \in FaultKinds /\ "kill" \in FaultKinds
    BY DEF FaultKinds
  <2>b. TTL \in 1..TTL /\ TTL # Gone
    BY LimiterParameters DEF Gone
  <2>1. ASSUME NEW r \in Requests, Enter(r) \/ Reject(r) PROVE TypeOK'
    <3>1. active' \in BOOLEAN
      BY <2>1 DEF Enter, Reject
    <3>2. count' \in Int /\ ttl' \in {Gone, Forever} \cup 1..TTL /\ ttl' # Gone
      BY <2>1, <2>b DEF Enter, Reject, TypeOK
    <3> QED BY <2>1, <3>1, <3>2 DEF Enter, Reject, TypeOK
  <2>2. ASSUME NEW r \in Requests, FailOpen(r) PROVE TypeOK'
    <3>1. faults' \in [FaultKinds -> Nat]
      BY <2>2, <2>a, SpendType DEF FailOpen
    <3>2. /\ count' \in Int
          /\ ttl' \in {Gone, Forever} \cup 1..TTL
          /\ ttl' = Gone => count' = 0
      BY <2>2, <2>b, MadeType DEF FailOpen, TypeOK
    <3>3. active' \in BOOLEAN
      BY <2>2 DEF FailOpen, TypeOK
    <3> QED BY <2>2, <3>1, <3>2, <3>3 DEF FailOpen, TypeOK
  <2>3. ASSUME NEW r \in Requests, Finish(r) PROVE TypeOK'
    <3>1. faults' \in [FaultKinds -> Nat]
      BY <2>3, <2>a, SpendType DEF Finish, TypeOK
    <3>2. /\ count' \in Int
          /\ ttl' \in {Gone, Forever} \cup 1..TTL
          /\ ttl' = Gone => count' = 0
      BY <2>3, MadeType DEF Finish, TypeOK
    <3>3. active' \in BOOLEAN
      BY <2>3 DEF Finish, TypeOK
    <3> QED BY <2>3, <3>1, <3>2, <3>3 DEF Finish, TypeOK
  <2>4. CASE Tick
    <3>1. faults' \in [FaultKinds -> Nat]
      BY <2>4, <2>a, SpendType DEF Tick, TypeOK
    <3>2. /\ count' \in Int
          /\ ttl' \in {Gone, Forever} \cup 1..TTL
          /\ ttl' = Gone => count' = 0
      BY <2>4, LimiterParameters DEF Tick, TypeOK, Gone
    <3> QED BY <2>4, <3>1, <3>2 DEF Tick, TypeOK
  <2>5. CASE Stop
    <3>1. faults' \in [FaultKinds -> Nat]
      BY <2>5, <2>a, SpendType DEF Stop
    <3>2. active' \in BOOLEAN
      BY <2>5 DEF Stop
    <3>3. /\ count' \in Int
          /\ ttl' \in {Gone, Forever} \cup 1..TTL
          /\ ttl' = Gone => count' = 0
      BY <2>5 DEF Stop, TypeOK
    <3> QED BY <2>5, <3>1, <3>2, <3>3 DEF Stop, TypeOK
  <2>6. CASE UNCHANGED vars
    BY <2>6 DEF vars, TypeOK
  <2> QED BY <2>1, <2>2, <2>3, <2>4, <2>5, <2>6 DEF Next, Arrive
<1> QED BY <1>1, <1>2, PTL DEF Spec
-----------------------------------------------------------------------------
(* How far the limit can be overrun.                                       *)

Forgotten == Limit * Expiries

\* Redis counts at least the running requests that no expiry has forgotten;
\* the uncounted ones each took an error of Redis.
OverrunInv ==
  /\ 0 <= Forgotten
  /\ Cardinality(counted) <= count + Forgotten
  /\ Cardinality(counted) <= Limit + Forgotten
  /\ Cardinality(inside \ counted) <= RedisErrors

LEMMA Finite ==
  ASSUME TypeOK
  PROVE  /\ IsFiniteSet(inside) /\ IsFiniteSet(counted) /\ IsFiniteSet(inside \ counted)
         /\ Cardinality(counted) \in Nat /\ Cardinality(inside \ counted) \in Nat
         /\ Cardinality(inside) = Cardinality(counted) + Cardinality(inside \ counted)
<1>1. IsFiniteSet(inside)
  BY LimiterParameters, FS_Subset DEF TypeOK
<1>2. IsFiniteSet(counted)
  BY <1>1, FS_Subset DEF TypeOK
<1>3. IsFiniteSet(inside \ counted)
  BY <1>1, FS_Difference
<1>4. Cardinality(counted) \in Nat /\ Cardinality(inside \ counted) \in Nat
      /\ Cardinality(inside) \in Nat
  BY <1>1, <1>2, <1>3, FS_CardinalityType
<1>5. inside \cap counted = counted
  BY DEF TypeOK
<1>6. Cardinality(inside \ counted) = Cardinality(inside) - Cardinality(counted)
  BY <1>1, <1>5, FS_Difference
<1> QED BY <1>1, <1>2, <1>3, <1>4, <1>6

\* The two counts of faults, and what one more expiry forgets.
LEMMA Faulty ==
  ASSUME TypeOK
  PROVE  /\ Expiries \in Int /\ RedisErrors \in Int /\ Forgotten \in Int
         /\ Limit \in Nat
         /\ UNCHANGED faults => UNCHANGED <<Expiries, RedisErrors, Forgotten>>
         /\ Spend("redis") => /\ UNCHANGED <<Expiries, Forgotten>>
                              /\ RedisErrors' = RedisErrors + 1
         /\ Spend("slow")  => /\ UNCHANGED RedisErrors
                              /\ Forgotten' = Forgotten + Limit
         /\ Spend("kill")  => UNCHANGED <<Expiries, RedisErrors, Forgotten>>
<1>1. /\ FaultKinds = {"redis", "kill", "slow"} /\ Limit \in Nat
      /\ FaultBudget["slow"] \in Nat /\ FaultBudget["redis"] \in Nat
      /\ faults["slow"] \in Nat /\ faults["redis"] \in Nat
  BY LimiterParameters DEF FaultKinds, TypeOK
<1>2. Expiries \in Int /\ RedisErrors \in Int
  BY <1>1 DEF Expiries, RedisErrors
<1>3. Forgotten \in Int
  BY <1>1, <1>2 DEF Forgotten
<1>4. UNCHANGED faults => UNCHANGED <<Expiries, RedisErrors, Forgotten>>
  BY DEF Expiries, RedisErrors, Forgotten
<1>5. ASSUME Spend("redis")
      PROVE  /\ UNCHANGED <<Expiries, Forgotten>> /\ RedisErrors' = RedisErrors + 1
  BY <1>1, <1>5, SpendType DEF Expiries, RedisErrors, Forgotten
<1>6. ASSUME Spend("slow")
      PROVE  /\ UNCHANGED RedisErrors /\ Forgotten' = Forgotten + Limit
  <2>1. Expiries' = Expiries + 1 /\ UNCHANGED RedisErrors
    BY <1>1, <1>6, SpendType DEF Expiries, RedisErrors
  <2>2. Limit * (Expiries + 1) = Limit * Expiries + Limit
    BY <1>1, <1>2
  <2> QED BY <2>1, <2>2 DEF Forgotten
<1>7. ASSUME Spend("kill") PROVE UNCHANGED <<Expiries, RedisErrors, Forgotten>>
  BY <1>1, <1>7, SpendType DEF Expiries, RedisErrors, Forgotten
<1> QED BY <1>1, <1>2, <1>3, <1>4, <1>5, <1>6, <1>7

\* Expiries and errors of Redis bound the overrun.
THEOREM OverrunTheorem == Spec => []BoundedOverrun
<1>1. Init => OverrunInv
  <2> SUFFICES ASSUME Init PROVE OverrunInv
    OBVIOUS
  <2>1. counted = {} /\ inside \ counted = {} /\ count = 0 /\ Limit \in Nat
    BY LimiterParameters DEF Init
  <2>2. Expiries = 0 /\ RedisErrors = 0
    BY LimiterParameters DEF Init, Expiries, RedisErrors, FaultKinds
  <2>3. Forgotten = 0
    BY <2>1, <2>2 DEF Forgotten
  <2> QED BY <2>1, <2>2, <2>3, FS_EmptySet DEF OverrunInv
<1>2. TypeOK /\ OverrunInv /\ [Next]_vars => OverrunInv'
  <2> SUFFICES ASSUME TypeOK, OverrunInv, [Next]_vars PROVE OverrunInv'
    OBVIOUS
  <2>0. /\ count \in Int /\ counted \subseteq inside
        /\ IsFiniteSet(counted) /\ Cardinality(counted) \in Nat
        /\ IsFiniteSet(inside \ counted) /\ Cardinality(inside \ counted) \in Nat
    BY Finite DEF TypeOK
  <2>f. /\ Expiries \in Int /\ RedisErrors \in Int /\ Forgotten \in Int
        /\ Limit \in Nat
        /\ UNCHANGED faults => UNCHANGED <<Expiries, RedisErrors, Forgotten>>
        /\ Spend("redis") => /\ UNCHANGED <<Expiries, Forgotten>>
                             /\ RedisErrors' = RedisErrors + 1
        /\ Spend("slow")  => /\ UNCHANGED RedisErrors
                             /\ Forgotten' = Forgotten + Limit
        /\ Spend("kill")  => UNCHANGED <<Expiries, RedisErrors, Forgotten>>
    BY Faulty
  <2> USE DEF OverrunInv
  <2>1. ASSUME NEW r \in Requests, Enter(r) PROVE OverrunInv'
    <3>1. Cardinality(counted') = Cardinality(counted) + 1
      BY <2>0, <2>1, FS_AddElement DEF Enter
    <3>2. inside' \ counted' = inside \ counted
      BY <2>0, <2>f, <2>1 DEF Enter
    <3>3. count' = count + 1 /\ count + 1 <= Limit
          /\ UNCHANGED <<Expiries, RedisErrors, Forgotten>>
      BY <2>f, <2>1 DEF Enter, HasRoom
    <3>4. Cardinality(counted') <= count' + Forgotten'
      BY <2>0, <2>f, <3>1, <3>3
    <3>5. Cardinality(counted') <= Limit + Forgotten'
      BY <2>0, <2>f, <3>1, <3>3
    <3> QED BY <3>2, <3>3, <3>4, <3>5
  <2>2. ASSUME NEW r \in Requests, Reject(r) PROVE OverrunInv'
    BY <2>f, <2>2 DEF Reject
  <2>3. ASSUME NEW r \in Requests, FailOpen(r) PROVE OverrunInv'
    <3>1. inside' \ counted' = (inside \ counted) \cup {r} /\ UNCHANGED counted
      BY <2>0, <2>f, <2>3 DEF FailOpen
    <3>2. Cardinality(inside' \ counted') <= Cardinality(inside \ counted) + 1
      <4>1. \/ Cardinality((inside \ counted) \cup {r}) = Cardinality(inside \ counted)
            \/ Cardinality((inside \ counted) \cup {r}) = Cardinality(inside \ counted) + 1
        BY <2>0, FS_AddElement
      <4> QED BY <2>0, <3>1, <4>1
    <3>3. count' \in {count, count + 1} /\ Spend("redis")
      BY <2>3 DEF FailOpen
    <3>4. /\ Forgotten' = Forgotten /\ RedisErrors' = RedisErrors + 1
          /\ Cardinality(counted') = Cardinality(counted)
      BY <2>f, <3>1, <3>3
    <3>5. Cardinality(counted') <= count' + Forgotten'
      BY <2>0, <2>f, <3>3, <3>4
    <3>6. Cardinality(inside' \ counted') <= RedisErrors'
      <4>1. Cardinality(inside' \ counted') \in Nat
        <5>1. IsFiniteSet((inside \ counted) \cup {r})
          BY <2>0, FS_AddElement
        <5> QED BY <3>1, <5>1, FS_CardinalityType
      <4> QED BY <2>0, <2>f, <3>2, <3>4, <4>1
    <3> QED BY <3>4, <3>5, <3>6
  <2>4. ASSUME NEW r \in Requests, Finish(r) PROVE OverrunInv'
    <3>1. CASE r \notin counted
      <4>1. inside' \ counted' = (inside \ counted) \ {r} /\ counted' = counted
        BY <2>4, <3>1 DEF Finish
      <4>2. Cardinality(inside' \ counted') <= Cardinality(inside \ counted)
        <5>1. \/ Cardinality((inside \ counted) \ {r}) = Cardinality(inside \ counted)
              \/ Cardinality((inside \ counted) \ {r}) = Cardinality(inside \ counted) - 1
          BY <2>0, FS_RemoveElement
        <5> QED BY <2>0, <4>1, <5>1
      <4>3. UNCHANGED <<count, Expiries, RedisErrors, Forgotten>>
        BY <2>f, <2>4, <3>1 DEF Finish
      <4>4. Cardinality(inside' \ counted') \in Nat
        <5>1. IsFiniteSet((inside \ counted) \ {r})
          BY <2>0, FS_RemoveElement
        <5> QED BY <4>1, <5>1, FS_CardinalityType
      <4>5. Cardinality(inside' \ counted') <= RedisErrors'
        BY <2>0, <2>f, <4>2, <4>3, <4>4
      <4> QED BY <4>1, <4>3, <4>5
    <3>2. CASE r \in counted
      <4>1. Cardinality(counted') = Cardinality(counted) - 1
        BY <2>0, <2>4, <3>2, FS_RemoveElement DEF Finish
      <4>2. inside' \ counted' = inside \ counted
        BY <2>0, <2>f, <2>4, <3>2 DEF Finish
      <4>3. /\ count' \in {count, count - 1}
            /\ UNCHANGED faults \/ Spend("redis")
        BY <2>4, <3>2 DEF Finish
      <4> QED BY <2>0, <2>f, <4>1, <4>2, <4>3
    <3> QED BY <3>1, <3>2
  <2>5. CASE Tick
    <3>1. UNCHANGED <<inside, counted>>
      BY <2>5 DEF Tick
    <3>2. CASE UNCHANGED <<count, faults>>
      BY <2>f, <3>1, <3>2
    <3>3. CASE count' = 0 /\ inside = {} /\ UNCHANGED faults
      BY <2>0, <2>f, <3>1, <3>3, FS_EmptySet
    <3>4. CASE count' = 0 /\ Spend("slow")
      BY <2>0, <2>f, <3>1, <3>4
    <3> QED BY <2>5, <3>2, <3>3, <3>4 DEF Tick
  <2>6. CASE Stop
    <3>1. counted' = {} /\ inside' \ counted' = {} /\ (UNCHANGED count \/ count' = 0)
          /\ Spend("kill")
      BY <2>6 DEF Stop
    <3> QED BY <2>0, <2>f, <3>1, FS_EmptySet
  <2>7. CASE UNCHANGED vars
    BY <2>f, <2>7 DEF vars
  <2> QED BY <2>1, <2>2, <2>3, <2>4, <2>5, <2>6, <2>7 DEF Next, Arrive
<1>3. TypeOK /\ OverrunInv => BoundedOverrun
  <2> SUFFICES ASSUME TypeOK, OverrunInv PROVE BoundedOverrun
    OBVIOUS
  <2>1. Limit * (1 + Expiries) = Limit + Forgotten
    BY Faulty DEF Forgotten
  <2> QED BY <2>1, Finite, Faulty DEF OverrunInv, BoundedOverrun
<1> QED BY <1>1, <1>2, <1>3, TypeCorrect, PTL DEF Spec
-----------------------------------------------------------------------------
(* When a request is refused.                                              *)

\* Redis counts no more than the running requests and the DECRs that an error
\* of Redis may have lost.
CountInv == Killed \/ count <= Cardinality(counted) + RedisErrors

\* What a step spends tells whether a process has been killed.
LEMMA KilledOf ==
  ASSUME TypeOK
  PROVE  /\ UNCHANGED faults \/ Spend("redis") \/ Spend("slow") => (Killed' <=> Killed)
         /\ Spend("kill") => Killed' \/ faults["kill"] > FaultBudget["kill"]
<1>1. /\ FaultKinds = {"redis", "kill", "slow"}
      /\ faults["kill"] \in Nat /\ FaultBudget["kill"] \in Nat
  BY LimiterParameters DEF TypeOK, FaultKinds
<1>2. UNCHANGED faults \/ Spend("redis") \/ Spend("slow") => faults'["kill"] = faults["kill"]
  BY <1>1, SpendType
<1>3. Spend("kill") => faults'["kill"] = faults["kill"] - 1
  BY <1>1, SpendType
<1> QED BY <1>1, <1>2, <1>3 DEF Killed

\* No fault happens more often than its budget allows, nor less than never.
SpentInv == /\ faults["kill"] <= FaultBudget["kill"]
            /\ 0 <= RedisErrors

LEMMA SpentInduction ==
  /\ Init => SpentInv
  /\ TypeOK /\ SpentInv /\ [Next]_vars => SpentInv'
<1>1. Init => SpentInv
  BY LimiterParameters DEF Init, SpentInv, RedisErrors, FaultKinds
<1>2. ASSUME TypeOK, SpentInv, [Next]_vars PROVE SpentInv'
  <2>1. /\ FaultKinds = {"redis", "kill", "slow"}
        /\ \A k \in FaultKinds : faults[k] \in Nat /\ FaultBudget[k] \in Nat
    BY <1>2, LimiterParameters DEF TypeOK, FaultKinds
  <2>2. UNCHANGED faults \/ \E k \in FaultKinds : Spend(k)
    <3>1. ASSUME NEW r \in Requests, Arrive(r) \/ FailOpen(r) \/ Finish(r)
          PROVE  UNCHANGED faults \/ Spend("redis")
      BY <3>1 DEF Arrive, Enter, Reject, FailOpen, Finish
    <3>2. Tick => UNCHANGED faults \/ Spend("slow")
      BY DEF Tick
    <3>3. Stop => Spend("kill")
      BY DEF Stop
    <3> QED BY <1>2, <2>1, <3>1, <3>2, <3>3 DEF Next, vars
  <2>3. faults'["kill"] <= faults["kill"] /\ faults'["redis"] <= faults["redis"]
        /\ faults'["kill"] \in Int /\ faults'["redis"] \in Int
    <3>1. CASE UNCHANGED faults
      BY <2>1, <3>1
    <3>2. ASSUME NEW k \in FaultKinds, Spend(k)
          PROVE  \A j \in FaultKinds : faults'[j] <= faults[j] /\ faults'[j] \in Int
      BY <1>2, <2>1, <3>2, SpendType
    <3> QED BY <2>1, <2>2, <3>1, <3>2
  <2> QED BY <1>2, <2>1, <2>3 DEF SpentInv, RedisErrors
<1> QED BY <1>1, <1>2

\* Requests are refused when the limit is reached, and not long after.
THEOREM RefusalTheorem == Spec => []RefusalsJustified
<1>1. Init => CountInv
  <2> SUFFICES ASSUME Init PROVE CountInv
    OBVIOUS
  <2>1. count = 0 /\ Cardinality(counted) = 0
    BY FS_EmptySet DEF Init
  <2>2. RedisErrors = 0
    BY LimiterParameters DEF Init, RedisErrors, FaultKinds
  <2> QED BY <2>1, <2>2 DEF CountInv
<1>2. TypeOK /\ SpentInv /\ CountInv /\ [Next]_vars => CountInv'
  <2> SUFFICES ASSUME TypeOK, SpentInv, CountInv, [Next]_vars PROVE CountInv'
    OBVIOUS
  <2>0. /\ count \in Int /\ counted \subseteq inside
        /\ IsFiniteSet(counted) /\ Cardinality(counted) \in Nat
    BY Finite DEF TypeOK
  <2>f. /\ RedisErrors \in Int
        /\ UNCHANGED faults => UNCHANGED RedisErrors
        /\ Spend("redis") => RedisErrors' = RedisErrors + 1
        /\ Spend("slow")  => UNCHANGED RedisErrors
    BY Faulty
  <2>k. /\ UNCHANGED faults \/ Spend("redis") \/ Spend("slow") => (Killed' <=> Killed)
        /\ Spend("kill") => Killed'
    <3>1. faults["kill"] \in Int /\ FaultBudget["kill"] \in Int
      BY LimiterParameters DEF TypeOK, FaultKinds
    <3> QED BY <3>1, KilledOf DEF SpentInv
  <2>1. ASSUME NEW r \in Requests, Enter(r) PROVE CountInv'
    <3>1. Cardinality(counted') = Cardinality(counted) + 1
      BY <2>0, <2>1, FS_AddElement DEF Enter
    <3>2. count' = count + 1 /\ UNCHANGED faults
      BY <2>1 DEF Enter
    <3> QED BY <2>0, <2>f, <2>k, <3>1, <3>2 DEF CountInv
  <2>2. ASSUME NEW r \in Requests, Reject(r) PROVE CountInv'
    BY <2>f, <2>k, <2>2 DEF Reject, CountInv
  <2>3. ASSUME NEW r \in Requests, FailOpen(r) PROVE CountInv'
    <3>1. count' \in {count, count + 1} /\ Spend("redis") /\ counted' = counted
      BY <2>3 DEF FailOpen
    <3> QED BY <2>0, <2>f, <2>k, <3>1 DEF CountInv
  <2>4. ASSUME NEW r \in Requests, Finish(r) PROVE CountInv'
    <3>1. CASE r \notin counted
      <4>1. counted' = counted /\ UNCHANGED <<count, faults>>
        BY <2>4, <3>1 DEF Finish
      <4> QED BY <2>f, <2>k, <4>1 DEF CountInv
    <3>2. CASE r \in counted
      <4>1. Cardinality(counted') = Cardinality(counted) - 1
        BY <2>0, <2>4, <3>2, FS_RemoveElement DEF Finish
      <4>2. \/ count' = count - 1 /\ UNCHANGED faults
            \/ count' \in {count, count - 1} /\ Spend("redis")
        BY <2>4, <3>2 DEF Finish
      <4> QED BY <2>0, <2>f, <2>k, <4>1, <4>2 DEF CountInv
    <3> QED BY <3>1, <3>2
  <2>5. CASE Tick
    <3>1. /\ UNCHANGED counted
          /\ \/ UNCHANGED <<count, faults>>
             \/ count' = 0 /\ (UNCHANGED faults \/ Spend("slow"))
      BY <2>5 DEF Tick
    <3>2. UNCHANGED RedisErrors /\ (Killed' <=> Killed)
      BY <2>f, <2>k, <3>1
    <3> QED BY <2>0, <2>f, <3>1, <3>2 DEF CountInv, SpentInv
  <2>6. CASE Stop
    BY <2>k, <2>6 DEF Stop, CountInv
  <2>7. CASE UNCHANGED vars
    BY <2>f, <2>k, <2>7 DEF vars, CountInv
  <2> QED BY <2>1, <2>2, <2>3, <2>4, <2>5, <2>6, <2>7 DEF Next, Arrive
<1>3. TypeOK /\ CountInv => RefusalsJustified
  <2> SUFFICES ASSUME TypeOK, CountInv, ~HasRoom, ~Killed
               PROVE  Limit <= Cardinality(counted) + RedisErrors
    BY DEF RefusalsJustified
  <2>1. count \in Int /\ Cardinality(counted) \in Nat /\ RedisErrors \in Int /\ Limit \in Nat
    BY Finite, Faulty DEF TypeOK
  <2> QED BY <2>1 DEF CountInv, HasRoom
<1> QED BY <1>1, <1>2, <1>3, SpentInduction, TypeCorrect, PTL DEF Spec
=============================================================================
