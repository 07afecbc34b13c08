-------------------------- MODULE ConcurrencyLimiter --------------------------
(***************************************************************************)
(* ConcurrencyMiddleware: the counter in Redis of the requests that ONE    *)
(* account has in progress in one route group, kept by an API process that *)
(* runs its coroutines on one event loop.  The Redis client is synchronous *)
(* and nothing is awaited before call_next, so an arrival is one step; the *)
(* request runs; its end is another step.                                  *)
(*                                                                         *)
(* OldCount, OldKey and OnSuccess are mistakes the code does not make:     *)
(* each stands before the definition it would replace.                     *)
(***************************************************************************)
EXTENDS Integers, FiniteSets

CONSTANTS
  Requests,     \* the account's requests
  Limit,        \* concurrency_limit_<group>
  TTL,          \* the 60 seconds of r.expire, in ticks of the clock
  FaultBudget   \* how often each kind of fault may happen

FaultKinds == {"redis", "kill", "slow"}

\* What Redis answers to TTL.
Gone    == -2    \* the key does not exist
Forever == -1    \* it exists without an expiry time

ASSUME LimiterParameters == /\ IsFiniteSet(Requests)
                            /\ Limit \in Nat
                            /\ TTL \in Nat \ {0}
                            /\ FaultBudget \in [FaultKinds -> Nat]

VARIABLES
  count,        \* the number Redis has for the key, 0 without one
  ttl,          \* Gone, Forever or the ticks that are left
  inside,       \* requests in call_next
  counted,      \* those of them that decrement at their end
  active,       \* the key is in _active_keys
  faults        \* what is left of FaultBudget

vars == <<count, ttl, inside, counted, active, faults>>

TypeOK ==
  /\ count \in Int
  /\ ttl \in {Gone, Forever} \cup 1..TTL
  /\ ttl = Gone => count = 0
  /\ inside \in SUBSET Requests
  /\ counted \in SUBSET inside
  /\ active \in BOOLEAN
  /\ faults \in [FaultKinds -> Nat]

Init ==
  /\ count = 0 /\ ttl = Gone
  /\ inside = {} /\ counted = {} /\ active = FALSE
  /\ faults = FaultBudget

-----------------------------------------------------------------------------

Spend(kind) == faults[kind] > 0 /\ faults' = [faults EXCEPT ![kind] = @ - 1]

\* INCR and DECR make the key when there is none, and leave its expiry alone.
OldKey == ttl
Made == IF ttl = Gone THEN Forever ELSE ttl

OldCount == count <= Limit
HasRoom  == count + 1 <= Limit

\* INCR, EXPIRE, and below the limit the request goes on.
Enter(r) ==
  /\ r \notin inside /\ HasRoom
  /\ count' = count + 1 /\ ttl' = TTL
  /\ inside' = inside \cup {r} /\ counted' = counted \cup {r}
  /\ active' = TRUE
  /\ UNCHANGED faults

\* Above it the count is taken back: 429.
Reject(r) ==
  /\ r \notin inside /\ ~HasRoom
  /\ ttl' = TTL /\ active' = FALSE
  /\ UNCHANGED <<count, inside, counted, faults>>

\* A Redis call of the arrival raises, having been applied or not, and the
\* request goes on uncounted: INCR or EXPIRE (the DECR that follows a failed
\* EXPIRE may fail too), or the DECR of a request above the limit.
FailOpen(r) ==
  /\ r \notin inside /\ Spend("redis")
  /\ \/ UNCHANGED <<count, ttl, active>>
     \/ /\ count' \in {count, count + 1} /\ ttl' \in {Made, TTL}
        /\ UNCHANGED active
     \/ /\ ~HasRoom /\ count' \in {count, count + 1} /\ ttl' = TTL
        /\ active' = TRUE
  /\ inside' = inside \cup {r} /\ UNCHANGED counted

\* Without `finally` a request that raises keeps its place.
OnSuccess(r) ==
  /\ r \in inside
  /\ inside' = inside \ {r} /\ counted' = counted \ {r}
  /\ count' \in {count, IF r \in counted THEN count - 1 ELSE count}
  /\ ttl' = Made /\ active' = FALSE /\ UNCHANGED faults

\* The `finally`: DECR, whatever has become of the key.
Finish(r) ==
  /\ r \in inside
  /\ inside' = inside \ {r} /\ counted' = counted \ {r}
  /\ IF r \notin counted
       THEN UNCHANGED <<count, ttl, active, faults>>
       ELSE \/ count' = count - 1 /\ ttl' = Made /\ active' = FALSE /\ UNCHANGED faults
            \/ Spend("redis") /\ UNCHANGED <<count, ttl, active>>
            \/ Spend("redis") /\ count' = count - 1 /\ ttl' = Made /\ UNCHANGED active

\* A second passes.  The key goes TTL ticks after the last arrival; a request
\* that is still running then has taken longer than that.
Tick ==
  /\ ttl \in 1..TTL
  /\ IF ttl > 1 THEN ttl' = ttl - 1 /\ UNCHANGED <<count, faults>>
                ELSE /\ ttl' = Gone /\ count' = 0
                     /\ IF inside = {} THEN UNCHANGED faults ELSE Spend("slow")
  /\ UNCHANGED <<inside, counted, active>>

\* The process ends, whatever it has in progress: it is killed, or it exits and
\* deletes the key when it knows of it.
Stop ==
  /\ Spend("kill")
  /\ inside' = {} /\ counted' = {} /\ active' = FALSE
  /\ \/ UNCHANGED <<count, ttl>>
     \/ active /\ count' = 0 /\ ttl' = Gone

Arrive(r) == Enter(r) \/ Reject(r)

Next ==
  \/ \E r \in Requests : Arrive(r) \/ FailOpen(r) \/ Finish(r)
  \/ Tick \/ Stop

Spec == Init /\ [][Next]_vars

\* The client polls, requests end, and time passes.
Fairness ==
  /\ WF_vars(\E r \in Requests : Arrive(r))
  /\ \A r \in Requests : WF_vars(Finish(r))
  /\ WF_vars(Tick)

FairSpec == Spec /\ Fairness

-----------------------------------------------------------------------------
(* Properties.                                                             *)

Expiries    == FaultBudget["slow"] - faults["slow"]
RedisErrors == FaultBudget["redis"] - faults["redis"]

\* Each time the key runs out under running requests at most Limit of them are
\* forgotten, and each error of Redis lets one request pass: with the late
\* DECRs, which may take the count below zero, and any number of arrivals,
\* never more requests than that run at once.
BoundedOverrun == Cardinality(inside) <= Limit * (1 + Expiries) + RedisErrors

\* The other side: a request is refused only while Limit requests run, but for
\* one place per error of Redis, whose DECR may be missing.  A process that is
\* killed takes that back until the key runs out: nobody counts its requests off.
Killed == faults["kill"] < FaultBudget["kill"]
RefusalsJustified ==
  ~HasRoom /\ ~Killed => Limit <= Cardinality(counted) + RedisErrors

\* The client that keeps asking keeps being served, also when its requests
\* outlive the key.  A process that dies or a DECR that raises may end that: it
\* leaves its count behind, and every request that is refused renews the key.
Undisturbed == \A kind \in {"redis", "kill"} : faults[kind] = FaultBudget[kind]
Serves == []<>(inside # {} \/ ~Undisturbed)
=============================================================================
