-------------------------- MODULE AiRuntimeControl --------------------------
(***************************************************************************)
(* The gate every provider call passes before it is reserved: the two Lua  *)
(* scripts of ai/redis_runtime_control.py, each atomic in Redis, over one  *)
(* concurrency pool and the circuit breaker of one model target.  The      *)
(* clock is abstract: a lease, the open interval of the breaker and the    *)
(* failure window may run out; rate buckets may refuse any call.           *)
(***************************************************************************)
EXTENDS Naturals, FiniteSets

CONSTANTS
  Calls,          \* lease ids: one per provider attempt
  NoCall,
  Concurrency,    \* AiRateLimitProfile.concurrency of the pool
  FailureLimit    \* AiBreakerProfile.failures

ASSUME AiRuntimeControlAssumption ==
  /\ NoCall \notin Calls
  /\ Concurrency \in Nat \ {0}
  /\ FailureLimit \in Nat \ {0}

VARIABLES
  leases,     \* the concurrency ZSET, entries whose score is still ahead
  breaker,    \* open_until: absent, ahead of the clock, or passed
  probe,      \* half_open: the lease of the one probe, or NoCall
  failures    \* how many failures the window holds, counted up to the limit

rvars == <<leases, breaker, probe, failures>>

RuntimeInit ==
  /\ leases = {} /\ breaker = "closed" /\ probe = NoCall /\ failures = 0

-----------------------------------------------------------------------------
(************************* The acquire script *****************************)

\* The half-open key claimed by a call, if the breaker asks for a probe; a
\* closed breaker deletes the key.
ProbeOf(c) == IF breaker = "lapsed" THEN c ELSE NoCall

BreakerAdmits == breaker # "open" /\ (breaker = "lapsed" => probe = NoCall)

Acquire(c) ==
  /\ BreakerAdmits
  /\ Cardinality(leases) < Concurrency
  /\ leases' = leases \cup {c}
  /\ probe' = ProbeOf(c)
  /\ UNCHANGED <<breaker, failures>>

\* Refused by the breaker, the pool or a bucket: release_half_open has given the
\* probe back.  The script of a refused call leaves a closed breaker no probe.
Deny ==
  /\ probe' = IF breaker = "closed" THEN NoCall ELSE probe
  /\ UNCHANGED <<leases, breaker, failures>>

-----------------------------------------------------------------------------
(************************** The finish script *****************************)

Trip(half) ==
  /\ failures' = IF failures < FailureLimit THEN failures + 1 ELSE failures
  /\ breaker' = IF half \/ failures + 1 >= FailureLimit THEN "open" ELSE breaker

\* Faulty variant: any finished call closes the breaker, not only its probe.
ResetByAnyone(half) == breaker' = "closed" /\ failures' = 0

Reset(half) ==
  IF half THEN breaker' = "closed" /\ failures' = 0 ELSE UNCHANGED <<breaker, failures>>

\* outcome: "success", "neutral" or "transient_failure".
Finish(c, outcome) ==
  LET half == probe = c IN
  /\ leases' = leases \ {c}
  /\ probe' = IF half THEN NoCall ELSE probe
  /\ IF outcome = "transient_failure" THEN Trip(half) ELSE Reset(half)

-----------------------------------------------------------------------------
(******************************* The clock ********************************)

\* The score of the lease and the TTL of the half-open key end together.
LeaseExpires(c) ==
  /\ c \in leases
  /\ leases' = leases \ {c}
  /\ probe' = IF probe = c THEN NoCall ELSE probe
  /\ UNCHANGED <<breaker, failures>>

OpenIntervalPasses ==
  /\ breaker = "open"
  /\ breaker' = "lapsed"
  /\ UNCHANGED <<leases, probe, failures>>

\* The open key outlives the probe it admitted by a minute; a late failure of an
\* older call sets its time-to-live anew, and it may expire under the probe.
OpenKeyExpires ==
  /\ breaker = "lapsed"
  /\ breaker' = "closed"
  /\ UNCHANGED <<leases, probe, failures>>

FailuresAge ==
  /\ failures > 0
  /\ failures' = 0
  /\ UNCHANGED <<leases, breaker, probe>>

RuntimeClock == OpenIntervalPasses \/ OpenKeyExpires \/ FailuresAge

-----------------------------------------------------------------------------
(****************************** Properties ********************************)

RuntimeTypeOK ==
  /\ leases \subseteq Calls
  /\ breaker \in {"closed", "open", "lapsed"}
  /\ probe \in Calls \cup {NoCall}
  /\ failures \in 0..FailureLimit

\* The shared gate holds: no more calls than the pool admits, and the one probe
\* of a half-open breaker is a call that holds its lease, so that a probe which
\* was refused, finished or forgotten never keeps every later call out.
AdmissionBounds ==
  /\ Cardinality(leases) <= Concurrency
  /\ probe # NoCall => probe \in leases

\* An open breaker closes only by the word of the probe, never by a call that was
\* admitted before it opened and answers late (finish script; older_success of
\* tests/integration/broker/test_ai_runtime_control_redis.py).
OnlyProbeCloses ==
  [][breaker = "open" /\ breaker' = "closed" => probe # NoCall /\ probe' = NoCall]_rvars
=============================================================================
