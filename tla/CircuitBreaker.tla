--------------------------- MODULE CircuitBreaker ---------------------------
(***************************************************************************)
(* internal/retry/circuitbreaker.go.  Time enters only through one test,   *)
(* "retryInterval has passed since lastFailureTime", kept as cooled.       *)
(* consecutiveFailures is compared with the threshold and nothing else, so *)
(* it saturates there.                                                     *)
(***************************************************************************)
EXTENDS Integers

CONSTANT FailureThreshold   \* consecutive failures that open the circuit

ASSUME ThresholdAssumption == FailureThreshold \in Nat \ {0}

VARIABLES circuit,               \* CircuitBreaker.state
          consecutiveFailures,
          cooled                 \* now - lastFailureTime >= retryInterval

breakerVars == <<circuit, consecutiveFailures, cooled>>

BreakerTypeOK ==
    /\ circuit \in {"closed", "open", "half-open"}
    /\ consecutiveFailures \in 0..FailureThreshold
    /\ cooled \in BOOLEAN

NewCircuitBreaker ==
    /\ circuit = "closed"
    /\ consecutiveFailures = 0
    /\ cooled = FALSE

\* Mutation of Allowed: an open circuit is never probed.
AllowedNoProbe == circuit = "closed"

\* What Allow() returns: a half-open circuit refuses everybody but the probe.
Allowed == circuit = "closed" \/ (circuit = "open" /\ cooled)

\* Allow() returning true: leaving the open state makes the caller the probe.
Allow ==
    /\ Allowed
    /\ circuit' = IF circuit = "open" THEN "half-open" ELSE circuit
    /\ UNCHANGED <<consecutiveFailures, cooled>>

RecordSuccess ==
    /\ circuit' = "closed"
    /\ consecutiveFailures' = 0
    /\ UNCHANGED cooled

\* Mutation of RecordFailure: only a closed circuit is opened, so a failed
\* probe leaves it half-open.
RecordFailureWhenClosed ==
    /\ consecutiveFailures' = IF consecutiveFailures < FailureThreshold
                              THEN consecutiveFailures + 1
                              ELSE FailureThreshold
    /\ circuit' = IF circuit = "closed" /\ consecutiveFailures' >= FailureThreshold
                  THEN "open" ELSE circuit
    /\ cooled' = FALSE

RecordFailure ==
    /\ consecutiveFailures' = IF consecutiveFailures < FailureThreshold
                              THEN consecutiveFailures + 1
                              ELSE FailureThreshold
    /\ circuit' = IF consecutiveFailures' >= FailureThreshold
                  THEN "open" ELSE circuit
    /\ cooled' = FALSE

\* The retry interval runs out.
BreakerCools ==
    /\ circuit = "open" /\ ~cooled
    /\ cooled' = TRUE
    /\ UNCHANGED <<circuit, consecutiveFailures>>
=============================================================================
