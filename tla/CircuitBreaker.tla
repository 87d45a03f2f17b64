--------------------------- MODULE CircuitBreaker ---------------------------
(***************************************************************************)
(* The circuit breaker in front of a remote system, app/core/circuit.py,   *)
(* as the connectors use it: before_call, then the call with its own       *)
(* retries, then on_success or on_failure.  The breaker of a base URL is   *)
(* shared by every coroutine of the process; they interleave at the await  *)
(* of the call, so several calls are between before_call and their result. *)
(***************************************************************************)
EXTENDS Integers

CONSTANTS
    Calls,          \* coroutines that call the remote system
    FailThreshold,  \* CIRCUIT_FAIL_THRESHOLD
    ResetTicks      \* CIRCUIT_RESET_SECONDS, in ticks of the clock

ASSUME CircuitAssumption == FailThreshold \in Nat \ {0} /\ ResetTicks \in Nat \ {0}

VARIABLES
    failures,   \* counted no further than the threshold
    open,       \* opened_at is not None
    elapsed,    \* ticks since opened_at, no further than ResetTicks
    halfOpen,   \* half_open
    call,       \* per coroutine: not calling, or how before_call let it through
    streak,     \* failed calls since the last answered one (history)
    up          \* the remote system answers

breaker == <<failures, open, elapsed, halfOpen>>
vars == <<failures, open, elapsed, halfOpen, call, streak, up>>

TypeOK ==
    /\ failures \in 0..FailThreshold
    /\ open \in BOOLEAN
    /\ elapsed \in 0..ResetTicks
    /\ halfOpen \in BOOLEAN
    /\ call \in [Calls -> {"none", "closed", "trial"}]
    /\ streak \in 0..FailThreshold
    /\ up \in BOOLEAN

Init ==
    /\ failures = 0
    /\ open = FALSE
    /\ elapsed = 0
    /\ halfOpen = FALSE
    /\ call = [c \in Calls |-> "none"]
    /\ streak = 0
    /\ up = TRUE

Count(n) == IF n < FailThreshold THEN n + 1 ELSE n

-----------------------------------------------------------------------------

NeverOver == FALSE
ResetOver == elapsed = ResetTicks

(* before_call of a closed circuit, and of an open one whose reset time is *)
(* over.  Any other call raises CircuitOpenError and changes nothing.      *)
Begin(c) ==
    /\ call[c] = "none"
    /\ ~open \/ ResetOver
    /\ halfOpen' = (halfOpen \/ open)
    /\ call' = [call EXCEPT ![c] = IF open THEN "trial" ELSE "closed"]
    /\ UNCHANGED <<failures, open, elapsed, streak, up>>

(* on_success: also for an answer that is the caller's own fault, a 4xx. *)
KeepFailures == failures
NoFailures == 0

OnSuccess(c) ==
    /\ call[c] # "none"
    /\ up
    /\ failures' = NoFailures
    /\ open' = FALSE
    /\ elapsed' = 0
    /\ halfOpen' = FALSE
    /\ streak' = 0
    /\ call' = [call EXCEPT ![c] = "none"]
    /\ UNCHANGED up

TooManyLate(n) == n > FailThreshold
TooMany(n) == n >= FailThreshold

(* on_failure: a 5xx, or no answer after the retries of the call. *)
OnFailure(c) ==
    /\ call[c] # "none"
    /\ ~up
    /\ IF halfOpen
         THEN /\ open' = TRUE
              /\ elapsed' = 0
              /\ halfOpen' = FALSE
              /\ UNCHANGED failures
         ELSE /\ failures' = Count(failures)
              /\ open' = (open \/ TooMany(failures'))
              /\ elapsed' = IF TooMany(failures') THEN 0 ELSE elapsed
              /\ UNCHANGED halfOpen
    /\ streak' = Count(streak)
    /\ call' = [call EXCEPT ![c] = "none"]
    /\ UNCHANGED up

(* The coroutine is cancelled at its await: neither handler runs. *)
Cancelled(c) ==
    /\ call[c] # "none"
    /\ call' = [call EXCEPT ![c] = "none"]
    /\ UNCHANGED <<failures, open, elapsed, halfOpen, streak, up>>

Tick ==
    /\ open
    /\ elapsed < ResetTicks
    /\ elapsed' = elapsed + 1
    /\ UNCHANGED <<failures, open, halfOpen, call, streak, up>>

(* The remote system goes down or comes back. *)
Outage ==
    /\ up' = ~up
    /\ UNCHANGED <<failures, open, elapsed, halfOpen, call, streak>>

Next ==
    \/ \E c \in Calls : Begin(c) \/ OnSuccess(c) \/ OnFailure(c) \/ Cancelled(c)
    \/ Tick
    \/ Outage

Spec == Init /\ [][Next]_vars

-----------------------------------------------------------------------------
(* Properties *)

(* The circuit opens only after N failures with no success between them,   *)
(* whatever the order in which overlapping calls end.                      *)
OpensAfterStreak == [][~open /\ open' => streak' >= FailThreshold]_vars

(* N failures with no success between them leave the circuit open: none of *)
(* them is lost to a concurrent trial call or a cancelled one.             *)
StreakOpens == streak >= FailThreshold => open

(* A trial is under way only on an open circuit whose reset time is over.  *)
TrialAfterReset == halfOpen => open /\ elapsed = ResetTicks

-----------------------------------------------------------------------------
(* Liveness *)

(* Calls end, the clock runs, and somebody calls again when let through.   *)
Fairness ==
    /\ WF_vars(Tick)
    /\ \E c \in Calls : SF_vars(Begin(c)) /\ SF_vars(OnSuccess(c))
    /\ \A c \in Calls : WF_vars(OnSuccess(c) \/ OnFailure(c) \/ Cancelled(c))

FairSpec == Spec /\ Fairness

(* Once the remote system is back for good, calls are let through for good *)
(* (no cancelled trial leaves the circuit shut).                           *)
RecoversWhenUp == <>[]up => <>[]~open
=============================================================================
