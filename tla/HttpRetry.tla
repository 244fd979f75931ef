----------------------------- MODULE HttpRetry ------------------------------
(***************************************************************************)
(* httpretry.Do for any number of calls that run at one time under one     *)
(* context: what is tried again, after which wait, and what is returned.   *)
(***************************************************************************)
EXTENDS Integers

CONSTANTS Calls,
          Codes,        \* HTTP statuses a server may answer with
          Hints,        \* what a Retry-After header may ask for; 0 is none
          MaxAttempts,  \* Policy
          BaseBackoff,
          MaxBackoff

ASSUME RetryAssumption ==
  /\ Codes \subseteq Nat /\ Hints \subseteq Nat
  /\ MaxAttempts \in Nat \ {0}
  /\ BaseBackoff \in Nat \ {0} /\ MaxBackoff \in Nat \ {0}

VARIABLES
  stage,      \* of each call: "idle", "sending", "waiting" or "returned"
  attempt,
  slept,      \* history: the longest a call can have waited, in quarters
  result,     \* of a call that returned
  cancelled   \* the context is done

retryVars == <<stage, attempt, slept, result, cancelled>>

Errors == {"reset", "timeout", "cancelled"}
\* What Do returns is the status of a response, or 0 with an error.

RetryTypeOK ==
  /\ stage \in [Calls -> {"idle", "sending", "waiting", "returned"}]
  /\ attempt \in [Calls -> 1..MaxAttempts]
  /\ slept \in [Calls -> Nat]
  /\ result \in [Calls -> Codes \cup {0}]
  /\ cancelled \in BOOLEAN

RetryInit ==
  /\ stage = [c \in Calls |-> "idle"]
  /\ attempt = [c \in Calls |-> 1]
  /\ slept = [c \in Calls |-> 0]
  /\ result = [c \in Calls |-> 0]
  /\ cancelled = FALSE

IsRetryableStatus(code) == code = 429 \/ code \in 500..599

\* A deadline that has passed, the client's own timeout included, is taken for the
\* caller's; any other network error is tried again.
IsRetryableErr(error) == error = "reset"

\* Mutant: a server's hint is followed however long it is.
BackoffUnclamped(n, hint) ==
  IF hint > 0 THEN hint
  ELSE IF BaseBackoff * 2^(n - 1) \in 0..MaxBackoff THEN BaseBackoff * 2^(n - 1)
  ELSE MaxBackoff

\* The wait after attempt n; a hint takes precedence over the schedule.
BackoffFor(n, hint) ==
  LET d == IF hint > 0 THEN hint ELSE BaseBackoff * 2^(n - 1)
  IN IF d \in 0..MaxBackoff THEN d ELSE MaxBackoff

Start(c) ==
  /\ stage[c] = "idle"
  /\ stage' = [stage EXCEPT ![c] = "sending"]
  /\ UNCHANGED <<attempt, slept, result, cancelled>>

Return(c, code) ==
  /\ stage' = [stage EXCEPT ![c] = "returned"]
  /\ result' = [result EXCEPT ![c] = code]
  /\ UNCHANGED <<attempt, slept, cancelled>>

\* sleepWithJitter waits a quarter longer at most.
Sleep(c, d) ==
  /\ stage' = [stage EXCEPT ![c] = "waiting"]
  /\ slept' = [slept EXCEPT ![c] = @ + 5 * d]
  /\ UNCHANGED <<attempt, result, cancelled>>

\* The last attempt returns even a retryable status.
Answered(c, code, hint) ==
  /\ stage[c] = "sending"
  /\ IF IsRetryableStatus(code) /\ attempt[c] < MaxAttempts
     THEN Sleep(c, BackoffFor(attempt[c], hint))
     ELSE Return(c, code)

Failed(c, error) ==
  /\ stage[c] = "sending"
  /\ error = "cancelled" => cancelled
  /\ IF IsRetryableErr(error) /\ attempt[c] < MaxAttempts
     THEN Sleep(c, BackoffFor(attempt[c], 0))
     ELSE Return(c, 0)

Wake(c) ==
  /\ stage[c] = "waiting"
  /\ stage' = [stage EXCEPT ![c] = "sending"]
  /\ attempt' = [attempt EXCEPT ![c] = @ + 1]
  /\ UNCHANGED <<slept, result, cancelled>>

GiveUp(c) == stage[c] = "waiting" /\ cancelled /\ Return(c, 0)

Cancel ==
  /\ ~cancelled /\ cancelled' = TRUE
  /\ UNCHANGED <<stage, attempt, slept, result>>

\* What a call does of itself once it has begun.
Attempt(c) ==
  \/ \E code \in Codes, hint \in Hints : Answered(c, code, hint)
  \/ \E error \in Errors : Failed(c, error)
  \/ Wake(c) \/ GiveUp(c)

RetryNext == Cancel \/ \E c \in Calls : Start(c) \/ Attempt(c)
RetrySpec == RetryInit /\ [][RetryNext]_retryVars

\* A call waits no longer than MaxAttempts - 1 of the longest waits, a quarter more
\* each, whatever schedule and hints come together ("MaxBackoff caps the per-attempt
\* wait", retry.go:30, holds but for the jitter).
WaitBounded == \A c \in Calls : slept[c] <= 5 * ((MaxAttempts - 1) * MaxBackoff)
=============================================================================
