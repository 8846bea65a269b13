------------------------------ MODULE Backoff ------------------------------
(***************************************************************************)
(* How long a job waits before its next attempt: internal/cluster/retry.go *)
(* as RetryIfEligible in job_retry.go calls it, for one job that fails     *)
(* again and again, without jitter.                                        *)
(* A time.Duration is a signed number of nanoseconds in 64 bits.  Every    *)
(* delay here is a multiple of 64 ns (a millisecond is 15625 times 64 ns), *)
(* so durations are counted in units of 64 ns and wrap at 58 bits.  TLC's  *)
(* integers have 32 bits, so a product m * 2^e is not computed before it   *)
(* is known to be small.                                                   *)
(***************************************************************************)
EXTENDS Integers

CONSTANTS
    Strategy,        \* RetryPolicy.Backoff: "none", "linear" or "exponential"
    InitialDelayMs,  \* at most 60000; 0 for the default
    MaxDelayMs,      \* likewise
    MaxAttempts      \* at most 100 by the API

VARIABLES attempt, wait, before

vars == <<attempt, wait, before>>

Millisecond == 15625

Base == (IF InitialDelayMs = 0 THEN 1000 ELSE InitialDelayMs) * Millisecond

Cap == (IF MaxDelayMs = 0 THEN 60000 ELSE MaxDelayMs) * Millisecond

\* m * 2^e in 58 bits, signed, and then the lower of it and Cap: -1 stands for
\* any negative duration.
Shifted(m, e) ==
    LET low == IF 58 - e > 30 THEN m ELSE IF e >= 58 THEN 0 ELSE m % 2^(58 - e)
        negative == 57 - e <= 30 /\ e < 58 /\ low >= 2^(57 - e)
    IN  IF negative THEN -1
        ELSE IF low = 0 THEN 0
        ELSE IF e > 30 \/ low > Cap \div 2^e THEN Cap
        ELSE low * 2^e

\* A product that TLC could not compute is above the cap as well.
Times(m, n) == IF n > Cap \div m THEN Cap ELSE m * n

\* Mutant: the cap is put on the base, before it is shifted.
NextRetryDelay_CapBase(n) == (IF Base > Cap THEN Cap ELSE Base) * 2^(n - 1)

NextRetryDelay(n) ==
    CASE Strategy = "linear"      -> Times(Base, n)
      [] Strategy = "exponential" -> Shifted(Base, n - 1)
      [] OTHER                    -> IF Base > Cap THEN Cap ELSE Base

\* A first attempt waits for nothing.
Init == attempt = 1 /\ wait = 0 /\ before = 0

\* The delay is computed after the attempt has been counted.
RetryIfEligible ==
    /\ attempt < MaxAttempts
    /\ attempt' = attempt + 1
    /\ wait' = NextRetryDelay(attempt')
    /\ before' = wait

BackoffSpec == Init /\ [][RetryIfEligible]_vars

\* coordinatorpb/types.go:430 "BackoffExponential doubles the delay each
\* attempt (capped at max_delay_ms)": true of 34 attempts at the default delays.
\* The product of a later one is cut to 64 bits, which may leave less, or nothing.
DelayDoubles ==
    Strategy = "exponential" /\ attempt > 2 =>
        wait = IF before > Cap \div 2 THEN Cap ELSE 2 * before

\* coordinatorpb/types.go:458 "InitialDelayMs is the base delay in milliseconds
\* before the first retry".  The attempt is counted first: it is twice the base.
FirstDelayIsInitial ==
    attempt = 2 /\ Base <= Cap => wait = Base
=============================================================================
