----------------------------- MODULE RetrySchedule -----------------------------
(***************************************************************************)
(* When a failed event is tried again, and how often: ComputeDelay, the    *)
(* provider's Retry-After, the cap and the attempt counter, with the       *)
(* options the engine process is started with.  A Duration is a signed     *)
(* integer of Width bits.  One behaviour is the retry history of one row   *)
(* of retry_queue; EventPipeline has the rows' interaction with the rest.  *)
(***************************************************************************)
EXTENDS Integers, FiniteSetsExt

CONSTANTS Width,                  \* bits of a Duration
          Bases, Caps, Attempts,  \* values of SYNCFORGE_RETRY_*, 0 for "not set"
          DefaultBase, DefaultCap, DefaultAttempts,
          RetryAfters             \* Retry-After values of a provider, 0 for none

\* The odd factor of a positive number.
Odd(b) == CHOOSE o \in 1 .. b : o % 2 = 1 /\ \E k \in 0 .. Width : o * 2^k = b

\* A base times a power of two that wraps around does not come out below the
\* cap: true of the code's 1s and 60s in 64 bits of nanoseconds.
ASSUME ScheduleAssumption ==
    /\ Width \in 2 .. 16
    /\ DefaultBase > 1 /\ DefaultCap > 1 /\ DefaultAttempts > 1
    /\ RetryAfters \subseteq Nat /\ Attempts \subseteq Nat
    /\ Bases \subseteq Nat \ {1} /\ Caps \subseteq Nat \ {1}
    /\ \A b \in Bases \cup {DefaultBase}, m \in Caps \cup {DefaultCap} :
            b > 0 => Odd(b) * m < 2^(Width - 1)

VARIABLES config,       \* the environment's [base, cap, attempts]
          status,       \* "new", "queued", "done" or "dlq"
          row,          \* [attempt, max] of the retry_queue row
          tries,        \* failed calls of Process
          retryAfter,   \* of the last failure
          delay         \* the row was last scheduled with

vars == <<config, status, row, tries, retryAfter, delay>>

Init ==
    /\ config \in [base : Bases, cap : Caps, attempts : Attempts]
    /\ status = "new"
    /\ row = [attempt |-> 0, max |-> 0]
    /\ tries = 0 /\ retryAfter = 0 /\ delay = 0

-----------------------------------------------------------------------------
\* Integer arithmetic that wraps; a shift by the width or more gives 0.
Wrap(x) == ((x + 2^(Width - 1)) % 2^Width) - 2^(Width - 1)
Shift(k) == IF k < Width THEN Wrap(2^k) ELSE 0

\* Options of the worker, which the engine process leaves at their defaults,
\* and of the retry engine, where a positive setting replaces the default.
WorkerOptions == [base |-> DefaultBase, cap |-> DefaultCap]
EngineOptions ==
    [base |-> IF config.base > 0 THEN config.base ELSE DefaultBase,
     cap  |-> IF config.cap > 0 THEN config.cap ELSE DefaultCap]

\* Mutated form of Exponential: the wrapped product is not caught.
ExponentialUnchecked(n, opts) ==
    LET exp == Wrap(opts.base * Shift(n - 1)) IN
    IF exp > opts.cap THEN opts.cap ELSE exp

\* The delay before jitter.
Exponential(n, opts) ==
    LET exp == Wrap(opts.base * Shift(n - 1)) IN
    IF exp > opts.cap \/ exp <= 0 THEN opts.cap ELSE exp

\* What ComputeDelay may return: a factor in [0.7, 1.3], in tenths, then the cap.
ComputeDelay(n, opts) ==
    {Min({(Exponential(n, opts) * f) \div 10, opts.cap}) : f \in 7 .. 13}

\* The provider's Retry-After replaces a longer delay.
Scheduled(n, opts, after) ==
    {Min({IF after > 0 /\ after < d THEN after ELSE d, opts.cap}) : d \in ComputeDelay(n, opts)}

\* dispatchFailure: the worker's own attempt fails and inserts the row.
WorkerFails(after) ==
    /\ status = "new"
    /\ status' = "queued"
    /\ row' = [attempt |-> 1, max |-> DefaultAttempts]
    /\ tries' = 1
    /\ retryAfter' = after
    /\ delay' \in Scheduled(1, WorkerOptions, after)
    /\ UNCHANGED config

\* An operator's replay, resolution or repair inserts the row, due at once.
OperatorEnqueues ==
    /\ status = "new"
    /\ status' = "queued"
    /\ row' = [attempt |-> 1, max |-> config.attempts]
    /\ UNCHANGED <<config, tries, retryAfter, delay>>

\* processRetry when the event fails again: dead-letter or reschedule the row.
EngineFails(after) ==
    LET failureCount == row.attempt + 1 IN
    /\ status = "queued"
    /\ tries' = tries + 1
    /\ retryAfter' = after
    /\ \/ /\ failureCount >= row.max
          /\ status' = "dlq"
          /\ UNCHANGED <<row, delay>>
       \/ /\ failureCount < row.max
          /\ row' = [row EXCEPT !.attempt = failureCount]
          /\ delay' \in Scheduled(failureCount, EngineOptions, after)
          /\ UNCHANGED status
    /\ UNCHANGED config

\* processRetry when it does not.
EngineSucceeds ==
    /\ status = "queued"
    /\ status' = "done"
    /\ UNCHANGED <<config, row, tries, retryAfter, delay>>

Next ==
    \/ \E after \in RetryAfters : WorkerFails(after) \/ EngineFails(after)
    \/ OperatorEnqueues
    \/ EngineSucceeds

Spec == Init /\ [][Next]_vars

-----------------------------------------------------------------------------
\* Every value stays in its range: in particular the attempt counter of a row
\* stays below its maximum (retry/engine.go:142) and a delay is between 0 and
\* the larger of the two caps (backoff.go:25-34).
TypeOK ==
    /\ config \in [base : Bases, cap : Caps, attempts : Attempts]
    /\ status \in {"new", "queued", "done", "dlq"}
    /\ row.max \in {0, DefaultAttempts, config.attempts}
    /\ row.attempt \in 0 .. Max({1, row.max - 1})
    /\ tries \in 0 .. Max({2, row.max})
    /\ retryAfter \in RetryAfters
    /\ delay \in 0 .. Max(Caps \cup {DefaultCap})

\* The options the last delay was computed with: the first row is the worker's.
Options == IF row.attempt = 1 THEN WorkerOptions ELSE EngineOptions

\* docs/failure-recovery.md:59-60: the delay is base x 2^(attempt-1), capped,
\* within the jitter: for every attempt, also where the shift or the product
\* leaves the width of a Duration (backoff.go:24-27).  The reference is the
\* product in unbounded integers.
DelayOnSchedule ==
    status = "queued" /\ tries > 0 /\ retryAfter = 0 =>
        LET ideal == Min({Options.base * 2^Min({row.attempt - 1, Width}), Options.cap})
        IN delay \in (ideal * 7) \div 10 .. Min({(ideal * 13) \div 10, Options.cap})

\* docs/failure-recovery.md:60-61: the number of attempts is "configurable via
\* SYNCFORGE_RETRY_*": an event fails no more often than is configured (two
\* times at least, the first retry being unconditional).
AttemptsAsConfigured == config.attempts > 0 => tries <= Max({2, config.attempts})

================================================================================
