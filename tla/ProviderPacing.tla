---------------------------- MODULE ProviderPacing ----------------------------
(***************************************************************************)
(* Client-side pacing of provider calls.  A full sync or a reconcile run   *)
(* builds an adapter with a token bucket of its own and lists through it,  *)
(* one call at a time; the sync worker's adapters have no bucket; the      *)
(* provider, if a limit is set, has a bucket of the same size.  Tokens are *)
(* counted in units of 1/Period of a request, so that a limit of Limit     *)
(* requests per Period ticks refills Limit units a tick.                   *)
(***************************************************************************)
EXTENDS Integers, FiniteSetsExt

CONSTANTS Runners,       \* engine processes, each running one job at a time
          Limit,         \* requests per period, of the registry and the provider
          Period,        \* ticks of a period (the code's minute)
          MaxTime,       \* bound: ticks
          MaxJobs,       \* bound: jobs started
          MaxWrites,     \* bound: the worker's calls
          MaxLatency     \* bound: ticks a request is under way

ASSUME PacingAssumption ==
    /\ {Limit, Period} \subseteq Nat \ {0}
    /\ {MaxTime, MaxJobs, MaxWrites, MaxLatency} \subseteq Nat

VARIABLES now,
          limiter,       \* of each runner: [tokens, last]
          call,          \* of each runner: [state, since, wake]
          provider,      \* the provider's bucket: [tokens, last]
          jobs, writes,  \* jobs started, calls of the worker
          granted,       \* of each runner: its limiter's grants, per tick
          refused,       \* has a request been answered 429?
          slow           \* has a request been under way while time passed?

vars == <<now, limiter, call, provider, jobs, writes, granted, refused, slow>>

Capacity == Limit * Period
Bucket == [tokens : 0 .. Capacity, last : 0 .. MaxTime]
Idle == [state |-> "idle", since |-> 0, wake |-> 0]
Between == [state |-> "between", since |-> 0, wake |-> 0]

-----------------------------------------------------------------------------
\* NewLimiter, NewRateLimiter: a full bucket.
NewLimiter == [tokens |-> Capacity, last |-> now]

\* The refill of take and Allow: the time since the last one, up to the capacity.
Refilled(b) ==
    [tokens |-> Min({Capacity, b.tokens + (now - b.last) * Limit}), last |-> now]

HasToken(b) == Refilled(b).tokens >= Period

\* A request is paid for.
Spent(b) == [Refilled(b) EXCEPT !.tokens = @ - Period]

Init ==
    /\ now = 0
    /\ limiter = [r \in Runners |-> [tokens |-> 0, last |-> 0]]
    /\ call = [r \in Runners |-> Idle]
    /\ provider = [tokens |-> Capacity, last |-> 0]
    /\ jobs = 0 /\ writes = 0
    /\ granted = [r \in Runners |-> [t \in 0 .. MaxTime |-> 0]]
    /\ refused = FALSE /\ slow = FALSE

\* The job builds its adapter: registry.New makes a new limiter.
StartJob(r) ==
    /\ call[r].state = "idle" /\ jobs < MaxJobs
    /\ jobs' = jobs + 1
    /\ limiter' = [limiter EXCEPT ![r] = NewLimiter]
    /\ granted' = [granted EXCEPT ![r] = [t \in 0 .. MaxTime |-> 0]]
    /\ call' = [call EXCEPT ![r] = Between]
    /\ UNCHANGED <<now, provider, writes, refused, slow>>

\* The job is over, between two of its calls.
EndJob(r) ==
    /\ call[r].state = "between"
    /\ call' = [call EXCEPT ![r] = Idle]
    /\ UNCHANGED <<now, limiter, provider, jobs, writes, granted, refused, slow>>

\* The runner is about to look for a token: a new call, or the sleep is over.
Trying(r) == call[r].state = "between" \/ (call[r].state = "asleep" /\ call[r].wake <= now)

\* Mutated form of Take: the time of the refill is not kept.
TakeKeepingLast(r) ==
    /\ Trying(r) /\ HasToken(limiter[r])
    /\ limiter' = [limiter EXCEPT ![r].tokens = Refilled(limiter[r]).tokens - Period]
    /\ granted' = [granted EXCEPT ![r][now] = @ + 1]
    /\ call' = [call EXCEPT ![r] = [state |-> "sent", since |-> now, wake |-> 0]]
    /\ UNCHANGED <<now, provider, jobs, writes, refused, slow>>

\* Wait, with a token at hand: take it and send the request.
Take(r) ==
    /\ Trying(r) /\ HasToken(limiter[r])
    /\ limiter' = [limiter EXCEPT ![r] = Spent(@)]
    /\ granted' = [granted EXCEPT ![r][now] = @ + 1]
    /\ call' = [call EXCEPT ![r] = [state |-> "sent", since |-> now, wake |-> 0]]
    /\ UNCHANGED <<now, provider, jobs, writes, refused, slow>>

\* Wait, without one: refill and sleep for what is missing, rounded down.
Sleep(r) ==
    LET b == Refilled(limiter[r]) IN
    /\ Trying(r) /\ ~HasToken(limiter[r])
    /\ limiter' = [limiter EXCEPT ![r] = b]
    /\ call' = [call EXCEPT ![r] =
          [state |-> "asleep",
           since |-> IF @.state = "asleep" THEN @.since ELSE now,
           wake  |-> now + (Period - b.tokens) \div Limit]]
    /\ UNCHANGED <<now, provider, jobs, writes, granted, refused, slow>>

\* Wait when the context is cancelled during the sleep: the engine is stopping.
Cancel(r) ==
    /\ call[r].state = "asleep"
    /\ call' = [call EXCEPT ![r] = Idle]
    /\ UNCHANGED <<now, limiter, provider, jobs, writes, granted, refused, slow>>

\* The provider's rateLimit: Allow, or 429.
Allow ==
    \/ /\ HasToken(provider)
       /\ provider' = Spent(provider)
       /\ UNCHANGED refused
    \/ /\ ~HasToken(provider)
       /\ provider' = Refilled(provider)
       /\ refused' = TRUE

\* A paced request reaches the provider and is answered.
Arrive(r) ==
    /\ call[r].state = "sent"
    /\ Allow
    /\ call' = [call EXCEPT ![r] = Between]
    /\ UNCHANGED <<now, limiter, jobs, writes, granted, slow>>

\* The worker writes to the provider: adapterFor passes a limit of 0.
WorkerCall ==
    /\ writes < MaxWrites
    /\ writes' = writes + 1
    /\ Allow
    /\ UNCHANGED <<now, limiter, call, jobs, granted, slow>>

\* Time passes: a sleeper does not oversleep while there is a token for it, and
\* no request is under way for longer than MaxLatency.
Tick ==
    /\ now < MaxTime
    /\ \A r \in Runners :
          /\ (call[r].state = "asleep" /\ call[r].wake <= now) => ~HasToken(limiter[r])
          /\ call[r].state = "sent" => now - call[r].since < MaxLatency
    /\ now' = now + 1
    /\ slow' = (slow \/ \E r \in Runners : call[r].state = "sent")
    /\ UNCHANGED <<limiter, call, provider, jobs, writes, granted, refused>>

Next ==
    \/ \E r \in Runners : StartJob(r) \/ EndJob(r) \/ Take(r) \/ Sleep(r) \/ Cancel(r) \/ Arrive(r)
    \/ WorkerCall \/ Tick

Spec == Init /\ [][Next]_vars

-----------------------------------------------------------------------------
\* Every bucket stays between empty and full (ratelimit.go:56-60,
\* rate.go:38-48), and the rest is in its range.
TypeOK ==
    /\ now \in 0 .. MaxTime
    /\ limiter \in [Runners -> Bucket] /\ provider \in Bucket
    /\ call \in [Runners -> [state : {"idle", "between", "asleep", "sent"},
                             since : 0 .. MaxTime, wake : 0 .. MaxTime + Period]]
    /\ jobs \in 0 .. MaxJobs /\ writes \in 0 .. MaxWrites
    /\ refused \in BOOLEAN /\ slow \in BOOLEAN

\* ratelimit.go:10-13 "smooths bursty backfills": in every window of time up to
\* now a job's limiter has let through no more than a full bucket and what was
\* refilled during the window.
BurstBound ==
    \A r \in Runners : \A from \in 0 .. now :
        Period * MapThenSumSet(LAMBDA t : granted[r][t], from .. now)
            <= Capacity + Limit * (now - from)

\* registry.go:27-28, docs/customer-deployment.md:72-74: calls paced by a
\* limiter that matches the provider's limit are never answered with 429.
NotThrottled == ~refused

\* A 429 has one of three causes: an earlier or concurrent job's limiter, which
\* started full (registry.New), an unpaced call of the worker, or a request that
\* was under way while later tokens came in.
ThrottlingExplained == refused => jobs > 1 \/ writes > 0 \/ slow

================================================================================
