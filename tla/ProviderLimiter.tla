-------------------------- MODULE ProviderLimiter ---------------------------
(***************************************************************************)
(* GlobalRateLimiter (providers/rate_limit.py) and the requests that go    *)
(* through it: a slot of the semaphore for the whole of a stream, and, for *)
(* every attempt, the reactive block and then the sliding window.  The     *)
(* block is read once, before the window is asked; both may be slept on.   *)
(* asyncio runs one step at a time: a step ends where the code awaits.     *)
(***************************************************************************)
EXTENDS SlidingWindow, FiniteSets

CONSTANTS Requests,
          MaxConcurrency,
          MaxRetries,   \* of execute_with_retry
          Delays,       \* backoff delays, jitter included
          LongBlock,    \* set_blocked of map_error, for a final 429
          MaxCalls,     \* bound: calls of execute_with_retry for one stream
          Horizon       \* bound: time

ASSUME LimiterAssumption ==
    /\ IsFiniteSet(Requests) /\ MaxConcurrency \in Nat \ {0}
    /\ MaxRetries \in Nat /\ Delays \subseteq Nat /\ LongBlock \in Nat
    /\ MaxCalls \in Nat \ {0} /\ Horizon \in Nat

VARIABLES
    phase,         \* of each request
    attempt,       \* retries done in its call of execute_with_retry
    calls,         \* calls of execute_with_retry, the current one included
    wake,          \* when its sleep is over
    blockedUntil,  \* _blocked_until
    free,          \* value of the semaphore
    waiters        \* its queue

vars == <<now, window, phase, attempt, calls, wake, blockedUntil, free, waiters>>
semaphore == <<free, waiters>>

Holding == {"admitted", "blocked", "throttled", "calling", "backoff", "streaming"}
Holders == {r \in Requests : phase[r] \in Holding}

TypeOK ==
    /\ WindowType
    /\ phase \in [Requests -> Holding \cup {"new", "queued", "done"}]
    /\ attempt \in [Requests -> 0..MaxRetries]
    /\ calls \in [Requests -> 0..MaxCalls]
    /\ wake \in [Requests -> Nat] /\ blockedUntil \in Nat
    /\ free \in 0..MaxConcurrency /\ waiters \in Seq(Requests)

Init ==
    /\ WindowInit
    /\ phase = [r \in Requests |-> "new"]
    /\ attempt = [r \in Requests |-> 0] /\ calls = [r \in Requests |-> 0]
    /\ wake = [r \in Requests |-> 0] /\ blockedUntil = 0
    /\ free = MaxConcurrency /\ waiters = <<>>

-----------------------------------------------------------------------------
(* asyncio.Semaphore: a released slot goes to the first that waits.        *)

Without(k) == [i \in 1..(Len(waiters) - 1) |-> waiters[IF i < k THEN i ELSE i + 1]]

\* Request r is over and gives its slot back.
Release(r) ==
    IF waiters = <<>>
    THEN /\ phase' = [phase EXCEPT ![r] = "done"]
         /\ free' = free + 1 /\ UNCHANGED waiters
    ELSE /\ phase' = [phase EXCEPT ![r] = "done", ![Head(waiters)] = "admitted"]
         /\ waiters' = Tail(waiters) /\ UNCHANGED free

-----------------------------------------------------------------------------
(* wait_if_blocked, up to the call of the provider.                        *)

Goes(r, p, t) == phase' = [phase EXCEPT ![r] = p] /\ wake' = [wake EXCEPT ![r] = t]

TakeTurn(r) == \/ Acquire /\ Goes(r, "calling", now)
               \/ Throttle /\ Goes(r, "throttled", NextRoom)

WaitIfBlocked(r) ==
    IF now < blockedUntil THEN Goes(r, "blocked", blockedUntil) /\ UNCHANGED window
    ELSE TakeTurn(r)

Arrive(r) ==
    /\ phase[r] = "new" /\ calls' = [calls EXCEPT ![r] = 1]
    /\ \/ free > 0 /\ free' = free - 1 /\ WaitIfBlocked(r) /\ UNCHANGED waiters
       \/ /\ free = 0 /\ Goes(r, "queued", now) /\ waiters' = Append(waiters, r)
          /\ UNCHANGED <<window, free>>
    /\ UNCHANGED <<now, attempt, blockedUntil>>

Admitted(r) ==
    /\ phase[r] = "admitted" /\ WaitIfBlocked(r)
    /\ UNCHANGED <<now, attempt, calls, blockedUntil, semaphore>>

\* A sleep is over: on the block, on the window, or between two attempts.
Wake(r) ==
    /\ now >= wake[r]
    /\ \/ phase[r] \in {"blocked", "throttled"} /\ TakeTurn(r)
       \/ phase[r] = "backoff" /\ WaitIfBlocked(r)
    /\ UNCHANGED <<now, attempt, calls, blockedUntil, semaphore>>

-----------------------------------------------------------------------------
(* The provider answers.                                                   *)

Opened(r) ==
    /\ phase[r] = "calling" /\ phase' = [phase EXCEPT ![r] = "streaming"]
    /\ UNCHANGED <<now, window, attempt, calls, wake, blockedUntil, semaphore>>

\* 408, 429 or 5xx: everyone is blocked, and the request sleeps.
Transient(r) ==
    /\ phase[r] = "calling" /\ attempt[r] < MaxRetries
    /\ attempt' = [attempt EXCEPT ![r] = @ + 1]
    /\ \E d \in Delays : blockedUntil' = now + d /\ Goes(r, "backoff", now + d)
    /\ UNCHANGED <<now, window, calls, semaphore>>

\* Another call of execute_with_retry under the same slot: an edited body after
\* a 400, an early retry or a recovery of the stream; bound: MaxCalls.
Again(r) ==
    /\ phase[r] \in {"calling", "streaming"} /\ calls[r] < MaxCalls
    /\ calls' = [calls EXCEPT ![r] = @ + 1]
    /\ attempt' = [attempt EXCEPT ![r] = 0]
    /\ WaitIfBlocked(r)
    /\ UNCHANGED <<now, blockedUntil, semaphore>>

\* The stream or the last attempt is over; a 429 that ends it blocks everyone.
End(r) ==
    /\ phase[r] \in {"calling", "streaming"} /\ Release(r)
    /\ blockedUntil' \in {blockedUntil, now + LongBlock}
    /\ UNCHANGED <<now, window, attempt, calls, wake>>

\* A request that waits for a slot gives up.
Leave(r) ==
    /\ phase[r] = "queued" /\ phase' = [phase EXCEPT ![r] = "done"]
    /\ \E i \in DOMAIN waiters : waiters[i] = r /\ waiters' = Without(i)
    /\ UNCHANGED free

\* Mutant: a request cancelled between the hand-over of a slot and its own next
\* step does not pass the slot on.
CancelDeaf(r) ==
    /\ \/ phase[r] \in Holding \ {"admitted"} /\ Release(r)
       \/ Leave(r)
       \/ /\ phase[r] = "admitted" /\ phase' = [phase EXCEPT ![r] = "done"]
          /\ UNCHANGED semaphore
    /\ UNCHANGED <<now, window, attempt, calls, wake, blockedUntil>>

\* The client disconnects: the task is cancelled at the await it stands at.
Cancel(r) ==
    /\ \/ phase[r] \in Holding /\ Release(r)
       \/ Leave(r)
    /\ UNCHANGED <<now, window, attempt, calls, wake, blockedUntil>>

Tick == /\ now < Horizon /\ now' = now + 1
        /\ UNCHANGED <<window, phase, attempt, calls, wake, blockedUntil, semaphore>>

Next == \/ Tick
        \/ \E r \in Requests :
              \/ Arrive(r) \/ Admitted(r) \/ Wake(r) \/ Opened(r)
              \/ Transient(r) \/ Again(r) \/ End(r) \/ Cancel(r)

Spec == Init /\ [][Next]_vars

-----------------------------------------------------------------------------
(* Properties.                                                             *)

\* "At most N provider streams may be open", and no slot is lost or given back
\* twice, on any path out of a request: a free one means that nobody waits.
SlotsConserved ==
    /\ free + Cardinality(Holders) = MaxConcurrency
    /\ free > 0 => waiters = <<>>
    /\ \A r \in Requests : phase[r] = "queued" <=> \E i \in DOMAIN waiters : waiters[i] = r

=============================================================================
