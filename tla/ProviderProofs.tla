-------------------------- MODULE ProviderProofs ---------------------------
(***************************************************************************)
(* The properties of ProviderLimiter and of the sliding window under it,   *)
(* for every limit, window, number of slots and set of requests; and those *)
(* of NativeStream, for every set of blocks and number of retries; and     *)
(* those of RequestPipeline, which decides what a provider is asked, for   *)
(* every settings and request, and any number of module strategies; and    *)
(* those of ResponsesStream, which tells the client what came, for every   *)
(* set of indices and of tools, and any sequence of events.                *)
(***************************************************************************)
EXTENDS ProviderLimiter, NativeStream, RequestPipeline, ResponsesStream, FiniteSetTheorems, WellFoundedInduction, TLAPS

-----------------------------------------------------------------------------
(* The queue of the semaphore as a sequence.                               *)

Distinct(s) == \A i, j \in 1..Len(s) : s[i] = s[j] => i = j
Members(s) == {s[i] : i \in 1..Len(s)}
Skipping(s, k) == [i \in 1..(Len(s) - 1) |-> s[IF i < k THEN i ELSE i + 1]]

LEMMA WithoutOne ==
    ASSUME NEW S, NEW s \in Seq(S), Distinct(s), NEW k \in 1..Len(s),
           NEW t, t = Skipping(s, k)
    PROVE  t \in Seq(S) /\ Distinct(t) /\ Members(t) = Members(s) \ {s[k]}
<1> DEFINE at(i) == IF i < k THEN i ELSE i + 1
<1> DEFINE n == Len(s)
<1>1. n \in Nat /\ k \in 1..n /\ \A i \in 1..n : s[i] \in S
  OBVIOUS
<1>2. t = [i \in 1..(n - 1) |-> s[at(i)]]
  BY DEF Skipping
<1>3. Distinct(s) <=> \A i, j \in 1..n : s[i] = s[j] => i = j
  BY DEF Distinct
<1>4. Members(s) = {s[i] : i \in 1..n}
  BY DEF Members
<1> HIDE DEF n
<1>5. \A i \in 1..(n - 1) : at(i) \in 1..n /\ at(i) # k
  BY <1>1
<1>6. \A i, j \in 1..(n - 1) : at(i) = at(j) => i = j
  BY <1>1
<1>7. \A i \in 1..n : i # k => \E j \in 1..(n - 1) : at(j) = i
  <2> SUFFICES ASSUME NEW i \in 1..n, i # k
               PROVE  \E j \in 1..(n - 1) : at(j) = i
    OBVIOUS
  <2>1. CASE i < k
    <3>1. i \in 1..(n - 1) /\ at(i) = i
      BY <2>1, <1>1
    <3> QED  BY <3>1
  <2>2. CASE i > k
    <3>1. i - 1 \in 1..(n - 1) /\ at(i - 1) = i
      BY <2>2, <1>1
    <3> QED  BY <3>1
  <2>3. i < k \/ i > k
    BY <1>1
  <2> QED  BY <2>1, <2>2, <2>3
<1> HIDE DEF at
<1>8. n - 1 \in Nat /\ \A i \in 1..(n - 1) : s[at(i)] \in S
  BY <1>1, <1>5
<1>9. t \in Seq(S) /\ Len(t) = n - 1 /\ \A i \in 1..(n - 1) : t[i] = s[at(i)]
  <2> DEFINE m == n - 1
  <2>1. m \in Nat /\ t = [i \in 1..m |-> s[at(i)]] /\ \A i \in 1..m : s[at(i)] \in S
    BY <1>2, <1>8
  <2> HIDE DEF m
  <2>2. t \in [1..m -> S]
    BY <2>1
  <2>3. t \in Seq(S)
    BY <2>1, <2>2
  <2>4. Len(t) = m
    BY <2>1, <2>2, <2>3
  <2> QED  BY <2>1, <2>3, <2>4 DEF m
<1>10. Distinct(t)
  BY <1>3, <1>5, <1>6, <1>9 DEF Distinct
<1>11. Members(t) = {s[at(i)] : i \in 1..(n - 1)}
  BY <1>9 DEF Members
<1>12. Members(t) = Members(s) \ {s[k]}
  BY <1>1, <1>3, <1>4, <1>5, <1>7, <1>11
<1> QED  BY <1>9, <1>10, <1>12

LEMMA WithoutFirst ==
    ASSUME NEW S, NEW s \in Seq(S), Distinct(s), s # <<>>
    PROVE  /\ Tail(s) \in Seq(S) /\ Distinct(Tail(s))
           /\ Members(Tail(s)) = Members(s) \ {Head(s)}
           /\ Head(s) \in Members(s)
<1>1. /\ Len(s) \in Nat \ {0} /\ Head(s) = s[1]
      /\ Tail(s) \in Seq(S) /\ Len(Tail(s)) = Len(s) - 1
      /\ \A i \in 1..Len(Tail(s)) : Tail(s)[i] = s[i + 1]
  OBVIOUS
<1>2. \A i \in 1..Len(Tail(s)) : i + 1 \in 1..Len(s) /\ i + 1 # 1
  BY <1>1
<1>3. \A i \in 1..Len(s) : i # 1 => i - 1 \in 1..Len(Tail(s)) /\ Tail(s)[i - 1] = s[i]
  BY <1>1
<1>4. 1 \in 1..Len(s)
  BY <1>1
<1>5. Distinct(Tail(s))
  <2> SUFFICES ASSUME NEW i \in 1..Len(Tail(s)), NEW j \in 1..Len(Tail(s)),
                      Tail(s)[i] = Tail(s)[j]
               PROVE  i = j
    BY DEF Distinct
  <2>1. i + 1 = j + 1
    BY <1>1, <1>2 DEF Distinct
  <2> QED  BY <2>1
<1>6. Members(Tail(s)) \subseteq Members(s) \ {s[1]}
  BY <1>1, <1>2, <1>4 DEF Distinct, Members
<1>7. Members(s) \ {s[1]} \subseteq Members(Tail(s))
  BY <1>3 DEF Members
<1> QED  BY <1>1, <1>4, <1>5, <1>6, <1>7 DEF Members

LEMMA OneMore ==
    ASSUME NEW S, NEW s \in Seq(S), Distinct(s), NEW r \in S, r \notin Members(s)
    PROVE  /\ Append(s, r) \in Seq(S) /\ Distinct(Append(s, r))
           /\ Members(Append(s, r)) = Members(s) \cup {r}
<1>1. /\ Append(s, r) \in Seq(S) /\ Len(Append(s, r)) = Len(s) + 1 /\ Len(s) \in Nat
      /\ Append(s, r)[Len(s) + 1] = r
      /\ \A i \in 1..Len(s) : Append(s, r)[i] = s[i]
  OBVIOUS
<1>2. 1..(Len(s) + 1) = 1..Len(s) \cup {Len(s) + 1}
  BY <1>1
<1> QED  BY <1>1, <1>2 DEF Distinct, Members

-----------------------------------------------------------------------------
(* The slots.                                                              *)

\* SlotsConserved in these terms, strengthened: nobody waits twice.
Slots ==
    /\ phase \in [Requests -> Holding \cup {"new", "queued", "done"}]
    /\ free \in Nat /\ waiters \in Seq(Requests)
    /\ free + Cardinality(Holders) = MaxConcurrency
    /\ free > 0 => waiters = <<>>
    /\ Distinct(waiters)
    /\ Members(waiters) = {r \in Requests : phase[r] = "queued"}

LEMMA HoldersFinite ==
    ASSUME NEW S \in SUBSET Requests
    PROVE  IsFiniteSet(S) /\ Cardinality(S) \in Nat
  BY FS_Subset, FS_CardinalityType, LimiterAssumption

\* A request that holds a slot goes on holding it.
LEMMA StepKeepsSlots ==
    ASSUME Slots, NEW r \in Requests, NEW p \in Holding,
           phase[r] \in Holding, phase' = [phase EXCEPT ![r] = p],
           UNCHANGED semaphore
    PROVE  Slots'
<1> USE DEF Slots, semaphore
<1>1. Holders' = Holders
  BY DEF Holders
<1>2. p # "queued" /\ phase[r] # "queued"
  BY DEF Holding
<1>3. \A q \in Requests : phase'[q] = "queued" <=> phase[q] = "queued"
  BY <1>2
<1> QED  BY <1>1, <1>3

\* A free slot is taken.
LEMMA TakeSlot ==
    ASSUME Slots, NEW r \in Requests, NEW p \in Holding,
           phase[r] = "new", phase' = [phase EXCEPT ![r] = p],
           free > 0, free' = free - 1, UNCHANGED waiters
    PROVE  Slots'
<1> USE DEF Slots
<1>1. r \notin Holders /\ Holders' = Holders \cup {r}
  BY DEF Holders, Holding
<1>2. Cardinality(Holders') = Cardinality(Holders) + 1 /\ Cardinality(Holders) \in Nat
  BY <1>1, HoldersFinite, FS_AddElement DEF Holders
<1>3. p # "queued"
  BY DEF Holding
<1>4. Members(waiters)' = {q \in Requests : phase'[q] = "queued"}
  BY <1>3
<1>5. (free + Cardinality(Holders) = MaxConcurrency)' /\ free' \in Nat
  BY <1>2, LimiterAssumption
<1> QED  BY <1>4, <1>5

\* A request joins the queue of a semaphore that has no slot left.
LEMMA JoinQueue ==
    ASSUME Slots, NEW r \in Requests, phase[r] = "new",
           phase' = [phase EXCEPT ![r] = "queued"], free = 0,
           waiters' = Append(waiters, r), UNCHANGED free
    PROVE  Slots'
<1> USE DEF Slots
<1>1. Holders' = Holders
  BY DEF Holders, Holding
<1>2. r \notin Members(waiters)
  OBVIOUS
<1>3. waiters' \in Seq(Requests) /\ Distinct(waiters') /\ Members(waiters') = Members(waiters) \cup {r}
  BY <1>2, OneMore
<1>4. Members(waiters') = {q \in Requests : phase'[q] = "queued"}
  BY <1>3
<1> QED  BY <1>1, <1>3, <1>4

\* A request leaves the queue without a slot.
LEMMA LeaveKeepsSlots ==
    ASSUME Slots, NEW r \in Requests, Leave(r)
    PROVE  Slots'
<1> USE DEF Slots
<1>1. PICK k \in DOMAIN waiters : waiters[k] = r /\ waiters' = Without(k)
  BY DEF Leave
<1>2. /\ phase[r] = "queued" /\ phase' = [phase EXCEPT ![r] = "done"] /\ free' = free
  BY DEF Leave
<1>3. Holders' = Holders
  BY <1>2 DEF Holders, Holding
<1>4. k \in 1..Len(waiters)
  OBVIOUS
<1>5. /\ waiters' \in Seq(Requests) /\ Distinct(waiters')
      /\ Members(waiters') = Members(waiters) \ {r}
  <2>1. waiters \in Seq(Requests) /\ Distinct(waiters)
    OBVIOUS
  <2>2. waiters' = Skipping(waiters, k)
    BY <1>1 DEF Without, Skipping
  <2> HIDE DEF Slots
  <2> QED  BY <2>1, <2>2, <1>1, <1>4, WithoutOne
<1>6. Members(waiters') = {q \in Requests : phase'[q] = "queued"}
  BY <1>2, <1>5
<1>7. free' = 0
  BY <1>1, <1>2, <1>4
<1> QED  BY <1>2, <1>3, <1>5, <1>6, <1>7

\* A slot given back is free again, or the first waiter's.
LEMMA ReleaseKeepsSlots ==
    ASSUME Slots, NEW r \in Requests, phase[r] \in Holding, Release(r)
    PROVE  Slots'
<1> USE DEF Slots
<1>1. r \in Holders /\ phase[r] # "queued"
  BY DEF Holders, Holding
<1>2. Cardinality(Holders \ {r}) = Cardinality(Holders) - 1
      /\ Cardinality(Holders) \in Nat /\ IsFiniteSet(Holders \ {r})
  BY <1>1, HoldersFinite, FS_RemoveElement DEF Holders
<1>3. CASE waiters = <<>>
  <2>1. phase' = [phase EXCEPT ![r] = "done"] /\ free' = free + 1 /\ waiters' = waiters
    BY <1>3 DEF Release
  <2>2. Holders' = Holders \ {r}
    BY <2>1 DEF Holders, Holding
  <2>3. (free + Cardinality(Holders) = MaxConcurrency)' /\ free' \in Nat
    BY <2>1, <2>2, <1>2, LimiterAssumption
  <2>4. \A q \in Requests : phase'[q] = "queued" <=> phase[q] = "queued"
    BY <2>1, <1>1
  <2> QED  BY <1>3, <2>1, <2>3, <2>4
<1>4. CASE waiters # <<>>
  <2> DEFINE h == Head(waiters)
  <2>1. /\ phase' = [phase EXCEPT ![r] = "done", ![h] = "admitted"]
        /\ waiters' = Tail(waiters) /\ free' = free
    BY <1>4 DEF Release
  <2>2. /\ waiters' \in Seq(Requests) /\ Distinct(waiters')
        /\ Members(waiters') = Members(waiters) \ {h} /\ h \in Members(waiters)
    BY <1>4, <2>1, WithoutFirst
  <2>3. h \in Requests /\ phase[h] = "queued" /\ h # r
    BY <2>2, <1>1
  <2>4. free = 0
    BY <1>4
  <2> HIDE DEF h
  <2>5. /\ phase' \in [Requests -> Holding \cup {"new", "queued", "done"}]
        /\ phase'[r] = "done" /\ phase'[h] = "admitted"
        /\ \A q \in Requests \ {r, h} : phase'[q] = phase[q]
    BY <2>1, <2>3 DEF Holding
  <2>6. h \notin Holders \ {r} /\ Holders' = (Holders \ {r}) \cup {h}
    BY <2>3, <2>5 DEF Holders, Holding
  <2>7. Cardinality(Holders') = Cardinality(Holders \ {r}) + 1
    BY <2>6, <1>2, FS_AddElement
  <2>8. Cardinality(Holders') = Cardinality(Holders)
    BY <2>7, <1>2
  <2>9. Members(waiters') = {q \in Requests : phase'[q] = "queued"}
    BY <2>2, <2>3, <2>5, <1>1
  <2> QED
    BY <2>1, <2>2, <2>4, <2>5, <2>8, <2>9
<1> QED  BY <1>3, <1>4

-----------------------------------------------------------------------------
(* The inductive invariant, and one lemma for each action.                 *)

Inv == TypeOK /\ WindowInv /\ Slots

\* The part of TypeOK the other parts of Inv do not contain.
Sleeps ==
    /\ attempt \in [Requests -> 0..MaxRetries]
    /\ calls \in [Requests -> 0..MaxCalls]
    /\ wake \in [Requests -> Nat] /\ blockedUntil \in Nat

LEMMA InvParts == Inv <=> Sleeps /\ WindowInv /\ Slots
<1>1. Inv => Sleeps /\ WindowInv /\ Slots
  BY DEF Inv, TypeOK, Sleeps
<1>2. ASSUME Slots PROVE free \in 0..MaxConcurrency
  <2>1. Cardinality(Holders) \in Nat
    BY HoldersFinite DEF Holders
  <2> QED  BY <1>2, <2>1, LimiterAssumption DEF Slots
<1>3. Sleeps /\ WindowInv /\ Slots => Inv
  BY <1>2 DEF Inv, TypeOK, Sleeps, WindowInv, Slots
<1> QED  BY <1>1, <1>3

LEMMA SlotsEnough == ASSUME Slots PROVE SlotsConserved
<1> USE DEF Slots
<1>1. DOMAIN waiters = 1..Len(waiters)
  OBVIOUS
<1>2. ASSUME NEW r \in Requests
      PROVE  phase[r] = "queued" <=> \E i \in DOMAIN waiters : waiters[i] = r
  <2>1. phase[r] = "queued" <=> r \in Members(waiters)
    OBVIOUS
  <2> QED  BY <1>1, <2>1 DEF Members
<1> QED  BY <1>2 DEF SlotsConserved

LEMMA InitInv == Init => Inv
<1> SUFFICES ASSUME Init PROVE Sleeps /\ WindowInv /\ Slots
  BY InvParts
<1> USE DEF Init
<1>1. Sleeps
  BY LimiterAssumption DEF Sleeps
<1>2. WindowInv
  BY WindowAssumption DEF WindowInit, WindowInv, WindowType, WindowKept
<1>3. Slots
  <2>1. Holders = {}
    BY DEF Holders, Holding
  <2>2. Cardinality(Holders) = 0
    BY <2>1, FS_EmptySet
  <2>3. Members(waiters) = {} /\ Distinct(waiters)
    BY DEF Members, Distinct
  <2> QED  BY <2>2, <2>3, LimiterAssumption DEF Slots
<1> QED  BY <1>1, <1>2, <1>3

\* What waiting for one's turn does, on the block or on the window.
LEMMA TakeTurnFacts ==
    ASSUME Inv, now' = now, NEW r \in Requests, TakeTurn(r)
    PROVE  /\ WindowInv' /\ wake' \in [Requests -> Nat]
           /\ \E p \in Holding : phase' = [phase EXCEPT ![r] = p]
<1>1. now \in Nat /\ wake \in [Requests -> Nat] /\ WindowInv
  BY DEF Inv, TypeOK, WindowType
<1>2. CASE Acquire /\ Goes(r, "calling", now)
  BY <1>1, <1>2, AcquireKeeps DEF Goes, Holding
<1>3. CASE Throttle /\ Goes(r, "throttled", NextRoom)
  BY <1>1, <1>3, ThrottleKeeps DEF Goes, Holding
<1> QED  BY <1>2, <1>3 DEF TakeTurn

LEMMA WaitIfBlockedFacts ==
    ASSUME Inv, now' = now, NEW r \in Requests, WaitIfBlocked(r)
    PROVE  /\ WindowInv' /\ wake' \in [Requests -> Nat]
           /\ \E p \in Holding : phase' = [phase EXCEPT ![r] = p]
<1>1. CASE now < blockedUntil
  <2>1. wake \in [Requests -> Nat] /\ blockedUntil \in Nat /\ WindowInv
    BY DEF Inv, TypeOK
  <2>2. Goes(r, "blocked", blockedUntil) /\ UNCHANGED window
    BY <1>1 DEF WaitIfBlocked
  <2>3. WindowInv'
    BY <2>1, <2>2, TimeKeeps
  <2> QED  BY <2>1, <2>2, <2>3 DEF Goes, Holding
<1>2. CASE ~(now < blockedUntil)
  BY <1>2, TakeTurnFacts DEF WaitIfBlocked
<1> QED  BY <1>1, <1>2

\* The window of a step that does not touch it.
LEMMA Untouched ==
    ASSUME Inv, UNCHANGED <<now, window>>
    PROVE  WindowInv'
  BY TimeKeeps DEF Inv

LEMMA ArriveInv ==
    ASSUME Inv, NEW r \in Requests, Arrive(r)
    PROVE  Inv'
<1>1. /\ phase[r] = "new" /\ calls' = [calls EXCEPT ![r] = 1]
      /\ UNCHANGED <<now, attempt, blockedUntil>>
  BY DEF Arrive
<1>2. Sleeps /\ WindowInv /\ Slots
  BY InvParts
<1>3. calls' \in [Requests -> 0..MaxCalls]
  BY <1>1, <1>2, LimiterAssumption DEF Sleeps
<1>4. CASE free > 0 /\ free' = free - 1 /\ WaitIfBlocked(r) /\ UNCHANGED waiters
  <2>1. /\ WindowInv' /\ wake' \in [Requests -> Nat]
        /\ \E p \in Holding : phase' = [phase EXCEPT ![r] = p]
    BY <1>1, <1>4, WaitIfBlockedFacts
  <2>2. Slots'
    BY <1>1, <1>2, <1>4, <2>1, TakeSlot
  <2>3. Sleeps'
    BY <1>1, <1>2, <1>3, <2>1 DEF Sleeps
  <2> QED  BY <2>1, <2>2, <2>3, InvParts, PTL
<1>5. CASE /\ free = 0 /\ Goes(r, "queued", now) /\ waiters' = Append(waiters, r)
           /\ UNCHANGED <<window, free>>
  <2>1. /\ phase' = [phase EXCEPT ![r] = "queued"]
        /\ wake' = [wake EXCEPT ![r] = now]
    BY <1>5 DEF Goes
  <2>2. Slots'
    BY <1>1, <1>2, <1>5, <2>1, JoinQueue
  <2>3. Sleeps'
    BY <1>1, <1>2, <1>3, <2>1 DEF Sleeps, WindowInv, WindowType
  <2>4. WindowInv'
    BY <1>1, <1>5, Untouched
  <2> QED  BY <2>2, <2>3, <2>4, InvParts, PTL
<1> QED  BY <1>4, <1>5 DEF Arrive

\* Of a request that holds a slot and waits for its turn, whatever its counters.
LEMMA TurnInv ==
    ASSUME Inv, NEW r \in Requests, phase[r] \in Holding,
           UNCHANGED <<now, blockedUntil, semaphore>>,
           WindowInv', wake' \in [Requests -> Nat],
           \E p \in Holding : phase' = [phase EXCEPT ![r] = p],
           attempt' \in [Requests -> 0..MaxRetries],
           calls' \in [Requests -> 0..MaxCalls]
    PROVE  Inv'
<1>1. Sleeps /\ Slots
  BY InvParts
<1>2. Slots'
  BY <1>1, StepKeepsSlots
<1>3. Sleeps'
  BY <1>1 DEF Sleeps
<1> QED  BY <1>2, <1>3, InvParts, PTL

LEMMA AdmittedInv ==
    ASSUME Inv, NEW r \in Requests, Admitted(r)
    PROVE  Inv'
<1>1. /\ phase[r] \in Holding /\ WaitIfBlocked(r)
      /\ UNCHANGED <<now, attempt, calls, blockedUntil, semaphore>>
  BY DEF Admitted, Holding
<1>2. Sleeps
  BY InvParts
<1> QED  BY <1>1, <1>2, WaitIfBlockedFacts, TurnInv DEF Sleeps

LEMMA WakeInv ==
    ASSUME Inv, NEW r \in Requests, Wake(r)
    PROVE  Inv'
<1>1. /\ phase[r] \in Holding
      /\ \/ TakeTurn(r)
         \/ WaitIfBlocked(r)
      /\ UNCHANGED <<now, attempt, calls, blockedUntil, semaphore>>
  BY DEF Wake, Holding
<1>2. Sleeps
  BY InvParts
<1>3. /\ WindowInv' /\ wake' \in [Requests -> Nat]
      /\ \E p \in Holding : phase' = [phase EXCEPT ![r] = p]
  BY <1>1, TakeTurnFacts, WaitIfBlockedFacts
<1> QED  BY <1>1, <1>2, <1>3, TurnInv DEF Sleeps

LEMMA OpenedInv ==
    ASSUME Inv, NEW r \in Requests, Opened(r)
    PROVE  Inv'
<1>1. /\ phase[r] \in Holding /\ phase' = [phase EXCEPT ![r] = "streaming"]
      /\ "streaming" \in Holding
      /\ UNCHANGED <<now, window, attempt, calls, wake, blockedUntil, semaphore>>
  BY DEF Opened, Holding
<1>2. Sleeps
  BY InvParts
<1> QED  BY <1>1, <1>2, Untouched, TurnInv DEF Sleeps

LEMMA TransientInv ==
    ASSUME Inv, NEW r \in Requests, Transient(r)
    PROVE  Inv'
<1>1. PICK d \in Delays : blockedUntil' = now + d /\ Goes(r, "backoff", now + d)
  BY DEF Transient
<1>2. /\ phase[r] \in Holding /\ attempt[r] < MaxRetries
      /\ attempt' = [attempt EXCEPT ![r] = @ + 1]
      /\ UNCHANGED <<now, window, calls, semaphore>>
  BY DEF Transient, Holding
<1>3. Sleeps /\ Slots /\ now \in Nat /\ d \in Nat
  BY InvParts, LimiterAssumption DEF WindowInv, WindowType
<1>4. /\ phase' = [phase EXCEPT ![r] = "backoff"] /\ "backoff" \in Holding
      /\ wake' = [wake EXCEPT ![r] = now + d]
  BY <1>1 DEF Goes, Holding
<1>5. Slots'
  BY <1>2, <1>3, <1>4, StepKeepsSlots
<1>6. attempt' \in [Requests -> 0..MaxRetries]
  <2>1. attempt[r] + 1 \in 0..MaxRetries
    BY <1>2, <1>3, LimiterAssumption DEF Sleeps
  <2> QED  BY <1>2, <1>3, <2>1 DEF Sleeps
<1>7. now + d \in Nat
  BY <1>3
<1>8. Sleeps'
  BY <1>1, <1>2, <1>3, <1>4, <1>6, <1>7 DEF Sleeps
<1>9. WindowInv'
  BY <1>2, Untouched
<1> QED  BY <1>5, <1>8, <1>9, InvParts, PTL

LEMMA AgainInv ==
    ASSUME Inv, NEW r \in Requests, Again(r)
    PROVE  Inv'
<1>1. /\ phase[r] \in Holding /\ calls[r] < MaxCalls /\ WaitIfBlocked(r)
      /\ calls' = [calls EXCEPT ![r] = @ + 1] /\ attempt' = [attempt EXCEPT ![r] = 0]
      /\ UNCHANGED <<now, blockedUntil, semaphore>>
  BY DEF Again, Holding
<1>2. Sleeps
  BY InvParts
<1>3. calls[r] + 1 \in 0..MaxCalls /\ 0 \in 0..MaxRetries
  BY <1>1, <1>2, LimiterAssumption DEF Sleeps
<1>4. /\ attempt' \in [Requests -> 0..MaxRetries]
      /\ calls' \in [Requests -> 0..MaxCalls]
  BY <1>1, <1>2, <1>3 DEF Sleeps
<1> QED  BY <1>1, <1>4, WaitIfBlockedFacts, TurnInv

LEMMA EndInv ==
    ASSUME Inv, NEW r \in Requests, End(r)
    PROVE  Inv'
<1>1. /\ phase[r] \in Holding /\ Release(r)
      /\ blockedUntil' \in {blockedUntil, now + LongBlock}
      /\ UNCHANGED <<now, window, attempt, calls, wake>>
  BY DEF End, Holding
<1>2. Sleeps /\ Slots /\ now \in Nat
  BY InvParts DEF WindowInv, WindowType
<1>3. Slots'
  BY <1>1, <1>2, ReleaseKeepsSlots
<1>4. now + LongBlock \in Nat
  BY <1>2, LimiterAssumption
<1>5. Sleeps'
  BY <1>1, <1>2, <1>4 DEF Sleeps
<1>6. WindowInv'
  BY <1>1, Untouched
<1> QED  BY <1>3, <1>5, <1>6, InvParts, PTL

LEMMA CancelInv ==
    ASSUME Inv, NEW r \in Requests, Cancel(r)
    PROVE  Inv'
<1>1. UNCHANGED <<now, window, attempt, calls, wake, blockedUntil>>
  BY DEF Cancel
<1>2. Sleeps /\ Slots
  BY InvParts
<1>3. Slots'
  BY <1>2, ReleaseKeepsSlots, LeaveKeepsSlots DEF Cancel
<1>4. Sleeps'
  BY <1>1, <1>2 DEF Sleeps
<1>5. WindowInv'
  BY <1>1, Untouched
<1> QED  BY <1>3, <1>4, <1>5, InvParts, PTL

LEMMA TickInv ==
    ASSUME Inv, Tick
    PROVE  Inv'
<1>1. /\ now' = now + 1
      /\ UNCHANGED <<window, phase, attempt, calls, wake, blockedUntil, semaphore>>
  BY DEF Tick
<1>2. Sleeps /\ Slots /\ WindowInv
  BY InvParts
<1>3. Slots'
  BY <1>1, <1>2 DEF Slots, Holders, semaphore
<1>4. Sleeps'
  BY <1>1, <1>2 DEF Sleeps
<1>5. WindowInv'
  BY <1>1, <1>2, TimeKeeps
<1> QED  BY <1>3, <1>4, <1>5, InvParts, PTL

-----------------------------------------------------------------------------
(* The theorems.                                                           *)

\* Every reachable state of the limiter satisfies the inductive invariant.
THEOREM Invariance == Spec => []Inv
<1>1. Init => Inv
  BY InitInv
<1>2. ASSUME Inv, [Next]_vars PROVE Inv'
  <2>1. CASE Tick
    BY <2>1, <1>2, TickInv
  <2>2. ASSUME NEW r \in Requests,
               \/ Arrive(r) \/ Admitted(r) \/ Wake(r) \/ Opened(r)
               \/ Transient(r) \/ Again(r) \/ End(r) \/ Cancel(r)
        PROVE  Inv'
    BY <2>2, <1>2, ArriveInv, AdmittedInv, WakeInv, OpenedInv, TransientInv,
       AgainInv, EndInv, CancelInv
  <2>3. CASE UNCHANGED vars
    <3>1. Sleeps /\ Slots /\ WindowInv
      BY <1>2, InvParts
    <3>2. Sleeps' /\ Slots'
      BY <2>3, <3>1 DEF vars, Sleeps, Slots, Holders, semaphore
    <3>3. WindowInv'
      BY <1>2, <2>3, Untouched DEF vars
    <3> QED  BY <3>2, <3>3, InvParts, PTL
  <2> QED  BY <1>2, <2>1, <2>2, <2>3 DEF Next
<1> QED  BY <1>1, <1>2, PTL DEF Spec

\* Every variable of the limiter and its requests keeps its type: no request is
\* retried beyond max_retries, no more slots are free than there are.
THEOREM TypeCorrect == Spec => []TypeOK
<1>1. Inv => TypeOK
  BY DEF Inv
<1> QED  BY <1>1, Invariance, PTL

\* Whatever requests arrive, fail, retry or are cancelled, no rate_window has
\* more than rate_limit acquisitions (StrictSlidingWindowLimiter).
THEOREM RateIsKept == Spec => []WindowKept
<1>1. Inv => WindowKept
  BY DEF Inv, WindowInv
<1> QED  BY <1>1, Invariance, PTL

\* Every slot of the semaphore is free or held by exactly one open stream, and
\* nobody waits for one that is free (concurrency_slot).
THEOREM SlotsAreConserved == Spec => []SlotsConserved
<1>1. Inv => SlotsConserved
  BY SlotsEnough DEF Inv
<1> QED  BY <1>1, Invariance, PTL

-----------------------------------------------------------------------------
(* A native stream.  Policy, tracker and view each keep books of the same  *)
(* blocks; every event of the provider is shown to change the three alike, *)
(* and the client's view to one that follows it.                           *)

\* The tracker's record, with as many blocks as it has.
IsTracker(t) ==
    /\ t \in [block : {t.block}, next : Nat, reason : BOOLEAN, stopped : BOOLEAN]
    /\ Blocks(t) \subseteq Nat /\ t.block \in [Blocks(t) -> EmittedBlock]

\* The tracker knows the blocks of the view, with their kinds, and a fresh index.
Agree(t, v) ==
    /\ v.started = Blocks(t) /\ \A i \in Blocks(t) : i < t.next
    /\ v.open = {<<i, t.block[i].kind>> : i \in OpenBlocks(t)}

\* The segments the policy has open are the open blocks of the tracker, one each.
Segments(p, t) ==
    /\ p.next = t.next
    /\ \A u \in Upstream : p.seg[u].live =>
          /\ p.seg[u].state = "open" /\ u \notin p.pending /\ u \notin p.dropped
          /\ p.seg[u].down \in OpenBlocks(t)
          /\ t.block[p.seg[u].down].kind = p.seg[u].kind
    /\ \A u, w \in Upstream :
          p.seg[u].live /\ p.seg[w].live /\ p.seg[u].down = p.seg[w].down => u = w
    /\ \A i \in OpenBlocks(t) : \E u \in Upstream : p.seg[u].live /\ p.seg[u].down = i
    /\ \A u \in Upstream : p.seg[u].state = "new" => p.seg[u].kind = "none" /\ u \notin p.dropped
    /\ ~thinks => \A u \in Upstream : p.seg[u].kind = "thinking" => u \in p.dropped

OneLive(p) == \A u, w \in Upstream : p.seg[u].live /\ p.seg[w].live => u = w

\* The books before message_start, between it and message_stop, and after it.
Stand(p, t, v) ==
    /\ v.phase = "new" => v = NewView /\ p = NewPolicy /\ t = NewTracker
    /\ v.phase = "open" => Segments(p, t) /\ ~t.stopped
    /\ v.phase = "ended" => /\ t.stopped /\ t.reason
                            /\ OpenBlocks(t) = {}

\* A message that was ended without a block: the one fault there can be so far.
Bare(v) == v.phase = "ended" /\ v.started = {}

\* No block of thinking in the tracker, if nobody asked for one.
Unasked(t) == ~thinks => \A i \in Blocks(t) : t.block[i].kind # "thinking"

\* What a stream keeps that is not over.
Midway ==
    stage \in Active =>
        /\ Agree(tracker, view) /\ Stand(policy, tracker, view)
        /\ view.fault => Bare(view)
        /\ Bare(view) => "empty" \in unusual
        /\ client = IF committed THEN view ELSE NewView
        /\ stage = "opening" => view.phase = "new"
        /\ view.phase = "new" => ~committed
        /\ "late_delta" \notin unusual => OneLive(policy)

NativeInv ==
    /\ NativeTypeOK /\ IsTracker(tracker) /\ Unasked(tracker)
    /\ Midway /\ ContractKept /\ SalvagedIsWhole

\* w follows v: more blocks begun, none reopened.
Ahead(v, w) ==
    /\ v.started \subseteq w.started
    /\ \A b \in w.open : b \in v.open \/ b[1] \in w.started \ v.started

\* What every step of a stream keeps, and how it changes the client's view.
NativeStep ==
    /\ NativeInv'
    /\ retries' # retries \/ clamped' # clamped => client' = NewView
    /\ [Message!Next]_(Message!vars)

-----------------------------------------------------------------------------
(* Views.                                                                  *)

\* A view follows itself.
LEMMA AheadIsReflexive == ASSUME NEW v PROVE Ahead(v, v)
  BY DEF Ahead

\* What follows a later view follows the earlier one.
LEMMA AheadIsTransitive ==
  ASSUME NEW v, NEW w, NEW x, Ahead(v, w), Ahead(w, x)
  PROVE  Ahead(v, x)
  BY DEF Ahead

\* What it takes to be a view with other blocks.
LEMMA OtherBlocks ==
  ASSUME NEW v \in View, NEW w,
         w.started \in SUBSET Nat, w.open \in SUBSET (Nat \X Kinds), w.fault \in BOOLEAN,
         w = [v EXCEPT !.started = w.started, !.open = w.open, !.fault = w.fault]
  PROVE  w \in View
  BY DEF View

\* The view of a message that was not begun.
LEMMA NewViewFields ==
  /\ NewView \in View /\ NewView.phase = "new" /\ NewView.fault = FALSE
  /\ NewView.started = {} /\ NewView.open = {}
  BY DEF NewView, View

\* What message_start changes in a view.
LEMMA MessageStartFields ==
  ASSUME NEW v \in View
  PROVE  LET w == MessageStart(v) IN
         /\ w \in View /\ w.phase = "open" /\ w.started = v.started /\ w.open = v.open
         /\ w.fault = (v.fault \/ v.phase # "new")
  BY DEF MessageStart, View

\* What content_block_start changes in a view.
LEMMA BlockStartFields ==
  ASSUME NEW v \in View, NEW i \in Nat, NEW k \in Kinds
  PROVE  LET w == BlockStart(v, i, k) IN
         /\ w \in View /\ w.phase = v.phase /\ w.started = v.started \cup {i}
         /\ w.open = v.open \cup {<<i, k>>}
         /\ w.fault = (v.fault \/ v.phase # "open" \/ i \in v.started)
<1> DEFINE w == BlockStart(v, i, k)
<1>1. /\ w.started = v.started \cup {i} /\ w.open = v.open \cup {<<i, k>>}
      /\ w.phase = v.phase /\ w.fault = (v.fault \/ v.phase # "open" \/ i \in v.started)
  BY DEF BlockStart, View
<1>2. w.open \in SUBSET (Nat \X Kinds) /\ w.started \in SUBSET Nat /\ w.fault \in BOOLEAN
  BY <1>1 DEF View
<1>3. w = [v EXCEPT !.started = w.started, !.open = w.open, !.fault = w.fault]
  BY <1>1, Zenon DEF BlockStart
<1>4. w \in View
  BY <1>2, <1>3, OtherBlocks
<1> QED
  BY <1>1, <1>4

\* What a delta to each of some blocks changes in a view.
LEMMA BlockDeltasFields ==
  ASSUME NEW v \in View, NEW B, NEW k
  PROVE  LET w == BlockDeltas(v, B, k) IN
         /\ w \in View /\ w.phase = v.phase /\ w.started = v.started /\ w.open = v.open
         /\ w.fault = (v.fault \/ \E i \in B : v.phase # "open" \/ <<i, k>> \notin v.open)
  BY DEF BlockDeltas, View

\* What one delta changes in a view.
LEMMA BlockDeltaFields ==
  ASSUME NEW v \in View, NEW i, NEW k
  PROVE  LET w == BlockDelta(v, i, k) IN
         /\ w \in View /\ w.phase = v.phase /\ w.started = v.started /\ w.open = v.open
         /\ w.fault = (v.fault \/ v.phase # "open" \/ <<i, k>> \notin v.open)
  BY DEF BlockDelta, BlockDeltas, View

\* What a stop of each of some blocks changes in a view.
LEMMA BlockStopsFields ==
  ASSUME NEW v \in View, NEW B
  PROVE  LET w == BlockStops(v, B) IN
         /\ w \in View /\ w.phase = v.phase /\ w.started = v.started
         /\ w.open = {b \in v.open : b[1] \notin B}
         /\ w.fault = (\/ v.fault
                       \/ \E i \in B : \/ v.phase # "open"
                                       \/ \A k \in Kinds : <<i, k>> \notin v.open)
  BY DEF BlockStops, View

\* What one stop changes in a view.
LEMMA BlockStopFields ==
  ASSUME NEW v \in View, NEW i
  PROVE  LET w == BlockStop(v, i) IN
         /\ w \in View /\ w.phase = v.phase /\ w.started = v.started
         /\ w.open = {b \in v.open : b[1] # i}
         /\ w.fault = (v.fault \/ v.phase # "open" \/
             \A k \in Kinds : <<i, k>> \notin v.open)
  BY DEF BlockStop, BlockStops, View

\* What message_delta changes in a view.
LEMMA MessageDeltaFields ==
  ASSUME NEW v \in View
  PROVE  LET w == MessageDelta(v) IN
         /\ w \in View /\ w.phase = v.phase /\ w.started = v.started /\ w.open = v.open
         /\ w.fault = (v.fault \/ v.phase # "open")
  BY DEF MessageDelta, View

\* What message_stop changes in a view.
LEMMA MessageStopFields ==
  ASSUME NEW v \in View
  PROVE  LET w == MessageStop(v) IN
         /\ w \in View /\ w.phase = "ended" /\ w.started = v.started /\ w.open = v.open
         /\ w.fault = (v.fault \/ v.phase # "open" \/ v.open # {} \/ v.started = {})
  BY DEF MessageStop, View

-----------------------------------------------------------------------------
(* The tracker.                                                            *)

\* The tracker of an attempt that has emitted nothing.
LEMMA NewTrackerIs ==
  /\ IsTracker(NewTracker) /\ Blocks(NewTracker) = {} /\ OpenBlocks(NewTracker) = {}
  /\ ToolBlocks(NewTracker) = {} /\ ~NewTracker.stopped /\ NewTracker.next = 0
  /\ Agree(NewTracker, NewView) /\ Unasked(NewTracker)
<1>1. Blocks(NewTracker) = {}
  BY DEF NewTracker, Blocks
<1>2. OpenBlocks(NewTracker) = {} /\ ToolBlocks(NewTracker) = {}
  BY <1>1 DEF OpenBlocks, ToolBlocks
<1>3. NewTracker.block \in [{} -> EmittedBlock]
  BY DEF NewTracker
<1>4. /\ NewTracker \in [block : {NewTracker.block}, next : Nat, reason : BOOLEAN, stopped : BOOLEAN]
      /\ ~NewTracker.stopped /\ NewTracker.next = 0
  BY DEF NewTracker
<1> QED
  BY <1>1, <1>2, <1>3, <1>4, NewViewFields DEF IsTracker, Agree, Unasked

\* What it takes to be a tracker with other blocks.
LEMMA Reblocked ==
  ASSUME NEW t, IsTracker(t), NEW S, S \subseteq Nat, NEW r,
         r.block \in [S -> EmittedBlock], r.next \in Nat,
         r = [t EXCEPT !.next = r.next, !.block = r.block]
  PROVE  /\ IsTracker(r) /\ Blocks(r) = S
         /\ r.reason = t.reason /\ r.stopped = t.stopped
<1>1. /\ r.reason = t.reason /\ r.stopped = t.stopped
      /\ r \in [block : {r.block}, next : Nat, reason : BOOLEAN, stopped : BOOLEAN]
  BY DEF IsTracker
<1>2. Blocks(r) = S
  BY DEF Blocks
<1> QED
  BY <1>1, <1>2 DEF IsTracker

\* What the tracker learns of a start.
LEMMA StartObserved ==
  ASSUME NEW t, IsTracker(t), NEW i \in Nat, NEW k \in Kinds, NEW n \in BOOLEAN
  PROVE  LET r == ObserveStart(t, i, k, n) IN
         /\ IsTracker(r) /\ Blocks(r) = Blocks(t) \cup {i}
         /\ r.block[i] = [kind |-> k, named |-> n, content |-> "none", open |-> TRUE]
         /\ \A j \in Blocks(t) : j # i => r.block[j] = t.block[j]
         /\ r.next = (IF i < t.next THEN t.next ELSE i + 1)
         /\ r.reason = t.reason /\ r.stopped = t.stopped
<1> DEFINE r == ObserveStart(t, i, k, n)
           new == [kind |-> k, named |-> n, content |-> "none", open |-> TRUE]
           f == [j \in Blocks(t) \cup {i} |-> IF j = i THEN new ELSE t.block[j]]
           m == IF i < t.next THEN t.next ELSE i + 1
<1>1. new \in EmittedBlock
  BY DEF EmittedBlock, Contents
<1>2. f \in [Blocks(t) \cup {i} -> EmittedBlock] /\ Blocks(t) \cup {i} \subseteq Nat
  BY <1>1 DEF IsTracker
<1>3. m \in Nat
  BY DEF IsTracker
<1>4. r.next = m /\ r.block = f /\ r = [t EXCEPT !.next = r.next, !.block = r.block]
  BY DEF ObserveStart, IsTracker
<1>5. f[i] = new /\ \A j \in Blocks(t) : j # i => f[j] = t.block[j]
  OBVIOUS
<1> HIDE DEF f, m, r, new
<1>6. /\ IsTracker(r) /\ Blocks(r) = Blocks(t) \cup {i} /\ r.block = f
      /\ r.next = m /\ r.reason = t.reason /\ r.stopped = t.stopped
  BY <1>2, <1>3, <1>4, Reblocked
<1> QED
  BY <1>5, <1>6 DEF r, m, new

\* What the tracker learns of a delta.
LEMMA DeltaObserved ==
  ASSUME NEW t, IsTracker(t), NEW i \in Blocks(t), NEW c \in Contents
  PROVE  LET r == ObserveDelta(t, i, c) IN
         /\ IsTracker(r) /\ Blocks(r) = Blocks(t)
         /\ \A j \in Blocks(t) : /\ r.block[j].kind = t.block[j].kind
                                 /\ r.block[j].named = t.block[j].named
                                 /\ r.block[j].open = t.block[j].open
         /\ r.next = t.next /\ r.reason = t.reason /\ r.stopped = t.stopped
<1> DEFINE r == ObserveDelta(t, i, c)
           f == [t.block EXCEPT ![i].content = c]
<1>1. f \in [Blocks(t) -> EmittedBlock] /\ Blocks(t) \subseteq Nat /\ t.next \in Nat
  BY DEF IsTracker, EmittedBlock
<1>2. \A j \in Blocks(t) : /\ f[j].kind = t.block[j].kind
                           /\ f[j].named = t.block[j].named
                           /\ f[j].open = t.block[j].open
  BY DEF IsTracker, EmittedBlock
<1>3. /\ r.next = t.next /\ r.block = f
      /\ r = [t EXCEPT !.next = r.next, !.block = r.block]
  BY DEF ObserveDelta, IsTracker
<1> HIDE DEF f, r
<1>4. /\ IsTracker(r) /\ Blocks(r) = Blocks(t) /\ r.block = f
      /\ r.next = t.next /\ r.reason = t.reason /\ r.stopped = t.stopped
  BY <1>1, <1>3, Reblocked
<1> QED
  BY <1>2, <1>4 DEF r

\* What the tracker learns of stops.
LEMMA StopsObserved ==
  ASSUME NEW t, IsTracker(t), NEW S
  PROVE  LET r == ObserveStops(t, S) IN
         /\ IsTracker(r) /\ Blocks(r) = Blocks(t)
         /\ OpenBlocks(r) = OpenBlocks(t) \ S
         /\ \A j \in Blocks(t) : /\ r.block[j].kind = t.block[j].kind
                                 /\ r.block[j].named = t.block[j].named
                                 /\ r.block[j].content = t.block[j].content
         /\ r.next = t.next /\ r.reason = t.reason /\ r.stopped = t.stopped
<1> DEFINE r == ObserveStops(t, S)
           f == [j \in Blocks(t) |->
                   IF j \in S THEN [t.block[j] EXCEPT !.open = FALSE] ELSE t.block[j]]
<1>1. f \in [Blocks(t) -> EmittedBlock] /\ Blocks(t) \subseteq Nat /\ t.next \in Nat
  BY DEF IsTracker, EmittedBlock
<1>2. \A j \in Blocks(t) : /\ f[j].kind = t.block[j].kind
                           /\ f[j].named = t.block[j].named
                           /\ f[j].content = t.block[j].content
                           /\ f[j].open = (t.block[j].open /\ j \notin S)
  BY DEF IsTracker, EmittedBlock
<1>3. /\ r.next = t.next /\ r.block = f
      /\ r = [t EXCEPT !.next = r.next, !.block = r.block]
  BY DEF ObserveStops, IsTracker
<1> HIDE DEF f, r
<1>4. /\ IsTracker(r) /\ Blocks(r) = Blocks(t) /\ r.block = f
      /\ r.next = t.next /\ r.reason = t.reason /\ r.stopped = t.stopped
  BY <1>1, <1>3, Reblocked
<1>5. OpenBlocks(r) = OpenBlocks(t) \ S
  BY <1>2, <1>4 DEF OpenBlocks
<1> QED
  BY <1>2, <1>4, <1>5 DEF r

-----------------------------------------------------------------------------
(* Tracker and view, event by event.                                       *)

\* The books of a message, and of one that is open and has no fault.
Match(t, v) == IsTracker(t) /\ v \in View /\ Agree(t, v)
Even(t, v) == Match(t, v) /\ v.phase = "open" /\ ~v.fault

\* A block that is begun at the fresh index is known to tracker and view alike.
LEMMA StartedMatch ==
  ASSUME NEW t, NEW v, Match(t, v), NEW k \in Kinds, NEW n \in BOOLEAN
  PROVE  LET r == ObserveStart(t, t.next, k, n)
             w == BlockStart(v, t.next, k) IN
         /\ Match(r, w) /\ w.phase = v.phase /\ Ahead(v, w)
         /\ v.phase = "open" /\ ~v.fault => ~w.fault
         /\ Blocks(r) = Blocks(t) \cup {t.next} /\ t.next \notin Blocks(t)
         /\ OpenBlocks(r) = OpenBlocks(t) \cup {t.next}
         /\ r.block[t.next].kind = k /\ \A j \in Blocks(t) : r.block[j] = t.block[j]
         /\ r.block[t.next].content = "none"
         /\ r.next = t.next + 1 /\ r.reason = t.reason /\ r.stopped = t.stopped
<1> DEFINE i == t.next
           r == ObserveStart(t, i, k, n)
           w == BlockStart(v, i, k)
<1>1. IsTracker(t) /\ v \in View /\ Agree(t, v)
  BY DEF Match
<1>2. i \in Nat /\ i \notin Blocks(t) /\ ~(i < t.next) /\ Blocks(t) \subseteq Nat
  BY <1>1 DEF IsTracker, Agree
<1>3. /\ IsTracker(r) /\ Blocks(r) = Blocks(t) \cup {i}
      /\ r.block[i] = [kind |-> k, named |-> n, content |-> "none", open |-> TRUE]
      /\ \A j \in Blocks(t) : j # i => r.block[j] = t.block[j]
      /\ r.next = i + 1 /\ r.reason = t.reason /\ r.stopped = t.stopped
  BY <1>1, <1>2, StartObserved
<1>4. /\ w \in View /\ w.phase = v.phase /\ w.started = v.started \cup {i}
      /\ w.open = v.open \cup {<<i, k>>}
      /\ w.fault = (v.fault \/ v.phase # "open" \/ i \in v.started)
  BY <1>1, <1>2, BlockStartFields
<1> HIDE DEF r, w, i
<1>5. /\ \A j \in Blocks(t) : r.block[j] = t.block[j]
      /\ r.block[i].kind = k /\ r.block[i].content = "none" /\ r.block[i].open
  BY <1>2, <1>3
<1>6. OpenBlocks(r) = OpenBlocks(t) \cup {i}
  BY <1>3, <1>5 DEF OpenBlocks
<1>7. w.open = {<<j, r.block[j].kind>> : j \in OpenBlocks(r)}
  <2>1. \A j \in OpenBlocks(t) : r.block[j].kind = t.block[j].kind
    BY <1>5 DEF OpenBlocks
  <2>2. v.open = {<<j, r.block[j].kind>> : j \in OpenBlocks(t)}
    BY <1>1, <2>1 DEF Agree
  <2> QED  BY <1>4, <1>5, <1>6, <2>2
<1>8. \A j \in Blocks(r) : j < r.next
  BY <1>1, <1>2, <1>3 DEF Agree, i
<1>9. Agree(r, w)
  BY <1>1, <1>2, <1>3, <1>4, <1>7, <1>8 DEF Agree
<1>10. Ahead(v, w)
  BY <1>1, <1>2, <1>4 DEF Ahead, Agree
<1>11. v.phase = "open" /\ ~v.fault => ~w.fault
  BY <1>1, <1>2, <1>4 DEF Agree
<1> QED
  BY <1>1, <1>2, <1>3, <1>4, <1>5, <1>6, <1>9, <1>10, <1>11 DEF Match, r, w, i

\* The same of an open message without a fault.
LEMMA StartedEven ==
  ASSUME NEW t, NEW v, Even(t, v), NEW k \in Kinds, NEW n \in BOOLEAN
  PROVE  LET r == ObserveStart(t, t.next, k, n)
             w == BlockStart(v, t.next, k) IN
         /\ Even(r, w) /\ Ahead(v, w)
         /\ Blocks(r) = Blocks(t) \cup {t.next} /\ t.next \notin Blocks(t)
         /\ OpenBlocks(r) = OpenBlocks(t) \cup {t.next}
         /\ r.block[t.next].kind = k /\ \A j \in Blocks(t) : r.block[j] = t.block[j]
         /\ r.block[t.next].content = "none"
         /\ r.next = t.next + 1 /\ r.reason = t.reason /\ r.stopped = t.stopped
  BY StartedMatch DEF Even, Match

\* A delta to an open block, of its kind, leaves the books as they are.
LEMMA DeltaMatch ==
  ASSUME NEW t, NEW v, Match(t, v), NEW i \in OpenBlocks(t), NEW c \in Contents,
         NEW k, k = t.block[i].kind
  PROVE  LET r == ObserveDelta(t, i, c)
             w == BlockDelta(v, i, k) IN
         /\ Match(r, w) /\ w.phase = v.phase /\ Ahead(v, w)
         /\ v.phase = "open" /\ ~v.fault => ~w.fault
         /\ Blocks(r) = Blocks(t) /\ OpenBlocks(r) = OpenBlocks(t)
         /\ \A j \in Blocks(t) : r.block[j].kind = t.block[j].kind
         /\ r.next = t.next /\ r.reason = t.reason /\ r.stopped = t.stopped
<1> DEFINE r == ObserveDelta(t, i, c)
           w == BlockDelta(v, i, k)
<1>1. IsTracker(t) /\ v \in View /\ Agree(t, v)
  BY DEF Match
<1>2. i \in Blocks(t)
  BY DEF OpenBlocks
<1>3. /\ IsTracker(r) /\ Blocks(r) = Blocks(t)
      /\ \A j \in Blocks(t) : /\ r.block[j].kind = t.block[j].kind
                              /\ r.block[j].named = t.block[j].named
                              /\ r.block[j].open = t.block[j].open
      /\ r.next = t.next /\ r.reason = t.reason /\ r.stopped = t.stopped
  BY <1>1, <1>2, DeltaObserved
<1>4. /\ w \in View /\ w.phase = v.phase /\ w.started = v.started /\ w.open = v.open
      /\ w.fault = (v.fault \/ v.phase # "open" \/ <<i, k>> \notin v.open)
  BY <1>1, BlockDeltaFields
<1> HIDE DEF r, w
<1>5. OpenBlocks(r) = OpenBlocks(t)
  BY <1>3 DEF OpenBlocks
<1>6. <<i, k>> \in v.open
  BY <1>1 DEF Agree
<1>7. w.open = {<<j, r.block[j].kind>> : j \in OpenBlocks(r)}
  <2>1. \A j \in OpenBlocks(t) : r.block[j].kind = t.block[j].kind
    BY <1>3 DEF OpenBlocks
  <2> QED  BY <1>1, <1>4, <1>5, <2>1 DEF Agree
<1>8. Agree(r, w)
  BY <1>1, <1>3, <1>4, <1>7 DEF Agree
<1>9. Ahead(v, w)
  BY <1>4 DEF Ahead
<1> QED
  BY <1>1, <1>3, <1>4, <1>5, <1>6, <1>8, <1>9 DEF Match, r, w

\* The same of an open message without a fault.
LEMMA DeltaEven ==
  ASSUME NEW t, NEW v, Even(t, v), NEW i \in OpenBlocks(t), NEW c \in Contents,
         NEW k, k = t.block[i].kind
  PROVE  LET r == ObserveDelta(t, i, c)
             w == BlockDelta(v, i, k) IN
         /\ Even(r, w) /\ Ahead(v, w)
         /\ Blocks(r) = Blocks(t) /\ OpenBlocks(r) = OpenBlocks(t)
         /\ \A j \in Blocks(t) : r.block[j].kind = t.block[j].kind
         /\ r.next = t.next /\ r.reason = t.reason /\ r.stopped = t.stopped
  BY DeltaMatch DEF Even, Match

\* Stops of open blocks close them in tracker and view alike.
LEMMA StopsEven ==
  ASSUME NEW t, NEW v, Even(t, v), NEW S, S \subseteq OpenBlocks(t)
  PROVE  LET r == ObserveStops(t, S)
             w == BlockStops(v, S) IN
         /\ Even(r, w) /\ Ahead(v, w)
         /\ Blocks(r) = Blocks(t) /\ OpenBlocks(r) = OpenBlocks(t) \ S
         /\ \A j \in Blocks(t) : r.block[j].kind = t.block[j].kind
         /\ r.next = t.next /\ r.reason = t.reason /\ r.stopped = t.stopped
<1> DEFINE r == ObserveStops(t, S)
           w == BlockStops(v, S)
<1>1. IsTracker(t) /\ v \in View /\ Agree(t, v) /\ v.phase = "open" /\ ~v.fault
  BY DEF Even, Match
<1>2. /\ IsTracker(r) /\ Blocks(r) = Blocks(t) /\ OpenBlocks(r) = OpenBlocks(t) \ S
      /\ \A j \in Blocks(t) : r.block[j].kind = t.block[j].kind
      /\ r.next = t.next /\ r.reason = t.reason /\ r.stopped = t.stopped
  BY <1>1, StopsObserved
<1>3. /\ w \in View /\ w.phase = v.phase /\ w.started = v.started
      /\ w.open = {b \in v.open : b[1] \notin S}
      /\ w.fault = (\/ v.fault
                    \/ \E j \in S : \/ v.phase # "open"
                                    \/ \A k \in Kinds : <<j, k>> \notin v.open)
  BY <1>1, BlockStopsFields
<1> HIDE DEF r, w
<1>4. \A j \in S : \E k \in Kinds : <<j, k>> \in v.open
  <2> SUFFICES ASSUME NEW j \in S
               PROVE  \E k \in Kinds : <<j, k>> \in v.open
    OBVIOUS
  <2>1. j \in OpenBlocks(t) /\ j \in Blocks(t)
    BY DEF OpenBlocks
  <2>2. t.block[j].kind \in Kinds
    BY <1>1, <2>1 DEF IsTracker, EmittedBlock
  <2> QED  BY <1>1, <2>1, <2>2 DEF Agree
<1>5. w.fault = FALSE
  BY <1>1, <1>3, <1>4
<1>6. w.open = {<<j, r.block[j].kind>> : j \in OpenBlocks(r)}
  <2>1. \A j \in OpenBlocks(t) : r.block[j].kind = t.block[j].kind
    BY <1>2 DEF OpenBlocks
  <2>2. v.open = {<<j, r.block[j].kind>> : j \in OpenBlocks(t)}
    BY <1>1, <2>1 DEF Agree
  <2>3. \A b : b \in w.open <=> \E j \in OpenBlocks(t) : j \notin S /\ b = <<j, r.block[j].kind>>
    BY <1>3, <2>2
  <2> QED  BY <1>2, <2>3
<1>7. Agree(r, w)
  BY <1>1, <1>2, <1>3, <1>6 DEF Agree
<1>8. Ahead(v, w)
  BY <1>3 DEF Ahead
<1> QED
  BY <1>1, <1>2, <1>3, <1>5, <1>7, <1>8 DEF Even, Match, r, w

\* What is left when every block was closed.
LEMMA ClosedEven ==
  ASSUME NEW t, NEW v, Even(t, v)
  PROVE  LET w == CloseAll(v, t) IN
         /\ w \in View /\ w.phase = "open" /\ ~w.fault /\ Ahead(v, w)
         /\ w.open = {} /\ w.started = Blocks(t)
<1> DEFINE r == ObserveStops(t, OpenBlocks(t))
           w == CloseAll(v, t)
<1>1. Even(r, w) /\ Ahead(v, w) /\ Blocks(r) = Blocks(t) /\ OpenBlocks(r) = {}
  BY StopsEven DEF CloseAll
<1> HIDE DEF r, w
<1>2. w.open = {} /\ w.started = Blocks(t)
  BY <1>1 DEF Even, Match, Agree
<1> QED
  BY <1>1, <1>2 DEF Even, Match, w

\* The error block ends a message that has no open block.
LEMMA ErrorTail ==
  ASSUME NEW v \in View, v.open = {}, NEW i \in Nat, i \notin v.started
  PROVE  LET w == ErrorBlock(v, i) IN
         /\ w \in View /\ w.phase = "ended" /\ w.open = {} /\ w.started = v.started \cup {i}
         /\ v.phase = "open" /\ ~v.fault => ~w.fault
<1> DEFINE a == BlockStart(v, i, "text")
           b == BlockDelta(a, i, "text")
           c == BlockStop(b, i)
           d == MessageDelta(c)
           w == MessageStop(d)
<1>1. "text" \in Kinds
  BY DEF Kinds
<1>2. /\ a \in View /\ a.phase = v.phase /\ a.started = v.started \cup {i}
      /\ a.open = {<<i, "text">>}
      /\ a.fault = (v.fault \/ v.phase # "open" \/ i \in v.started)
  BY <1>1, BlockStartFields
<1>3. /\ b \in View /\ b.phase = a.phase /\ b.started = a.started /\ b.open = a.open
      /\ b.fault = (a.fault \/ a.phase # "open" \/ <<i, "text">> \notin a.open)
  BY <1>2, BlockDeltaFields
<1>4. /\ c \in View /\ c.phase = b.phase /\ c.started = b.started
      /\ c.open = {x \in b.open : x[1] # i}
      /\ c.fault = (b.fault \/ b.phase # "open" \/
             \A k \in Kinds : <<i, k>> \notin b.open)
  BY <1>3, BlockStopFields
<1>5. /\ d \in View /\ d.phase = c.phase /\ d.started = c.started /\ d.open = c.open
      /\ d.fault = (c.fault \/ c.phase # "open")
  BY <1>4, MessageDeltaFields
<1>6. /\ w \in View /\ w.phase = "ended" /\ w.started = d.started /\ w.open = d.open
      /\ w.fault = (d.fault \/ d.phase # "open" \/ d.open # {} \/ d.started = {})
  BY <1>5, MessageStopFields
<1>7. w = ErrorBlock(v, i)
  BY DEF ErrorBlock
<1> HIDE DEF a, b, c, d, w
<1>8. c.open = {}
  BY <1>2, <1>3, <1>4
<1>9. v.phase = "open" /\ ~v.fault => ~c.fault
  BY <1>1, <1>2, <1>3, <1>4
<1> QED
  BY <1>2, <1>3, <1>4, <1>5, <1>6, <1>7, <1>8, <1>9

\* The end of a salvaged or continued answer.
LEMMA SuccessEnds ==
  ASSUME NEW t, NEW v, Even(t, v), ~t.stopped, Blocks(t) # {}
  PROVE  LET w == SuccessTail(v, t) IN
         /\ w \in View /\ w.phase = "ended" /\ ~w.fault /\ w.open = {}
         /\ w.started = Blocks(t)
<1> DEFINE c == CloseAll(v, t)
           d == IF t.reason THEN c ELSE MessageDelta(c)
           w == MessageStop(d)
<1>1. /\ c \in View /\ c.phase = "open" /\ ~c.fault /\ c.open = {} /\ c.started = Blocks(t)
  BY ClosedEven
<1>2. /\ d \in View /\ d.phase = "open" /\ ~d.fault /\ d.open = {} /\ d.started = Blocks(t)
  BY <1>1, MessageDeltaFields
<1>3. /\ w \in View /\ w.phase = "ended" /\ w.started = d.started /\ w.open = d.open
      /\ w.fault = (d.fault \/ d.phase # "open" \/ d.open # {} \/ d.started = {})
  BY <1>2, MessageStopFields
<1>4. SuccessTail(v, t) = w
  BY DEF SuccessTail
<1> HIDE DEF c, d, w
<1> QED
  BY <1>2, <1>3, <1>4

-----------------------------------------------------------------------------
(* Delivery.                                                               *)

\* An open block of a view was begun.
LEMMA Contained ==
  ASSUME NEW t, NEW v, Agree(t, v)
  PROVE  \A b \in v.open : b[1] \in v.started
<1> SUFFICES ASSUME NEW b \in v.open
             PROVE  b[1] \in v.started
  OBVIOUS
<1>1. PICK i \in OpenBlocks(t) : b = <<i, t.block[i].kind>>
  BY DEF Agree
<1> QED  BY <1>1 DEF Agree, OpenBlocks

\* What the tracker's type says of the parts NativeTypeOK speaks of.
LEMMA TrackerTyped ==
  ASSUME NEW t, IsTracker(t)
  PROVE  /\ DOMAIN t.block \subseteq Nat /\ t.next \in Nat
         /\ \A i \in DOMAIN t.block : t.block[i] \in EmittedBlock
         /\ t.reason \in BOOLEAN /\ t.stopped \in BOOLEAN
  BY DEF IsTracker, Blocks

\* An open stream has an open message.
LEMMA OpenMessage == stage \in Active => MessagePhase = "open"
  BY DEF MessagePhase, Active, Ended

\* An event that leaves the books in order is kept back or delivered.
LEMMA PushStep ==
  ASSUME NativeInv, stage = "streaming", NEW p \in Policy, NEW t, IsTracker(t),
         NEW v \in View, NEW odd, odd \subseteq Unusual, PushOdd(p, t, v, odd),
         Agree(t, v), v.fault => Bare(v), Bare(v) => "empty" \in unusual \cup odd,
         Stand(p, t, v), Unasked(t), v.phase # "new",
         Ahead(view, v), "late_delta" \notin unusual \cup odd => OneLive(p)
  PROVE  NativeStep
<1>1. /\ policy' = p /\ tracker' = t /\ view' = v /\ unusual' = unusual \cup odd
      /\ stage' = stage /\ thinks' = thinks /\ retries' = retries /\ clamped' = clamped
      /\ \/ committed' = TRUE /\ client' = v
         \/ committed = FALSE /\ committed' = committed /\ client' = client
  BY DEF PushOdd, NativeInv, NativeTypeOK
<1>2. stage \in Active /\ Midway /\ NativeTypeOK
  BY DEF NativeInv, Active
<1>3. client = IF committed THEN view ELSE NewView
  BY <1>2 DEF Midway
<1>4. /\ client' = IF committed' THEN v ELSE NewView
      /\ committed' \in BOOLEAN
  <2>1. committed \in BOOLEAN
    BY <1>2 DEF NativeTypeOK
  <2>2. CASE committed' = TRUE /\ client' = v
    BY <2>2
  <2>3. CASE committed = FALSE /\ committed' = committed /\ client' = client
    BY <2>3, <1>3
  <2> QED  BY <1>1, <2>2, <2>3
<1>5. client' \in View /\ (client'.fault => "empty" \in unusual \cup odd)
  BY <1>4, NewViewFields
<1>6. NativeTypeOK'
  <2>1. (stage \in Active \cup Ended /\ thinks \in BOOLEAN)'
    BY <1>1, <1>2 DEF NativeTypeOK
  <2>2. (policy \in Policy /\ view \in View /\ client \in View)'
    BY <1>1, <1>5
  <2>3. (/\ DOMAIN tracker.block \subseteq Nat /\ tracker.next \in Nat
         /\ \A i \in DOMAIN tracker.block : tracker.block[i] \in EmittedBlock
         /\ tracker.reason \in BOOLEAN /\ tracker.stopped \in BOOLEAN)'
    BY <1>1, TrackerTyped
  <2>4. (/\ committed \in BOOLEAN /\ clamped \in BOOLEAN
         /\ retries \in 0..EarlyRetries /\ unusual \subseteq Unusual)'
    BY <1>1, <1>2, <1>4 DEF NativeTypeOK
  <2> QED  BY <2>1, <2>2, <2>3, <2>4 DEF NativeTypeOK
<1>7. Midway'
  <2>1. Stand(p, t, v)'
    BY <1>1 DEF Stand, Segments
  <2>2. Stand(policy, tracker, view)'
    BY <1>1 DEF Stand, Segments
  <2> QED
    BY <1>1, <1>4, <2>2 DEF Midway, OneLive, Agree, Bare
<1>8. Unasked(tracker)'
  BY <1>1 DEF Unasked
<1>9. ContractKept' /\ SalvagedIsWhole'
  BY <1>1, <1>5 DEF ContractKept, SalvagedIsWhole
<1>10. IsTracker(tracker)'
  BY <1>1
<1>11. [Message!Next]_(Message!vars)
  <2>1. Ahead(client, client')
    <3>1. CASE client' = client
      BY <3>1, AheadIsReflexive
    <3>2. CASE client' = v /\ client = view
      BY <3>2
    <3>3. CASE client' = v /\ client = NewView
      BY <3>3, Contained, NewViewFields DEF Ahead
    <3> QED  BY <1>1, <1>3, <3>1, <3>2, <3>3
  <2>2. MessagePhase = "open" /\ MessagePhase' = "open"
    BY <1>1, <1>2 DEF MessagePhase, Active, Ended
  <2> QED
    BY <2>1, <2>2 DEF Ahead, Message!Next, Message!Extend, Message!Grows
<1> QED
  BY <1>1, <1>6, <1>7, <1>8, <1>9, <1>10, <1>11 DEF NativeStep, NativeInv

\* An event that is dropped changes the policy only.
LEMMA DropStep ==
  ASSUME NativeInv, stage = "streaming", view.phase = "open", NEW p \in Policy, Drop(p),
         Segments(p, tracker), OneLive(policy) => OneLive(p)
  PROVE  NativeStep
<1>1. /\ policy' = p
      /\ UNCHANGED <<stage, thinks, tracker, view, client, committed, retries,
                     clamped, unusual>>
  BY DEF Drop
<1>2. NativeTypeOK'
  BY <1>1 DEF NativeInv, NativeTypeOK
<1>3. Midway'
  <2>1. /\ Agree(tracker, view) /\ Stand(policy, tracker, view)
        /\ (view.fault => Bare(view)) /\ (Bare(view) => "empty" \in unusual)
    BY DEF NativeInv, Midway, Active
  <2>2. Stand(policy, tracker, view)'
    BY <1>1, <2>1 DEF Stand, Segments
  <2> QED
    BY <1>1, <2>1, <2>2 DEF NativeInv, Midway, OneLive, Agree, Bare
<1>4. (IsTracker(tracker) /\ Unasked(tracker) /\ ContractKept /\ SalvagedIsWhole)'
  BY <1>1 DEF NativeInv, Unasked, ContractKept, SalvagedIsWhole
<1>5. UNCHANGED Message!vars
  BY <1>1 DEF Message!vars, MessagePhase
<1> QED
  BY <1>1, <1>2, <1>3, <1>4, <1>5 DEF NativeStep, NativeInv

\* A message that ends with every block closed ends the stream.
LEMMA FinishStep ==
  ASSUME NativeInv, stage \in Active, NEW t, IsTracker(t), NEW v \in View, NEW how,
         how \in {"complete", "salvaged", "continued", "failed"},
         NEW odd, odd \subseteq Unusual, Finish(t, v, how, odd),
         v.open = {}, v.started # {} \/ "empty" \in unusual \cup odd, view.started \subseteq v.started,
         v.fault => (unusual \cup odd) \cap {"late_repair", "past_stop", "empty"} # {},
         Unasked(t),
         how = "salvaged" => \A i \in ToolBlocks(t) : Whole(t.block[i])
  PROVE  NativeStep
<1>1. /\ stage' = how /\ tracker' = t /\ view' = v /\ client' = v
      /\ committed' = TRUE /\ unusual' = unusual \cup odd
      /\ thinks' = thinks /\ policy' = policy /\ retries' = retries /\ clamped' = clamped
  BY DEF Finish
<1>2. Midway /\ NativeTypeOK
  BY DEF NativeInv
<1>3. NativeTypeOK'
  <2>1. (stage \in Active \cup Ended /\ thinks \in BOOLEAN)'
    BY <1>1, <1>2 DEF NativeTypeOK, Ended
  <2>2. (policy \in Policy /\ view \in View /\ client \in View)'
    BY <1>1, <1>2 DEF NativeTypeOK
  <2>3. (/\ DOMAIN tracker.block \subseteq Nat /\ tracker.next \in Nat
         /\ \A i \in DOMAIN tracker.block : tracker.block[i] \in EmittedBlock
         /\ tracker.reason \in BOOLEAN /\ tracker.stopped \in BOOLEAN)'
    BY <1>1, TrackerTyped
  <2>4. (/\ committed \in BOOLEAN /\ clamped \in BOOLEAN
         /\ retries \in 0..EarlyRetries /\ unusual \subseteq Unusual)'
    BY <1>1, <1>2 DEF NativeTypeOK
  <2> QED  BY <2>1, <2>2, <2>3, <2>4 DEF NativeTypeOK
<1>4. Midway'
  BY <1>1 DEF Midway, Active
<1>5. IsTracker(tracker)' /\ Unasked(tracker)'
  BY <1>1 DEF Unasked
<1>6. ContractKept' /\ SalvagedIsWhole'
  BY <1>1 DEF ContractKept, SalvagedIsWhole
<1>7. Message!Next
  <2>1. client.started \subseteq v.started
    BY <1>2, NewViewFields DEF Midway
  <2>2. MessagePhase = "open" /\ MessagePhase' = "ended"
    BY <1>1 DEF MessagePhase, Active, Ended
  <2> QED
    BY <1>1, <2>1, <2>2 DEF Message!Next, Message!End, Message!Grows
<1> QED
  BY <1>1, <1>3, <1>4, <1>5, <1>6, <1>7 DEF NativeStep, NativeInv

\* A step in which the runner only moves on.
LEMMA QuietStep ==
  ASSUME NativeInv, stage \in Active, stage' \in {"streaming", "recovering"},
         UNCHANGED <<thinks, policy, tracker, view, client, committed, retries,
                     clamped, unusual>>
  PROVE  NativeStep
<1>1. NativeTypeOK'
  BY DEF NativeInv, NativeTypeOK, Active
<1>2. Midway'
  BY DEF NativeInv, Midway, Stand, Segments, Agree, OneLive, Active, Bare
<1>3. (IsTracker(tracker) /\ Unasked(tracker) /\ ContractKept)'
  BY DEF NativeInv, Unasked, ContractKept
<1>4. SalvagedIsWhole'
  BY DEF SalvagedIsWhole
<1>5. UNCHANGED Message!vars
  BY DEF Message!vars, MessagePhase, Active, Ended
<1> QED
  BY <1>1, <1>2, <1>3, <1>4, <1>5 DEF NativeStep, NativeInv

-----------------------------------------------------------------------------
(* The policy.                                                             *)

\* A policy whose segments are given.
LEMMA PolicyFields ==
  ASSUME NEW p \in Policy, NEW q,
         q = [next |-> q.next, seg |-> q.seg, dropped |-> q.dropped, pending |-> q.pending],
         q.next \in Nat, q.seg \in [Upstream -> Segment], q.dropped \subseteq Upstream,
         q.pending \subseteq Upstream
  PROVE  q \in Policy
  BY DEF Policy

\* Changes of one segment, and of the sets beside them.
LEMMA SegmentChanged ==
  ASSUME NEW p \in Policy, NEW u \in Upstream, NEW k \in Kinds
  PROVE  /\ [p EXCEPT !.seg[u].kind = k] \in Policy
         /\ [p EXCEPT !.seg[u].state = "open"] \in Policy
         /\ [p EXCEPT !.seg[u].state = "stopped"] \in Policy
         /\ [p EXCEPT !.seg[u].live = FALSE] \in Policy
<1>1. \A s \in Segment : [p EXCEPT !.seg[u] = s] \in Policy
  BY DEF Policy
<1>2. /\ [p.seg[u] EXCEPT !.kind = k] \in Segment
      /\ [p.seg[u] EXCEPT !.state = "open"] \in Segment
      /\ [p.seg[u] EXCEPT !.state = "stopped"] \in Segment
      /\ [p.seg[u] EXCEPT !.live = FALSE] \in Segment
  BY DEF Policy, Segment
<1>3. /\ [p EXCEPT !.seg[u] = [p.seg[u] EXCEPT !.kind = k]] \in Policy
      /\ [p EXCEPT !.seg[u] = [p.seg[u] EXCEPT !.state = "open"]] \in Policy
      /\ [p EXCEPT !.seg[u] = [p.seg[u] EXCEPT !.state = "stopped"]] \in Policy
      /\ [p EXCEPT !.seg[u] = [p.seg[u] EXCEPT !.live = FALSE]] \in Policy
  BY <1>1, <1>2, Zenon
<1> QED  BY <1>3, Zenon

\* A policy with other dropped or pending indices is one.
LEMMA SetChanged ==
  ASSUME NEW p \in Policy, NEW S, S \subseteq Upstream
  PROVE  [p EXCEPT !.dropped = S] \in Policy /\ [p EXCEPT !.pending = S] \in Policy
  BY DEF Policy

\* What a new segment changes in the policy.
LEMMA AllocateIs ==
  ASSUME NEW p \in Policy, NEW u \in Upstream, NEW k \in Kinds, NEW n \in BOOLEAN,
         NEW closed, closed \subseteq Upstream
  PROVE  LET q == Allocate(p, u, k, n, closed) IN
         /\ q \in Policy /\ q.next = p.next + 1 /\ q.dropped = p.dropped
         /\ q.pending = (p.pending \cup closed) \ {u}
         /\ q.seg[u] = [kind |-> k, state |-> "open", down |-> p.next,
                        live |-> TRUE, named |-> n]
         /\ \A w \in Upstream \ {u} :
               /\ q.seg[w].kind = p.seg[w].kind /\ q.seg[w].state = p.seg[w].state
               /\ q.seg[w].down = p.seg[w].down
               /\ q.seg[w].live = (p.seg[w].live /\ w \notin closed)
<1> DEFINE q == Allocate(p, u, k, n, closed)
           new == [kind |-> k, state |-> "open", down |-> p.next, live |-> TRUE, named |-> n]
           f == [w \in Upstream |-> IF w = u THEN new
                                    ELSE [p.seg[w] EXCEPT !.live = @ /\ w \notin closed]]
<1>1. p.next \in Nat /\ p.seg \in [Upstream -> Segment]
  BY DEF Policy
<1>2. new \in Segment
  BY <1>1 DEF Segment, Kinds
<1>3. \A w \in Upstream : [p.seg[w] EXCEPT !.live = @ /\ w \notin closed] \in Segment
  BY <1>1 DEF Segment
<1>4. f \in [Upstream -> Segment]
  BY <1>2, <1>3
<1>5. f[u] = new
  OBVIOUS
<1>6. \A w \in Upstream \ {u} :
         /\ f[w].kind = p.seg[w].kind /\ f[w].state = p.seg[w].state
         /\ f[w].down = p.seg[w].down
         /\ f[w].live = (p.seg[w].live /\ w \notin closed)
  BY <1>1 DEF Segment
<1>7. /\ q.next = p.next + 1 /\ q.dropped = p.dropped
      /\ q.pending = (p.pending \cup closed) \ {u} /\ q.seg = f
      /\ q = [next |-> q.next, seg |-> q.seg, dropped |-> q.dropped, pending |-> q.pending]
  <2>1. q = [p EXCEPT !.next = p.next + 1, !.pending = (p.pending \cup closed) \ {u}, !.seg = f]
    BY Zenon DEF Allocate
  <2> HIDE DEF f, q
  <2> QED  BY <2>1 DEF Policy
<1> HIDE DEF f, new, q
<1>8. q \in Policy
  BY <1>1, <1>4, <1>7, PolicyFields DEF Policy
<1> QED
  BY <1>5, <1>6, <1>7, <1>8 DEF q, new

\* A tracker with the same open blocks has the same segments.
LEMMA SegmentsKept ==
  ASSUME NEW p, NEW t, NEW r, Segments(p, t), OpenBlocks(r) = OpenBlocks(t),
         r.next = t.next, \A i \in OpenBlocks(t) : r.block[i].kind = t.block[i].kind
  PROVE  Segments(p, r)
  BY DEF Segments

\* What holds while the provider sends.
LEMMA WhileSending ==
  ASSUME NativeInv, Sending
  PROVE  /\ stage = "streaming" /\ view.phase = "open" /\ Even(tracker, view)
         /\ Segments(policy, tracker) /\ ~tracker.stopped /\ Unasked(tracker)
         /\ policy \in Policy /\ policy.next = tracker.next
         /\ "late_delta" \notin unusual => OneLive(policy)
<1>1. stage = "streaming" /\ view.phase = "open" /\ ~tracker.stopped
  BY DEF Sending
<1>2. /\ Agree(tracker, view) /\ ~view.fault /\ Segments(policy, tracker)
      /\ "late_delta" \notin unusual => OneLive(policy)
  BY <1>1 DEF NativeInv, Midway, Stand, Active, Bare
<1> QED
  BY <1>1, <1>2 DEF NativeInv, NativeTypeOK, Even, Match, Segments

\* A begun segment, beside no other but those of earlier deltas.
LEMMA Begun ==
  ASSUME NativeInv, Sending, NEW u \in Upstream, NEW k \in Kinds, NEW n \in BOOLEAN,
         NEW closed, closed \subseteq Upstream \ {u},
         \A w \in closed : policy.seg[w].live, ~policy.seg[u].live,
         u \notin policy.dropped, ~Drops(k)
  PROVE  LET downs == {policy.seg[w].down : w \in closed}
             i == policy.next
             t == ObserveStart(ObserveStops(tracker, downs), i, k, n)
             v == BlockStart(BlockStops(view, downs), i, k)
             q == Allocate(policy, u, k, n, closed) IN
         /\ q \in Policy /\ Even(t, v) /\ Ahead(view, v) /\ Segments(q, t)
         /\ ~t.stopped /\ Unasked(t) /\ i \in OpenBlocks(t)
         /\ t.block[i].kind = k /\ t.block[i].content = "none"
         /\ Others(policy, u) \subseteq closed => OneLive(q)
<1> DEFINE downs == {policy.seg[w].down : w \in closed}
           i == policy.next
           s == ObserveStops(tracker, downs)
           t == ObserveStart(s, i, k, n)
           x == BlockStops(view, downs)
           v == BlockStart(x, i, k)
           q == Allocate(policy, u, k, n, closed)
<1>1. /\ Even(tracker, view) /\ Segments(policy, tracker) /\ ~tracker.stopped
      /\ Unasked(tracker) /\ policy \in Policy /\ i = tracker.next
  BY WhileSending
<1>2. downs \subseteq OpenBlocks(tracker)
  BY <1>1 DEF Segments
<1>3. /\ Even(s, x) /\ Ahead(view, x)
      /\ Blocks(s) = Blocks(tracker) /\ OpenBlocks(s) = OpenBlocks(tracker) \ downs
      /\ \A j \in Blocks(tracker) : s.block[j].kind = tracker.block[j].kind
      /\ s.next = tracker.next /\ s.reason = tracker.reason /\ s.stopped = tracker.stopped
  BY <1>1, <1>2, StopsEven
<1>4. /\ q \in Policy /\ q.next = i + 1 /\ q.dropped = policy.dropped
      /\ q.pending = (policy.pending \cup closed) \ {u}
      /\ q.seg[u] = [kind |-> k, state |-> "open", down |-> i, live |-> TRUE, named |-> n]
      /\ \A w \in Upstream \ {u} :
            /\ q.seg[w].kind = policy.seg[w].kind /\ q.seg[w].state = policy.seg[w].state
            /\ q.seg[w].down = policy.seg[w].down
            /\ q.seg[w].live = (policy.seg[w].live /\ w \notin closed)
  BY <1>1, AllocateIs
<1> HIDE DEF s, x, q
<1>5. s.next = i
  BY <1>1, <1>3
<1>6. t = ObserveStart(s, s.next, k, n) /\ v = BlockStart(x, s.next, k)
  BY <1>5
<1> HIDE DEF t, v
<1>7. /\ Even(t, v) /\ Ahead(x, v)
      /\ Blocks(t) = Blocks(s) \cup {s.next} /\ s.next \notin Blocks(s)
      /\ OpenBlocks(t) = OpenBlocks(s) \cup {s.next}
      /\ t.block[s.next].kind = k /\ \A j \in Blocks(s) : t.block[j] = s.block[j]
      /\ t.block[s.next].content = "none"
      /\ t.next = s.next + 1 /\ t.reason = s.reason /\ t.stopped = s.stopped
  BY <1>3, <1>6, StartedEven
<1>8. /\ Even(t, v) /\ Ahead(x, v)
      /\ Blocks(t) = Blocks(s) \cup {i} /\ i \notin Blocks(s)
      /\ OpenBlocks(t) = OpenBlocks(s) \cup {i}
      /\ t.block[i].kind = k /\ \A j \in Blocks(s) : t.block[j] = s.block[j]
      /\ t.block[i].content = "none"
      /\ t.next = i + 1 /\ t.reason = s.reason /\ t.stopped = s.stopped
  BY <1>5, <1>7
<1> HIDE DEF i
<1>9. Ahead(view, v)
  BY <1>3, <1>8, AheadIsTransitive
<1>10. \A j \in Blocks(tracker) : t.block[j].kind = tracker.block[j].kind
  BY <1>3, <1>8
<1>11. Unasked(t)
  BY <1>1, <1>3, <1>8, <1>10 DEF Unasked, Drops
<1>12. /\ q.seg[u].live /\ q.seg[u].state = "open" /\ q.seg[u].down = i /\ q.seg[u].kind = k
       /\ u \notin q.pending
  BY <1>4
<1>13. Segments(q, t)
  <2>1. q.next = t.next
    BY <1>4, <1>8
  <2>2. \A w \in Upstream \ {u} : q.seg[w].live =>
            /\ policy.seg[w].live /\ w \notin closed
            /\ policy.seg[w].down \in OpenBlocks(tracker) \ downs
            /\ q.seg[w].down = policy.seg[w].down
    <3> SUFFICES ASSUME NEW w \in Upstream \ {u}, q.seg[w].live
                 PROVE  policy.seg[w].down \in OpenBlocks(tracker) \ downs
      BY <1>4
    <3>1. policy.seg[w].live /\ w \notin closed /\ policy.seg[w].down \in OpenBlocks(tracker)
      BY <1>1, <1>4 DEF Segments
    <3>2. \A y \in closed : policy.seg[y].down # policy.seg[w].down
      BY <1>1, <3>1 DEF Segments
    <3> QED  BY <3>1, <3>2
  <2>3. \A w \in Upstream : q.seg[w].live =>
          /\ q.seg[w].state = "open" /\ w \notin q.pending /\ w \notin q.dropped
          /\ q.seg[w].down \in OpenBlocks(t)
          /\ t.block[q.seg[w].down].kind = q.seg[w].kind
    <3> SUFFICES ASSUME NEW w \in Upstream, q.seg[w].live
                 PROVE  /\ q.seg[w].state = "open" /\ w \notin q.pending /\ w \notin q.dropped
                        /\ q.seg[w].down \in OpenBlocks(t)
                        /\ t.block[q.seg[w].down].kind = q.seg[w].kind
      OBVIOUS
    <3>1. CASE w = u
      BY <3>1, <1>4, <1>8, <1>12
    <3>2. CASE w # u
      <4>1. /\ policy.seg[w].live /\ w \notin closed /\ q.seg[w].down = policy.seg[w].down
            /\ policy.seg[w].down \in OpenBlocks(tracker) \ downs
        BY <3>2, <2>2
      <4>2. /\ policy.seg[w].state = "open" /\ w \notin policy.pending
            /\ w \notin policy.dropped
            /\ tracker.block[policy.seg[w].down].kind = policy.seg[w].kind
        BY <1>1, <4>1 DEF Segments
      <4>3. policy.seg[w].down \in Blocks(tracker)
        BY <4>1 DEF OpenBlocks
      <4> QED  BY <3>2, <4>1, <4>2, <4>3, <1>3, <1>4, <1>8, <1>10
    <3> QED  BY <3>1, <3>2
  <2>4. \A w, y \in Upstream :
            q.seg[w].live /\ q.seg[y].live /\ q.seg[w].down = q.seg[y].down => w = y
    <3>1. \A w \in Upstream \ {u} : q.seg[w].live => q.seg[w].down # i
      BY <2>2, <1>3, <1>8 DEF OpenBlocks
    <3>2. \A w, y \in Upstream \ {u} :
             q.seg[w].live /\ q.seg[y].live /\ q.seg[w].down = q.seg[y].down => w = y
      BY <2>2, <1>1 DEF Segments
    <3> QED  BY <3>1, <3>2, <1>12
  <2>5. \A j \in OpenBlocks(t) : \E w \in Upstream : q.seg[w].live /\ q.seg[w].down = j
    <3> SUFFICES ASSUME NEW j \in OpenBlocks(t)
                 PROVE  \E w \in Upstream : q.seg[w].live /\ q.seg[w].down = j
      OBVIOUS
    <3>1. CASE j = i
      BY <3>1, <1>12
    <3>2. CASE j # i
      <4>1. j \in OpenBlocks(tracker) \ downs
        BY <3>2, <1>3, <1>8
      <4>2. PICK w \in Upstream : policy.seg[w].live /\ policy.seg[w].down = j
        BY <4>1, <1>1 DEF Segments
      <4>3. w \notin closed /\ w # u
        BY <4>1, <4>2
      <4> QED  BY <4>2, <4>3, <1>4
    <3> QED  BY <3>1, <3>2
  <2>6. \A w \in Upstream : q.seg[w].state = "new" => q.seg[w].kind = "none" /\ w \notin q.dropped
    BY <1>1, <1>4, <1>12 DEF Segments
  <2>7. ~thinks => \A w \in Upstream : q.seg[w].kind = "thinking" => w \in q.dropped
    BY <1>1, <1>4, <1>12 DEF Segments, Drops
  <2> QED  BY <2>1, <2>3, <2>4, <2>5, <2>6, <2>7 DEF Segments
<1>14. Others(policy, u) \subseteq closed => OneLive(q)
  BY <1>4 DEF OneLive, Others
<1> QED
  BY <1>1, <1>3, <1>4, <1>8, <1>9, <1>11, <1>13, <1>14 DEF t, v, i, s, x, q

-----------------------------------------------------------------------------
(* The provider's events.                                                  *)

\* message_start of the provider.
LEMMA MessageStartsStep == ASSUME NativeInv, MessageStarts PROVE NativeStep
<1> DEFINE v == MessageStart(view)
<1>1. /\ stage = "streaming" /\ view.phase = "new" /\ Push(policy, tracker, v)
      /\ view \in View /\ policy \in Policy /\ IsTracker(tracker) /\ Unasked(tracker)
  BY DEF MessageStarts, NativeInv, NativeTypeOK
<1>2. /\ view = NewView /\ policy = NewPolicy /\ tracker = NewTracker
      /\ "late_delta" \notin unusual => OneLive(policy)
  BY <1>1 DEF NativeInv, Midway, Stand, Active
<1>3. /\ v \in View /\ v.phase = "open" /\ v.started = {} /\ v.open = {} /\ ~v.fault
  BY <1>1, <1>2, MessageStartFields, NewViewFields
<1> HIDE DEF v
<1>4. Agree(tracker, v)
  BY <1>2, <1>3, NewTrackerIs DEF Agree
<1>5. Segments(policy, tracker)
  BY <1>2, NewTrackerIs DEF Segments, NewPolicy, NewSegment
<1>6. Stand(policy, tracker, v)
  BY <1>2, <1>3, <1>5, NewTrackerIs DEF Stand
<1>7. Ahead(view, v)
  BY <1>2, <1>3, NewViewFields DEF Ahead
<1> QED
  BY <1>1, <1>2, <1>3, <1>4, <1>6, <1>7, PushStep DEF Push, Bare

\* The books of an open message, put together.
LEMMA EvenStand ==
  ASSUME NEW p, NEW t, NEW v, Even(t, v), Segments(p, t), ~t.stopped
  PROVE  Stand(p, t, v)
  BY DEF Even, Match, Stand

\* An event between message_start and message_stop.
LEMMA EventStep ==
  ASSUME NativeInv, Sending, NEW p \in Policy, NEW t, NEW v, NEW odd, odd \subseteq Unusual,
         PushOdd(p, t, v, odd), Even(t, v), Segments(p, t), ~t.stopped, Unasked(t),
         Ahead(view, v), "late_delta" \notin unusual \cup odd => OneLive(p)
  PROVE  NativeStep
  BY PushStep, EvenStand, WhileSending DEF Even, Match, Bare

\* content_block_start of the provider: dropped, or a block that closes the others.
LEMMA StartStep ==
  ASSUME NativeInv, NEW u \in Upstream, NEW k \in Kinds, Start(u, k)
  PROVE  NativeStep
<1>1. Sending /\ policy.seg[u].state = "new"
  BY DEF Start
<1>2. /\ stage = "streaming" /\ view.phase = "open" /\ Segments(policy, tracker)
      /\ policy \in Policy /\ ("late_delta" \notin unusual => OneLive(policy))
  BY <1>1, WhileSending
<1>3. ~policy.seg[u].live /\ u \notin policy.dropped
  BY <1>1, <1>2 DEF Segments
<1>4. CASE Drops(k)
  <2> DEFINE q == [policy EXCEPT !.seg[u].kind = k, !.seg[u].state = "open",
                                 !.dropped = @ \cup {u}]
  <2>1. Drop(q)
    BY <1>4 DEF Start
  <2>2. q \in Policy
    <3> DEFINE a == [policy EXCEPT !.seg[u].kind = k]
               b == [a EXCEPT !.seg[u].state = "open"]
    <3>1. a \in Policy
      BY <1>2, SegmentChanged
    <3> HIDE DEF a
    <3>2. b \in Policy
      BY <3>1, SegmentChanged
    <3>3. q = [b EXCEPT !.dropped = b.dropped \cup {u}]
      BY Zenon DEF a
    <3> HIDE DEF b, q
    <3> QED  BY <3>2, <3>3, SetChanged DEF Policy
  <2>3. /\ q.next = policy.next /\ q.pending = policy.pending
        /\ q.dropped = policy.dropped \cup {u}
        /\ q.seg[u].kind = k /\ q.seg[u].state = "open" /\ ~q.seg[u].live
        /\ \A w \in Upstream \ {u} : q.seg[w] = policy.seg[w]
    BY <1>2, <1>3 DEF Policy, Segment
  <2> HIDE DEF q
  <2>4. Segments(q, tracker)
    BY <1>2, <1>3, <2>3 DEF Segments
  <2>5. OneLive(policy) => OneLive(q)
    BY <1>3, <2>3 DEF OneLive
  <2> QED
    BY <1>2, <2>1, <2>2, <2>4, <2>5, DropStep
<1>5. CASE ~Drops(k)
  <2> DEFINE closed == Others(policy, u)
             downs == {policy.seg[w].down : w \in closed}
             i == policy.next
             t == ObserveStart(ObserveStops(tracker, downs), i, k, TRUE)
             v == BlockStart(BlockStops(view, downs), i, k)
             q == Allocate(policy, u, k, TRUE, closed)
  <2>1. Push(q, t, v)
    BY <1>5 DEF Start
  <2>2. closed \subseteq Upstream \ {u} /\ \A w \in closed : policy.seg[w].live
    BY DEF Others
  <2>3. /\ q \in Policy /\ Even(t, v) /\ Ahead(view, v) /\ Segments(q, t)
        /\ ~t.stopped /\ Unasked(t) /\ OneLive(q)
    BY <1>1, <1>3, <1>5, <2>2, Begun
  <2> HIDE DEF q, t, v
  <2> QED
    BY <1>1, <2>1, <2>3, EventStep DEF Push
<1> QED  BY <1>4, <1>5

\* One more piece leaves a content of a block.
LEMMA ContentsAfter == \A k, c : c \in Contents => After(k, c) \subseteq Contents
  BY DEF After, Contents

\* content_block_delta of the provider: dropped, to its segment, or to a new one.
LEMMA DeltaStep ==
  ASSUME NativeInv, NEW u \in Upstream, NEW k \in Kinds, Delta(u, k)
  PROVE  NativeStep
<1> DEFINE seg == policy.seg[u]
           named == seg.state # "new" /\ seg.named
<1>1. Sending /\ (k = seg.kind \/ (seg.state = "new" /\ k # "thinking"))
  BY DEF Delta
<1>2. /\ stage = "streaming" /\ view.phase = "open" /\ Even(tracker, view)
      /\ Segments(policy, tracker) /\ ~tracker.stopped /\ Unasked(tracker)
      /\ policy \in Policy /\ ("late_delta" \notin unusual => OneLive(policy))
  BY <1>1, WhileSending
<1>3. CASE u \in policy.dropped
  <2>1. Drop(policy)
    BY <1>3 DEF Delta
  <2> QED
    BY <1>2, <2>1, DropStep
<1>4. CASE u \notin policy.dropped /\ seg.live
  <2> DEFINE i == seg.down
  <2>1. k = tracker.block[i].kind /\ i \in OpenBlocks(tracker)
    <3>1. seg.state = "open" /\ i \in OpenBlocks(tracker) /\ tracker.block[i].kind = seg.kind
      BY <1>2, <1>4 DEF Segments
    <3> QED  BY <1>1, <3>1
  <2>2. PICK c \in After(k, tracker.block[i].content) :
           PushOdd(policy, ObserveDelta(tracker, i, c), BlockDelta(view, i, k), {})
    BY <1>4 DEF Delta
  <2>3. c \in Contents
    <3>1. tracker.block[i].content \in Contents
      BY <1>2, <2>1 DEF Even, Match, IsTracker, OpenBlocks, EmittedBlock
    <3> QED  BY <3>1, <2>2, ContentsAfter
  <2> DEFINE t == ObserveDelta(tracker, i, c)
             v == BlockDelta(view, i, k)
  <2> HIDE DEF i
  <2>4. /\ Even(t, v) /\ Ahead(view, v)
        /\ Blocks(t) = Blocks(tracker) /\ OpenBlocks(t) = OpenBlocks(tracker)
        /\ \A j \in Blocks(tracker) : t.block[j].kind = tracker.block[j].kind
        /\ t.next = tracker.next /\ t.reason = tracker.reason /\ t.stopped = tracker.stopped
    BY <1>2, <2>1, <2>3, DeltaEven
  <2>5. PushOdd(policy, t, v, {})
    BY <2>2 DEF i
  <2> HIDE DEF t, v
  <2>6. Segments(policy, t)
    <3>1. \A j \in OpenBlocks(tracker) : t.block[j].kind = tracker.block[j].kind
      BY <2>4 DEF OpenBlocks
    <3> QED  BY <1>2, <2>4, <3>1, SegmentsKept
  <2>7. Unasked(t)
    BY <1>2, <2>4 DEF Unasked
  <2> QED
    BY <1>1, <1>2, <2>4, <2>5, <2>6, <2>7, EventStep
<1>5. CASE u \notin policy.dropped /\ ~seg.live
  <2> DEFINE i == policy.next
             s == ObserveStart(tracker, i, k, named)
             x == BlockStart(view, i, k)
             q == Allocate(policy, u, k, named, {})
             odd == IF Others(policy, u) = {} THEN {} ELSE {"late_delta"}
  <2>1. named \in BOOLEAN
    OBVIOUS
  <2>2. ~Drops(k)
    BY <1>1, <1>2, <1>5 DEF Segments, Drops
  <2>3. /\ q \in Policy /\ Even(s, x) /\ Ahead(view, x) /\ Segments(q, s)
        /\ ~s.stopped /\ Unasked(s) /\ i \in OpenBlocks(s)
        /\ s.block[i].kind = k /\ s.block[i].content = "none"
        /\ Others(policy, u) = {} => OneLive(q)
    <3> DEFINE closed == {}
               downs == {policy.seg[w].down : w \in closed}
    <3>1. closed = {} /\ downs = {}
      OBVIOUS
    <3> HIDE DEF closed, named
    <3>2. LET s0 == ObserveStart(ObserveStops(tracker, downs), i, k, named)
              x0 == BlockStart(BlockStops(view, downs), i, k)
              q0 == Allocate(policy, u, k, named, closed) IN
          /\ q0 \in Policy /\ Even(s0, x0) /\ Ahead(view, x0) /\ Segments(q0, s0)
          /\ ~s0.stopped /\ Unasked(s0) /\ i \in OpenBlocks(s0)
          /\ s0.block[i].kind = k /\ s0.block[i].content = "none"
          /\ Others(policy, u) \subseteq closed => OneLive(q0)
      BY <1>1, <1>5, <2>1, <2>2, <3>1, Begun
    <3>3. ObserveStops(tracker, {}) = tracker
      BY <1>2 DEF Even, Match, IsTracker, ObserveStops
    <3>4. BlockStops(view, {}) = view
      BY <1>2 DEF Even, Match, View, BlockStops
    <3> HIDE DEF downs
    <3> QED
      BY <3>1, <3>2, <3>3, <3>4
  <2>4. PICK c \in After(k, s.block[i].content) :
           PushOdd(q, ObserveDelta(s, i, c), BlockDelta(x, i, k), odd)
    BY <1>5 DEF Delta
  <2>5. c \in Contents
    BY <2>3, <2>4, ContentsAfter DEF Contents
  <2> DEFINE t == ObserveDelta(s, i, c)
             v == BlockDelta(x, i, k)
  <2>6. PushOdd(q, t, v, odd)
    BY <2>4
  <2> HIDE DEF i, s, x, q
  <2>7. /\ Even(t, v) /\ Ahead(x, v)
        /\ Blocks(t) = Blocks(s) /\ OpenBlocks(t) = OpenBlocks(s)
        /\ \A j \in Blocks(s) : t.block[j].kind = s.block[j].kind
        /\ t.next = s.next /\ t.reason = s.reason /\ t.stopped = s.stopped
    BY <2>3, <2>5, DeltaEven
  <2> HIDE DEF t, v
  <2>8. Segments(q, t)
    <3>1. \A j \in OpenBlocks(s) : t.block[j].kind = s.block[j].kind
      BY <2>7 DEF OpenBlocks
    <3> QED  BY <2>3, <2>7, <3>1, SegmentsKept
  <2>9. Unasked(t)
    BY <2>3, <2>7 DEF Unasked
  <2>10. Ahead(view, v)
    BY <2>3, <2>7, AheadIsTransitive
  <2>11. odd \subseteq Unusual /\ ("late_delta" \notin unusual \cup odd => OneLive(q))
    BY <2>3 DEF Unusual
  <2> QED
    BY <1>1, <2>3, <2>6, <2>7, <2>8, <2>9, <2>10, <2>11, EventStep
<1> QED  BY <1>3, <1>4, <1>5

\* content_block_stop of the provider: dropped, or of its segment.
LEMMA StopStep ==
  ASSUME NativeInv, NEW u \in Upstream, Stop(u)
  PROVE  NativeStep
<1> DEFINE seg == policy.seg[u]
           p == [policy EXCEPT !.seg[u].state = "stopped"]
<1>1. Sending /\ seg.state # "new"
  BY DEF Stop
<1>2. /\ stage = "streaming" /\ view.phase = "open" /\ Even(tracker, view)
      /\ Segments(policy, tracker) /\ ~tracker.stopped /\ Unasked(tracker)
      /\ policy \in Policy /\ ("late_delta" \notin unusual => OneLive(policy))
  BY <1>1, WhileSending
<1>3. CASE u \in policy.dropped \/ u \in policy.pending \/ ~seg.live
  <2> DEFINE q == [p EXCEPT !.pending = @ \ {u}]
  <2>1. Drop(q)
    BY <1>3 DEF Stop
  <2>2. q \in Policy
    <3>1. p \in Policy
      BY <1>2, SegmentChanged DEF Kinds
    <3> HIDE DEF p
    <3> QED  BY <3>1, SetChanged DEF Policy
  <2>3. ~seg.live
    BY <1>2, <1>3 DEF Segments
  <2>4. /\ q.next = policy.next /\ q.pending = policy.pending \ {u}
        /\ q.dropped = policy.dropped
        /\ q.seg[u].kind = seg.kind /\ q.seg[u].state = "stopped" /\ ~q.seg[u].live
        /\ \A w \in Upstream \ {u} : q.seg[w] = policy.seg[w]
    BY <1>2, <2>3 DEF Policy, Segment
  <2> HIDE DEF q
  <2>5. Segments(q, tracker)
    BY <1>1, <1>2, <2>3, <2>4 DEF Segments
  <2>6. OneLive(policy) => OneLive(q)
    BY <2>3, <2>4 DEF OneLive
  <2> QED
    BY <1>2, <2>1, <2>2, <2>5, <2>6, DropStep
<1>4. CASE u \notin policy.dropped /\ u \notin policy.pending /\ seg.live
  <2> DEFINE q == [p EXCEPT !.seg[u].live = FALSE]
             i == seg.down
             t == ObserveStops(tracker, {i})
             v == BlockStops(view, {i})
  <2>1. Push(q, t, v)
    BY <1>4 DEF Stop, BlockStop
  <2>2. q \in Policy
    <3>1. p \in Policy
      BY <1>2, SegmentChanged DEF Kinds
    <3> HIDE DEF p
    <3> QED  BY <3>1, SegmentChanged DEF Kinds
  <2>3. /\ q.next = policy.next /\ q.pending = policy.pending
        /\ q.dropped = policy.dropped
        /\ q.seg[u].kind = seg.kind /\ q.seg[u].state = "stopped" /\ ~q.seg[u].live
        /\ \A w \in Upstream \ {u} : q.seg[w] = policy.seg[w]
    BY <1>2 DEF Policy, Segment
  <2>4. i \in OpenBlocks(tracker)
    BY <1>2, <1>4 DEF Segments
  <2> HIDE DEF q
  <2>5. /\ Even(t, v) /\ Ahead(view, v)
        /\ Blocks(t) = Blocks(tracker) /\ OpenBlocks(t) = OpenBlocks(tracker) \ {i}
        /\ \A j \in Blocks(tracker) : t.block[j].kind = tracker.block[j].kind
        /\ t.next = tracker.next /\ t.reason = tracker.reason /\ t.stopped = tracker.stopped
    BY <1>2, <2>4, StopsEven
  <2> HIDE DEF t, v
  <2>6. Segments(q, t)
    <3>1. \A w \in Upstream : q.seg[w].live =>
             /\ w # u /\ policy.seg[w].live /\ q.seg[w] = policy.seg[w]
             /\ policy.seg[w].down \in OpenBlocks(tracker) \ {i}
      BY <1>2, <1>4, <2>3 DEF Segments
    <3>2. \A j \in OpenBlocks(tracker) : t.block[j].kind = tracker.block[j].kind
      BY <2>5 DEF OpenBlocks
    <3>3. \A w \in Upstream : q.seg[w].live =>
            /\ q.seg[w].state = "open" /\ w \notin q.pending /\ w \notin q.dropped
            /\ q.seg[w].down \in OpenBlocks(t)
            /\ t.block[q.seg[w].down].kind = q.seg[w].kind
      BY <1>2, <2>3, <2>5, <3>1, <3>2 DEF Segments
    <3>4. \A w, y \in Upstream :
             q.seg[w].live /\ q.seg[y].live /\ q.seg[w].down = q.seg[y].down => w = y
      BY <1>2, <3>1 DEF Segments
    <3>5. \A j \in OpenBlocks(t) : \E w \in Upstream : q.seg[w].live /\ q.seg[w].down = j
      <4> SUFFICES ASSUME NEW j \in OpenBlocks(t)
                   PROVE  \E w \in Upstream : q.seg[w].live /\ q.seg[w].down = j
        OBVIOUS
      <4>1. PICK w \in Upstream : policy.seg[w].live /\ policy.seg[w].down = j
        BY <1>2, <2>5 DEF Segments
      <4>2. w # u
        BY <2>5, <4>1
      <4> QED  BY <2>3, <4>1, <4>2
    <3>6. \A w \in Upstream :
             q.seg[w].state = "new" => q.seg[w].kind = "none" /\ w \notin q.dropped
      BY <1>2, <2>3 DEF Segments
    <3>7. ~thinks => \A w \in Upstream : q.seg[w].kind = "thinking" => w \in q.dropped
      BY <1>2, <2>3 DEF Segments
    <3>8. q.next = t.next
      BY <1>2, <2>3, <2>5 DEF Segments
    <3> QED  BY <3>3, <3>4, <3>5, <3>6, <3>7, <3>8 DEF Segments
  <2>7. Unasked(t)
    BY <1>2, <2>5 DEF Unasked
  <2>8. OneLive(policy) => OneLive(q)
    BY <2>3 DEF OneLive
  <2> QED
    BY <1>1, <1>2, <2>1, <2>2, <2>5, <2>6, <2>7, <2>8, EventStep DEF Push
<1> QED  BY <1>3, <1>4

\* message_delta of the provider.
LEMMA MessageDeltasStep == ASSUME NativeInv, MessageDeltas PROVE NativeStep
<1> DEFINE t == [tracker EXCEPT !.reason = TRUE]
           v == MessageDelta(view)
<1>1. Sending /\ Push(policy, t, v)
  BY DEF MessageDeltas
<1>2. /\ view.phase = "open" /\ Even(tracker, view)
      /\ Segments(policy, tracker) /\ ~tracker.stopped /\ Unasked(tracker)
      /\ policy \in Policy /\ ("late_delta" \notin unusual => OneLive(policy))
  BY <1>1, WhileSending
<1>3. /\ t.block = tracker.block /\ t.next = tracker.next /\ t.stopped = tracker.stopped
      /\ t \in [block : {t.block}, next : Nat, reason : BOOLEAN, stopped : BOOLEAN]
  BY <1>2 DEF Even, Match, IsTracker
<1>4. /\ v \in View /\ v.phase = view.phase /\ v.started = view.started /\ v.open = view.open
      /\ v.fault = (view.fault \/ view.phase # "open")
  BY <1>2, MessageDeltaFields DEF Even, Match
<1> HIDE DEF t, v
<1>5. IsTracker(t) /\ Blocks(t) = Blocks(tracker) /\ OpenBlocks(t) = OpenBlocks(tracker)
  BY <1>2, <1>3 DEF Even, Match, IsTracker, Blocks, OpenBlocks
<1>6. Even(t, v) /\ Ahead(view, v)
  BY <1>2, <1>3, <1>4, <1>5 DEF Even, Match, Agree, Ahead
<1>7. Segments(policy, t) /\ Unasked(t)
  BY <1>2, <1>3, <1>5 DEF Segments, Unasked
<1> QED
  BY <1>1, <1>2, <1>3, <1>6, <1>7, EventStep DEF Push

\* message_stop of the provider, which has stopped what it began.
LEMMA MessageStopsStep == ASSUME NativeInv, MessageStops PROVE NativeStep
<1> DEFINE t == [tracker EXCEPT !.stopped = TRUE]
           v == MessageStop(view)
           odd == IF Blocks(tracker) = {} THEN {"empty"} ELSE {}
<1>1. /\ Sending /\ PushOdd(policy, t, v, odd) /\ tracker.reason
      /\ \A u \in Upstream : policy.seg[u].state # "open"
  BY DEF MessageStops
<1>2. /\ stage = "streaming" /\ view.phase = "open" /\ Even(tracker, view)
      /\ Segments(policy, tracker) /\ Unasked(tracker)
      /\ policy \in Policy /\ ("late_delta" \notin unusual => OneLive(policy))
  BY <1>1, WhileSending
<1>3. OpenBlocks(tracker) = {} /\ view.open = {} /\ view.started = Blocks(tracker)
  BY <1>1, <1>2 DEF Segments, Even, Match, Agree
<1>4. /\ t.block = tracker.block /\ t.next = tracker.next /\ t.reason = tracker.reason
      /\ t.stopped /\ t \in [block : {t.block}, next : Nat, reason : BOOLEAN, stopped : BOOLEAN]
  BY <1>2 DEF Even, Match, IsTracker
<1>5. /\ v \in View /\ v.phase = "ended" /\ v.started = view.started /\ v.open = view.open
      /\ v.fault = (view.fault \/ view.phase # "open" \/ view.open # {} \/ view.started = {})
  BY <1>2, MessageStopFields DEF Even, Match
<1> HIDE DEF t, v
<1>6. IsTracker(t) /\ Blocks(t) = Blocks(tracker) /\ OpenBlocks(t) = OpenBlocks(tracker)
  BY <1>2, <1>4 DEF Even, Match, IsTracker, Blocks, OpenBlocks
<1>7. Agree(t, v) /\ Ahead(view, v) /\ (v.fault => Bare(v))
  BY <1>2, <1>3, <1>4, <1>5, <1>6 DEF Even, Match, Agree, Ahead, Bare
<1>8. Stand(policy, t, v) /\ Unasked(t)
  BY <1>1, <1>2, <1>3, <1>4, <1>5, <1>6 DEF Stand, Unasked
<1>9. /\ Bare(v) => "empty" \in unusual \cup odd
      /\ odd \subseteq Unusual /\ "late_delta" \notin odd
  BY <1>3, <1>5 DEF Bare, Unusual
<1> HIDE DEF odd
<1> QED
  BY <1>1, <1>2, <1>5, <1>6, <1>7, <1>8, <1>9, PushStep

-----------------------------------------------------------------------------
(* How an attempt ends.                                                    *)

\* The message of a stream that is not over is new, open or ended.
LEMMA WhileActive ==
  ASSUME NativeInv, stage \in Active
  PROVE  /\ IsTracker(tracker) /\ view \in View /\ client \in View /\ Agree(tracker, view)
         /\ Unasked(tracker) /\ Stand(policy, tracker, view)
         /\ view.fault => "empty" \in unusual
         /\ Blocks(tracker) # {} \/ view.phase # "ended" => ~view.fault
         /\ view.phase \in {"new", "open", "ended"}
         /\ view.phase = "open" => Even(tracker, view) /\ ~tracker.stopped
         /\ view.phase = "ended" => /\ tracker.stopped /\ tracker.reason
                                    /\ OpenBlocks(tracker) = {}
                                    /\ Blocks(tracker) = {} => "empty" \in unusual
         /\ view.phase = "new" => view = NewView /\ ~committed /\ Blocks(tracker) = {}
         /\ client = IF committed THEN view ELSE NewView
         /\ tracker.next \in Nat /\ tracker.next \notin Blocks(tracker)
<1>1. /\ IsTracker(tracker) /\ view \in View /\ client \in View /\ Agree(tracker, view)
      /\ Unasked(tracker) /\ Stand(policy, tracker, view)
      /\ (view.fault => Bare(view)) /\ (Bare(view) => "empty" \in unusual)
      /\ client = IF committed THEN view ELSE NewView
      /\ view.phase = "new" => ~committed
  BY DEF NativeInv, NativeTypeOK, Midway
<1>2. view.phase \in {"new", "open", "ended"}
  BY <1>1 DEF View
<1>3. tracker.next \in Nat /\ tracker.next \notin Blocks(tracker)
  BY <1>1 DEF IsTracker, Agree
<1>4. view.phase = "new" => view = NewView /\ Blocks(tracker) = {}
  BY <1>1, NewTrackerIs DEF Stand
<1>5. view.started = Blocks(tracker) /\ view.fault \in BOOLEAN
  BY <1>1 DEF Agree, View
<1> QED
  BY <1>1, <1>2, <1>3, <1>4, <1>5 DEF Stand, Even, Match, Bare

\* Every open block is closed, be the message open or ended.
LEMMA AllClosed ==
  ASSUME NEW t, NEW v \in View, v.started = Blocks(t),
         \A b \in v.open : b[1] \in OpenBlocks(t)
  PROVE  LET w == CloseAll(v, t) IN
         /\ w \in View /\ w.phase = v.phase /\ w.open = {} /\ w.started = Blocks(t)
         /\ OpenBlocks(t) = {} => w.fault = v.fault
<1> DEFINE w == CloseAll(v, t)
<1>1. /\ w \in View /\ w.phase = v.phase /\ w.started = v.started
      /\ w.open = {b \in v.open : b[1] \notin OpenBlocks(t)}
      /\ w.fault = (\/ v.fault
                    \/ \E j \in OpenBlocks(t) : \/ v.phase # "open"
                                                \/ \A k \in Kinds : <<j, k>> \notin v.open)
  BY BlockStopsFields DEF CloseAll
<1>2. v.fault \in BOOLEAN
  BY DEF View
<1> HIDE DEF w
<1> QED
  BY <1>1, <1>2 DEF w

\* The tracker knows every open block of the view.
LEMMA OpenKnown ==
  ASSUME NEW t, NEW v, Agree(t, v)
  PROVE  \A b \in v.open : b[1] \in OpenBlocks(t)
  BY DEF Agree

\* The error closes the message, and the runner.
LEMMA FinalErrorStep ==
  ASSUME NativeInv, stage \in Active, FinalError
  PROVE  NativeStep
<1>1. CASE committed \/ view # client
  <2> DEFINE t == ObserveStops(tracker, OpenBlocks(tracker))
             c == CloseAll(view, tracker)
             w == ErrorBlock(c, tracker.next)
             odd == IF tracker.stopped THEN {"past_stop"} ELSE {}
  <2>1. Finish(t, w, "failed", odd)
    BY <1>1 DEF FinalError
  <2>2. view.phase \in {"open", "ended"}
    BY <1>1, WhileActive
  <2>3. view.started = Blocks(tracker)
    BY WhileActive DEF Agree
  <2>4. /\ c \in View /\ c.phase = view.phase /\ c.open = {} /\ c.started = Blocks(tracker)
        /\ view.phase = "open" => ~c.fault
    BY <2>3, WhileActive, AllClosed, OpenKnown, ClosedEven
  <2>5. /\ IsTracker(t) /\ Blocks(t) = Blocks(tracker)
        /\ \A j \in Blocks(tracker) : t.block[j].kind = tracker.block[j].kind
    BY WhileActive, StopsObserved
  <2> HIDE DEF c, t
  <2>6. /\ w \in View /\ w.open = {} /\ w.started = Blocks(tracker) \cup {tracker.next}
        /\ view.phase = "open" => ~w.fault
    BY <2>4, WhileActive, ErrorTail
  <2> HIDE DEF w
  <2>7. w.fault => (unusual \cup odd) \cap {"late_repair", "past_stop", "empty"} # {}
    BY <2>2, <2>6, WhileActive
  <2>8. Unasked(t) /\ odd \subseteq Unusual
    BY <2>5, WhileActive DEF Unasked, Unusual
  <2> HIDE DEF odd
  <2> QED
    BY <2>1, <2>3, <2>5, <2>6, <2>7, <2>8, FinishStep
<1>2. CASE ~committed /\ view = client
  <2> DEFINE m == MessageStart(client)
             w == ErrorBlock(m, 0)
  <2>1. Finish(NewTracker, w, "failed", {})
    BY <1>2 DEF FinalError
  <2>2. client = NewView /\ view = NewView
    BY <1>2, WhileActive
  <2>3. /\ m \in View /\ m.phase = "open" /\ m.started = {} /\ m.open = {} /\ ~m.fault
    BY <2>2, NewViewFields, MessageStartFields
  <2> HIDE DEF m
  <2>4. w \in View /\ w.open = {} /\ w.started = {0} /\ ~w.fault
    BY <2>3, ErrorTail
  <2> HIDE DEF w
  <2>5. view.started = {}
    BY <2>2, NewViewFields
  <2> QED
    BY <2>1, <2>4, <2>5, NewTrackerIs, FinishStep
<1>3. committed \in BOOLEAN
  BY DEF NativeInv, NativeTypeOK
<1> QED  BY <1>1, <1>2, <1>3

\* The attempt is repeated, while the client knows nothing of it.
LEMMA StartOverStep ==
  ASSUME NativeInv, stage \in Active, StartOver, ~committed,
         retries' \in 0..EarlyRetries, clamped' \in BOOLEAN
  PROVE  NativeStep
<1>1. /\ stage' = "opening" /\ policy' = NewPolicy /\ tracker' = NewTracker
      /\ view' = client /\ thinks' = thinks /\ client' = client
      /\ committed' = committed /\ unusual' = {}
  BY DEF StartOver
<1>2. client = NewView
  BY WhileActive
<1>3. NewPolicy \in Policy
  <2>1. NewSegment \in Segment
    BY DEF NewSegment, Segment, NoBlock
  <2> QED  BY <2>1 DEF NewPolicy, Policy
<1>4. NativeTypeOK'
  <2>1. (/\ DOMAIN tracker.block \subseteq Nat /\ tracker.next \in Nat
         /\ \A i \in DOMAIN tracker.block : tracker.block[i] \in EmittedBlock
         /\ tracker.reason \in BOOLEAN /\ tracker.stopped \in BOOLEAN)'
    BY <1>1, NewTrackerIs, TrackerTyped
  <2> QED
    BY <1>1, <1>2, <1>3, <2>1, NewViewFields DEF NativeInv, NativeTypeOK, Active
<1>5. Midway'
  <2>1. Stand(NewPolicy, NewTracker, NewView)'
    BY NewViewFields DEF Stand
  <2>2. OneLive(NewPolicy)
    BY DEF OneLive, NewPolicy, NewSegment
  <2> QED
    BY <1>1, <1>2, <2>1, <2>2, NewViewFields, NewTrackerIs
    DEF Midway, Agree, OneLive, Stand, Bare
<1>6. (IsTracker(tracker) /\ Unasked(tracker))'
  BY <1>1, NewTrackerIs DEF Unasked
<1>7. (ContractKept /\ SalvagedIsWhole)'
  BY <1>1, <1>2, NewViewFields DEF ContractKept, SalvagedIsWhole
<1>8. UNCHANGED Message!vars
  BY <1>1 DEF Message!vars, MessagePhase, Active, Ended
<1> QED
  BY <1>1, <1>2, <1>4, <1>5, <1>6, <1>7, <1>8 DEF NativeStep, NativeInv

\* A failing attempt is repeated, completed or closed with an error.
LEMMA FailStep ==
  ASSUME NativeInv, stage \in Active, NEW retryable \in BOOLEAN, Fail(retryable)
  PROVE  NativeStep
<1>1. CASE retryable /\ MayRetryEarly /\ StartOver /\ retries' = retries + 1 /\ UNCHANGED clamped
  <2>1. retries' \in 0..EarlyRetries /\ clamped' \in BOOLEAN
    BY <1>1, NativeAssumption DEF NativeInv, NativeTypeOK, MayRetryEarly
  <2> QED  BY <1>1, <2>1, StartOverStep DEF MayRetryEarly
<1>2. CASE /\ stage' = "recovering"
           /\ UNCHANGED <<thinks, policy, tracker, view, client, committed, retries,
                          clamped, unusual>>
  BY <1>2, QuietStep
<1>3. CASE FinalError
  BY <1>3, FinalErrorStep
<1> QED  BY <1>1, <1>2, <1>3 DEF Fail

\* A refused request is clamped and repeated, or closed with an error.
LEMMA OpenFailsStep == ASSUME NativeInv, OpenFails PROVE NativeStep
<1>1. stage \in Active /\ stage = "opening"
  BY DEF OpenFails, Active
<1>2. ~committed
  BY <1>1 DEF NativeInv, Midway
<1>3. CASE ~clamped /\ StartOver /\ clamped' = TRUE /\ UNCHANGED retries
  BY <1>1, <1>2, <1>3, StartOverStep DEF NativeInv, NativeTypeOK
<1>4. CASE FinalError
  BY <1>1, <1>4, FinalErrorStep
<1> QED  BY <1>3, <1>4 DEF OpenFails

\* A stream that was ended by the provider.
LEMMA StreamEndsStep == ASSUME NativeInv, StreamEnds PROVE NativeStep
<1>1. stage \in Active /\ tracker.stopped /\ Finish(tracker, view, "complete", {})
  BY DEF StreamEnds, Active
<1>2. view.phase = "ended"
  BY <1>1, WhileActive, NewTrackerIs DEF Stand
<1>3. (view.started # {} \/ "empty" \in unusual) /\ view.open = {}
  BY <1>1, <1>2, WhileActive DEF Agree
<1> QED
  BY <1>1, <1>3, WhileActive, FinishStep

-----------------------------------------------------------------------------
(* Recovery.                                                               *)

\* The end of an answer, whatever went wrong before.
LEMMA TailEnds ==
  ASSUME NEW t, NEW v \in View, v.started = Blocks(t),
         \A b \in v.open : b[1] \in OpenBlocks(t), t.stopped => v.phase = "ended"
  PROVE  LET w == SuccessTail(v, t) IN
         /\ w \in View /\ w.open = {} /\ w.started = Blocks(t)
         /\ t.stopped /\ t.reason /\ OpenBlocks(t) = {} => w.fault = v.fault
<1> DEFINE c == CloseAll(v, t)
           d == IF t.reason THEN c ELSE MessageDelta(c)
           w == IF t.stopped THEN d ELSE MessageStop(d)
<1>1. /\ c \in View /\ c.phase = v.phase /\ c.open = {} /\ c.started = Blocks(t)
      /\ OpenBlocks(t) = {} => c.fault = v.fault
  BY AllClosed
<1> HIDE DEF c
<1>2. /\ d \in View /\ d.open = {} /\ d.started = Blocks(t)
      /\ t.reason => d = c
  BY <1>1, MessageDeltaFields
<1> HIDE DEF d
<1>3. /\ w \in View /\ w.open = {} /\ w.started = Blocks(t)
      /\ t.stopped => w = d
  BY <1>2, MessageStopFields
<1>4. SuccessTail(v, t) = w
  BY DEF SuccessTail, c, d
<1> QED
  BY <1>1, <1>2, <1>3, <1>4

\* A broken answer is ended with its calls completed.
LEMMA SalvageStep == ASSUME NativeInv, Salvage PROVE NativeStep
<1> DEFINE R == IncompleteTools(tracker)
           f == [i \in Blocks(tracker) |->
                   IF i \in R THEN [tracker.block[i] EXCEPT !.content = "whole"]
                   ELSE tracker.block[i]]
           t == [tracker EXCEPT !.block = f]
           u == ObserveStops(t, OpenBlocks(t))
           v == BlockDeltas(view, R, "tool_use")
           w == SuccessTail(v, t)
           odd == IF R \subseteq OpenBlocks(tracker) THEN {} ELSE {"late_repair"}
<1>1. /\ stage \in Active /\ ToolBlocks(tracker) # {}
      /\ \A i \in R : Repairable(tracker.block[i])
      /\ Finish(u, w, "salvaged", odd)
  BY DEF Salvage, Active
<1>2. R \subseteq Blocks(tracker)
  BY DEF IncompleteTools, ToolBlocks
<1>3. f \in [Blocks(tracker) -> EmittedBlock]
  BY <1>1, WhileActive DEF IsTracker, EmittedBlock, Contents
<1>4. \A i \in Blocks(tracker) :
         /\ f[i].kind = tracker.block[i].kind /\ f[i].named = tracker.block[i].named
         /\ f[i].open = tracker.block[i].open
         /\ f[i].content = IF i \in R THEN "whole" ELSE tracker.block[i].content
  BY <1>1, WhileActive DEF IsTracker, EmittedBlock
<1>5. t.block = f /\ t.next = tracker.next /\ t = [tracker EXCEPT !.next = t.next, !.block = t.block]
  BY <1>1, WhileActive DEF IsTracker
<1> HIDE DEF f, t
<1>6. /\ IsTracker(t) /\ Blocks(t) = Blocks(tracker)
      /\ t.reason = tracker.reason /\ t.stopped = tracker.stopped
  <2>1. Blocks(tracker) \subseteq Nat /\ tracker.next \in Nat
    BY <1>1, WhileActive DEF IsTracker
  <2> QED
    BY <1>1, <1>3, <1>5, <2>1, WhileActive, Reblocked
<1>7. OpenBlocks(t) = OpenBlocks(tracker)
  BY <1>4, <1>5, <1>6 DEF OpenBlocks
<1>8. /\ IsTracker(u) /\ Blocks(u) = Blocks(tracker)
      /\ \A i \in Blocks(tracker) : /\ u.block[i].kind = t.block[i].kind
                                    /\ u.block[i].named = t.block[i].named
                                    /\ u.block[i].content = t.block[i].content
  BY <1>6, StopsObserved
<1> HIDE DEF u, R
<1>9. Unasked(u)
  BY <1>1, <1>4, <1>5, <1>8, WhileActive DEF Unasked
<1>10. \A i \in ToolBlocks(u) : Whole(u.block[i])
  <2> SUFFICES ASSUME NEW i \in ToolBlocks(u)
               PROVE  u.block[i].named /\ u.block[i].content = "whole"
    BY DEF Whole
  <2>1. /\ i \in Blocks(tracker) /\ tracker.block[i].kind = "tool_use"
        /\ u.block[i].named = tracker.block[i].named
        /\ u.block[i].content = IF i \in R THEN "whole" ELSE tracker.block[i].content
    BY <1>4, <1>5, <1>8 DEF ToolBlocks
  <2>2. CASE i \in R
    BY <1>1, <2>1, <2>2 DEF Repairable
  <2>3. CASE i \notin R
    BY <2>1, <2>3 DEF R, IncompleteTools, ToolBlocks, Whole
  <2> QED  BY <2>2, <2>3
<1>11. /\ v \in View /\ v.phase = view.phase /\ v.started = view.started /\ v.open = view.open
       /\ v.fault = (view.fault \/
                \E i \in R : view.phase # "open" \/ <<i, "tool_use">> \notin view.open)
  <2>1. view \in View
    BY <1>1, WhileActive
  <2> QED  BY <2>1, BlockDeltasFields
<1> HIDE DEF v
<1>12. v.started = Blocks(t) /\ \A b \in v.open : b[1] \in OpenBlocks(t)
  <2>1. Agree(tracker, view)
    BY <1>1, WhileActive
  <2> QED  BY <1>6, <1>7, <1>11, <2>1, OpenKnown DEF Agree
<1>13. view.phase \in {"open", "ended"} /\ Blocks(t) # {}
  BY <1>1, <1>6, WhileActive DEF ToolBlocks
<1>14. t.stopped => v.phase = "ended"
  BY <1>1, <1>6, <1>11, <1>13, WhileActive
<1>15. /\ w \in View /\ w.open = {} /\ w.started = Blocks(t)
       /\ t.stopped /\ t.reason /\ OpenBlocks(t) = {} => w.fault = v.fault
  BY <1>11, <1>12, <1>14, TailEnds
<1>16. R \subseteq OpenBlocks(tracker) => ~w.fault
  <2> SUFFICES ASSUME R \subseteq OpenBlocks(tracker) PROVE ~w.fault
    OBVIOUS
  <2>1. CASE view.phase = "open"
    <3>1. \A i \in R : <<i, "tool_use">> \in view.open
      <4> SUFFICES ASSUME NEW i \in R PROVE <<i, "tool_use">> \in view.open
        OBVIOUS
      <4>1. tracker.block[i].kind = "tool_use" /\ i \in OpenBlocks(tracker)
        BY DEF R, IncompleteTools, ToolBlocks
      <4>2. Agree(tracker, view)
        BY <1>1, WhileActive
      <4> QED  BY <4>1, <4>2 DEF Agree
    <3>2. ~v.fault /\ v.phase = "open"
      BY <1>1, <1>11, <2>1, <3>1, WhileActive
    <3>3. Agree(t, v)
      <4>1. Agree(tracker, view)
        BY <1>1, WhileActive
      <4>2. \A i \in OpenBlocks(tracker) : t.block[i].kind = tracker.block[i].kind
        BY <1>4, <1>5 DEF OpenBlocks
      <4>3. view.open = {<<i, t.block[i].kind>> : i \in OpenBlocks(tracker)}
        BY <4>1, <4>2 DEF Agree
      <4> QED  BY <1>5, <1>6, <1>7, <1>11, <4>1, <4>3 DEF Agree
    <3>4. Even(t, v) /\ ~t.stopped
      BY <1>1, <1>6, <1>11, <2>1, <3>2, <3>3, WhileActive DEF Even, Match
    <3> QED  BY <1>13, <3>4, SuccessEnds
  <2>2. CASE view.phase = "ended"
    <3>1. /\ ~view.fault /\ OpenBlocks(tracker) = {} /\ tracker.stopped /\ tracker.reason
      BY <1>1, <1>6, <1>13, <2>2, WhileActive
    <3>2. R = {}
      BY <3>1
    <3> QED  BY <1>6, <1>7, <1>11, <1>15, <3>1, <3>2
  <2> QED  BY <1>13, <2>1, <2>2
<1> HIDE DEF w
<1>17. w.fault => (unusual \cup odd) \cap {"late_repair", "past_stop", "empty"} # {}
  BY <1>16
<1>18. odd \subseteq Unusual
  BY DEF Unusual
<1>19. view.started = Blocks(t)
  BY <1>11, <1>12
<1> HIDE DEF odd
<1> QED
  BY <1>1, <1>8, <1>9, <1>10, <1>13, <1>15, <1>17, <1>18, <1>19, FinishStep

\* The last of some blocks.
LEMMA LastOne ==
  ASSUME NEW B, B \subseteq Nat, B # {}, NEW n \in Nat, \A l \in B : l < n
  PROVE  \E j \in B : \A l \in B : l <= j
<1> DEFINE U == {m \in Nat : \A l \in B : l <= m}
<1>1. U \subseteq Nat /\ n \in U
  OBVIOUS
<1>2. \E m \in U : \A y \in U : ~(<<y, m>> \in OpToRel(<, Nat))
  BY <1>1, NatLessThanWellFounded, WFMin, Zenon
<1>3. PICK m \in U : \A y \in U : ~(y < m)
  BY <1>1, <1>2 DEF OpToRel
<1>4. m \in B
  <2> SUFFICES ASSUME m \notin B PROVE FALSE
    OBVIOUS
  <2>1. \A l \in B : l < m
    BY <1>3
  <2>2. m # 0
    <3>1. PICK l \in B : TRUE
      OBVIOUS
    <3> QED  BY <2>1, <3>1
  <2>3. m - 1 \in U
    BY <1>3, <2>1, <2>2
  <2> QED  BY <1>3, <2>3
<1> QED  BY <1>3, <1>4

\* A suffixed pair is a pair.
LEMMA SuffixPair ==
  ASSUME NEW s, NEW k
  PROVE  LET r == Suffixed(s, k) IN r = [t |-> r.t, v |-> r.v]
  BY DEF Suffixed

\* A suffix goes to a block of its kind, begun for it if there is none.
LEMMA SuffixMatch ==
  ASSUME NEW t, NEW v, Match(t, v), NEW k \in Kinds
  PROVE  LET s == Suffixed([t |-> t, v |-> v], k) IN
         /\ Match(s.t, s.v) /\ s.v.phase = v.phase
         /\ v.phase = "open" /\ ~v.fault => ~s.v.fault
         /\ v.started \subseteq s.v.started
         /\ s.t.stopped = t.stopped /\ Blocks(s.t) # {}
         /\ \A j \in Blocks(s.t) :
               s.t.block[j].kind = k \/ (j \in Blocks(t) /\ s.t.block[j].kind = t.block[j].kind)
<1> DEFINE B == {i \in OpenBlocks(t) : t.block[i].kind = k}
           s == Suffixed([t |-> t, v |-> v], k)
<1>1. "part" \in Contents
  BY DEF Contents
<1>2. CASE B = {}
  <2> DEFINE n == t.next
             r == ObserveStart(t, n, k, FALSE)
             w == BlockStart(v, n, k)
             x == ObserveDelta(r, n, "part")
             y == BlockDelta(w, n, k)
  <2>1. s = [t |-> x, v |-> y]
    BY <1>2 DEF Suffixed
  <2>2. /\ Match(r, w) /\ w.phase = v.phase /\ Ahead(v, w)
        /\ v.phase = "open" /\ ~v.fault => ~w.fault
        /\ Blocks(r) = Blocks(t) \cup {n} /\ OpenBlocks(r) = OpenBlocks(t) \cup {n}
        /\ r.block[n].kind = k /\ \A j \in Blocks(t) : r.block[j] = t.block[j]
        /\ r.stopped = t.stopped
    <3> DEFINE no == FALSE
    <3>1. no \in BOOLEAN
      OBVIOUS
    <3>2. r = ObserveStart(t, t.next, k, no) /\ w = BlockStart(v, t.next, k) /\ n = t.next
      OBVIOUS
    <3> HIDE DEF r, w, n, no
    <3> QED  BY <3>1, <3>2, StartedMatch
  <2> HIDE DEF r, w, n
  <2>3. /\ Match(x, y) /\ y.phase = w.phase /\ Ahead(w, y) /\ Blocks(x) = Blocks(r)
        /\ w.phase = "open" /\ ~w.fault => ~y.fault
        /\ \A j \in Blocks(r) : x.block[j].kind = r.block[j].kind
        /\ x.stopped = r.stopped
    BY <1>1, <2>2, DeltaMatch
  <2> HIDE DEF x, y, s
  <2> QED
    BY <2>1, <2>2, <2>3 DEF Ahead, s
<1>3. CASE B # {}
  <2> DEFINE i == CHOOSE j \in B : \A l \in B : l <= j
             x == ObserveDelta(t, i, "part")
             y == BlockDelta(v, i, k)
  <2>1. s = [t |-> x, v |-> y]
    BY <1>3 DEF Suffixed
  <2>2. B \subseteq Nat /\ t.next \in Nat /\ \A l \in B : l < t.next
    BY DEF Match, IsTracker, Agree, OpenBlocks
  <2>3. \E j \in B : \A l \in B : l <= j
    <3> HIDE DEF B
    <3> QED  BY <1>3, <2>2, LastOne
  <2>4. i \in OpenBlocks(t) /\ t.block[i].kind = k
    BY <2>3
  <2> HIDE DEF i
  <2>5. /\ Match(x, y) /\ y.phase = v.phase /\ Ahead(v, y) /\ Blocks(x) = Blocks(t)
        /\ v.phase = "open" /\ ~v.fault => ~y.fault
        /\ \A j \in Blocks(t) : x.block[j].kind = t.block[j].kind
        /\ x.stopped = t.stopped
    BY <1>1, <2>4, DeltaMatch
  <2>6. Blocks(t) # {}
    BY <2>4 DEF OpenBlocks
  <2> HIDE DEF x, y, s
  <2> QED
    BY <2>1, <2>5, <2>6 DEF Ahead, s
<1> QED  BY <1>2, <1>3

\* A broken text is continued, and ended.
LEMMA ContinueStep ==
  ASSUME NativeInv, NEW thinking \in BOOLEAN, NEW text \in BOOLEAN, Continue(thinking, text)
  PROVE  NativeStep
<1> DEFINE s == [t |-> tracker, v |-> view]
           a == IF thinking THEN Suffixed(s, "thinking") ELSE s
           b == IF text THEN Suffixed(a, "text") ELSE a
           u == ObserveStops(b.t, OpenBlocks(b.t))
           w == SuccessTail(b.v, b.t)
           odd == IF tracker.stopped THEN {"past_stop"} ELSE {}
<1>1. /\ stage \in Active /\ (thinking => thinks)
      /\ Blocks(tracker) # {} /\ Finish(u, w, "continued", odd)
  BY DEF Continue, Active
<1>2. Match(tracker, view) /\ "thinking" \in Kinds /\ "text" \in Kinds
  BY <1>1, WhileActive DEF Match, Kinds
<1>3. /\ a = [t |-> a.t, v |-> a.v] /\ Match(a.t, a.v) /\ a.v.phase = view.phase
      /\ view.phase = "open" /\ ~view.fault => ~a.v.fault
      /\ view.started \subseteq a.v.started
      /\ a.t.stopped = tracker.stopped /\ Blocks(a.t) # {} /\ Unasked(a.t)
  <2>1. CASE thinking
    <3>1. a = [t |-> a.t, v |-> a.v]
      BY <2>1, SuffixPair
    <3>2. /\ Match(a.t, a.v) /\ a.v.phase = view.phase
          /\ view.phase = "open" /\ ~view.fault => ~a.v.fault
          /\ view.started \subseteq a.v.started
          /\ a.t.stopped = tracker.stopped /\ Blocks(a.t) # {}
      BY <1>2, <2>1, SuffixMatch
    <3> QED  BY <1>1, <2>1, <3>1, <3>2 DEF Unasked
  <2>2. CASE ~thinking
    <3>1. a.t = tracker /\ a.v = view /\ a = [t |-> a.t, v |-> a.v]
      BY <2>2
    <3> QED  BY <1>1, <1>2, <3>1, WhileActive
  <2> QED  BY <2>1, <2>2
<1> HIDE DEF a
<1>4. /\ Match(b.t, b.v) /\ b.v.phase = view.phase
      /\ view.phase = "open" /\ ~view.fault => ~b.v.fault
      /\ view.started \subseteq b.v.started
      /\ b.t.stopped = tracker.stopped /\ Blocks(b.t) # {} /\ Unasked(b.t)
  <2>1. CASE text
    <3> DEFINE at == a.t
               av == a.v
               c == Suffixed([t |-> at, v |-> av], "text")
    <3>1. a = [t |-> at, v |-> av]
      BY <1>3
    <3>2. b = c
      BY <2>1, <3>1
    <3>3. Match(at, av)
      BY <1>3
    <3> DEFINE k == "text"
    <3>6. c = Suffixed([t |-> at, v |-> av], k) /\ k \in Kinds
      BY <1>2
    <3> HIDE DEF at, av, b, k
    <3>4. /\ Match(c.t, c.v) /\ c.v.phase = av.phase
          /\ av.phase = "open" /\ ~av.fault => ~c.v.fault
          /\ av.started \subseteq c.v.started
          /\ c.t.stopped = at.stopped /\ Blocks(c.t) # {}
          /\ \A j \in Blocks(c.t) :
                c.t.block[j].kind = k \/ (j \in Blocks(at) /\ c.t.block[j].kind = at.block[j].kind)
      BY <1>2, <3>3, <3>6, SuffixMatch
    <3> HIDE DEF c
    <3>5. Unasked(c.t)
      BY <1>3, <3>4 DEF Unasked, at, k
    <3> QED  BY <1>3, <3>2, <3>4, <3>5 DEF at, av
  <2>2. CASE ~text
    BY <1>3, <2>2
  <2> QED  BY <2>1, <2>2
<1> DEFINE bt == b.t
           bv == b.v
<1>5. /\ IsTracker(bt) /\ bv \in View /\ bv.started = Blocks(bt)
      /\ \A x \in bv.open : x[1] \in OpenBlocks(bt)
  BY <1>4, OpenKnown DEF Match, Agree
<1>6. u = ObserveStops(bt, OpenBlocks(bt)) /\ w = SuccessTail(bv, bt)
  OBVIOUS
<1>7. /\ Match(bt, bv) /\ bv.phase = view.phase
      /\ view.phase = "open" /\ ~view.fault => ~bv.fault
      /\ view.started \subseteq bv.started
      /\ bt.stopped = tracker.stopped /\ Blocks(bt) # {} /\ Unasked(bt)
  BY <1>4
<1> HIDE DEF b, bt, bv, u, w
<1>8. /\ IsTracker(u) /\ Blocks(u) = Blocks(bt)
      /\ \A j \in Blocks(bt) : u.block[j].kind = bt.block[j].kind
  BY <1>5, <1>6, StopsObserved
<1>9. Unasked(u)
  BY <1>7, <1>8 DEF Unasked
<1>10. /\ view.phase \in {"open", "ended"} /\ ~view.fault
       /\ view.phase = "open" => ~tracker.stopped
       /\ view.phase = "ended" => tracker.stopped
  BY <1>1, WhileActive
<1>11. w \in View /\ w.open = {} /\ w.started = Blocks(bt)
  BY <1>5, <1>6, <1>7, <1>10, TailEnds
<1>12. ~tracker.stopped => ~w.fault
  <2> SUFFICES ASSUME ~tracker.stopped PROVE ~w.fault
    OBVIOUS
  <2>1. Even(bt, bv) /\ ~bt.stopped /\ Blocks(bt) # {}
    BY <1>7, <1>10 DEF Even
  <2> QED  BY <1>6, <2>1, SuccessEnds
<1>13. w.fault => (unusual \cup odd) \cap {"late_repair", "past_stop", "empty"} # {}
  BY <1>12
<1>14. odd \subseteq Unusual
  BY DEF Unusual
<1>15. w.started # {} /\ view.started \subseteq w.started
  BY <1>5, <1>7, <1>11
<1> HIDE DEF odd
<1> QED
  BY <1>1, <1>8, <1>9, <1>11, <1>13, <1>14, <1>15, FinishStep

\* The client goes away.
LEMMA DisconnectStep == ASSUME NativeInv, Disconnect PROVE NativeStep
<1>1. /\ stage \in Active /\ stage' = "gone"
      /\ UNCHANGED <<thinks, policy, tracker, view, client, committed, retries,
                     clamped, unusual>>
  BY DEF Disconnect
<1>2. NativeTypeOK'
  BY <1>1 DEF NativeInv, NativeTypeOK, Ended
<1>3. (IsTracker(tracker) /\ Unasked(tracker) /\ ContractKept)'
  BY <1>1 DEF NativeInv, Unasked, ContractKept
<1>4. Midway' /\ SalvagedIsWhole'
  BY <1>1 DEF Midway, SalvagedIsWhole, Active
<1>5. Message!Abandon
  BY <1>1 DEF Message!Abandon, MessagePhase, Active, Ended
<1> QED
  BY <1>1, <1>2, <1>3, <1>4, <1>5 DEF NativeStep, NativeInv, Message!Next

-----------------------------------------------------------------------------
(* Every step.                                                             *)

\* The books are in order at the start.
LEMMA NativeStarts == NativeInit => NativeInv
<1> SUFFICES ASSUME NativeInit PROVE NativeInv
  OBVIOUS
<1>1. NewPolicy \in Policy
  <2>1. NewSegment \in Segment
    BY DEF NewSegment, Segment, NoBlock
  <2> QED  BY <2>1 DEF NewPolicy, Policy
<1>2. NativeTypeOK
  <2>1. /\ DOMAIN tracker.block \subseteq Nat /\ tracker.next \in Nat
        /\ \A i \in DOMAIN tracker.block : tracker.block[i] \in EmittedBlock
        /\ tracker.reason \in BOOLEAN /\ tracker.stopped \in BOOLEAN
    BY NewTrackerIs, TrackerTyped DEF NativeInit
  <2>2. stage \in Active /\ retries = 0 /\ committed = FALSE /\ clamped = FALSE /\ unusual = {}
    BY DEF NativeInit, Active
  <2>3. 0 \in 0..EarlyRetries
    BY NativeAssumption
  <2> QED
    BY <1>1, <2>1, <2>2, <2>3, NewViewFields DEF NativeInit, NativeTypeOK
<1>3. Midway
  <2>1. Stand(NewPolicy, NewTracker, NewView)
    BY NewViewFields DEF Stand
  <2>2. OneLive(NewPolicy)
    BY DEF OneLive, NewPolicy, NewSegment
  <2> QED
    BY <2>1, <2>2, NewViewFields, NewTrackerIs DEF NativeInit, Midway, Bare
<1>4. ContractKept /\ SalvagedIsWhole
  BY NewViewFields DEF NativeInit, ContractKept, SalvagedIsWhole
<1> QED
  BY <1>2, <1>3, <1>4, NewTrackerIs DEF NativeInit, NativeInv

\* Every step keeps the books, and changes the client's view as a message grows.
LEMMA NativeNextStep == ASSUME NativeInv, NativeNext PROVE NativeStep
<1>1. CASE Open
  BY <1>1, QuietStep DEF Open, Active
<1>2. CASE OpenFails
  BY <1>2, OpenFailsStep
<1>3. CASE Events
  BY <1>3, MessageStartsStep, MessageDeltasStep, MessageStopsStep, StartStep, DeltaStep,
     StopStep DEF Events
<1>4. CASE StreamOver
  <2>1. CASE StreamEnds
    BY <2>1, StreamEndsStep
  <2>2. CASE StreamFails
    BY <2>2, FailStep DEF StreamFails, Active
  <2>3. CASE Truncated
    BY <2>3, FailStep DEF Truncated, Active
  <2> QED  BY <1>4, <2>1, <2>2, <2>3 DEF StreamOver
<1>5. CASE Recovery
  <2>1. CASE Salvage
    BY <2>1, SalvageStep
  <2>2. CASE RecoveryFails
    BY <2>2, FinalErrorStep DEF RecoveryFails, Active
  <2>3. CASE \E thinking, text \in BOOLEAN : Continue(thinking, text)
    BY <2>3, ContinueStep
  <2> QED  BY <1>5, <2>1, <2>2, <2>3 DEF Recovery
<1>6. CASE Disconnect
  BY <1>6, DisconnectStep
<1> QED
  BY <1>1, <1>2, <1>3, <1>4, <1>5, <1>6 DEF NativeNext

\* A step of others changes nothing.
LEMMA NativeRests == ASSUME NativeInv, UNCHANGED nativeVars PROVE NativeStep
<1> USE DEF nativeVars
<1>1. NativeTypeOK'
  BY DEF NativeInv, NativeTypeOK
<1>2. Midway'
  BY DEF NativeInv, Midway, Stand, Segments, Agree, OneLive, Bare
<1>3. (IsTracker(tracker) /\ Unasked(tracker) /\ ContractKept /\ SalvagedIsWhole)'
  BY DEF NativeInv, Unasked, ContractKept, SalvagedIsWhole
<1>4. UNCHANGED Message!vars
  BY DEF Message!vars, MessagePhase
<1> QED
  BY <1>1, <1>2, <1>3, <1>4 DEF NativeStep, NativeInv

\* What a run checks of a native stream, from its books.
LEMMA BooksSuffice == NativeInv => NativeStreamKept
<1> SUFFICES ASSUME NativeInv PROVE NativeStreamKept
  OBVIOUS
<1>1. TrackerAgrees
  BY DEF NativeInv, Midway, TrackerAgrees, Agree
<1>2. NoUnaskedThinking
  BY DEF NativeInv, NoUnaskedThinking, Unasked
<1>3. OneBlockAtATime
  <2> SUFFICES ASSUME stage \in Active, "late_delta" \notin unusual
               PROVE  Cardinality(view.open) <= 1
    BY DEF OneBlockAtATime
  <2>1. /\ view.open = {<<i, tracker.block[i].kind>> : i \in OpenBlocks(tracker)}
        /\ OneLive(policy)
    BY WhileActive DEF NativeInv, Midway, Agree
  <2>2. \A i, j \in OpenBlocks(tracker) : i = j
    <3>1. CASE view.phase = "open"
      <4>1. Segments(policy, tracker)
        BY <3>1, WhileActive DEF Stand
      <4> QED  BY <2>1, <4>1 DEF Segments, OneLive
    <3>2. CASE view.phase # "open"
      BY <3>2, WhileActive DEF OpenBlocks
    <3> QED  BY <3>1, <3>2
  <2>3. CASE OpenBlocks(tracker) = {}
    <3>1. view.open = {}
      BY <2>1, <2>3
    <3> QED  BY <3>1, FS_EmptySet
  <2>4. CASE OpenBlocks(tracker) # {}
    <3>1. PICK i \in OpenBlocks(tracker) : TRUE
      BY <2>4
    <3>2. view.open = {<<i, tracker.block[i].kind>>}
      BY <2>1, <2>2, <3>1
    <3>3. Cardinality(view.open) = 1
      BY <3>2, FS_Singleton
    <3> QED  BY <3>3
  <2> QED  BY <2>3, <2>4
<1> QED
  BY <1>1, <1>2, <1>3 DEF NativeInv, NativeStreamKept

-----------------------------------------------------------------------------
(* What a native stream keeps.                                             *)

\* The books of policy, tracker and view agree at every event.
THEOREM NativeBooks == NativeInit /\ [][NativeNext]_nativeVars => []NativeInv
<1>1. NativeInv /\ [NativeNext]_nativeVars => NativeInv'
  BY NativeNextStep, NativeRests DEF NativeStep
<1> QED
  BY NativeStarts, <1>1, PTL

\* The client's message keeps the contract, one block is open at a time, the
\* tracker knows which, a salvaged call is whole, and nobody gets thinking who
\* did not ask for it.
THEOREM NativeIsKept == NativeInit /\ [][NativeNext]_nativeVars => []NativeStreamKept
  BY NativeBooks, BooksSuffice, PTL

\* A native stream is a MessageStream to its client, which is told nothing of
\* an attempt that is repeated.
THEOREM NativeIsMessageStream == NativeInit /\ [][NativeNext]_nativeVars => NativeServes
<1>1. NativeInit => Message!Begin
  BY NewViewFields DEF NativeInit, Message!Begin, MessagePhase, Ended
<1>2. NativeInv /\ [NativeNext]_nativeVars => [Message!Next]_(Message!vars)
  BY NativeNextStep, NativeRests DEF NativeStep
<1>3. NativeInv /\ [NativeNext]_nativeVars
        => [retries' # retries \/ clamped' # clamped => client' = NewView]_nativeVars
  BY NativeNextStep DEF NativeStep
<1>4. NativeInit /\ [][NativeNext]_nativeVars => Message!Spec
  BY NativeBooks, <1>1, <1>2, PTL DEF Message!Spec
<1>5. NativeInit /\ [][NativeNext]_nativeVars => RetryIsInvisible
  BY NativeBooks, <1>3, PTL DEF RetryIsInvisible
<1> QED
  BY <1>4, <1>5 DEF NativeServes, ServesMessage

-----------------------------------------------------------------------------
(* Lists that are built one step after the other.                          *)

\* A set of numbers that is not empty has a least member.
LEMMA LeastOf ==
    ASSUME NEW T, T \subseteq Nat, T # {}
    PROVE  \E x \in T : \A y \in T : ~(y < x)
<1>1. \E x \in T : \A y \in T : ~(<<y, x>> \in OpToRel(<, Nat))
  BY NatLessThanWellFounded, WFMin, Zenon
<1> QED
  BY <1>1 DEF OpToRel

\* A set that holds 0, and each number up to n whose predecessor it holds, holds
\* them all.
LEMMA UpTo ==
    ASSUME NEW n \in Nat, NEW S, 0 \in S, \A i \in 1..n : i - 1 \in S => i \in S
    PROVE  \A i \in 0..n : i \in S
<1> DEFINE Bad == {i \in 0..n : i \notin S}
<1>1. ASSUME Bad # {} PROVE FALSE
  <2>1. Bad \subseteq Nat
    OBVIOUS
  <2>2. PICK x \in Bad : \A y \in Bad : ~(y < x)
    <3> HIDE DEF Bad
    <3> QED
      BY <1>1, <2>1, LeastOf
  <2>3. x \in 1..n /\ x - 1 \in 0..n /\ x - 1 < x
    BY <2>2
  <2> QED
    BY <2>2, <2>3
<1> QED
  BY <1>1

StepsBy(f, a, n, g) == f[0] = a /\ \A i \in 1..n : f[i] = g[i][f[i - 1]]

\* A recursive function over 0..n exists when its step is a function.
LEMMA Stepwise ==
    ASSUME NEW T, NEW a \in T, NEW n \in Nat, NEW g \in [1..n -> [T -> T]]
    PROVE  \E f \in [0..n -> T] : StepsBy(f, a, n, g)
<1> DEFINE Good(m) == \E f \in [0..m -> T] : f[0] = a /\ \A i \in 1..m : f[i] = g[i][f[i - 1]]
           S == {m \in 0..n : Good(m)}
<1>1. Good(0)
  <2> DEFINE h == [i \in 0..0 |-> a]
  <2>1. h \in [0..0 -> T] /\ h[0] = a /\ \A i \in 1..0 : h[i] = g[i][h[i - 1]]
    OBVIOUS
  <2> HIDE DEF h
  <2> QED
    BY <2>1
<1>2. ASSUME NEW m \in 1..n, Good(m - 1) PROVE Good(m)
  <2>1. PICK f \in [0..(m - 1) -> T] : f[0] = a /\ \A i \in 1..(m - 1) : f[i] = g[i][f[i - 1]]
    BY <1>2
  <2> DEFINE h == [i \in 0..m |-> IF i = m THEN g[m][f[m - 1]] ELSE f[i]]
  <2>2. f[m - 1] \in T /\ g[m] \in [T -> T]
    OBVIOUS
  <2>3. h \in [0..m -> T] /\ h[0] = a
    BY <2>1, <2>2
  <2>4. ASSUME NEW i \in 1..m PROVE h[i] = g[i][h[i - 1]]
    <3>1. h[i - 1] = f[i - 1]
      OBVIOUS
    <3> QED
      BY <2>1, <3>1
  <2> QED
    BY <2>3, <2>4
<1>3. 0 \in S /\ \A i \in 1..n : i - 1 \in S => i \in S
  <2> HIDE DEF Good
  <2> QED
    BY <1>1, <1>2
<1>4. n \in S
  <2> HIDE DEF S
  <2>1. \A i \in 0..n : i \in S
    BY <1>3, UpTo
  <2> QED
    BY <2>1
<1> QED
  BY <1>4 DEF StepsBy

\* What is appended unless it is there is there.
LEMMA AppendOccurs ==
    ASSUME NEW T, NEW s \in Seq(T), NEW x \in T
    PROVE  AppendUnique(s, x) \in Seq(T) /\ Occurs(AppendUnique(s, x), x)
<1>1. CASE Occurs(s, x)
  BY <1>1 DEF AppendUnique
<1>2. CASE ~Occurs(s, x)
  <2>1. AppendUnique(s, x) = Append(s, x)
    BY <1>2 DEF AppendUnique
  <2>2. /\ Append(s, x) \in Seq(T) /\ Len(Append(s, x)) = Len(s) + 1 /\ Len(s) \in Nat
        /\ Append(s, x)[Len(s) + 1] = x /\ Len(s) + 1 \in 1..(Len(s) + 1)
    OBVIOUS
  <2> QED
    BY <2>1, <2>2 DEF Occurs
<1> QED
  BY <1>1, <1>2

-----------------------------------------------------------------------------
(* The directives of a prompt.                                             *)

\* The prompt s holds the client's prompt, the first k directives, and nothing else.
Holds(T, prompt, ds, s, k) ==
    /\ s \in Seq(T) /\ Len(s) >= Len(prompt)
    /\ \A i \in 1..Len(prompt) : s[i] = prompt[i]
    /\ \A d \in 1..k : ds[d] # "" => \E i \in 1..Len(s) : s[i] = ds[d]
    /\ \A i \in (Len(prompt) + 1)..Len(s) :
          /\ \E d \in 1..k : s[i] = ds[d]
          /\ \A j \in 1..Len(s) : s[j] = s[i] => j = i

\* One directive more: it is there once, and the ones before it still are.
LEMMA HoldsOneMore ==
    ASSUME NEW T, NEW prompt \in Seq(T), NEW ds \in Seq(T), NEW k \in 1..Len(ds),
           NEW s, Holds(T, prompt, ds, s, k - 1)
    PROVE  Holds(T, prompt, ds, WithDirective(s, ds[k]), k)
<1> DEFINE d == ds[k]
           t == WithDirective(s, d)
<1>1. /\ d \in T /\ s \in Seq(T) /\ Len(s) \in Nat /\ Len(prompt) \in Nat /\ Len(s) >= Len(prompt)
      /\ k \in 1..k /\ \A i \in 1..k : i = k \/ i \in 1..(k - 1)
      /\ \A i \in 1..(k - 1) : i \in 1..k
  <2>1. Len(ds) \in Nat /\ ds[k] \in T
    OBVIOUS
  <2>2. s \in Seq(T) /\ Len(s) >= Len(prompt)
    BY DEF Holds
  <2>3. k \in 1..k /\ (\A i \in 1..k : i = k \/ i \in 1..(k - 1)) /\ \A i \in 1..(k - 1) : i \in 1..k
    BY <2>1
  <2> QED
    BY <2>1, <2>2, <2>3
<1>2. CASE d = ""
  <2>1. t = s
    BY <1>2 DEF WithDirective
  <2> HIDE DEF t
  <2>2. \A e \in 1..k : ds[e] # "" => \E i \in 1..Len(s) : s[i] = ds[e]
    BY <1>1, <1>2 DEF Holds
  <2>3. \A i \in (Len(prompt) + 1)..Len(s) :
           (\E e \in 1..k : s[i] = ds[e]) /\ \A j \in 1..Len(s) : s[j] = s[i] => j = i
    BY <1>1 DEF Holds
  <2>4. Holds(T, prompt, ds, t, k)
    BY <1>1, <2>1, <2>2, <2>3 DEF Holds
  <2> QED
    BY <2>4 DEF t
<1>3. CASE d # ""
  <2>1. t = AppendUnique(s, d)
    BY <1>3 DEF WithDirective
  <2>2. /\ t \in Seq(T) /\ Len(t) \in {Len(s), Len(s) + 1}
        /\ \A i \in 1..Len(s) : t[i] = s[i]
        /\ \E i \in 1..Len(t) : t[i] = d
        /\ Len(t) = Len(s) + 1 => t[Len(s) + 1] = d /\ \A i \in 1..Len(s) : s[i] # d
    <3>1. d \in T /\ s \in Seq(T)
      BY <1>1
    <3> HIDE DEF d, t
    <3>2. t \in Seq(T) /\ Occurs(t, d)
      BY <2>1, <3>1, AppendOccurs
    <3>3. t = s \/ (t = Append(s, d) /\ ~Occurs(s, d))
      BY <2>1 DEF AppendUnique
    <3>4. CASE t = s
      BY <1>1, <3>2, <3>4 DEF Occurs
    <3>5. CASE t = Append(s, d) /\ ~Occurs(s, d)
      <4>1. /\ Len(Append(s, d)) = Len(s) + 1 /\ Append(s, d)[Len(s) + 1] = d
            /\ \A i \in 1..Len(s) : Append(s, d)[i] = s[i]
        BY <3>1
      <4> QED
        BY <3>2, <3>5, <4>1 DEF Occurs
    <3> QED
      BY <3>3, <3>4, <3>5
  <2> HIDE DEF t
  <2>3. Len(t) >= Len(prompt) /\ \A i \in 1..Len(prompt) : t[i] = prompt[i]
    <3>0. \A i \in 1..Len(prompt) : s[i] = prompt[i]
      BY DEF Holds
    <3>1. \A i \in 1..Len(prompt) : i \in 1..Len(s) /\ s[i] = prompt[i]
      BY <1>1, <3>0
    <3> QED
      BY <1>1, <2>2, <3>1
  <2>4. ASSUME NEW e \in 1..k, ds[e] # "" PROVE \E i \in 1..Len(t) : t[i] = ds[e]
    <3>1. CASE e = k
      BY <2>2, <3>1
    <3>2. CASE e \in 1..(k - 1)
      <4>1. PICK i \in 1..Len(s) : s[i] = ds[e]
        BY <2>4, <3>2 DEF Holds
      <4> QED
        BY <1>1, <2>2, <4>1
    <3> QED
      BY <1>1, <3>1, <3>2
  <2>5. ASSUME NEW i \in (Len(prompt) + 1)..Len(t)
        PROVE  (\E e \in 1..k : t[i] = ds[e]) /\ \A j \in 1..Len(t) : t[j] = t[i] => j = i
    <3>1. CASE i = Len(s) + 1
      <4>1. Len(t) = Len(s) + 1 /\ \A j \in 1..Len(t) : j = Len(s) + 1 \/ j \in 1..Len(s)
        BY <1>1, <2>2, <3>1
      <4> QED
        BY <1>1, <2>2, <3>1, <4>1
    <3>2. CASE i \in (Len(prompt) + 1)..Len(s)
      <4>1. t[i] = s[i] /\ i \in 1..Len(s)
        BY <1>1, <2>2, <3>2
      <4>2. \E e \in 1..(k - 1) : s[i] = ds[e]
        BY <3>2 DEF Holds
      <4>3. \A j \in 1..Len(s) : s[j] = s[i] => j = i
        BY <3>2 DEF Holds
      <4>4. \A j \in 1..Len(t) : j \in 1..Len(s) \/ (j = Len(s) + 1 /\ Len(t) = Len(s) + 1)
        BY <1>1, <2>2
      <4> QED
        BY <1>1, <2>2, <4>1, <4>2, <4>3, <4>4
    <3> QED
      BY <1>1, <2>2, <3>1, <3>2
  <2> QED
    BY <2>2, <2>3, <2>4, <2>5 DEF Holds, t
<1> QED
  BY <1>2, <1>3

\* The directed prompt holds the client's and every directive.
LEMMA DirectedHolds ==
    ASSUME NEW T, NEW prompt \in Seq(T), NEW ds \in Seq(T)
    PROVE  LET with[i \in 0..Len(ds)] == IF i = 0 THEN prompt ELSE WithDirective(with[i - 1], ds[i])
           IN  Holds(T, prompt, ds, with[Len(ds)], Len(ds))
<1> DEFINE n == Len(ds)
           g == [i \in 1..n |-> [s \in Seq(T) |-> WithDirective(s, ds[i])]]
           w == CHOOSE f : f = [i \in 0..n |-> IF i = 0 THEN prompt ELSE WithDirective(f[i - 1], ds[i])]
<1>1. n \in Nat /\ \A i \in 1..n : ds[i] \in T
  OBVIOUS
<1>2. g \in [1..n -> [Seq(T) -> Seq(T)]]
  <2>1. \A i \in 1..n, s \in Seq(T) : WithDirective(s, ds[i]) \in Seq(T)
    BY <1>1, AppendOccurs DEF WithDirective
  <2> HIDE DEF n
  <2> QED
    BY <2>1
<1>3. PICK f \in [0..n -> Seq(T)] : f[0] = prompt /\ \A i \in 1..n : f[i] = g[i][f[i - 1]]
  <2> DEFINE U == Seq(T)
  <2>1. n \in Nat /\ prompt \in U /\ g \in [1..n -> [U -> U]]
    BY <1>1, <1>2
  <2> HIDE DEF g, n, U
  <2>2. \E f \in [0..n -> U] : StepsBy(f, prompt, n, g)
    BY <2>1, Stepwise
  <2> QED
    BY <2>2 DEF U, StepsBy
<1>4. \A i \in 1..n : f[i] = WithDirective(f[i - 1], ds[i])
  <2>1. \A i \in 1..n, s \in Seq(T) : g[i][s] = WithDirective(s, ds[i])
    OBVIOUS
  <2>2. \A i \in 1..n : f[i - 1] \in Seq(T)
    <3> DEFINE U == Seq(T)
    <3>1. n \in Nat /\ f \in [0..n -> U]
      BY <1>1, <1>3
    <3> HIDE DEF n, U
    <3>2. \A i \in 1..n : i - 1 \in 0..n
      BY <3>1
    <3> QED
      BY <3>1, <3>2 DEF U
  <2> HIDE DEF g, n
  <2> QED
    BY <1>3, <2>1, <2>2
<1>5. f = [i \in 0..n |-> IF i = 0 THEN prompt ELSE WithDirective(f[i - 1], ds[i])]
  BY <1>1, <1>3, <1>4
<1>6. w = [i \in 0..n |-> IF i = 0 THEN prompt ELSE WithDirective(w[i - 1], ds[i])]
  BY <1>5, Zenon
<1> HIDE DEF w
<1>8. w[0] = prompt /\ \A i \in 1..n : w[i] = WithDirective(w[i - 1], ds[i])
  BY <1>1, <1>6
<1>9. Holds(T, prompt, ds, w[0], 0)
  BY <1>8 DEF Holds
<1> DEFINE S == {i \in 0..n : Holds(T, prompt, ds, w[i], i)}
<1>10. \A i \in 1..n : i - 1 \in S => i \in S
  BY <1>1, <1>8, HoldsOneMore
<1>11. n \in S
  <2>1. 0 \in S
    BY <1>1, <1>9
  <2> HIDE DEF S, n
  <2>2. \A i \in 0..n : i \in S
    BY <1>1, <1>10, <2>1, UpTo
  <2> QED
    BY <1>1, <2>2
<1> QED
  BY <1>11, Zenon DEF w

-----------------------------------------------------------------------------
(* The ids that the API advertises.                                        *)

Ids == {GatewayId(r, (r \in cfg.wide)) : r \in Paths} \cup {QuietId(r, (r \in cfg.wide)) : r \in Paths}

\* A list whose members differ still has none twice after _append_unique_model().
LEMMA AppendDistinct ==
    ASSUME NEW T, NEW s \in Seq(T), NEW x \in T, Distinct(s)
    PROVE  AppendUnique(s, x) \in Seq(T) /\ Distinct(AppendUnique(s, x))
<1>1. CASE Occurs(s, x)
  BY <1>1 DEF AppendUnique
<1>2. CASE ~Occurs(s, x)
  <2>1. AppendUnique(s, x) = Append(s, x)
    BY <1>2 DEF AppendUnique
  <2>2. /\ Append(s, x) \in Seq(T) /\ Len(Append(s, x)) = Len(s) + 1 /\ Len(s) \in Nat
        /\ Append(s, x)[Len(s) + 1] = x
        /\ \A i \in 1..Len(s) : Append(s, x)[i] = s[i]
        /\ \A i \in 1..(Len(s) + 1) : i = Len(s) + 1 \/ i \in 1..Len(s)
    OBVIOUS
  <2>3. Distinct(Append(s, x))
    BY <1>2, <2>2 DEF Distinct, Occurs
  <2> QED
    BY <2>1, <2>2, <2>3
<1> QED
  BY <1>1, <1>2

\* Nor after the variants of a reference.
LEMMA VariantsDistinct ==
    ASSUME NEW ids \in Seq(Ids), NEW ref \in Paths, Distinct(ids)
    PROVE  WithVariants(ids, ref) \in Seq(Ids) /\ Distinct(WithVariants(ids, ref))
<1> DEFINE a == GatewayId(ref, ref \in cfg.wide)
           b == QuietId(ref, ref \in cfg.wide)
           T == Ids
           plain == IF ref \in cfg.cannotThink THEN ids ELSE AppendUnique(ids, a)
<1>1. a \in T /\ b \in T /\ ids \in Seq(T)
  BY DEF Ids
<1> HIDE DEF a, b, T
<1>2. plain \in Seq(T) /\ Distinct(plain)
  BY <1>1, AppendDistinct
<1>3. WithVariants(ids, ref) = AppendUnique(plain, b)
  BY DEF WithVariants, a, b
<1> HIDE DEF plain
<1>4. WithVariants(ids, ref) \in Seq(T) /\ Distinct(WithVariants(ids, ref))
  BY <1>1, <1>2, <1>3, AppendDistinct
<1> QED
  BY <1>4 DEF T

\* The list that the API answers with has no id twice.
LEMMA AdvertisedDistinct ==
    ASSUME NEW refs \in Seq(Paths)
    PROVE  Advertised(refs) \in Seq(Ids) /\ Distinct(Advertised(refs))
<1> DEFINE n == Len(refs)
           U == {s \in Seq(Ids) : Distinct(s)}
           g == [i \in 1..n |-> [s \in U |-> WithVariants(s, refs[i])]]
           w == CHOOSE f : f = [i \in 0..n |-> IF i = 0 THEN <<>> ELSE WithVariants(f[i - 1], refs[i])]
<1>1. n \in Nat /\ \A i \in 1..n : refs[i] \in Paths
  OBVIOUS
<1>2. \A i \in 1..n, s \in U : WithVariants(s, refs[i]) \in U
  BY <1>1, VariantsDistinct
<1>3. <<>> \in U
  BY DEF Distinct
<1>4. Advertised(refs) = w[n]
  BY Zenon DEF Advertised
<1> HIDE DEF n, U
<1>5. g \in [1..n -> [U -> U]]
  BY <1>2
<1>6. \A i \in 1..n, s \in U : g[i][s] = WithVariants(s, refs[i])
  OBVIOUS
<1> HIDE DEF g
<1>7. PICK f \in [0..n -> U] : StepsBy(f, <<>>, n, g)
  BY <1>1, <1>3, <1>5, Stepwise
<1>8. \A i \in 1..n : i - 1 \in 0..n /\ i # 0
  BY <1>1
<1>9. \A i \in 0..n : i = 0 \/ i \in 1..n
  BY <1>1
<1>10. \A i \in 0..n : f[i] = IF i = 0 THEN <<>> ELSE WithVariants(f[i - 1], refs[i])
  BY <1>6, <1>7, <1>8, <1>9 DEF StepsBy
<1>11. f = [i \in 0..n |-> IF i = 0 THEN <<>> ELSE WithVariants(f[i - 1], refs[i])]
  BY <1>10
<1>12. w = [i \in 0..n |-> IF i = 0 THEN <<>> ELSE WithVariants(w[i - 1], refs[i])]
  BY <1>11, Zenon
<1> HIDE DEF w
<1>13. w[0] = <<>> /\ \A i \in 1..n : w[i] = WithVariants(w[i - 1], refs[i])
  BY <1>1, <1>8, <1>12
<1> DEFINE S == {i \in 0..n : w[i] \in U}
<1>14. 0 \in S /\ \A i \in 1..n : i - 1 \in S => i \in S
  BY <1>1, <1>2, <1>3, <1>13
<1>15. n \in S
  <2> HIDE DEF S
  <2>1. \A i \in 0..n : i \in S
    BY <1>1, <1>14, UpTo
  <2> QED
    BY <1>1, <2>1
<1> QED
  BY <1>4, <1>15 DEF U

\* A reference behind a prefix: what the decoder finds in it.
LEMMA PrefixedPath ==
    ASSUME NEW S, NEW r \in Seq(S), r # <<>>, NEW h
    PROVE  /\ Head(<<h>> \o r) = h /\ Tail(<<h>> \o r) = r
           /\ Len(<<h>> \o r) > 2 <=> Tail(r) # <<>>
           /\ (<<h>> \o r)[2] = Head(r)
           /\ Tail(r) # <<>> => SubSeq(<<h>> \o r, 3, Len(<<h>> \o r)) = Tail(r)
<1> DEFINE T == S \cup {h}
           p == <<h>> \o r
<1>1. <<h>> \in Seq(T) /\ r \in Seq(T) /\ Len(<<h>>) = 1 /\ <<h>>[1] = h
  OBVIOUS
<1>2. Len(r) \in Nat \ {0}
  OBVIOUS
<1>3. p \in Seq(T) /\ Len(p) = Len(r) + 1 /\ \A i \in 1..Len(p) : p[i] = IF i = 1 THEN h ELSE r[i - 1]
  BY <1>1, <1>2
<1> HIDE DEF p, T
<1>4. Tail(r) \in Seq(T) /\ Len(Tail(r)) = Len(r) - 1 /\ \A i \in 1..(Len(r) - 1) : Tail(r)[i] = r[i + 1]
  BY <1>1, <1>2
<1>5. Head(p) = h /\ p[2] = Head(r)
  BY <1>1, <1>2, <1>3
<1>6. Tail(p) = r
  <2>1. Tail(p) \in Seq(T) /\ Len(Tail(p)) = Len(r) /\ \A i \in 1..Len(r) : Tail(p)[i] = p[i + 1]
    BY <1>2, <1>3
  <2>2. \A i \in 1..Len(r) : p[i + 1] = r[i]
    BY <1>2, <1>3
  <2> QED
    BY <1>1, <2>1, <2>2
<1>7. Len(p) > 2 <=> Tail(r) # <<>>
  <2> DEFINE m == Len(r)
             k == Len(Tail(r))
  <2>0. Len(p) = m + 1 /\ k = m - 1 /\ m \in Nat \ {0}
    BY <1>2, <1>3, <1>4
  <2> HIDE DEF m, k
  <2>1. Len(p) > 2 <=> k # 0
    BY <2>0
  <2>2. Tail(r) # <<>> <=> k # 0
    BY <1>4 DEF k
  <2> QED
    BY <2>1, <2>2
<1>8. ASSUME Tail(r) # <<>> PROVE SubSeq(p, 3, Len(p)) = Tail(r)
  <2>1. Len(p) > 2
    BY <1>7, <1>8
  <2>2. /\ SubSeq(p, 3, Len(p)) \in Seq(T) /\ Len(SubSeq(p, 3, Len(p))) = Len(r) - 1
        /\ \A i \in 1..(Len(r) - 1) : SubSeq(p, 3, Len(p))[i] = p[i + 2]
    BY <1>2, <1>3, <2>1
  <2>3. \A i \in 1..(Len(r) - 1) : p[i + 2] = r[i + 1]
    BY <1>2, <1>3
  <2> DEFINE q == SubSeq(p, 3, Len(p))
             u == Tail(r)
             m == Len(r) - 1
  <2>4. q \in Seq(T) /\ u \in Seq(T) /\ Len(q) = m /\ Len(u) = m /\ \A i \in 1..m : q[i] = u[i]
    BY <1>4, <2>2, <2>3
  <2> HIDE DEF q, u, m
  <2>5. q = u
    BY <2>4
  <2> QED
    BY <2>5 DEF q, u
<1> QED
  BY <1>5, <1>6, <1>7, <1>8 DEF p

\* An id of the gateway leads to its reference; without thinking, it does not think.
LEMMA IdLeadsHome ==
    ASSUME NEW id \in Ids, Head(Tail(id.path)) \in Supported, Tail(Tail(id.path)) # <<>>
    PROVE  /\ Resolve(id).provider = Head(Tail(id.path)) /\ Resolve(id).model = Tail(Tail(id.path))
           /\ Head(id.path) = "quiet" => ~Resolve(id).thinking
<1>1. PICK h \in {"anthropic", "quiet"}, r \in Paths : id.path = <<h>> \o r
  <2>1. CASE id \in {GatewayId(r, (r \in cfg.wide)) : r \in Paths}
    <3>1. PICK r \in Paths : id = GatewayId(r, (r \in cfg.wide))
      BY <2>1
    <3>2. id.path = <<"anthropic">> \o r
      BY <3>1 DEF GatewayId
    <3> QED
      BY <3>2
  <2>2. CASE id \in {QuietId(r, (r \in cfg.wide)) : r \in Paths}
    <3>1. PICK r \in Paths : id = QuietId(r, (r \in cfg.wide))
      BY <2>2
    <3>2. id.path = <<"quiet">> \o r
      BY <3>1 DEF QuietId
    <3> QED
      BY <3>2
  <2> QED
    BY <2>1, <2>2 DEF Ids
<1> DEFINE p == <<h>> \o r
<1>2. r \in Seq(DOMAIN Spoken) /\ r # <<>>
  BY DEF Paths
<1>3. Head(p) = h /\ Tail(p) = r /\ p[2] = Head(r)
  BY <1>2, PrefixedPath
<1>4. Tail(r) # <<>>
  BY <1>1, <1>3
<1>5. Len(p) > 2 /\ SubSeq(p, 3, Len(p)) = Tail(r)
  BY <1>2, <1>4, PrefixedPath
<1> HIDE DEF p
<1>6. id.path = p
  BY <1>1 DEF p
<1>7. Decoded(p) = [provider |-> Head(r), model |-> Tail(r), quiet |-> h = "quiet"]
  BY <1>3, <1>5 DEF Decoded
<1>8. IsDirect(p)
  BY <1>1, <1>3, <1>4, <1>7, <1>6 DEF IsDirect
<1>9. Resolve(id).provider = Head(r) /\ Resolve(id).model = Tail(r)
  BY <1>6, <1>7, <1>8 DEF Resolve
<1>10. ASSUME h = "quiet" PROVE ~Resolve(id).thinking
  <2>1. Decoded(id.path).quiet
    <3>1. Head(p) = "quiet" /\ Len(p) > 2
      BY <1>3, <1>5, <1>10
    <3>2. Decoded(p).quiet
      BY <3>1 DEF Decoded
    <3> QED
      BY <1>6, <3>2
  <2>2. Resolve(id).thinking = (~Decoded(id.path).quiet /\ ConfiguredThinking(Decoded(id.path).model))
    BY <1>6, <1>8 DEF Resolve
  <2> QED
    BY <2>1, <2>2
<1> QED
  BY <1>3, <1>6, <1>9, <1>10

-----------------------------------------------------------------------------
(* Routes.                                                                 *)

\* The least of a few positions is one of them.
LEMMA MinOfThree ==
    ASSUME NEW S \in SUBSET (1..3), S # {}
    PROVE  Min(S) \in S
<1>1. \E x \in S : \A y \in S : x <= y
  <2>1. CASE 1 \in S
    BY <2>1
  <2>2. CASE 1 \notin S /\ 2 \in S
    BY <2>2
  <2>3. CASE 1 \notin S /\ 2 \notin S
    <3>0. \A x \in S : x = 3
      BY <2>3
    <3>1. S = {3}
      BY <3>0
    <3> QED
      BY <3>1
  <2> QED
    BY <2>1, <2>2, <2>3
<1> QED
  BY <1>1, Zenon DEF Min

\* The same of up to five.
LEMMA MinOfFive ==
    ASSUME NEW S \in SUBSET (1..5), S # {}
    PROVE  Min(S) \in S
<1>1. PICK x \in S : \A y \in S : ~(y < x)
  <2>1. S \subseteq Nat
    OBVIOUS
  <2> QED
    BY <2>1, LeastOf
<1>2. \A y \in S : x <= y
  BY <1>1
<1> QED
  BY <1>2, Zenon DEF Min

\* resolve_model() takes the default or a tier that is set.
LEMMA ByTierFacts ==
    ASSUME NEW path, NEW table, NEW default
    PROVE  ByTier(path, table, default) \in {default} \cup ({table[t] : t \in Tiers} \ {"unset"})
<1> DEFINE spoken == {Spoken[path[i]] : i \in 1..Len(path)}
           order == <<"opus", "haiku", "sonnet">>
           hits == {i \in 1..3 : order[i] \in spoken /\ table[order[i]] # "unset"}
<1>1. \A i \in 1..3 : order[i] \in Tiers
  BY DEF Tiers
<1>2. hits # {} => Min(hits) \in hits
  <2> HIDE DEF order, spoken
  <2>1. hits \in SUBSET (1..3)
    OBVIOUS
  <2> HIDE DEF hits
  <2> QED
    BY <2>1, MinOfThree
<1>3. ByTier(path, table, default) = IF hits = {} THEN default ELSE table[order[Min(hits)]]
  BY Zenon DEF ByTier
<1> HIDE DEF order, spoken
<1>4. CASE hits = {}
  BY <1>3, <1>4
<1>5. CASE hits # {}
  <2>1. Min(hits) \in 1..3 /\ table[order[Min(hits)]] # "unset"
    BY <1>2, <1>5
  <2> HIDE DEF hits
  <2> QED
    BY <1>1, <1>3, <1>5, <2>1
<1> QED
  BY <1>4, <1>5

\* What it takes is a reference to a provider that is supported.
LEMMA ConfiguredFacts ==
    ASSUME cfg \in SettingsSet, NEW path
    PROVE  ConfiguredModel(path) \in Paths /\ Head(ConfiguredModel(path)) \in Supported
<1>1. ByTier(path, cfg.modelOf, "main") \in {"main"} \cup ({cfg.modelOf[t] : t \in Tiers} \ {"unset"})
  BY ByTierFacts
<1> QED
  BY <1>1, SettingsAssumption DEF ConfiguredModel

\* The route of a name: a supported provider, and what an id stands for.
LEMMA ResolveFacts ==
    ASSUME cfg \in SettingsSet, NEW name, name.path \in Paths
    PROVE  /\ Resolve(name).provider \in Supported /\ Resolve(name).thinking \in BOOLEAN
           /\ name.path[1] = "quiet" /\ IsDirect(name.path) => ~Resolve(name).thinking
           /\ name.path[1] # "quiet" /\ IsDirect(name.path) =>
                 Resolve(name).thinking = ConfiguredThinking(Resolve(name).model)
<1> DEFINE d == Decoded(name.path)
           R == Resolve(name)
<1>1. name.path \in Seq(DOMAIN Spoken) /\ name.path # <<>> /\ Head(name.path) = name.path[1]
  BY DEF Paths
<1>2. CASE IsDirect(name.path)
  <2>1. R.provider = d.provider /\ R.model = d.model
    BY <1>2 DEF Resolve
  <2>2. R.thinking = (~d.quiet /\ ConfiguredThinking(d.model))
    BY <1>2 DEF Resolve
  <2>3. d.provider \in Supported
    BY <1>2 DEF IsDirect
  <2>4. ASSUME name.path[1] = "quiet" PROVE d.quiet
    <3>1. Len(name.path) > 2
      BY <1>1, <2>3, <2>4, RequestPipelineAssumption DEF Decoded
    <3> QED
      BY <1>1, <2>4, <3>1 DEF Decoded
  <2>5. ASSUME name.path[1] # "quiet" PROVE ~d.quiet
    BY <1>1, <2>5 DEF Decoded
  <2> HIDE DEF d, R
  <2>6. R.thinking \in BOOLEAN
    BY <2>2
  <2>7. name.path[1] = "quiet" => ~R.thinking
    BY <2>2, <2>4
  <2>8. ASSUME name.path[1] # "quiet" PROVE R.thinking = ConfiguredThinking(R.model)
    <3>1. ConfiguredThinking(d.model) \in BOOLEAN
      BY DEF ConfiguredThinking
    <3>2. R.thinking = ConfiguredThinking(d.model)
      BY <2>2, <2>5, <2>8, <3>1
    <3> QED
      BY <2>1, <3>2
  <2>9. R.provider \in Supported
    BY <2>1, <2>3
  <2> QED
    BY <2>6, <2>7, <2>8, <2>9 DEF R
<1>3. CASE ~IsDirect(name.path)
  <2>1. R.provider = Head(ConfiguredModel(name.path)) /\ R.thinking = ConfiguredThinking(name.path)
    BY <1>3 DEF Resolve
  <2>2. ConfiguredThinking(name.path) \in BOOLEAN
    BY DEF ConfiguredThinking
  <2> QED
    BY <1>3, <2>1, <2>2, ConfiguredFacts
<1> QED
  BY <1>2, <1>3

\* Whatever name leads to the reference of the fallback, it is the fallback that
\* is asked.
LEMMA FallbackFacts ==
    ASSUME cfg \in SettingsSet, cfg.long # <<>>, Tail(cfg.long) # <<>>
    PROVE  \A name : name = Name(cfg.long) \/ Resolve(name).ref = Name(cfg.long) =>
              Resolve(name).provider = Head(cfg.long) /\ Resolve(name).model = Tail(cfg.long)
<1>1. cfg.long \in Seq(DOMAIN Spoken) /\ Head(cfg.long) \in Supported
  BY SettingsAssumption DEF Paths
<1>2. Head(cfg.long) \notin {"anthropic", "quiet"}
  BY <1>1, RequestPipelineAssumption
<1>3. Decoded(cfg.long).provider = Head(cfg.long) /\ Decoded(cfg.long).model = Tail(cfg.long)
  BY <1>2 DEF Decoded
<1>4. IsDirect(cfg.long)
  BY <1>1, <1>3 DEF IsDirect
<1>5. ASSUME NEW name, name = Name(cfg.long)
      PROVE  Resolve(name).provider = Head(cfg.long) /\ Resolve(name).model = Tail(cfg.long)
  <2>1. name.path = cfg.long
    BY <1>5 DEF Name
  <2> QED
    BY <1>3, <1>4, <2>1 DEF Resolve
<1>6. ASSUME NEW name, Resolve(name).ref = Name(cfg.long)
      PROVE  Resolve(name).provider = Head(cfg.long) /\ Resolve(name).model = Tail(cfg.long)
  <2>1. CASE IsDirect(name.path)
    <3>1. Resolve(name).ref = name
      BY <2>1 DEF Resolve
    <3> QED
      BY <1>5, <1>6, <3>1
  <2>2. CASE ~IsDirect(name.path)
    <3> DEFINE ref == ConfiguredModel(name.path)
    <3>1. Resolve(name).ref = Name(ref) /\ Resolve(name).provider = Head(ref) /\ Resolve(name).model = Tail(ref)
      BY <2>2 DEF Resolve
    <3> HIDE DEF ref
    <3>2. ref = cfg.long
      BY <1>6, <3>1 DEF Name
    <3> QED
      BY <3>1, <3>2
  <2> QED
    BY <2>1, <2>2
<1> QED
  BY <1>5, <1>6

-----------------------------------------------------------------------------
(* The pipeline keeps its guarantees.                                      *)

\* The invariant holds before the first step.
LEMMA RequestStarts == RequestInit => RequestInv
<1> SUFFICES ASSUME RequestInit PROVE RequestInv
  OBVIOUS
<1>1. RequestTypeOK
  <2>1. NoRoute.provider = "none" /\ NoRoute.thinking = FALSE
    BY DEF NoRoute
  <2>2. 0 \in 0..MaxStrategies
    BY RequestPipelineAssumption
  <2> QED
    BY <2>1, <2>2 DEF RequestInit, RequestTypeOK, Steps
<1>2. AsSent /\ RouteIsResolved /\ FallbackTaken /\ ToolsServed /\ PromptIsDirected
  BY DEF RequestInit, AsSent, RouteIsResolved, FallbackTaken, ToolsServed, PromptIsDirected, From, Streamed
<1>3. listed \in {<<>>, Advertised(cfg.known)}
  BY DEF RequestInit
<1> QED
  BY <1>1, <1>2, <1>3 DEF RequestInv

\* A fresh route, and one that is kept.
LEMMA RouteIsFresh ==
    ASSUME NEW name, name.path \in Paths, routed' = Resolve(name), chosen' = name, UNCHANGED cfg
    PROVE  RouteIsResolved'
<1>1. routed' = Resolve(chosen)'
  BY DEF Resolve, ConfiguredModel, ConfiguredThinking
<1> QED
  BY <1>1 DEF RouteIsResolved

\* A route that is kept, by a step that brings no request into its scope.
LEMMA RouteStays ==
    ASSUME RouteIsResolved, UNCHANGED <<cfg, routed, chosen>>,
           step' \in {"reroute", "long", "reject", "intercept", "optimize", "module", "direct", "provider"} \/ Streamed' =>
              step \in {"reroute", "long", "reject", "intercept", "optimize", "module", "direct", "provider"} \/ Streamed
    PROVE  RouteIsResolved'
<1>1. Resolve(chosen)' = Resolve(chosen)
  BY DEF Resolve, ConfiguredModel, ConfiguredThinking
<1> QED
  BY <1>1 DEF RouteIsResolved, From

\* A prompt that is kept, by a step that brings no request into its scope.
LEMMA DirectedStays ==
    ASSUME PromptIsDirected, UNCHANGED <<cfg, req, system, repoSeen>>,
           step' \notin {"provider", "done"} => step \notin {"provider", "done"},
           step' = "provider" \/ Streamed' => step = "provider" \/ Streamed
    PROVE  PromptIsDirected'
<1>1. Directives' = Directives
  BY DEF Directives
<1>2. Directed(req.system)' = Directed(req.system)
  BY <1>1 DEF Directed
<1> QED
  BY <1>2 DEF PromptIsDirected, From

\* Every step keeps the types, the settings and the request.
LEMMA TypeStays ==
    ASSUME RequestInv, RequestNext
    PROVE  RequestTypeOK' /\ AsSent'
<1>1. cfg \in SettingsSet /\ req \in RequestSet
  BY DEF RequestInv, AsSent
<1> USE DEF RequestInv, AsSent
<1>2. CASE BuildPipeline
  BY <1>2 DEF BuildPipeline, RequestTypeOK, Steps
<1>3. CASE Authenticate
  BY <1>3 DEF Authenticate, RequestTypeOK, Steps
<1>4. CASE ListModels
  BY <1>4 DEF ListModels, RequestTypeOK, Steps
<1>5. CASE ResolveRequest
  <2>1. Resolve(req.name).provider \in Supported /\ Resolve(req.name).thinking \in BOOLEAN
    BY <1>1, ResolveFacts, RequestsAssumption
  <2> QED
    BY <1>5, <2>1 DEF ResolveRequest, Fails, RequestTypeOK, Steps
<1>6. CASE CountTokens
  <2>1. Resolve(req.name).provider \in Supported /\ Resolve(req.name).thinking \in BOOLEAN
    BY <1>1, ResolveFacts, RequestsAssumption
  <2> QED
    BY <1>6, <2>1 DEF CountTokens, Fails, RequestTypeOK, Steps
<1>7. CASE RunStrategy
  <2>1. \A ref \in cfg.rewrites : Resolve(Name(ref)).provider \in Supported /\ Resolve(Name(ref)).thinking \in BOOLEAN
    BY <1>1, ResolveFacts, SettingsAssumption DEF Name
  <2>2. strategies' \in 0..MaxStrategies
    <3>1. \A n \in 0..MaxStrategies : n > 0 => n - 1 \in 0..MaxStrategies
      BY RequestPipelineAssumption
    <3> QED
      BY <1>7, <3>1 DEF RunStrategy, RequestTypeOK
  <2> QED
    BY <1>7, <2>1, <2>2 DEF RunStrategy, RequestTypeOK
<1>8. CASE StrategiesDone
  BY <1>8 DEF StrategiesDone, RequestTypeOK, Steps
<1>9. CASE RerouteLong
  <2>1. CASE UNCHANGED <<routed, chosen>>
    BY <1>9, <2>1 DEF RerouteLong, RequestTypeOK, Steps
  <2>2. CASE Oversized /\ routed' = Resolve(Name(cfg.long))
    <3>1. Name(cfg.long).path \in Paths
      BY <1>1, <2>2, SettingsAssumption DEF Name, Oversized
    <3>2. routed'.provider \in Supported /\ routed'.thinking \in BOOLEAN
      BY <1>1, <2>2, <3>1, ResolveFacts
    <3> QED
      BY <1>9, <3>2 DEF RerouteLong, RequestTypeOK, Steps
  <2> QED
    BY <1>9, <2>1, <2>2 DEF RerouteLong, MaybeReroute
<1>10. CASE RejectServerTools
  BY <1>10 DEF RejectServerTools, Fails, RequestTypeOK, Steps
<1>11. CASE InterceptWebTool
  BY <1>11 DEF InterceptWebTool, Fails, RequestTypeOK, Steps
<1>12. CASE TryOptimizations
  BY <1>12 DEF TryOptimizations, Fails, RequestTypeOK, Steps
<1>13. CASE RunModuleIntercepts
  BY <1>13 DEF RunModuleIntercepts, Fails, RequestTypeOK, Steps
<1>14. CASE AppendDirectives
  BY <1>14 DEF AppendDirectives, RequestTypeOK, Steps
<1>15. CASE CallProvider
  BY <1>15 DEF CallProvider, Fails, RequestTypeOK, Steps
<1> QED
  BY <1>2, <1>3, <1>4, <1>5, <1>6, <1>7, <1>8, <1>9, <1>10, <1>11, <1>12, <1>13, <1>14, <1>15 DEF RequestNext

\* Every step keeps the route that of the name chosen last.
LEMMA RouteIsKept ==
    ASSUME RequestInv, RequestNext
    PROVE  RouteIsResolved'
<1>1. cfg \in SettingsSet /\ req \in RequestSet /\ RouteIsResolved /\ (step # "done" => outcome = "none")
  BY DEF RequestInv, AsSent
<1>2. CASE BuildPipeline
  BY <1>1, <1>2, RouteStays DEF BuildPipeline, Streamed
<1>3. CASE Authenticate
  BY <1>1, <1>3 DEF Authenticate, RouteIsResolved, From, Streamed
<1>4. CASE ListModels
  BY <1>1, <1>4 DEF ListModels, RouteIsResolved, From, Streamed
<1>5. CASE ResolveRequest
  <2>1. CASE step' = "done" /\ outcome' = "400"
    BY <2>1 DEF RouteIsResolved, From, Streamed
  <2>2. CASE routed' = Resolve(req.name) /\ chosen' = req.name
    BY <1>1, <1>5, <2>2, RouteIsFresh, RequestsAssumption DEF ResolveRequest
  <2> QED
    BY <1>5, <2>1, <2>2 DEF ResolveRequest, Fails
<1>6. CASE CountTokens
  <2>1. step' = "done" /\ outcome' \in {"400", "counted", "one"}
    BY <1>6 DEF CountTokens, Fails
  <2> QED
    BY <2>1 DEF RouteIsResolved, From, Streamed
<1>7. CASE RunStrategy
  <2>1. CASE UNCHANGED <<routed, chosen>>
    BY <1>1, <1>7, <2>1, RouteStays DEF RunStrategy, Streamed
  <2>2. ASSUME NEW ref \in cfg.rewrites, routed' = Resolve(Name(ref)), chosen' = Name(ref)
        PROVE  RouteIsResolved'
    <3>1. Name(ref).path \in Paths
      BY <1>1, SettingsAssumption DEF Name
    <3> QED
      BY <1>7, <2>2, <3>1, RouteIsFresh DEF RunStrategy
  <2> QED
    BY <1>7, <2>1, <2>2 DEF RunStrategy
<1>8. CASE StrategiesDone
  BY <1>1, <1>8, RouteStays DEF StrategiesDone, Streamed
<1>9. CASE RerouteLong
  <2>1. CASE UNCHANGED <<routed, chosen>>
    BY <1>1, <1>9, <2>1, RouteStays DEF RerouteLong, Streamed
  <2>2. CASE Oversized /\ routed' = Resolve(Name(cfg.long)) /\ chosen' = Name(cfg.long)
    <3>1. Name(cfg.long).path \in Paths
      BY <1>1, <2>2, SettingsAssumption DEF Name, Oversized
    <3> QED
      BY <1>9, <2>2, <3>1, RouteIsFresh DEF RerouteLong
  <2> QED
    BY <1>9, <2>1, <2>2 DEF RerouteLong, MaybeReroute
<1>10. CASE RejectServerTools
  BY <1>1, <1>10, RouteStays DEF RejectServerTools, Fails, Streamed
<1>11. CASE InterceptWebTool
  BY <1>1, <1>11, RouteStays DEF InterceptWebTool, Fails, Streamed
<1>12. CASE TryOptimizations
  BY <1>1, <1>12, RouteStays DEF TryOptimizations, Fails, Streamed
<1>13. CASE RunModuleIntercepts
  BY <1>1, <1>13, RouteStays DEF RunModuleIntercepts, Fails, Streamed
<1>14. CASE AppendDirectives
  BY <1>1, <1>14, RouteStays DEF AppendDirectives, Streamed
<1>15. CASE CallProvider
  BY <1>1, <1>15, RouteStays DEF CallProvider, Fails, Streamed
<1> QED
  BY <1>2, <1>3, <1>4, <1>5, <1>6, <1>7, <1>8, <1>9, <1>10, <1>11, <1>12, <1>13, <1>14, <1>15 DEF RequestNext

\* Every step after the long-context reroute keeps its outcome.
LEMMA FallbackIsKept ==
    ASSUME RequestInv, RequestNext
    PROVE  FallbackTaken'
<1> DEFINE F == Oversized /\ Tail(cfg.long) # <<>> => routed.provider = Head(cfg.long) /\ routed.model = Tail(cfg.long)
<1>1. cfg \in SettingsSet /\ FallbackTaken /\ (step # "done" => outcome = "none") /\ UNCHANGED <<cfg, req>>
  BY DEF RequestInv, AsSent, RequestNext, BuildPipeline, Authenticate, ListModels, ResolveRequest, CountTokens,
     RunStrategy, StrategiesDone, RerouteLong, RejectServerTools, InterceptWebTool, TryOptimizations,
     RunModuleIntercepts, AppendDirectives, CallProvider
<1>2. CASE RerouteLong
  <2>1. routed = Resolve(chosen)
    BY <1>2 DEF RequestInv, RouteIsResolved, From, RerouteLong
  <2>2. ASSUME Oversized, Tail(cfg.long) # <<>>
        PROVE  routed'.provider = Head(cfg.long) /\ routed'.model = Tail(cfg.long)
    <3>1. cfg.long # <<>>
      BY <2>2 DEF Oversized
    <3>2. CASE routed.ref # Name(cfg.long)
      BY <1>1, <1>2, <2>2, <3>1, <3>2, FallbackFacts DEF RerouteLong, MaybeReroute
    <3>3. CASE routed.ref = Name(cfg.long)
      BY <1>1, <1>2, <2>1, <2>2, <3>1, <3>3, FallbackFacts DEF RerouteLong, MaybeReroute
    <3> QED
      BY <3>2, <3>3
  <2>3. Oversized' = Oversized
    BY <1>1 DEF Oversized
  <2> QED
    BY <1>1, <2>2, <2>3 DEF FallbackTaken
<1>3. CASE RejectServerTools \/ InterceptWebTool \/ TryOptimizations \/ RunModuleIntercepts \/ AppendDirectives \/ CallProvider
  <2>1. UNCHANGED <<cfg, req, routed>> /\ step \in {"reject", "intercept", "optimize", "module", "direct", "provider"}
    BY <1>3 DEF RejectServerTools, InterceptWebTool, TryOptimizations, RunModuleIntercepts, AppendDirectives, CallProvider
  <2>2. F' = F
    BY <2>1 DEF Oversized
  <2>3. F
    BY <1>1, <2>1 DEF FallbackTaken, From
  <2> QED
    BY <2>2, <2>3 DEF FallbackTaken
<1>4. CASE BuildPipeline \/ Authenticate \/ ListModels \/ ResolveRequest \/ CountTokens \/ RunStrategy \/ StrategiesDone
  <2>1. step' \in {"authenticate", "resolve", "done", "reroute", "long"}
    BY <1>4 DEF BuildPipeline, Authenticate, ListModels, ResolveRequest, CountTokens, RunStrategy, StrategiesDone, Fails
  <2>2. outcome' # "streamed"
    BY <1>1, <1>4 DEF BuildPipeline, Authenticate, ListModels, ResolveRequest, CountTokens, RunStrategy, StrategiesDone, Fails
  <2> QED
    BY <2>1, <2>2 DEF FallbackTaken, From, Streamed
<1> QED
  BY <1>2, <1>3, <1>4 DEF RequestNext

\* No step carries a request with a tool its upstream cannot serve past the rejection.
LEMMA ToolsAreKept ==
    ASSUME RequestInv, RequestNext
    PROVE  ToolsServed'
<1> DEFINE C == routed.provider \in ChatUpstreams /\ ChatCannotServe
           W == cfg.webTools /\ Forced /\ Named
<1>1. ToolsServed /\ (step # "done" => outcome = "none")
  BY DEF RequestInv, AsSent
<1>2. CASE BuildPipeline \/ Authenticate \/ ListModels \/ ResolveRequest \/ CountTokens \/ RunStrategy \/ StrategiesDone \/ RerouteLong
  <2>1. step' \in {"authenticate", "resolve", "done", "reroute", "long", "reject"}
    BY <1>2 DEF BuildPipeline, Authenticate, ListModels, ResolveRequest, CountTokens, RunStrategy, StrategiesDone, RerouteLong, Fails
  <2>2. outcome' # "streamed"
    BY <1>1, <1>2 DEF BuildPipeline, Authenticate, ListModels, ResolveRequest, CountTokens, RunStrategy, StrategiesDone, RerouteLong, Fails
  <2> QED
    BY <2>1, <2>2 DEF ToolsServed, From, Streamed
<1>3. CASE RejectServerTools \/ InterceptWebTool \/ TryOptimizations \/ RunModuleIntercepts \/ AppendDirectives \/ CallProvider
  <2>1. UNCHANGED <<cfg, req, routed>>
    BY <1>3 DEF RejectServerTools, InterceptWebTool, TryOptimizations, RunModuleIntercepts, AppendDirectives, CallProvider
  <2>2. C' = C /\ W' = W
    BY <2>1 DEF ChatCannotServe, Forced, Named, ListsServerTool
  <2>3. CASE RejectServerTools
    <3>1. CASE C
      <4>1. step' = "done" /\ outcome' = "400"
        BY <2>3, <3>1 DEF RejectServerTools, Fails
      <4> QED
        BY <4>1 DEF ToolsServed, From, Streamed
    <3>2. CASE ~C
      <4>1. step' \in {"intercept", "direct"} /\ outcome' = "none" /\ (req'.api = "messages" => step' = "intercept")
        BY <1>1, <2>1, <2>3, <3>2 DEF RejectServerTools
      <4>2. ~C'
        BY <2>2, <3>2
      <4> QED
        BY <4>1, <4>2 DEF ToolsServed, From, Streamed
    <3> QED
      BY <3>1, <3>2
  <2>4. CASE InterceptWebTool
    <3>1. ~C'
      BY <1>1, <2>2, <2>4 DEF InterceptWebTool, ToolsServed, From
    <3>2. CASE W
      <4>1. step' = "done" /\ outcome' = "web tool"
        BY <2>4, <3>2 DEF InterceptWebTool, Fails
      <4> QED
        BY <4>1 DEF ToolsServed, From, Streamed
    <3>3. CASE ~W
      <4>1. ~W'
        BY <2>2, <3>3
      <4> QED
        BY <3>1, <4>1 DEF ToolsServed
    <3> QED
      BY <3>2, <3>3
  <2>5. CASE TryOptimizations \/ RunModuleIntercepts \/ AppendDirectives \/ CallProvider
    <3>1. step \in {"optimize", "module", "direct", "provider"}
      BY <2>5 DEF TryOptimizations, RunModuleIntercepts, AppendDirectives, CallProvider
    <3>2. ~C
      BY <1>1, <3>1 DEF ToolsServed, From
    <3>3. req.api = "messages" => ~W
      BY <1>1, <3>1 DEF ToolsServed, From
    <3>4. ~C' /\ (req'.api = "messages" => ~W')
      BY <2>1, <2>2, <3>2, <3>3
    <3> QED
      BY <3>4 DEF ToolsServed
  <2> QED
    BY <1>3, <2>3, <2>4, <2>5
<1> QED
  BY <1>2, <1>3 DEF RequestNext

\* The prompt is untouched until the directives are added, and not touched again.
LEMMA PromptIsKept ==
    ASSUME RequestInv, RequestNext
    PROVE  PromptIsDirected'
<1>1. PromptIsDirected /\ (step # "done" => outcome = "none")
  BY DEF RequestInv, AsSent
<1>2. CASE BuildPipeline
  BY <1>1, <1>2 DEF BuildPipeline, PromptIsDirected, From, Streamed
<1>3. CASE Authenticate
  BY <1>1, <1>3 DEF Authenticate, PromptIsDirected, From, Streamed
<1>4. CASE ListModels
  BY <1>1, <1>4 DEF ListModels, PromptIsDirected, From, Streamed
<1>5. CASE ResolveRequest
  <2>1. step' \in {"done", "reroute"} /\ outcome' \in {"400", "none"}
    BY <1>1, <1>5 DEF ResolveRequest, Fails
  <2> QED
    BY <1>1, <1>5, <2>1 DEF ResolveRequest, PromptIsDirected, From, Streamed
<1>6. CASE CountTokens
  <2>1. step' = "done" /\ outcome' \in {"400", "counted", "one"}
    BY <1>6 DEF CountTokens, Fails
  <2> QED
    BY <1>1, <1>6, <2>1 DEF CountTokens, PromptIsDirected, From, Streamed
<1>7. CASE RunStrategy
  BY <1>1, <1>7 DEF RunStrategy, PromptIsDirected, From, Streamed
<1>8. CASE StrategiesDone
  BY <1>1, <1>8 DEF StrategiesDone, PromptIsDirected, From, Streamed
<1>9. CASE RerouteLong
  BY <1>1, <1>9 DEF RerouteLong, PromptIsDirected, From, Streamed
<1>10. CASE RejectServerTools
  BY <1>1, <1>10 DEF RejectServerTools, Fails, PromptIsDirected, From, Streamed
<1>11. CASE InterceptWebTool
  BY <1>1, <1>11 DEF InterceptWebTool, Fails, PromptIsDirected, From, Streamed
<1>12. CASE TryOptimizations
  <2>1. step' \in {"module", "done"} /\ (outcome' = "none" \/ outcome' \in {"quota", "prefix", "title", "suggestion", "filepath"})
    <3> DEFINE hits == {i \in 1..Len(Probes) : Probes[i] \in cfg.optimizations /\ Detected(Probes[i])}
    <3>1. CASE hits = {}
      BY <1>1, <1>12, <3>1 DEF TryOptimizations
    <3>2. CASE hits # {}
      <4>1. Fails(Probes[Min(hits)])
        BY <1>12, <3>2 DEF TryOptimizations
      <4>2. Len(Probes) = 5 /\ \A i \in 1..5 : Probes[i] \in {"quota", "prefix", "title", "suggestion", "filepath"}
        BY DEF Probes
      <4>3. hits \in SUBSET (1..5)
        BY <4>2
      <4> HIDE DEF hits
      <4>4. Min(hits) \in hits
        BY <3>2, <4>3, MinOfFive
      <4> QED
        BY <4>1, <4>2, <4>3, <4>4 DEF Fails
    <3> QED
      BY <3>1, <3>2
  <2> QED
    BY <1>1, <1>12, <2>1 DEF TryOptimizations, PromptIsDirected, From, Streamed
<1>13. CASE RunModuleIntercepts
  BY <1>1, <1>13 DEF RunModuleIntercepts, Fails, PromptIsDirected, From, Streamed
<1>14. CASE AppendDirectives
  <2>1. system = req.system /\ system' = Directed(system) /\ step' = "provider" /\ UNCHANGED <<cfg, req, repoSeen>>
    BY <1>1, <1>14 DEF AppendDirectives, PromptIsDirected
  <2>2. Directives' = Directives
    BY <2>1 DEF Directives
  <2>3. Directed(req.system)' = Directed(req.system)
    BY <2>1, <2>2 DEF Directed
  <2> QED
    BY <2>1, <2>3 DEF PromptIsDirected
<1>15. CASE CallProvider
  BY <1>1, <1>15, DirectedStays DEF CallProvider, Fails, Streamed
<1> QED
  BY <1>2, <1>3, <1>4, <1>5, <1>6, <1>7, <1>8, <1>9, <1>10, <1>11, <1>12, <1>13, <1>14, <1>15 DEF RequestNext

\* A list of models that is kept, or made.
LEMMA ListIsKept ==
    ASSUME listed \in {<<>>, Advertised(cfg.known)}, UNCHANGED cfg,
           listed' = listed \/ listed' = Advertised(cfg.known)
    PROVE  listed' \in {<<>>, Advertised(cfg.known)'}
<1>1. Advertised(cfg.known)' = Advertised(cfg.known)
  BY DEF Advertised, WithVariants
<1> QED
  BY <1>1

\* Every step keeps the invariant.
LEMMA RequestStep == RequestInv /\ [RequestNext]_reqVars => RequestInv'
<1> SUFFICES ASSUME RequestInv, [RequestNext]_reqVars PROVE RequestInv'
  OBVIOUS
<1>1. listed \in {<<>>, Advertised(cfg.known)}
  BY DEF RequestInv
<1>2. CASE RequestNext
  <2>1. UNCHANGED cfg /\ (listed' = listed \/ listed' = Advertised(cfg.known))
    BY <1>2 DEF RequestNext, BuildPipeline, Authenticate, ListModels, ResolveRequest, CountTokens,
       RunStrategy, StrategiesDone, RerouteLong, RejectServerTools, InterceptWebTool, TryOptimizations,
       RunModuleIntercepts, AppendDirectives, CallProvider
  <2>2. listed' \in {<<>>, Advertised(cfg.known)'}
    BY <1>1, <2>1, ListIsKept
  <2> QED
    BY <1>2, <2>2, TypeStays, RouteIsKept, FallbackIsKept, ToolsAreKept, PromptIsKept DEF RequestInv
<1>3. CASE UNCHANGED reqVars
  <2>1. RouteIsResolved'
    BY <1>3, RouteStays DEF RequestInv, reqVars, Streamed
  <2>2. PromptIsDirected'
    BY <1>3, DirectedStays DEF RequestInv, reqVars, Streamed
  <2>3. listed' \in {<<>>, Advertised(cfg.known)'}
    BY <1>1, <1>3, ListIsKept DEF reqVars
  <2>4. RequestTypeOK' /\ AsSent'
    BY <1>3 DEF RequestInv, reqVars, RequestTypeOK, AsSent
  <2>5. FallbackTaken'
    BY <1>3 DEF RequestInv, reqVars, FallbackTaken, From, Streamed, Oversized
  <2>6. ToolsServed'
    BY <1>3 DEF RequestInv, reqVars, ToolsServed, From, Streamed, ChatCannotServe, Forced, Named, ListsServerTool
  <2> QED
    BY <2>1, <2>2, <2>3, <2>4, <2>5, <2>6 DEF RequestInv
<1> QED
  BY <1>2, <1>3

-----------------------------------------------------------------------------
(* What the invariant says of a request that is served.                    *)

\* The route of a request that is streamed serves it.
LEMMA RouteServes == RequestInv => ServedByRoute
<1> SUFFICES ASSUME RequestInv, Streamed PROVE ServedByRoute
  BY DEF ServedByRoute
<1>1. cfg \in SettingsSet /\ chosen.path \in Paths /\ routed = Resolve(chosen)
  BY DEF RequestInv, AsSent, RouteIsResolved, From
<1>2. /\ chosen.path[1] = "quiet" /\ IsDirect(chosen.path) => ~routed.thinking
      /\ chosen.path[1] # "quiet" /\ IsDirect(chosen.path) => routed.thinking = ConfiguredThinking(routed.model)
  BY <1>1, ResolveFacts
<1>3. Oversized /\ Tail(cfg.long) # <<>> => routed.provider = Head(cfg.long) /\ routed.model = Tail(cfg.long)
  BY DEF RequestInv, FallbackTaken, From
<1> QED
  BY <1>2, <1>3 DEF ServedByRoute

\* A request that is streamed asks a conversion to chat for no listed server tool.
LEMMA ToolsServe == RequestInv => NoServerToolForChat
  BY DEF RequestInv, ToolsServed, NoServerToolForChat, From, ChatCannotServe

\* A sequence over a set is one over a larger set.
LEMMA SeqGrows ==
    ASSUME NEW T, NEW U, T \subseteq U, NEW s \in Seq(T)
    PROVE  s \in Seq(U)
  OBVIOUS

\* The prompt of a request that is streamed holds each directive once.
LEMMA PromptServes == RequestInv => DirectivesOnce
<1> SUFFICES ASSUME RequestInv, Streamed PROVE DirectivesOnce
  BY DEF DirectivesOnce
<1>1. cfg \in SettingsSet /\ req \in RequestSet /\ system = Directed(req.system) /\ repoSeen \in {"", req.repo}
  BY DEF RequestInv, AsSent, PromptIsDirected, From, RequestTypeOK
<1> DEFINE T == STRING \cup {"", "concise"}
           ds == Directives
           prompt == req.system
<1>2. ds \in Seq(T) /\ prompt \in Seq(T)
  <2>0. req.system \in Seq(STRING) /\ req.repo \in STRING /\ cfg.directives \in Seq(STRING)
    BY <1>1, RequestsAssumption, SettingsAssumption
  <2>1. req.system \in Seq(T) /\ req.repo \in T /\ cfg.directives \in Seq(T)
    <3> DEFINE U == STRING
    <3>1. U \subseteq T /\ req.system \in Seq(U) /\ req.repo \in U /\ cfg.directives \in Seq(U)
      BY <2>0
    <3> HIDE DEF U, T
    <3> QED
      BY <3>1, SeqGrows
  <2>3. "" \in T /\ "concise" \in T
    OBVIOUS
  <2> DEFINE u == IF cfg.concise THEN "concise" ELSE ""
  <2>4. u \in T /\ repoSeen \in T
    BY <1>1, <2>1, <2>3
  <2>5. Directives = <<u, repoSeen>> \o cfg.directives
    BY DEF Directives
  <2> HIDE DEF T, u
  <2>6. <<u, repoSeen>> \in Seq(T)
    BY <2>4
  <2> QED
    BY <2>1, <2>5, <2>6
<1>3. Directed(prompt) = LET with[i \in 0..Len(ds)] == IF i = 0 THEN prompt ELSE WithDirective(with[i - 1], ds[i])
                         IN  with[Len(ds)]
  BY DEF Directed
<1> HIDE DEF T, ds, prompt
<1>4. Holds(T, prompt, ds, Directed(prompt), Len(ds))
  BY <1>2, <1>3, DirectedHolds
<1>5. Holds(T, prompt, ds, system, Len(ds))
  BY <1>1, <1>4 DEF prompt
<1>6. SubSeq(system, 1, Len(prompt)) = prompt
  <2>1. system \in Seq(T) /\ Len(system) >= Len(prompt) /\ \A i \in 1..Len(prompt) : system[i] = prompt[i]
    BY <1>5 DEF Holds
  <2> DEFINE q == SubSeq(system, 1, Len(prompt))
  <2>2. q \in Seq(T) /\ Len(q) = Len(prompt) /\ \A i \in 1..Len(prompt) : q[i] = system[i]
    BY <1>2, <2>1
  <2> HIDE DEF q
  <2>3. q = prompt
    BY <1>2, <2>1, <2>2
  <2> QED
    BY <2>3 DEF q
<1>7. \A k \in 1..Len(ds) : ds[k] # "" => Occurs(system, ds[k])
  BY <1>5 DEF Holds, Occurs
<1>8. \A i \in (Len(prompt) + 1)..Len(system) :
         /\ Occurs(ds, system[i])
         /\ \A j \in 1..Len(system) : system[j] = system[i] => j = i
  BY <1>5 DEF Holds, Occurs
<1> QED
  BY <1>6, <1>7, <1>8 DEF DirectivesOnce, ds, prompt

\* Every id that is listed leads to what it stands for.
LEMMA IdsServe == RequestInv => AdvertisedLeadHome
<1> SUFFICES ASSUME RequestInv PROVE AdvertisedLeadHome
  OBVIOUS
<1>1. cfg \in SettingsSet /\ listed \in {<<>>, Advertised(cfg.known)}
  BY DEF RequestInv, AsSent
<1>2. listed \in Seq(Ids) /\ Distinct(listed)
  <2>1. Advertised(cfg.known) \in Seq(Ids) /\ Distinct(Advertised(cfg.known))
    BY <1>1, SettingsAssumption, AdvertisedDistinct
  <2>2. <<>> \in Seq(Ids) /\ Distinct(<<>>)
    BY DEF Distinct
  <2> QED
    BY <1>1, <2>1, <2>2
<1>3. \A i, j \in 1..Len(listed) : listed[j] = listed[i] => j = i
  BY <1>2 DEF Distinct
<1>4. ASSUME NEW i \in 1..Len(listed)
      PROVE  LET route == Resolve(listed[i])
                 ref == Tail(listed[i].path)
                 served == Head(ref) \in Supported /\ Tail(ref) # <<>>
             IN  /\ served => route.provider = Head(ref) /\ route.model = Tail(ref)
                 /\ served /\ Head(listed[i].path) = "quiet" => ~route.thinking
  <2>1. listed[i] \in Ids
    BY <1>2
  <2> QED
    BY <2>1, IdLeadsHome
<1> QED
  BY <1>3, <1>4 DEF AdvertisedLeadHome

\* The pipeline serves every request right: by the route and with the thinking of
\* the name that was chosen last, an oversized one by the fallback, no listed
\* server tool for a conversion to chat, each directive once, and every id that the
\* API lists leads to what it stands for.
THEOREM RequestsAreServedRight == RequestInit /\ [][RequestNext]_reqVars => []RequestsServedRight
<1>1. RequestInv => RequestsServedRight
  BY RouteServes, ToolsServe, PromptServes, IdsServe DEF RequestInv, RequestsServedRight
<1> QED
  BY <1>1, RequestStarts, RequestStep, PTL

-----------------------------------------------------------------------------
(* The stream of the Responses API.                                        *)

Types == {"text", "reasoning", "encrypted", "function", "custom"}
Calls == {"function", "custom"}
WireNames == {WireName(Tools[i]) : i \in 1..Len(Tools)} \cup {<<"unknown">>}
OfTool(name) == <<Identity(name).namespace, Identity(name).name>>
Names == {<<>>} \cup {OfTool(name) : name \in WireNames}

BlockSet == [index : Int, slot : Nat, type : Types, of : Names, parts : Seq(Nat)]
CopySet == [type : Types, of : Names, done : {0, 1}, parts : Seq(Nat)]
ItemSet == [type : Types, of : Names, parts : Seq(Nat)]

RespTyped ==
    /\ slots \in Seq(ItemSet \cup {Uncommitted}) /\ told \in Seq(CopySet) /\ Len(told) = Len(slots)
    /\ Len(slots) \in 0..MaxSlots /\ pieces \in 0..MaxChunks
    /\ active \subseteq BlockSet /\ fallback \in Int /\ fallback <= -1
    /\ \A b \in active : b.slot \in 1..Len(slots) /\ b.index \in Indices \cup (fallback..-1)
    /\ \A b, c \in active : (b.index = c.index \/ b.slot = c.slot) => b = c

\* The client's copy of a block that starts, and of one that ends.
OpenedCopy(b) == [type |-> b.type, of |-> b.of, done |-> 0, parts |-> IF b.type \in Calls THEN <<>> ELSE b.parts]
ClosedCopy(b) == [type |-> b.type, of |-> b.of, done |-> 1, parts |-> b.parts]

\* An open block is told as far as it came, and its slot is free.
BlocksTold == \A b \in active : slots[b.slot] = Uncommitted /\ told[b.slot] = OpenedCopy(b)

\* What has no open block is told, once, as it was committed.
ItemsTold ==
    \A i \in 1..Len(slots) :
       (\A b \in active : b.slot # i) => told[i].done = 1 /\ slots[i] = Committed(told[i])

\* What has come for a slot: with its block while that is open, and told after.
Content(i) ==
    IF \E b \in active : b.slot = i THEN (CHOOSE b \in active : b.slot = i).parts ELSE told[i].parts
SlotContents == [i \in 1..Len(slots) |-> Content(i)]

\* Each piece is in one place.
OnceEach(C, m, p) ==
    /\ \A i \in 1..m : C[i] \in Seq(Nat)
    /\ \A i \in 1..m : \A j \in 1..Len(C[i]) : C[i][j] \in 1..p
    /\ \A i, k \in 1..m : \A j \in 1..Len(C[i]) : \A l \in 1..Len(C[k]) : C[i][j] = C[k][l] => i = k /\ j = l
    /\ \A n \in 1..p : \E i \in 1..m : \E j \in 1..Len(C[i]) : C[i][j] = n
PiecesOnce == OnceEach(SlotContents, Len(slots), pieces)

EndTold == terminal => active = {} /\ final.output = slots

RespInv == RespTyped /\ BlocksTold /\ ItemsTold /\ CallsKeepNames /\ PiecesOnce /\ EndTold

\* The items of slots that are all taken are all the slots.
LEMMA OutputOfAll ==
    ASSUME NEW T, NEW s \in Seq(T), \A i \in 1..Len(s) : s[i] # Uncommitted
    PROVE  Output(s) = s
<1> DEFINE n == Len(s)
           f == [i \in 0..n |-> SubSeq(s, 1, i)]
           w == CHOOSE g : g = [i \in 0..n |->
                   IF i = 0 THEN <<>> ELSE IF s[i] = Uncommitted THEN g[i - 1] ELSE Append(g[i - 1], s[i])]
<1>1. n \in Nat
  OBVIOUS
<1>0. Output(s) = w[n]
  BY Zenon DEF Output
<1>2. ASSUME NEW i \in 1..n PROVE SubSeq(s, 1, i) = Append(SubSeq(s, 1, i - 1), s[i])
  <2> DEFINE a == SubSeq(s, 1, i)
             b == SubSeq(s, 1, i - 1)
             c == Append(b, s[i])
  <2>1. a \in Seq(T) /\ Len(a) = i /\ \A j \in 1..i : a[j] = s[j]
    BY <1>1
  <2>2. b \in Seq(T) /\ Len(b) = i - 1 /\ \A j \in 1..(i - 1) : b[j] = s[j]
    BY <1>1
  <2> HIDE DEF a, b
  <2>3. s[i] \in T /\ \A j \in 1..i : j = i \/ j \in 1..(i - 1)
    BY <1>1
  <2>4. c \in Seq(T) /\ Len(c) = i /\ c[i] = s[i] /\ \A j \in 1..(i - 1) : c[j] = b[j]
    BY <2>2, <2>3
  <2> HIDE DEF c
  <2>5. a = c
    BY <2>1, <2>2, <2>3, <2>4
  <2> QED
    BY <2>5 DEF a, b, c
<1>3. f = [i \in 0..n |-> IF i = 0 THEN <<>> ELSE IF s[i] = Uncommitted THEN f[i - 1] ELSE Append(f[i - 1], s[i])]
  <2>1. SubSeq(s, 1, 0) = <<>>
    OBVIOUS
  <2>2. \A i \in 1..n : i - 1 \in 0..n /\ i # 0 /\ f[i - 1] = SubSeq(s, 1, i - 1)
    BY <1>1
  <2>3. \A i \in 0..n : i = 0 \/ i \in 1..n
    BY <1>1
  <2>4. ASSUME NEW i \in 0..n
        PROVE  SubSeq(s, 1, i) = IF i = 0 THEN <<>> ELSE IF s[i] = Uncommitted THEN f[i - 1] ELSE Append(f[i - 1], s[i])
    <3> HIDE DEF f, n
    <3>1. CASE i = 0
      BY <2>1, <3>1
    <3>2. CASE i \in 1..n
      <4>1. i # 0 /\ s[i] # Uncommitted /\ f[i - 1] = SubSeq(s, 1, i - 1)
        BY <2>2, <3>2 DEF n
      <4>2. SubSeq(s, 1, i) = Append(SubSeq(s, 1, i - 1), s[i])
        BY <1>2, <3>2
      <4> QED
        BY <4>1, <4>2
    <3> QED
      BY <2>3, <3>1, <3>2
  <2> QED
    BY <2>4, Zenon
<1>4. w = [i \in 0..n |-> IF i = 0 THEN <<>> ELSE IF s[i] = Uncommitted THEN w[i - 1] ELSE Append(w[i - 1], s[i])]
  BY <1>3, Zenon
<1> HIDE DEF w, f
<1>5. w[0] = <<>> /\ \A i \in 1..n : w[i] = Append(w[i - 1], s[i])
  <2>1. 0 \in 0..n /\ \A i \in 1..n : i \in 0..n /\ i # 0 /\ s[i] # Uncommitted
    BY <1>1
  <2>2. \A i \in 0..n : w[i] = IF i = 0 THEN <<>> ELSE IF s[i] = Uncommitted THEN w[i - 1] ELSE Append(w[i - 1], s[i])
    <3> HIDE DEF n
    <3> QED
      BY <1>4, Zenon
  <2> HIDE DEF n
  <2>3. w[0] = <<>>
    BY <2>1, <2>2
  <2>4. ASSUME NEW i \in 1..n PROVE w[i] = Append(w[i - 1], s[i])
    BY <2>1, <2>2
  <2> QED
    BY <2>3, <2>4
<1> DEFINE S == {i \in 0..n : w[i] = SubSeq(s, 1, i)}
<1>6. 0 \in S /\ \A i \in 1..n : i - 1 \in S => i \in S
  <2>1. SubSeq(s, 1, 0) = <<>>
    OBVIOUS
  <2>2. \A i \in 1..n : i \in 0..n /\ i - 1 \in 0..n
    BY <1>1
  <2> HIDE DEF n
  <2>3. 0 \in S
    <3>1. 0 \in 0..n /\ w[0] = SubSeq(s, 1, 0)
      BY <1>1, <1>5, <2>1
    <3> QED
      BY <3>1
  <2>4. ASSUME NEW i \in 1..n, i - 1 \in S PROVE i \in S
    BY <1>2, <1>5, <2>2, <2>4
  <2> QED
    BY <2>3, <2>4
<1>7. n \in S
  <2> HIDE DEF S, n
  <2>1. \A i \in 0..n : i \in S
    BY <1>1, <1>6, UpTo
  <2> QED
    BY <1>1, <2>1
<1>8. SubSeq(s, 1, n) = s
  <2> DEFINE a == SubSeq(s, 1, n)
  <2>1. a \in Seq(T) /\ Len(a) = Len(s) /\ \A j \in 1..Len(s) : a[j] = s[j]
    BY <1>1
  <2> HIDE DEF a
  <2>2. a = s
    BY <2>1
  <2> QED
    BY <2>2 DEF a
<1> QED
  BY <1>0, <1>1, <1>7, <1>8

\* A call keeps the kind and the name of its tool.
LEMMA IdentityFacts ==
    ASSUME NEW name \in WireNames
    PROVE  /\ Identity(name).kind \in Calls
           /\ Identity(name).kind = "custom" =>
                 \E k \in 1..Len(Tools) : Tools[k].kind = "custom" /\ OfTool(name) = <<Tools[k].namespace, Tools[k].name>>
<1> DEFINE known == {i \in 1..Len(Tools) : WireName(Tools[i]) = name}
           first == CHOOSE i \in known : \A j \in known : i <= j
<1>1. Len(Tools) \in Nat /\ \A i \in 1..Len(Tools) : Tools[i].kind \in Calls
  <2> DEFINE U == STRING
             R == [kind : {"function", "custom"}, namespace : U, name : U]
  <2>1. Tools \in Seq(R)
    BY ResponsesStreamAssumption
  <2> HIDE DEF U
  <2>2. \A t \in R : t.kind \in {"function", "custom"}
    OBVIOUS
  <2> HIDE DEF R
  <2>3. Len(Tools) \in Nat /\ \A i \in 1..Len(Tools) : Tools[i] \in R
    BY <2>1
  <2> QED
    BY <2>2, <2>3 DEF Calls
<1>2. CASE known = {}
  <2>1. Identity(name).kind = "function"
    BY <1>2 DEF Identity
  <2> QED
    BY <2>1 DEF Calls
<1>3. CASE known # {}
  <2>1. first \in known
    <3>1. known \subseteq Nat
      BY <1>1
    <3> HIDE DEF known
    <3>2. PICK x \in known : \A y \in known : ~(y < x)
      BY <1>3, <3>1, LeastOf
    <3>3. \A y \in known : x <= y
      BY <3>1, <3>2
    <3> QED
      BY <3>3, Zenon
  <2>2. Identity(name) = Tools[first]
    BY <1>3, Zenon DEF Identity
  <2> HIDE DEF first
  <2> QED
    BY <1>1, <2>1, <2>2 DEF OfTool
<1> QED
  BY <1>2, <1>3

\* A new slot with a new piece, or with none; and a new piece at the end of a slot.
LEMMA OnceMore ==
    ASSUME NEW C, NEW m \in Nat, NEW p \in Nat, OnceEach(C, m, p), NEW D, NEW x \in {<<>>, <<p + 1>>},
           \A i \in 1..m : D[i] = C[i], D[m + 1] = x
    PROVE  OnceEach(D, m + 1, p + Len(x))
<1>0. \A i, k \in 1..m : \A j \in 1..Len(C[i]) : \A l \in 1..Len(C[k]) : C[i][j] = C[k][l] => i = k /\ j = l
  BY Zenon DEF OnceEach
<1>1. \A i \in 1..(m + 1) : i = m + 1 \/ i \in 1..m
  OBVIOUS
<1>2. CASE x = <<>>
  <2>1. Len(x) = 0 /\ p + Len(x) = p /\ x \in Seq(Nat)
    BY <1>2
  <2>2. \A i \in 1..(m + 1) : D[i] \in Seq(Nat)
    BY <1>1, <2>1 DEF OnceEach
  <2>3. \A i \in 1..(m + 1) : \A j \in 1..Len(D[i]) : i \in 1..m /\ D[i] = C[i]
    BY <1>1, <2>1
  <2>4. \A i \in 1..(m + 1) : \A j \in 1..Len(D[i]) : D[i][j] \in 1..p
    BY <2>3 DEF OnceEach
  <2>5. ASSUME NEW i \in 1..(m + 1), NEW k \in 1..(m + 1), NEW j \in 1..Len(D[i]), NEW l \in 1..Len(D[k]), D[i][j] = D[k][l]
        PROVE  i = k /\ j = l
    <3>1. i \in 1..m /\ D[i] = C[i] /\ k \in 1..m /\ D[k] = C[k]
      BY <2>3
    <3>2. j \in 1..Len(C[i]) /\ l \in 1..Len(C[k]) /\ C[i][j] = C[k][l]
      BY <2>5, <3>1
    <3> QED
      BY <1>0, <3>1, <3>2
  <2>6. ASSUME NEW n \in 1..p PROVE \E i \in 1..(m + 1) : \E j \in 1..Len(D[i]) : D[i][j] = n
    <3>1. PICK i \in 1..m : \E j \in 1..Len(C[i]) : C[i][j] = n
      BY DEF OnceEach
    <3>2. i \in 1..(m + 1) /\ D[i] = C[i]
      OBVIOUS
    <3> QED
      BY <3>1, <3>2
  <2> QED
    BY <2>1, <2>2, <2>4, <2>5, <2>6 DEF OnceEach
<1>3. CASE x = <<p + 1>>
  <2>1. Len(x) = 1 /\ p + Len(x) = p + 1 /\ x \in Seq(Nat) /\ x[1] = p + 1 /\ p + 1 \in 1..(p + 1)
    BY <1>3
  <2>2. \A i \in 1..(m + 1) : D[i] \in Seq(Nat)
    BY <1>1, <2>1 DEF OnceEach
  <2>3. \A i \in 1..(m + 1) : \A j \in 1..Len(D[i]) :
           (i \in 1..m /\ D[i] = C[i] /\ D[i][j] \in 1..p) \/ (i = m + 1 /\ j = 1 /\ D[i][j] = p + 1)
    <3>1. \A j \in 1..1 : j = 1
      OBVIOUS
    <3> QED
      BY <1>1, <2>1, <3>1 DEF OnceEach
  <2>4. (\A n \in 1..p : n # p + 1 /\ n \in 1..(p + 1)) /\ \A n \in 1..(p + 1) : n = p + 1 \/ n \in 1..p
    OBVIOUS
  <2>5. \A i \in 1..(m + 1) : \A j \in 1..Len(D[i]) : D[i][j] \in 1..(p + 1)
    BY <2>1, <2>3, <2>4
  <2>6. ASSUME NEW i \in 1..(m + 1), NEW k \in 1..(m + 1), NEW j \in 1..Len(D[i]), NEW l \in 1..Len(D[k]), D[i][j] = D[k][l]
        PROVE  i = k /\ j = l
    <3>1. CASE i \in 1..m /\ D[i] = C[i] /\ D[i][j] \in 1..p
      <4>1. k \in 1..m /\ D[k] = C[k]
        BY <2>3, <2>4, <2>6, <3>1
      <4> QED
        BY <2>6, <3>1, <4>1 DEF OnceEach
    <3>2. CASE i = m + 1 /\ j = 1 /\ D[i][j] = p + 1
      BY <2>3, <2>4, <2>6, <3>2
    <3> QED
      BY <2>3, <3>1, <3>2
  <2>7. ASSUME NEW n \in 1..(p + 1) PROVE \E i \in 1..(m + 1) : \E j \in 1..Len(D[i]) : D[i][j] = n
    <3>1. CASE n \in 1..p
      <4>1. PICK i \in 1..m : \E j \in 1..Len(C[i]) : C[i][j] = n
        BY <3>1 DEF OnceEach
      <4>2. i \in 1..(m + 1) /\ D[i] = C[i]
        OBVIOUS
      <4> QED
        BY <4>1, <4>2
    <3>2. CASE n = p + 1
      <4>1. m + 1 \in 1..(m + 1) /\ 1 \in 1..Len(D[m + 1]) /\ D[m + 1][1] = n
        BY <2>1, <3>2
      <4> QED
        BY <4>1
    <3> QED
      BY <2>4, <3>1, <3>2
  <2> QED
    BY <2>1, <2>2, <2>5, <2>6, <2>7 DEF OnceEach
<1> QED
  BY <1>2, <1>3

\* What only agrees on the slots that there are holds each piece once too.
LEMMA OnceSame ==
    ASSUME NEW C, NEW m \in Nat, NEW p \in Nat, OnceEach(C, m, p), NEW D, \A i \in 1..m : D[i] = C[i]
    PROVE  OnceEach(D, m, p)
<1>1. \A i \in 1..m : \A j \in 1..Len(D[i]) : j \in 1..Len(C[i]) /\ D[i][j] = C[i][j]
  OBVIOUS
<1>2. \A i, k \in 1..m : \A j \in 1..Len(D[i]) : \A l \in 1..Len(D[k]) : D[i][j] = D[k][l] => i = k /\ j = l
  <2>1. \A i, k \in 1..m : \A j \in 1..Len(C[i]) : \A l \in 1..Len(C[k]) : C[i][j] = C[k][l] => i = k /\ j = l
    BY Zenon DEF OnceEach
  <2> QED
    BY <1>1, <2>1
<1>3. ASSUME NEW n \in 1..p PROVE \E i \in 1..m : \E j \in 1..Len(D[i]) : D[i][j] = n
  <2>1. PICK i \in 1..m : \E j \in 1..Len(C[i]) : C[i][j] = n
    BY DEF OnceEach
  <2> QED
    BY <2>1
<1> QED
  BY <1>1, <1>2, <1>3 DEF OnceEach

\* The next piece at the end of a slot.
LEMMA OnceLonger ==
    ASSUME NEW C, NEW m \in Nat, NEW p \in Nat, OnceEach(C, m, p), NEW D, NEW s \in 1..m,
           \A i \in 1..m : i # s => D[i] = C[i], D[s] = Append(C[s], p + 1)
    PROVE  OnceEach(D, m, p + 1)
<1>9. \A a, k \in 1..m : \A j \in 1..Len(C[a]) : \A l \in 1..Len(C[k]) : C[a][j] = C[k][l] => a = k /\ j = l
  BY Zenon DEF OnceEach
<1>0. C[s] \in Seq(Nat)
  BY DEF OnceEach
<1>1. /\ D[s] \in Seq(Nat) /\ Len(D[s]) = Len(C[s]) + 1 /\ Len(C[s]) \in Nat /\ D[s][Len(C[s]) + 1] = p + 1
      /\ \A j \in 1..Len(C[s]) : D[s][j] = C[s][j]
  BY <1>0
<1>2. \A j \in 1..(Len(C[s]) + 1) : j = Len(C[s]) + 1 \/ j \in 1..Len(C[s])
  BY <1>1
<1>3. \A i \in 1..m : \A j \in 1..Len(D[i]) :
         (j \in 1..Len(C[i]) /\ D[i][j] = C[i][j] /\ C[i][j] \in 1..p) \/ (i = s /\ j = Len(C[s]) + 1 /\ D[i][j] = p + 1)
  <2>1. ASSUME NEW i \in 1..m, NEW j \in 1..Len(D[i])
        PROVE  (j \in 1..Len(C[i]) /\ D[i][j] = C[i][j]) \/ (i = s /\ j = Len(C[s]) + 1 /\ D[i][j] = p + 1)
    <3>1. CASE i = s
      <4>1. j \in 1..(Len(C[s]) + 1)
        BY <1>1, <3>1
      <4> QED
        BY <1>1, <1>2, <3>1, <4>1
    <3>2. CASE i # s
      BY <3>2
    <3> QED
      BY <3>1, <3>2
  <2>2. \A i \in 1..m : \A j \in 1..Len(C[i]) : C[i][j] \in 1..p
    BY DEF OnceEach
  <2> QED
    BY <2>1, <2>2
<1>4. (\A n \in 1..p : n # p + 1 /\ n \in 1..(p + 1)) /\ (\A n \in 1..(p + 1) : n = p + 1 \/ n \in 1..p) /\ p + 1 \in 1..(p + 1)
  OBVIOUS
<1>5. \A i \in 1..m : D[i] \in Seq(Nat)
  BY <1>1 DEF OnceEach
<1>6. \A i \in 1..m : \A j \in 1..Len(D[i]) : D[i][j] \in 1..(p + 1)
  BY <1>3, <1>4
<1>7. ASSUME NEW i \in 1..m, NEW k \in 1..m, NEW j \in 1..Len(D[i]), NEW l \in 1..Len(D[k]), D[i][j] = D[k][l]
      PROVE  i = k /\ j = l
  <2>0. (l \in 1..Len(C[k]) /\ D[k][l] = C[k][l] /\ C[k][l] \in 1..p) \/ (k = s /\ l = Len(C[s]) + 1 /\ D[k][l] = p + 1)
    BY <1>3
  <2>1. CASE j \in 1..Len(C[i]) /\ D[i][j] = C[i][j] /\ C[i][j] \in 1..p
    <3>1. D[k][l] # p + 1
      BY <1>4, <1>7, <2>1
    <3>2. l \in 1..Len(C[k]) /\ C[i][j] = C[k][l]
      BY <1>7, <2>0, <2>1, <3>1
    <3> QED
      BY <1>9, <2>1, <3>2
  <2>2. CASE i = s /\ j = Len(C[s]) + 1 /\ D[i][j] = p + 1
    <3>1. ~(C[k][l] \in 1..p /\ D[k][l] = C[k][l])
      BY <1>4, <1>7, <2>2
    <3> QED
      BY <2>0, <2>2, <3>1
  <2>3. (j \in 1..Len(C[i]) /\ D[i][j] = C[i][j] /\ C[i][j] \in 1..p) \/ (i = s /\ j = Len(C[s]) + 1 /\ D[i][j] = p + 1)
    BY <1>3
  <2> QED
    BY <2>1, <2>2, <2>3
<1>8. ASSUME NEW n \in 1..(p + 1) PROVE \E i \in 1..m : \E j \in 1..Len(D[i]) : D[i][j] = n
  <2>1. CASE n \in 1..p
    <3>1. PICK i \in 1..m : \E j \in 1..Len(C[i]) : C[i][j] = n
      BY <2>1 DEF OnceEach
    <3>2. PICK j \in 1..Len(C[i]) : C[i][j] = n
      BY <3>1
    <3>3. j \in 1..Len(D[i]) /\ D[i][j] = C[i][j]
      <4>1. CASE i = s
        <5>1. j \in 1..Len(C[s]) /\ j \in 1..(Len(C[s]) + 1)
          BY <1>1, <4>1
        <5> QED
          BY <1>1, <4>1, <5>1
      <4>2. CASE i # s
        BY <4>2
      <4> QED
        BY <4>1, <4>2
    <3> QED
      BY <3>2, <3>3
  <2>2. CASE n = p + 1
    <3>1. Len(C[s]) + 1 \in 1..Len(D[s]) /\ D[s][Len(C[s]) + 1] = n
      BY <1>1, <2>2
    <3> QED
      BY <3>1
  <2> QED
    BY <1>4, <2>1, <2>2
<1> QED
  BY <1>5, <1>6, <1>7, <1>8 DEF OnceEach

-----------------------------------------------------------------------------
(* Blocks and items, in a state and in a step.                             *)

\* The content of a slot is that of its open block, if it has one, and that of
\* its item if not.
ContentRight ==
    /\ \A b \in active : Content(b.slot) = b.parts
    /\ \A i \in 1..Len(slots) : (\A b \in active : b.slot # i) => Content(i) = told[i].parts

\* Since no two blocks have one slot, the content is told apart by slots.
LEMMA ContentIs == RespTyped => ContentRight
<1> SUFFICES ASSUME RespTyped PROVE ContentRight
  OBVIOUS
<1>1. ASSUME NEW b \in active PROVE Content(b.slot) = b.parts
  <2> DEFINE c == CHOOSE a \in active : a.slot = b.slot
  <2>1. c \in active /\ c.slot = b.slot
    BY Zenon
  <2>2. c = b
    BY <2>1 DEF RespTyped
  <2>3. Content(b.slot) = c.parts
    BY Zenon DEF Content
  <2> QED
    BY <2>2, <2>3
<1>2. ASSUME NEW i \in 1..Len(slots), \A b \in active : b.slot # i PROVE Content(i) = told[i].parts
  BY <1>2, Zenon DEF Content
<1> QED
  BY <1>1, <1>2 DEF ContentRight

\* What holds between the blocks and the items of a stream, however far it is.
ItemsRight == RespTyped /\ BlocksTold /\ ItemsTold /\ CallsKeepNames /\ PiecesOnce

\* A block opens or closes as a copy of its own, and is committed as one.
LEMMA BlockFacts ==
    ASSUME NEW b \in BlockSet
    PROVE  /\ OpenedCopy(b) \in CopySet /\ ClosedCopy(b) \in CopySet /\ Committed(b) \in ItemSet
           /\ Committed(ClosedCopy(b)) = Committed(b) /\ Committed(b) # Uncommitted
           /\ OpenedCopy(b).done = 0 /\ OpenedCopy(b).type = b.type /\ OpenedCopy(b).of = b.of
           /\ ClosedCopy(b).done = 1 /\ ClosedCopy(b).type = b.type /\ ClosedCopy(b).of = b.of /\ ClosedCopy(b).parts = b.parts
<1>1. b.type \in Types /\ b.of \in Names /\ b.parts \in Seq(Nat) /\ <<>> \in Seq(Nat)
  BY DEF BlockSet
<1>2. Committed(b).type # "none"
  BY <1>1 DEF Committed, Types
<1>3. Committed(b) # Uncommitted
  BY <1>2 DEF Uncommitted
<1>4. OpenedCopy(b) \in CopySet
  BY <1>1 DEF OpenedCopy, CopySet
<1>5. ClosedCopy(b) \in CopySet
  BY <1>1 DEF ClosedCopy, CopySet
<1>6. Committed(b) \in ItemSet
  BY <1>1 DEF Committed, ItemSet
<1>7. Committed(ClosedCopy(b)) = Committed(b)
  BY DEF Committed, ClosedCopy
<1> QED
  BY <1>3, <1>4, <1>5, <1>6, <1>7 DEF OpenedCopy, ClosedCopy

\* A sequence after another one.
LEMMA Joined ==
    ASSUME NEW T, NEW s \in Seq(T), NEW t \in Seq(T)
    PROVE  /\ s \o t \in Seq(T) /\ Len(s \o t) = Len(s) + Len(t)
           /\ \A i \in 1..Len(s) : (s \o t)[i] = s[i]
           /\ Len(t) = 1 => (s \o t)[Len(s) + 1] = t[1]
  OBVIOUS

\* What a change does to the slots and to the copies of the client.
Changed(B, new) ==
    /\ slots' \in Seq(ItemSet \cup {Uncommitted}) /\ Len(slots') = Len(slots) + Len(new)
    /\ told' \in Seq(CopySet) /\ Len(told') = Len(slots) + Len(new)
    /\ \A i \in 1..Len(slots) : (\A b \in B : b.slot # i) => slots'[i] = slots[i] /\ told'[i] = told[i]
    /\ \A b \in B : slots'[b.slot] = Committed(b) /\ told'[b.slot] = ClosedCopy(b)
    /\ Len(new) = 1 => slots'[Len(slots) + 1] = Uncommitted /\ told'[Len(slots) + 1] = OpenedCopy(new[1])
    /\ active' = (active \ B) \cup {new[i] : i \in 1..Len(new)}

\* Blocks that end are told to their end and committed; a new one takes a slot.
LEMMA ChangeFacts ==
    ASSUME RespTyped, BlocksTold, NEW B, B \subseteq active, NEW new \in Seq(BlockSet), Change(B, new)
    PROVE  Changed(B, new)
<1> DEFINE m == Len(slots)
           k == Len(new)
           slotOf == [i \in 1..Len(slots) |-> IF \E b \in B : b.slot = i THEN Committed(CHOOSE b \in B : b.slot = i) ELSE slots[i]]
           toldOf == [i \in 1..Len(told) |-> IF \E b \in B : b.slot = i THEN CompletedItem(CHOOSE b \in B : b.slot = i) ELSE told[i]]
           blank == [i \in 1..Len(new) |-> Uncommitted]
           copy == [i \in 1..Len(new) |->
                       [type |-> new[i].type, of |-> new[i].of, done |-> 0,
                        parts |-> IF new[i].type \in {"function", "custom"} THEN <<>> ELSE new[i].parts]]
           T == ItemSet \cup {Uncommitted}
<1>1. slots' = slotOf \o blank /\ told' = toldOf \o copy /\ active' = (active \ B) \cup {new[i] : i \in 1..Len(new)}
  BY Zenon DEF Change
<1>2. m \in Nat /\ k \in Nat /\ Len(told) = m /\ slots \in Seq(T) /\ told \in Seq(CopySet)
  BY DEF RespTyped
<1>3. ASSUME NEW b \in B
      PROVE  /\ b \in active /\ b \in BlockSet /\ b.slot \in 1..m /\ (CHOOSE a \in B : a.slot = b.slot) = b
             /\ CompletedItem(b) = ClosedCopy(b)
  <2> DEFINE c == CHOOSE a \in B : a.slot = b.slot
  <2>1. c \in B /\ c.slot = b.slot
    BY Zenon
  <2>2. b \in active /\ b \in BlockSet /\ b.slot \in 1..m /\ c = b
    BY <2>1 DEF RespTyped
  <2>3. CompletedItem(b) = ClosedCopy(b)
    <3>1. told[b.slot] = OpenedCopy(b)
      BY <2>2 DEF BlocksTold
    <3>2. CompletedItem(b) = [OpenedCopy(b) EXCEPT !.parts = IF b.type \in Calls THEN b.parts ELSE @, !.done = @ + 1]
      BY <3>1 DEF CompletedItem, Calls
    <3>3. CASE b.type \in Calls
      <4>1. OpenedCopy(b) = [type |-> b.type, of |-> b.of, done |-> 0, parts |-> <<>>]
        BY <3>3 DEF OpenedCopy
      <4>2. CompletedItem(b) = [[type |-> b.type, of |-> b.of, done |-> 0, parts |-> <<>>] EXCEPT !.parts = b.parts, !.done = @ + 1]
        BY <3>2, <3>3, <4>1
      <4>3. CompletedItem(b) = [type |-> b.type, of |-> b.of, done |-> 0 + 1, parts |-> b.parts]
        BY <4>2
      <4> QED
        BY <4>3 DEF ClosedCopy
    <3>4. CASE b.type \notin Calls
      <4>1. OpenedCopy(b) = [type |-> b.type, of |-> b.of, done |-> 0, parts |-> b.parts]
        BY <3>4 DEF OpenedCopy
      <4>2. CompletedItem(b) = [[type |-> b.type, of |-> b.of, done |-> 0, parts |-> b.parts] EXCEPT !.parts = @, !.done = @ + 1]
        BY <3>2, <3>4, <4>1
      <4>3. CompletedItem(b) = [type |-> b.type, of |-> b.of, done |-> 0 + 1, parts |-> b.parts]
        BY <4>2
      <4> QED
        BY <4>3 DEF ClosedCopy
    <3> QED
      BY <3>3, <3>4
  <2> QED
    BY <2>2, <2>3
<1>4. \A b \in B : slotOf[b.slot] = Committed(b) /\ toldOf[b.slot] = ClosedCopy(b)
  <2> SUFFICES ASSUME NEW b \in B PROVE slotOf[b.slot] = Committed(b) /\ toldOf[b.slot] = ClosedCopy(b)
    OBVIOUS
  <2> HIDE DEF m
  <2>1. b.slot \in 1..Len(slots) /\ b.slot \in 1..Len(told)
    BY <1>2, <1>3 DEF m
  <2> DEFINE c == CHOOSE a \in B : a.slot = b.slot
  <2>2. slotOf[b.slot] = Committed(c) /\ toldOf[b.slot] = CompletedItem(c)
    BY <2>1, Zenon
  <2> QED
    BY <1>3, <2>2
<1>5. \A i \in 1..m : (\A b \in B : b.slot # i) => slotOf[i] = slots[i] /\ toldOf[i] = told[i]
  BY <1>2
<1>6. slotOf \in Seq(T) /\ Len(slotOf) = m /\ toldOf \in Seq(CopySet) /\ Len(toldOf) = m
  <2>1. ASSUME NEW i \in 1..m PROVE slotOf[i] \in T /\ toldOf[i] \in CopySet
    <3>1. slots[i] \in T /\ told[i] \in CopySet
      BY <1>2
    <3>2. CASE \A b \in B : b.slot # i
      BY <1>5, <3>1, <3>2
    <3>3. CASE \E b \in B : b.slot = i
      <4>1. PICK b \in B : b.slot = i
        BY <3>3
      <4>2. Committed(b) \in ItemSet /\ ClosedCopy(b) \in CopySet
        BY <1>3, BlockFacts
      <4> HIDE DEF slotOf, toldOf
      <4>3. slotOf[i] = Committed(b) /\ toldOf[i] = ClosedCopy(b)
        BY <1>4, <4>1
      <4> QED
        BY <4>2, <4>3
    <3> QED
      BY <3>2, <3>3
  <2>2. slotOf = [i \in 1..m |-> slotOf[i]] /\ toldOf = [i \in 1..m |-> toldOf[i]]
    BY <1>2
  <2> HIDE DEF slotOf, toldOf, T
  <2> QED
    BY <1>2, <2>1, <2>2
<1>7. copy = [i \in 1..k |-> OpenedCopy(new[i])]
  BY DEF OpenedCopy, Calls
<1>8. blank \in Seq(T) /\ Len(blank) = k /\ copy \in Seq(CopySet) /\ Len(copy) = k
  <2>1. \A i \in 1..k : new[i] \in BlockSet
    BY <1>2
  <2>2. \A i \in 1..k : OpenedCopy(new[i]) \in CopySet
    BY <2>1, BlockFacts
  <2>3. Uncommitted \in T
    OBVIOUS
  <2> HIDE DEF T, copy
  <2> QED
    BY <1>2, <1>7, <2>2, <2>3
<1>9. k = 1 => blank[1] = Uncommitted /\ copy[1] = OpenedCopy(new[1])
  <2> HIDE DEF copy
  <2> QED
    BY <1>7
<1> HIDE DEF slotOf, toldOf, blank, copy, T
<1>10. /\ slots' \in Seq(T) /\ Len(slots') = m + k /\ \A i \in 1..m : slots'[i] = slotOf[i]
       /\ k = 1 => slots'[m + 1] = blank[1]
  <2> HIDE DEF m, k
  <2>1. /\ slotOf \o blank \in Seq(T) /\ Len(slotOf \o blank) = Len(slotOf) + Len(blank)
        /\ \A i \in 1..Len(slotOf) : (slotOf \o blank)[i] = slotOf[i]
        /\ Len(blank) = 1 => (slotOf \o blank)[Len(slotOf) + 1] = blank[1]
    BY <1>6, <1>8, Joined
  <2> QED
    BY <1>1, <1>6, <1>8, <2>1
<1>11. /\ told' \in Seq(CopySet) /\ Len(told') = m + k /\ \A i \in 1..m : told'[i] = toldOf[i]
       /\ k = 1 => told'[m + 1] = copy[1]
  <2> HIDE DEF m, k
  <2>1. /\ toldOf \o copy \in Seq(CopySet) /\ Len(toldOf \o copy) = Len(toldOf) + Len(copy)
        /\ \A i \in 1..Len(toldOf) : (toldOf \o copy)[i] = toldOf[i]
        /\ Len(copy) = 1 => (toldOf \o copy)[Len(toldOf) + 1] = copy[1]
    BY <1>6, <1>8, Joined
  <2> QED
    BY <1>1, <1>6, <1>8, <2>1
<1>12. \A i \in 1..m : (\A b \in B : b.slot # i) => slots'[i] = slots[i] /\ told'[i] = told[i]
  BY <1>5, <1>10, <1>11
<1>13. \A b \in B : slots'[b.slot] = Committed(b) /\ told'[b.slot] = ClosedCopy(b)
  BY <1>3, <1>4, <1>10, <1>11
<1>14. k = 1 => slots'[m + 1] = Uncommitted /\ told'[m + 1] = OpenedCopy(new[1])
  BY <1>9, <1>10, <1>11
<1> QED
  BY <1>1, <1>10, <1>11, <1>12, <1>13, <1>14 DEF Changed, T

-----------------------------------------------------------------------------
(* What the changes keep.                                                  *)

\* A block that is new has the next slot, an index of its own, and what came for it.
Arrives(B, c) ==
    /\ c.slot = Len(slots) + 1 /\ Len(slots) < MaxSlots
    /\ c.index \in Indices \cup (fallback'..-1) /\ \A b \in active \ B : b.index # c.index
    /\ c.parts \in {<<>>, <<pieces + 1>>} /\ pieces' = pieces + Len(c.parts)
    /\ c.type = "custom" => \E k \in 1..Len(Tools) : Tools[k].kind = "custom" /\ c.of = <<Tools[k].namespace, Tools[k].name>>

\* Blocks end, and one may start.
LEMMA ChangeKeeps ==
    ASSUME ItemsRight, NEW B, B \subseteq active, NEW new \in Seq(BlockSet), Change(B, new), Len(new) \in {0, 1},
           Len(new) = 0 => pieces' = pieces, Len(new) = 1 => Arrives(B, new[1]),
           fallback' \in Int, fallback' <= fallback, pieces' \in 0..MaxChunks
    PROVE  ItemsRight' /\ Changed(B, new)
<1> DEFINE m == Len(slots)
           k == Len(new)
           c == new[1]
<1>1. Changed(B, new)
  BY ChangeFacts DEF ItemsRight
<1>2. /\ m \in Nat /\ (k = 1 => c \in BlockSet) /\ \A b \in active : b \in BlockSet /\ b.slot \in 1..m
      /\ \A b, d \in active : (b.index = d.index \/ b.slot = d.slot) => b = d
  BY DEF ItemsRight, RespTyped
<1>3. \A b \in active' : (b \in active /\ b \notin B) \/ (k = 1 /\ b = c)
  <2>1. active' = (active \ B) \cup {new[i] : i \in 1..Len(new)}
    BY <1>1 DEF Changed
  <2>2. \A i \in 1..Len(new) : i = 1 /\ k = 1
    <3>1. \A n \in {0, 1} : \A i \in 1..n : i = 1 /\ n = 1
      OBVIOUS
    <3> QED
      BY <3>1
  <2> QED
    BY <2>1, <2>2
<1>4. (\A b \in active : b \notin B => b \in active') /\ (k = 1 => c \in active')
  <2>1. active' = (active \ B) \cup {new[i] : i \in 1..Len(new)}
    BY <1>1 DEF Changed
  <2> QED
    BY <2>1
<1>5. /\ k \in {0, 1} /\ Len(slots') = m + k /\ Len(told') = m + k /\ \A i \in 1..(m + k) : i \in 1..m \/ (k = 1 /\ i = m + 1)
      /\ \A i \in 1..m : i \in 1..(m + k) /\ i # m + 1
      /\ k = 1 => m + 1 \in 1..(m + k)
  <2>1. k \in {0, 1} /\ Len(slots') = m + k /\ Len(told') = m + k
    BY <1>1, <1>2 DEF Changed
  <2>2. m \in Nat
    BY <1>2
  <2> HIDE DEF m, k
  <2> QED
    BY <2>1, <2>2
<1>6. k = 1 => c.slot = m + 1 /\ \A b \in active : b.slot # m + 1
  BY <1>2 DEF Arrives
<1>7. \A b \in active : b \notin B => \A a \in B : a.slot # b.slot
  BY <1>2
<1> HIDE DEF m, k, c
<1>8. RespTyped'
  <2>1. active' \subseteq BlockSet
    BY <1>2, <1>3
  <2>2. ASSUME NEW b \in active' PROVE b.slot \in 1..(m + k) /\ b.index \in Indices \cup (fallback'..-1)
    <3>1. CASE b \in active
      <4>1. b.index \in Indices \cup (fallback..-1) /\ b.slot \in 1..m /\ fallback \in Int
        BY <3>1 DEF ItemsRight, RespTyped, m
      <4> QED
        BY <1>5, <4>1
    <3>2. CASE k = 1 /\ b = c
      BY <1>5, <1>6, <3>2 DEF Arrives, c, k
    <3> QED
      BY <1>3, <3>1, <3>2
  <2>3. k = 1 => \A b \in active : b \notin B => b.index # c.index
    BY DEF Arrives, k, c
  <2>4. ASSUME NEW b \in active', NEW d \in active', b.index = d.index \/ b.slot = d.slot PROVE b = d
    <3>1. CASE b \in active /\ b \notin B /\ d \in active /\ d \notin B
      BY <1>2, <2>4, <3>1
    <3>2. CASE k = 1 /\ b = c /\ d \in active /\ d \notin B
      BY <1>6, <2>3, <2>4, <3>2
    <3>3. CASE k = 1 /\ d = c /\ b \in active /\ b \notin B
      BY <1>6, <2>3, <2>4, <3>3
    <3>4. CASE b = c /\ d = c
      BY <3>4
    <3> QED
      BY <1>3, <3>1, <3>2, <3>3, <3>4
  <2>5. m + k \in 0..MaxSlots
    <3>1. m \in 0..MaxSlots /\ MaxSlots \in Nat
      BY ResponsesStreamAssumption DEF ItemsRight, RespTyped, m
    <3>2. k = 1 => m < MaxSlots
      BY DEF Arrives, m, k
    <3> QED
      BY <1>5, <3>1, <3>2
  <2>6. fallback' \in Int /\ fallback' <= -1
    BY DEF ItemsRight, RespTyped
  <2>7. slots' \in Seq(ItemSet \cup {Uncommitted}) /\ told' \in Seq(CopySet) /\ Len(told') = Len(slots')
    BY <1>1, <1>5 DEF Changed
  <2>8. \A b \in active' : b.slot \in 1..Len(slots') /\ b.index \in Indices \cup (fallback'..-1)
    BY <1>5, <2>2
  <2>9. Len(slots') \in 0..MaxSlots
    BY <1>5, <2>5
  <2> QED
    BY <2>1, <2>4, <2>6, <2>7, <2>8, <2>9 DEF RespTyped
<1>9. BlocksTold'
  <2>1. ASSUME NEW b \in active' PROVE slots'[b.slot] = Uncommitted /\ told'[b.slot] = OpenedCopy(b)
    <3>1. CASE b \in active /\ b \notin B
      <4>1. slots'[b.slot] = slots[b.slot] /\ told'[b.slot] = told[b.slot]
        BY <1>1, <1>2, <1>7, <3>1 DEF Changed, m
      <4> QED
        BY <3>1, <4>1 DEF ItemsRight, BlocksTold
    <3>2. CASE k = 1 /\ b = c
      BY <1>1, <1>6, <3>2 DEF Changed, m, k, c
    <3> QED
      BY <1>3, <3>1, <3>2
  <2> QED
    BY <2>1 DEF BlocksTold, OpenedCopy
<1>10. ItemsTold'
  <2>1. ASSUME NEW i \in 1..(m + k), \A b \in active' : b.slot # i
        PROVE  told'[i].done = 1 /\ slots'[i] = Committed(told'[i])
    <3>1. i \in 1..m
      BY <1>4, <1>5, <1>6, <2>1
    <3>2. CASE \E b \in B : b.slot = i
      <4>1. PICK b \in B : b.slot = i
        BY <3>2
      <4>2. slots'[i] = Committed(b) /\ told'[i] = ClosedCopy(b)
        BY <1>1, <4>1 DEF Changed
      <4>3. Committed(ClosedCopy(b)) = Committed(b) /\ ClosedCopy(b).done = 1
        BY <1>2, BlockFacts
      <4> QED
        BY <4>2, <4>3
    <3>3. CASE \A b \in B : b.slot # i
      <4>1. slots'[i] = slots[i] /\ told'[i] = told[i]
        BY <1>1, <3>1, <3>3 DEF Changed, m
      <4>2. \A b \in active : b.slot # i
        BY <1>4, <2>1, <3>3
      <4> QED
        BY <3>1, <4>1, <4>2 DEF ItemsRight, ItemsTold, m
    <3> QED
      BY <3>2, <3>3
  <2> QED
    BY <1>5, <2>1 DEF ItemsTold, Committed
<1>11. CallsKeepNames'
  <2>1. ASSUME NEW i \in 1..(m + k), told'[i].type = "custom"
        PROVE  \E j \in 1..Len(Tools) : Tools[j].kind = "custom" /\ told'[i].of = <<Tools[j].namespace, Tools[j].name>>
    <3>1. CASE i \in 1..m
      <4>1. told'[i].type = told[i].type /\ told'[i].of = told[i].of
        <5>1. CASE \E b \in B : b.slot = i
          <6>1. PICK b \in B : b.slot = i
            BY <5>1
          <6>2. told'[i] = ClosedCopy(b) /\ told[i] = OpenedCopy(b)
            BY <1>1, <6>1 DEF Changed, ItemsRight, BlocksTold
          <6> QED
            BY <6>2 DEF ClosedCopy, OpenedCopy
        <5>2. CASE \A b \in B : b.slot # i
          BY <1>1, <3>1, <5>2 DEF Changed, m
        <5> QED
          BY <5>1, <5>2
      <4>2. i \in 1..Len(told)
        BY <3>1 DEF ItemsRight, RespTyped, m
      <4> QED
        BY <2>1, <4>1, <4>2 DEF ItemsRight, CallsKeepNames
    <3>2. CASE k = 1 /\ i = m + 1
      <4>1. told'[i] = OpenedCopy(c)
        BY <1>1, <3>2 DEF Changed, m, k, c
      <4>2. told'[i].type = c.type /\ told'[i].of = c.of
        BY <4>1 DEF OpenedCopy
      <4> QED
        BY <2>1, <3>2, <4>2 DEF Arrives, k, c
    <3> QED
      BY <1>5, <3>1, <3>2
  <2> QED
    BY <1>5, <2>1 DEF CallsKeepNames
<1>12. PiecesOnce'
  <2>1. ContentRight
    BY ContentIs DEF ItemsRight
  <2>2. ContentRight'
    BY <1>8, ContentIs, PTL
  <2>3. ASSUME NEW i \in 1..m PROVE Content(i)' = Content(i)
    <3>1. CASE \E b \in active : b.slot = i /\ b \notin B
      <4>1. PICK b \in active : b.slot = i /\ b \notin B
        BY <3>1
      <4>2. Content(i) = b.parts
        BY <2>1, <4>1 DEF ContentRight
      <4>3. Content(i)' = b.parts
        <5>1. b \in active'
          BY <1>4, <4>1
        <5> QED
          BY <2>2, <4>1, <5>1 DEF ContentRight
      <4> QED
        BY <4>2, <4>3
    <3>2. CASE \E b \in B : b.slot = i
      <4>1. PICK b \in B : b.slot = i
        BY <3>2
      <4>2. Content(i) = b.parts
        BY <2>1, <4>1 DEF ContentRight
      <4>3. \A a \in active' : a.slot # i
        BY <1>2, <1>3, <1>6, <1>5, <4>1
      <4>4. Content(i)' = told'[i].parts
        <5>1. i \in 1..Len(slots')
          BY <1>5
        <5> QED
          BY <2>2, <4>3, <5>1 DEF ContentRight
      <4>5. told'[i] = ClosedCopy(b)
        BY <1>1, <4>1 DEF Changed
      <4> QED
        BY <4>2, <4>4, <4>5 DEF ClosedCopy
    <3>3. CASE \A b \in active : b.slot # i
      <4>1. Content(i) = told[i].parts
        BY <2>1, <3>3 DEF ContentRight, m
      <4>2. told'[i] = told[i]
        BY <1>1, <3>3 DEF Changed, m
      <4>3. \A a \in active' : a.slot # i
        BY <1>3, <1>5, <1>6, <3>3
      <4>4. Content(i)' = told'[i].parts
        <5>1. i \in 1..Len(slots')
          BY <1>5
        <5> QED
          BY <2>2, <4>3, <5>1 DEF ContentRight
      <4> QED
        BY <4>1, <4>2, <4>4
    <3> QED
      BY <3>1, <3>2, <3>3
  <2>4. ASSUME k = 1, NEW i, i = m + 1 PROVE Content(i)' = c.parts
    <3>1. c \in active' /\ c.slot = i
      BY <1>4, <1>6, <2>4
    <3> QED
      BY <2>2, <3>1 DEF ContentRight
  <2> DEFINE C == SlotContents
             D == SlotContents'
  <2>5. \A i \in 1..m : C[i] = Content(i)
    BY DEF SlotContents, m
  <2>6. D = [i \in 1..Len(slots') |-> Content(i)']
    BY DEF SlotContents
  <2>7. \A i \in 1..(m + k) : D[i] = Content(i)'
    BY <1>5, <2>6
  <2>8. pieces \in Nat /\ OnceEach(C, m, pieces)
    BY ResponsesStreamAssumption DEF ItemsRight, PiecesOnce, RespTyped, m
  <2> HIDE DEF C, D
  <2>9. \A i \in 1..m : D[i] = C[i]
    BY <1>5, <2>3, <2>5, <2>7
  <2>10. CASE k = 0
    <3>1. OnceEach(D, m, pieces)
      BY <1>2, <2>8, <2>9, OnceSame
    <3>2. m + k = m /\ pieces' = pieces
      BY <1>2, <2>10 DEF k
    <3> QED
      BY <1>5, <3>1, <3>2 DEF PiecesOnce, D
  <2>11. CASE k = 1
    <3>1. c.parts \in {<<>>, <<pieces + 1>>} /\ pieces' = pieces + Len(c.parts)
      BY <2>11 DEF Arrives, k, c
    <3>2. D[m + 1] = c.parts
      BY <1>5, <2>4, <2>7, <2>11
    <3>3. OnceEach(D, m + 1, pieces + Len(c.parts))
      BY <1>2, <2>8, <2>9, <3>1, <3>2, OnceMore
    <3>4. Len(slots') = m + 1
      BY <1>5, <2>11
    <3> QED
      BY <3>1, <3>3, <3>4 DEF PiecesOnce, D
  <2> QED
    BY <1>5, <2>10, <2>11
<1> QED
  BY <1>1, <1>8, <1>9, <1>10, <1>11, <1>12 DEF ItemsRight

\* A piece comes for an open block.
LEMMA GrowKeeps ==
    ASSUME ItemsRight, NEW b \in active, Grows(b, pieces + 1), pieces' = pieces + 1, pieces' \in 0..MaxChunks,
           fallback' \in Int, fallback' <= fallback
    PROVE  ItemsRight'
<1> DEFINE m == Len(slots)
           n == pieces + 1
           g == [b EXCEPT !.parts = Append(@, n)]
<1>1. /\ m \in Nat /\ b.slot \in 1..m /\ b \in BlockSet /\ pieces \in Nat /\ Len(told) = m
      /\ \A a \in active : a \in BlockSet /\ a.slot \in 1..m /\ a.index \in Indices \cup (fallback..-1)
      /\ \A a, d \in active : (a.index = d.index \/ a.slot = d.slot) => a = d
  BY ResponsesStreamAssumption DEF ItemsRight, RespTyped
<1>2. /\ g \in BlockSet /\ g.slot = b.slot /\ g.index = b.index /\ g.type = b.type /\ g.of = b.of
      /\ g.parts = Append(b.parts, n)
  <2>1. b.parts \in Seq(Nat) /\ n \in Nat
    BY <1>1 DEF BlockSet
  <2>2. Append(b.parts, n) \in Seq(Nat)
    BY <2>1
  <2> HIDE DEF n
  <2> QED
    BY <1>1, <2>2 DEF BlockSet
<1>3. active' = (active \ {b}) \cup {g} /\ slots' = slots
  BY DEF Grows
<1>4. told[b.slot] = OpenedCopy(b) /\ slots[b.slot] = Uncommitted
  BY DEF ItemsRight, BlocksTold
<1>5. /\ told' \in Seq(CopySet) /\ Len(told') = m /\ told'[b.slot] = OpenedCopy(g)
      /\ \A i \in 1..m : i # b.slot => told'[i] = told[i]
  <2>1. CASE b.type \in {"function", "custom"}
    <3>1. told' = told
      BY <2>1 DEF Grows
    <3>2. OpenedCopy(g) = OpenedCopy(b)
      BY <1>2, <2>1 DEF OpenedCopy, Calls
    <3>3. told \in Seq(CopySet)
      BY DEF ItemsRight, RespTyped
    <3> QED
      BY <1>1, <1>4, <3>1, <3>2, <3>3
  <2>2. CASE b.type \notin {"function", "custom"}
    <3> DEFINE c == [told[b.slot] EXCEPT !.parts = Append(@, n)]
    <3>1. told' = [told EXCEPT ![b.slot] = c]
      BY <2>2 DEF Grows
    <3>2. c = OpenedCopy(g)
      <4>1. OpenedCopy(b) = [type |-> b.type, of |-> b.of, done |-> 0, parts |-> b.parts]
        BY <2>2 DEF OpenedCopy, Calls
      <4>2. OpenedCopy(g) = [type |-> b.type, of |-> b.of, done |-> 0, parts |-> Append(b.parts, n)]
        BY <1>2, <2>2 DEF OpenedCopy, Calls
      <4> HIDE DEF g, n
      <4>3. c = [[type |-> b.type, of |-> b.of, done |-> 0, parts |-> b.parts] EXCEPT !.parts = Append(@, n)]
        BY <1>4, <4>1
      <4> HIDE DEF c
      <4>4. c = [type |-> b.type, of |-> b.of, done |-> 0, parts |-> Append(b.parts, n)]
        BY <4>3
      <4> QED
        BY <4>2, <4>4
    <3>3. c \in CopySet
      BY <1>2, <3>2, BlockFacts
    <3>4. told \in Seq(CopySet)
      BY DEF ItemsRight, RespTyped
    <3> HIDE DEF c
    <3> QED
      BY <1>1, <3>1, <3>2, <3>3, <3>4
  <2> QED
    BY <2>1, <2>2
<1>6. \A a \in active' : (a \in active /\ a # b /\ a.slot # b.slot) \/ a = g
  BY <1>1, <1>3
<1>7. g \in active' /\ \A a \in active : a # b => a \in active'
  BY <1>3
<1> HIDE DEF m, g
<1>8. RespTyped'
  <2>1. active' \subseteq BlockSet
    BY <1>1, <1>2, <1>6
  <2>2. fallback \in Int /\ fallback <= -1 /\ m \in 0..MaxSlots /\ slots \in Seq(ItemSet \cup {Uncommitted})
    BY DEF ItemsRight, RespTyped, m
  <2>3. fallback..-1 \subseteq fallback'..-1 /\ fallback' <= -1
    BY <2>2
  <2>4. \A a \in active' : a.slot \in 1..m /\ a.index \in Indices \cup (fallback'..-1)
    BY <1>1, <1>2, <1>6, <2>3
  <2>5. \A a, d \in active' : (a.index = d.index \/ a.slot = d.slot) => a = d
    BY <1>1, <1>2, <1>6
  <2> QED
    BY <1>3, <1>5, <2>1, <2>2, <2>3, <2>4, <2>5 DEF RespTyped, m
<1>9. BlocksTold'
  <2>1. ASSUME NEW a \in active' PROVE slots'[a.slot] = Uncommitted /\ told'[a.slot] = OpenedCopy(a)
    <3>1. CASE a \in active /\ a # b /\ a.slot # b.slot
      <4>1. told'[a.slot] = told[a.slot]
        BY <1>1, <1>5, <3>1
      <4> QED
        BY <1>3, <3>1, <4>1 DEF ItemsRight, BlocksTold
    <3>2. CASE a = g
      BY <1>2, <1>3, <1>4, <1>5, <3>2
    <3> QED
      BY <1>6, <3>1, <3>2
  <2> QED
    BY <2>1 DEF BlocksTold, OpenedCopy
<1>10. ItemsTold'
  <2>1. ASSUME NEW i \in 1..m, \A a \in active' : a.slot # i PROVE told'[i].done = 1 /\ slots'[i] = Committed(told'[i])
    <3>1. i # b.slot /\ \A a \in active : a.slot # i
      BY <1>2, <1>7, <2>1
    <3>2. told'[i] = told[i]
      BY <1>5, <3>1
    <3> QED
      BY <1>3, <3>1, <3>2 DEF ItemsRight, ItemsTold, m
  <2> QED
    BY <1>3, <2>1 DEF ItemsTold, Committed, m
<1>11. CallsKeepNames'
  <2>1. ASSUME NEW i \in 1..m PROVE told'[i].type = told[i].type /\ told'[i].of = told[i].of
    <3>1. CASE i = b.slot
      BY <1>2, <1>4, <1>5, <3>1 DEF OpenedCopy
    <3>2. CASE i # b.slot
      BY <1>5, <3>2
    <3> QED
      BY <3>1, <3>2
  <2> QED
    BY <1>1, <1>5, <2>1 DEF ItemsRight, CallsKeepNames
<1>12. PiecesOnce'
  <2>1. ContentRight
    BY ContentIs DEF ItemsRight
  <2>2. ContentRight'
    BY <1>8, ContentIs, PTL
  <2>3. ASSUME NEW i \in 1..m, i # b.slot PROVE Content(i)' = Content(i)
    <3>1. CASE \E a \in active : a.slot = i
      <4>1. PICK a \in active : a.slot = i
        BY <3>1
      <4>2. Content(i) = a.parts
        BY <2>1, <4>1 DEF ContentRight
      <4>3. a \in active'
        BY <1>7, <2>3, <4>1
      <4>4. Content(i)' = a.parts
        BY <2>2, <4>1, <4>3 DEF ContentRight
      <4> QED
        BY <4>2, <4>4
    <3>2. CASE \A a \in active : a.slot # i
      <4>1. Content(i) = told[i].parts
        BY <2>1, <3>2 DEF ContentRight, m
      <4>2. (\A a \in active' : a.slot # i) /\ i \in 1..Len(slots')
        BY <1>2, <1>3, <1>6, <2>3, <3>2 DEF m
      <4>3. Content(i)' = told'[i].parts
        BY <2>2, <4>2 DEF ContentRight
      <4> QED
        BY <1>5, <2>3, <4>1, <4>3
    <3> QED
      BY <3>1, <3>2
  <2>4. ASSUME NEW i, i = b.slot PROVE Content(i) = b.parts /\ Content(i)' = g.parts
    BY <1>2, <1>7, <2>1, <2>2, <2>4 DEF ContentRight
  <2> DEFINE C == SlotContents
             D == SlotContents'
  <2>5. \A i \in 1..m : C[i] = Content(i)
    BY DEF SlotContents, m
  <2>6. D = [i \in 1..Len(slots') |-> Content(i)']
    BY DEF SlotContents
  <2>7. \A i \in 1..m : D[i] = Content(i)'
    BY <1>3, <2>6 DEF m
  <2>8. OnceEach(C, m, pieces)
    BY DEF ItemsRight, PiecesOnce, m
  <2> HIDE DEF C, D
  <2>9. \A i \in 1..m : i # b.slot => D[i] = C[i]
    BY <2>3, <2>5, <2>7
  <2>10. D[b.slot] = Append(C[b.slot], pieces + 1)
    <3>1. C[b.slot] = b.parts /\ D[b.slot] = g.parts
      BY <1>1, <2>4, <2>5, <2>7
    <3> QED
      BY <1>2, <3>1
  <2>11. OnceEach(D, m, pieces + 1)
    BY <1>1, <2>8, <2>9, <2>10, OnceLonger
  <2> QED
    BY <1>3, <2>11 DEF PiecesOnce, D, m
<1> QED
  BY <1>8, <1>9, <1>10, <1>11, <1>12 DEF ItemsRight

\* Nothing comes.
LEMMA StillKeeps ==
    ASSUME ItemsRight, UNCHANGED <<slots, active, told, pieces>>, fallback' \in Int, fallback' <= fallback
    PROVE  ItemsRight'
<1>1. fallback \in Int /\ fallback <= -1
  BY DEF ItemsRight, RespTyped
<1>2. fallback..-1 \subseteq fallback'..-1 /\ fallback' <= -1
  BY <1>1
<1>3. RespTyped'
  BY <1>2 DEF ItemsRight, RespTyped
<1>4. BlocksTold' /\ ItemsTold' /\ CallsKeepNames'
  BY DEF ItemsRight, BlocksTold, ItemsTold, CallsKeepNames
<1>5. PiecesOnce'
  BY DEF ItemsRight, PiecesOnce, SlotContents, Content
<1> QED
  BY <1>3, <1>4, <1>5 DEF ItemsRight

-----------------------------------------------------------------------------
(* The events.                                                             *)

\* The pieces that may come.
LEMMA ChunkFacts ==
    ASSUME RespTyped, NEW p \in Chunk
    PROVE  /\ p \in {<<>>, <<pieces + 1>>} /\ p \in Seq(Nat) /\ pieces + Len(p) \in 0..MaxChunks
           /\ p # <<>> => p[1] = pieces + 1 /\ pieces + Len(p) = pieces + 1
<1>1. pieces \in 0..MaxChunks /\ MaxChunks \in Nat /\ pieces \in Nat
  BY ResponsesStreamAssumption DEF RespTyped
<1>2. CASE p = <<>>
  BY <1>1, <1>2
<1>3. CASE pieces < MaxChunks /\ p = <<pieces + 1>>
  BY <1>1, <1>3
<1> QED
  BY <1>2, <1>3 DEF Chunk

\* A block that starts ends the one of its index.
LEMMA StartKeeps ==
    ASSUME ItemsRight, NEW index, NEW type \in Types, NEW of \in Names, NEW p \in Chunk,
           Starts(Block(index, type, of, p)), Len(slots) < MaxSlots, Brings(p),
           index \in Indices \cup (fallback'..-1), fallback' \in Int, fallback' <= fallback,
           type = "custom" => \E k \in 1..Len(Tools) : Tools[k].kind = "custom" /\ of = <<Tools[k].namespace, Tools[k].name>>
    PROVE  ItemsRight'
<1> DEFINE c == Block(index, type, of, p)
           B == At(index)
           new == <<c>>
<1>1. /\ p \in {<<>>, <<pieces + 1>>} /\ p \in Seq(Nat) /\ pieces + Len(p) \in 0..MaxChunks
      /\ pieces' = pieces + Len(p) /\ pieces' \in 0..MaxChunks
  BY ChunkFacts DEF ItemsRight, Brings
<1>2. c.index = index /\ c.slot = Len(slots) + 1 /\ c.type = type /\ c.of = of /\ c.parts = p
  BY DEF Block
<1>3. index \in Int /\ Len(slots) + 1 \in Nat
  BY ResponsesStreamAssumption DEF ItemsRight, RespTyped
<1>4. c \in BlockSet
  BY <1>1, <1>3 DEF Block, BlockSet
<1>5. B \subseteq active /\ \A b \in active \ B : b.index # index
  BY DEF At
<1>6. Change(B, new)
  BY <1>2 DEF Starts
<1>7. Arrives(B, c)
  BY <1>1, <1>2, <1>5 DEF Arrives
<1> HIDE DEF c, B
<1>8. new \in Seq(BlockSet) /\ Len(new) = 1 /\ new[1] = c
  BY <1>4
<1> HIDE DEF new
<1> QED
  BY <1>1, <1>5, <1>6, <1>7, <1>8, ChangeKeeps

\* A block ends, or all of them.
LEMMA EndKeeps ==
    ASSUME ItemsRight, NEW B, B \subseteq active, Change(B, <<>>), pieces' = pieces,
           fallback' \in Int, fallback' <= fallback
    PROVE  ItemsRight' /\ Changed(B, <<>>)
<1> DEFINE new == <<>>
<1>1. new \in Seq(BlockSet) /\ Len(new) = 0 /\ Len(new) # 1 /\ Len(new) \in {0, 1} /\ Change(B, new)
  OBVIOUS
<1>2. pieces' \in 0..MaxChunks
  BY DEF ItemsRight, RespTyped
<1> HIDE DEF new
<1>3. ItemsRight' /\ Changed(B, new)
  BY <1>1, <1>2, ChangeKeeps
<1> QED
  BY <1>3 DEF new

\* The index of a text that has none is below all that were.
LEMMA FallsFacts ==
    ASSUME RespTyped, NEW index \in Indices \cup {NoIndex}, Falls(index)
    PROVE  /\ fallback' \in Int /\ fallback' <= fallback
           /\ SafeIndex(index) \in Indices \cup (fallback'..-1)
<1>1. fallback \in Int /\ fallback <= -1
  BY DEF RespTyped
<1>2. CASE index = NoIndex
  BY <1>1, <1>2 DEF Falls, SafeIndex
<1>3. CASE index # NoIndex
  BY <1>1, <1>3 DEF Falls, SafeIndex
<1> QED
  BY <1>2, <1>3

\* _start_text_block()
LEMMA StartTextKeeps ==
    ASSUME ItemsRight, NEW index \in Indices \cup {NoIndex}, NEW p \in Chunk, StartText(index, p)
    PROVE  ItemsRight'
<1> DEFINE i == SafeIndex(index)
           t == "text"
           o == <<>>
<1>1. t \in Types /\ o \in Names /\ t # "custom"
  BY DEF Types, Names
<1>2. fallback' \in Int /\ fallback' <= fallback /\ i \in Indices \cup (fallback'..-1)
  BY FallsFacts DEF StartText, ItemsRight
<1>3. Starts(Block(i, t, o, p)) /\ Len(slots) < MaxSlots /\ Brings(p)
  BY DEF StartText
<1> HIDE DEF i, t, o
<1> QED
  BY <1>1, <1>2, <1>3, StartKeeps

\* The kinds of block that start with an index, and have no name.
LEMMA StartIndexed ==
    ASSUME ItemsRight, NEW index \in Indices, NEW type \in {"text", "reasoning", "encrypted"}, NEW p \in Chunk,
           Starts(Block(index, type, <<>>, p)), Len(slots) < MaxSlots, Brings(p), UNCHANGED fallback
    PROVE  ItemsRight'
<1> DEFINE o == <<>>
<1>1. type \in Types /\ o \in Names /\ type # "custom"
  BY DEF Types, Names
<1>2. fallback' \in Int /\ fallback' <= fallback
  BY DEF ItemsRight, RespTyped
<1>3. Starts(Block(index, type, o, p))
  OBVIOUS
<1> HIDE DEF o
<1> QED
  BY <1>1, <1>2, <1>3, StartKeeps

\* _start_reasoning_block() for thinking
LEMMA StartThinkingKeeps ==
    ASSUME ItemsRight, NEW index \in Indices \cup {NoIndex}, NEW p \in Chunk, StartThinking(index, p)
    PROVE  ItemsRight'
<1> DEFINE t == "reasoning"
<1>1. t \in {"text", "reasoning", "encrypted"} /\ index \in Indices
  BY DEF StartThinking
<1>2. Starts(Block(index, t, <<>>, p)) /\ Len(slots) < MaxSlots /\ Brings(p) /\ UNCHANGED fallback
  BY DEF StartThinking
<1> HIDE DEF t
<1> QED
  BY <1>1, <1>2, StartIndexed

\* _start_reasoning_block() for thinking that is opaque
LEMMA StartRedactedKeeps ==
    ASSUME ItemsRight, NEW index \in Indices, StartRedacted(index)
    PROVE  ItemsRight'
<1> DEFINE t == "encrypted"
           p == <<>>
<1>1. t \in {"text", "reasoning", "encrypted"} /\ p \in Chunk
  BY DEF Chunk
<1>2. Starts(Block(index, t, <<>>, p)) /\ Len(slots) < MaxSlots /\ UNCHANGED fallback
  BY DEF StartRedacted
<1>3. Brings(p)
  BY DEF StartRedacted, Brings, ItemsRight, RespTyped
<1> HIDE DEF t, p
<1> QED
  BY <1>1, <1>2, <1>3, StartIndexed

\* _start_tool_block()
LEMMA StartToolKeeps ==
    ASSUME ItemsRight, NEW index \in Indices, NEW name \in WireNames, NEW p \in Chunk, StartTool(index, name, p)
    PROVE  ItemsRight'
<1> DEFINE t == Identity(name).kind
           o == OfTool(name)
<1>1. t \in Types /\ o \in Names
  BY IdentityFacts DEF Types, Calls, Names
<1>2. t = "custom" => \E k \in 1..Len(Tools) : Tools[k].kind = "custom" /\ o = <<Tools[k].namespace, Tools[k].name>>
  BY IdentityFacts
<1>3. Starts(Block(index, t, o, p)) /\ Len(slots) < MaxSlots /\ Brings(p) /\ fallback' = fallback
  BY DEF StartTool, OfTool
<1>4. fallback' \in Int /\ fallback' <= fallback
  BY <1>3 DEF ItemsRight, RespTyped
<1> HIDE DEF t, o
<1> QED
  BY <1>1, <1>2, <1>3, <1>4, StartKeeps

\* A delta for an open block.
LEMMA DeltaKeeps ==
    ASSUME ItemsRight, NEW b \in active, NEW p \in Chunk, Brings(p), fallback' \in Int, fallback' <= fallback,
           IF p = <<>> THEN UNCHANGED <<slots, active, told>> ELSE Grows(b, p[1])
    PROVE  ItemsRight'
<1>1. pieces' = pieces + Len(p) /\ pieces' \in 0..MaxChunks /\ pieces \in Nat
  BY ChunkFacts, ResponsesStreamAssumption DEF Brings, ItemsRight, RespTyped
<1>2. CASE p = <<>>
  <2>1. Len(p) = 0
    BY <1>2
  <2>2. UNCHANGED <<slots, active, told, pieces>>
    BY <1>1, <1>2, <2>1
  <2> QED
    BY <2>2, StillKeeps
<1>3. CASE p # <<>>
  <2>1. p[1] = pieces + 1 /\ pieces' = pieces + 1
    BY <1>1, <1>3, ChunkFacts DEF ItemsRight
  <2>2. Grows(b, pieces + 1)
    BY <1>3, <2>1
  <2> QED
    BY <1>1, <2>1, <2>2, GrowKeeps
<1> QED
  BY <1>2, <1>3

\* A text delta goes to the open text of its index, or starts one.
LEMMA TextDeltaKeeps ==
    ASSUME ItemsRight, NEW index \in Indices \cup {NoIndex}, NEW p \in Chunk, TextDelta(index, p)
    PROVE  ItemsRight'
<1>1. fallback' \in Int /\ fallback' <= fallback /\ SafeIndex(index) \in Indices \cup (fallback'..-1) /\ Brings(p)
  BY FallsFacts DEF TextDelta, ItemsRight
<1>2. CASE \E b \in At(SafeIndex(index)) :
              b.type = "text" /\ IF p = <<>> THEN UNCHANGED <<slots, active, told>> ELSE Grows(b, p[1])
  <2>1. PICK b \in active : IF p = <<>> THEN UNCHANGED <<slots, active, told>> ELSE Grows(b, p[1])
    BY <1>2 DEF At
  <2> QED
    BY <1>1, <2>1, DeltaKeeps
<1>3. CASE Len(slots) < MaxSlots /\ Starts(Block(SafeIndex(index), "text", <<>>, p))
  <2> DEFINE i == SafeIndex(index)
             t == "text"
             o == <<>>
  <2>1. t \in Types /\ o \in Names /\ t # "custom"
    BY DEF Types, Names
  <2>2. Starts(Block(i, t, o, p)) /\ i \in Indices \cup (fallback'..-1)
    BY <1>1, <1>3
  <2> HIDE DEF i, t, o
  <2> QED
    BY <1>1, <1>3, <2>1, <2>2, StartKeeps
<1> QED
  BY <1>2, <1>3 DEF TextDelta

\* A thinking delta goes to the open reasoning of its index, or starts one.
LEMMA ThinkingDeltaKeeps ==
    ASSUME ItemsRight, NEW index \in Indices \cup {NoIndex}, NEW p \in Chunk, ThinkingDelta(index, p)
    PROVE  ItemsRight'
<1>1. fallback' \in Int /\ fallback' <= fallback /\ fallback' = fallback /\ Brings(p) /\ index \in Indices
  BY DEF ThinkingDelta, ItemsRight, RespTyped
<1>2. CASE \E b \in At(index) :
              b.type \in {"reasoning", "encrypted"} /\ IF p = <<>> THEN UNCHANGED <<slots, active, told>> ELSE Grows(b, p[1])
  <2>1. PICK b \in active : IF p = <<>> THEN UNCHANGED <<slots, active, told>> ELSE Grows(b, p[1])
    BY <1>2 DEF At
  <2> QED
    BY <1>1, <2>1, DeltaKeeps
<1>3. CASE Len(slots) < MaxSlots /\ Starts(Block(index, "reasoning", <<>>, p))
  <2> DEFINE t == "reasoning"
  <2>1. t \in {"text", "reasoning", "encrypted"} /\ Starts(Block(index, t, <<>>, p))
    BY <1>3
  <2> HIDE DEF t
  <2> QED
    BY <1>1, <1>3, <2>1, StartIndexed
<1> QED
  BY <1>2, <1>3 DEF ThinkingDelta

\* The input of a call grows, and is not told before it ends.
LEMMA InputDeltaKeeps ==
    ASSUME ItemsRight, NEW index \in Indices, NEW p \in Chunk, InputDelta(index, p)
    PROVE  ItemsRight'
<1>1. fallback' \in Int /\ fallback' <= fallback /\ Brings(p) /\ p # <<>>
  BY DEF InputDelta, ItemsRight, RespTyped
<1>2. PICK b \in active : Grows(b, p[1])
  BY DEF InputDelta, At
<1> QED
  BY <1>1, <1>2, DeltaKeeps

\* content_block_stop
LEMMA StopBlockKeeps ==
    ASSUME ItemsRight, NEW index \in Indices, StopBlock(index)
    PROVE  ItemsRight'
<1>1. fallback' \in Int /\ fallback' <= fallback /\ pieces' = pieces /\ Change(At(index), <<>>) /\ At(index) \subseteq active
  BY DEF StopBlock, ItemsRight, RespTyped, At
<1> QED
  BY <1>1, EndKeeps

\* message_delta
LEMMA UsageDeltaKeeps ==
    ASSUME ItemsRight, UsageDelta
    PROVE  ItemsRight'
<1>1. fallback' \in Int /\ fallback' <= fallback /\ UNCHANGED <<slots, active, told, pieces>>
  BY DEF UsageDelta, ItemsRight, RespTyped
<1> QED
  BY <1>1, StillKeeps

\* When the response ends, all its items are told and none is open.
LEMMA EndResponseKeeps ==
    ASSUME ItemsRight, NEW status, EndResponse(status)
    PROVE  ItemsRight' /\ EndTold'
<1>1. /\ fallback' \in Int /\ fallback' <= fallback /\ pieces' = pieces /\ Change(active, <<>>)
      /\ final' = [status |-> status, output |-> Output(slots')]
  BY DEF EndResponse, Ends, ItemsRight, RespTyped
<1>2. ItemsRight' /\ Changed(active, <<>>)
  BY <1>1, EndKeeps
<1>3. active' = {}
  BY <1>2 DEF Changed
<1>4. slots' \in Seq(ItemSet \cup {Uncommitted}) /\ told' \in Seq(CopySet) /\ Len(told') = Len(slots')
  BY <1>2 DEF ItemsRight, RespTyped
<1>5. ASSUME NEW i \in 1..Len(slots') PROVE slots'[i] # Uncommitted
  <2>1. told'[i] \in CopySet
    BY <1>4
  <2>2. slots'[i] = Committed(told'[i])
    BY <1>2, <1>3 DEF ItemsRight, ItemsTold, Committed
  <2>3. slots'[i].type = told'[i].type
    BY <2>2 DEF Committed
  <2>4. told'[i].type # "none"
    BY <2>1 DEF CopySet, Types
  <2> QED
    BY <2>3, <2>4 DEF Uncommitted
<1>6. Output(slots') = slots'
  <2> DEFINE T == ItemSet \cup {Uncommitted}
  <2>1. slots' \in Seq(T)
    BY <1>4
  <2> HIDE DEF T
  <2> QED
    BY <1>5, <2>1, OutputOfAll
<1> QED
  BY <1>1, <1>2, <1>3, <1>6 DEF EndTold

-----------------------------------------------------------------------------
(* The stream keeps its invariant.                                         *)

\* The stream starts with the invariant, keeps it, and the client is served by it.
LEMMA RespStarts == RespInit => RespInv
<1> SUFFICES ASSUME RespInit PROVE RespInv
  OBVIOUS
<1>1. slots = <<>> /\ told = <<>> /\ active = {} /\ fallback = -1 /\ terminal = FALSE /\ pieces = 0
  BY DEF RespInit
<1>2. RespTyped
  BY <1>1, ResponsesStreamAssumption DEF RespTyped
<1>3. BlocksTold /\ ItemsTold /\ CallsKeepNames /\ EndTold
  BY <1>1 DEF BlocksTold, ItemsTold, CallsKeepNames, EndTold
<1>4. PiecesOnce
  BY <1>1 DEF PiecesOnce, OnceEach
<1> QED
  BY <1>2, <1>3, <1>4 DEF RespInv, ItemsRight

\* Every event keeps it.
LEMMA RespSteps == RespInv /\ [RespNext]_respVars => RespInv'
<1> SUFFICES ASSUME RespInv, [RespNext]_respVars PROVE RespInv'
  OBVIOUS
<1>1. ItemsRight
  BY DEF RespInv, ItemsRight
<1>2. ASSUME ItemsRight', terminal' = FALSE PROVE RespInv'
  BY <1>2 DEF RespInv, ItemsRight, EndTold
<1>3. ASSUME NEW index \in Indices \cup {NoIndex}, NEW p \in Chunk, StartText(index, p) PROVE RespInv'
  <2>1. ItemsRight' /\ terminal' = FALSE
    BY <1>1, <1>3, StartTextKeeps DEF StartText, Event, Running
  <2> QED
    BY <1>2, <2>1
<1>4. ASSUME NEW index \in Indices \cup {NoIndex}, NEW p \in Chunk, StartThinking(index, p) PROVE RespInv'
  <2>1. ItemsRight' /\ terminal' = FALSE
    BY <1>1, <1>4, StartThinkingKeeps DEF StartThinking, Event, Running
  <2> QED
    BY <1>2, <2>1
<1>5. ASSUME NEW index \in Indices \cup {NoIndex}, NEW p \in Chunk, TextDelta(index, p) PROVE RespInv'
  <2>1. ItemsRight' /\ terminal' = FALSE
    BY <1>1, <1>5, TextDeltaKeeps DEF TextDelta, Event, Running
  <2> QED
    BY <1>2, <2>1
<1>6. ASSUME NEW index \in Indices \cup {NoIndex}, NEW p \in Chunk, ThinkingDelta(index, p) PROVE RespInv'
  <2>1. ItemsRight' /\ terminal' = FALSE
    BY <1>1, <1>6, ThinkingDeltaKeeps DEF ThinkingDelta, Event, Running
  <2> QED
    BY <1>2, <2>1
<1>7. ASSUME NEW index \in Indices, NEW p \in Chunk, InputDelta(index, p) PROVE RespInv'
  <2>1. ItemsRight' /\ terminal' = FALSE
    BY <1>1, <1>7, InputDeltaKeeps DEF InputDelta, Event, Running
  <2> QED
    BY <1>2, <2>1
<1>8. ASSUME NEW index \in Indices, NEW name \in WireNames, NEW p \in Chunk, StartTool(index, name, p) PROVE RespInv'
  <2>1. ItemsRight' /\ terminal' = FALSE
    BY <1>1, <1>8, StartToolKeeps DEF StartTool, Event, Running
  <2> QED
    BY <1>2, <2>1
<1>9. ASSUME NEW index \in Indices, StartRedacted(index) PROVE RespInv'
  <2>1. ItemsRight' /\ terminal' = FALSE
    BY <1>1, <1>9, StartRedactedKeeps DEF StartRedacted, Event, Running
  <2> QED
    BY <1>2, <2>1
<1>10. ASSUME NEW index \in Indices, StopBlock(index) PROVE RespInv'
  <2>1. ItemsRight' /\ terminal' = FALSE
    BY <1>1, <1>10, StopBlockKeeps DEF StopBlock, Event, Running
  <2> QED
    BY <1>2, <2>1
<1>11. ASSUME UsageDelta PROVE RespInv'
  <2>1. ItemsRight' /\ terminal' = FALSE
    BY <1>1, <1>11, UsageDeltaKeeps DEF UsageDelta, Event
  <2> QED
    BY <1>2, <2>1
<1>12. ASSUME NEW status, EndResponse(status) PROVE RespInv'
  BY <1>1, <1>12, EndResponseKeeps DEF RespInv, ItemsRight
<1>13. CASE UNCHANGED respVars
  BY <1>13 DEF respVars, RespInv, RespTyped, BlocksTold, ItemsTold, CallsKeepNames, PiecesOnce, SlotContents, Content, EndTold
<1> QED
  BY <1>3, <1>4, <1>5, <1>6, <1>7, <1>8, <1>9, <1>10, <1>11, <1>12, <1>13 DEF RespNext, WireNames

\* It is what the client of the response can rely on.
LEMMA RespServes == RespInv => ClientHasResponse
<1> SUFFICES ASSUME RespInv PROVE ClientHasResponse
  OBVIOUS
<1>1. RespTyped /\ BlocksTold /\ ItemsTold /\ CallsKeepNames /\ PiecesOnce /\ EndTold
  BY DEF RespInv
<1>2. Len(slots) \in Nat /\ Len(told) = Len(slots) /\ told \in Seq(CopySet) /\ slots \in Seq(ItemSet \cup {Uncommitted})
  BY <1>1 DEF RespTyped
<1>3. RespTypeOK
  BY <1>1 DEF RespTypeOK, RespTyped
<1>4. ItemsAgree
  <2>1. ASSUME NEW i \in 1..Len(slots)
        PROVE  LET open == {b \in active : b.slot = i}
               IN  /\ told[i].done = IF open = {} THEN 1 ELSE 0
                   /\ slots[i] = Uncommitted <=> open # {}
                   /\ open = {} => slots[i] = Committed(told[i])
    <3> DEFINE open == {b \in active : b.slot = i}
    <3>1. CASE open = {}
      <4>1. told[i].done = 1 /\ slots[i] = Committed(told[i])
        BY <1>1, <3>1 DEF ItemsTold
      <4>2. slots[i].type # "none"
        <5>1. told[i] \in CopySet
          BY <1>2
        <5> QED
          BY <4>1, <5>1 DEF Committed, CopySet, Types
      <4>3. slots[i] # Uncommitted
        BY <4>2 DEF Uncommitted
      <4> QED
        BY <3>1, <4>1, <4>3
    <3>2. CASE open # {}
      <4>1. PICK b \in active : b.slot = i
        BY <3>2
      <4>2. slots[i] = Uncommitted /\ told[i].done = 0
        <5>1. slots[i] = Uncommitted /\ told[i] = OpenedCopy(b)
          BY <1>1, <4>1 DEF BlocksTold
        <5> QED
          BY <5>1 DEF OpenedCopy
      <4> QED
        BY <3>2, <4>2
    <3> QED
      BY <3>1, <3>2
  <2> QED
    BY <2>1 DEF ItemsAgree
<1>5. FinalIsTold
  <2> SUFFICES ASSUME terminal
               PROVE  /\ final.output = [i \in 1..Len(told) |-> Committed(told[i])]
                      /\ \A n \in 1..pieces :
                            \E i \in 1..Len(told) : \E j \in 1..Len(told[i].parts) :
                               /\ told[i].parts[j] = n
                               /\ \A k \in 1..Len(told) : \A l \in 1..Len(told[k].parts) :
                                     told[k].parts[l] = n => k = i /\ l = j
    BY DEF FinalIsTold
  <2>1. active = {} /\ final.output = slots
    BY <1>1 DEF EndTold
  <2>2. \A i \in 1..Len(slots) : slots[i] = Committed(told[i])
    BY <1>1, <2>1 DEF ItemsTold
  <2>3. slots = [i \in 1..Len(told) |-> Committed(told[i])]
    <3> DEFINE T == ItemSet \cup {Uncommitted}
               v == [i \in 1..Len(told) |-> Committed(told[i])]
    <3>1. slots \in Seq(T)
      BY <1>2
    <3>2. slots = [i \in 1..Len(slots) |-> slots[i]]
      <4> HIDE DEF T
      <4> QED
        BY <3>1
    <3> QED
      BY <1>2, <2>2, <3>2
  <2>4. \A i \in 1..Len(slots) : SlotContents[i] = told[i].parts
    BY <2>1, <1>1, ContentIs DEF SlotContents, ContentRight
  <2> DEFINE C == SlotContents
  <2>5. OnceEach(C, Len(slots), pieces)
    BY <1>1 DEF PiecesOnce
  <2> HIDE DEF C
  <2>6. \A i, k \in 1..Len(slots) : \A j \in 1..Len(C[i]) : \A l \in 1..Len(C[k]) : C[i][j] = C[k][l] => i = k /\ j = l
    BY <2>5, Zenon DEF OnceEach
  <2>7. ASSUME NEW n \in 1..pieces
        PROVE  \E i \in 1..Len(told) : \E j \in 1..Len(told[i].parts) :
                  /\ told[i].parts[j] = n
                  /\ \A k \in 1..Len(told) : \A l \in 1..Len(told[k].parts) :
                        told[k].parts[l] = n => k = i /\ l = j
    <3>1. PICK i \in 1..Len(slots) : \E j \in 1..Len(C[i]) : C[i][j] = n
      BY <2>5 DEF OnceEach
    <3>2. PICK j \in 1..Len(C[i]) : C[i][j] = n
      BY <3>1
    <3>3. i \in 1..Len(told) /\ j \in 1..Len(told[i].parts) /\ told[i].parts[j] = n
      BY <1>2, <2>4, <3>2 DEF C
    <3>4. ASSUME NEW k \in 1..Len(told), NEW l \in 1..Len(told[k].parts), told[k].parts[l] = n PROVE k = i /\ l = j
      <4>1. k \in 1..Len(slots) /\ l \in 1..Len(C[k]) /\ C[k][l] = n
        BY <1>2, <2>4, <3>4 DEF C
      <4> QED
        BY <2>6, <3>2, <4>1
    <3> QED
      BY <3>3, <3>4
  <2> QED
    BY <2>1, <2>3, <2>7
<1> QED
  BY <1>1, <1>3, <1>4, <1>5 DEF ClientHasResponse

\* For every set of indices and of tools, and a stream of any length: the client of
\* the Responses API assembles every item once, as it was committed, and the last
\* event has all of them, in their order, with every piece that came in one place.
THEOREM ResponseIsTold == RespInit /\ [][RespNext]_respVars => []ClientHasResponse
<1>1. RespInit => RespInv
  BY RespStarts
<1>2. RespInv /\ [RespNext]_respVars => RespInv'
  BY RespSteps
<1>3. RespInv => ClientHasResponse
  BY RespServes
<1> QED
  BY <1>1, <1>2, <1>3, PTL
=============================================================================
