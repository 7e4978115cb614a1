--------------------------- MODULE SlidingWindow ----------------------------
(***************************************************************************)
(* StrictSlidingWindowLimiter (core/rate_limit.py).  An acquisition is one *)
(* step: no await stands between taking the lock and releasing it.  The    *)
(* deque of the code is the tail of the sequence of all acquisitions ever  *)
(* granted, without the first "dropped" of them.                           *)
(***************************************************************************)
EXTENDS Naturals, Sequences, TLAPS

CONSTANTS Limit,   \* rate_limit
          Window   \* rate_window

ASSUME WindowAssumption == Limit \in Nat \ {0} /\ Window \in Nat \ {0}

VARIABLES now,      \* time.monotonic()
          granted,  \* the times of all acquisitions
          dropped   \* how many of them the deque no longer holds

window == <<granted, dropped>>

WindowType == now \in Nat /\ granted \in Seq(Nat) /\ dropped \in 0..Len(granted)

WindowInit == now = 0 /\ granted = <<>> /\ dropped = 0

Old(i) == granted[i] + Window <= now

\* Mutant: what is about to leave the window is dropped too early.
ExpiredSoon ==
    {n \in dropped..Len(granted) :
        /\ \A i \in (dropped + 1)..n : granted[i] + Window <= now + 1
        /\ n < Len(granted) => granted[n + 1] + Window > now + 1}

\* How many acquisitions the deque no longer holds once its old entries are
\* taken from the left: one number, in a set for the actions to choose it from.
Expired ==
    {n \in dropped..Len(granted) :
        /\ \A i \in (dropped + 1)..n : Old(i)
        /\ n < Len(granted) => ~Old(n + 1)}

Full(n) == Len(granted) - n >= Limit

Acquire == \E n \in Expired :
    ~Full(n) /\ dropped' = n /\ granted' = Append(granted, now)

\* No room: the caller sleeps until the oldest entry leaves the window.
Throttle == \E n \in Expired :
    Full(n) /\ dropped' = n /\ UNCHANGED granted
NextRoom == granted[dropped' + 1] + Window

-----------------------------------------------------------------------------
\* "At most rate_limit acquisitions in any interval of length rate_window":
\* of any Limit + 1 acquisitions in a row the last is a window after the first.
WindowKept ==
    \A i \in 1..Len(granted) :
        i + Limit <= Len(granted) => granted[i] + Window <= granted[i + Limit]

(* The inductive invariant behind WindowKept: acquisitions are in order of *)
(* time, what was dropped is old, and the deque is never longer than Limit.*)
WindowInv ==
    /\ WindowType /\ WindowKept
    /\ \A i \in 1..Len(granted) : granted[i] <= now
    /\ \A i \in 1..dropped : Old(i)
    /\ Len(granted) <= dropped + Limit

-----------------------------------------------------------------------------
(* Proofs: WindowInv holds at the start, and every operation keeps it.     *)

\* Nothing was acquired yet.
LEMMA WindowStarts ==
    ASSUME WindowInit PROVE WindowInv
BY WindowAssumption DEF WindowInit, WindowInv, WindowType, WindowKept, Old

\* The entry that an acquisition at the limit must be a window away from is
\* among the expired ones, so one rate_window lies between the two.
LEMMA AcquireKeeps ==
    ASSUME WindowInv, now' = now, Acquire
    PROVE  WindowInv'
<1> USE WindowAssumption DEF WindowInv, WindowType
<1>1. PICK n \in Expired : ~Full(n) /\ dropped' = n /\ granted' = Append(granted, now)
  BY DEF Acquire
<1>2. /\ n \in dropped..Len(granted) /\ \A i \in (dropped + 1)..n : Old(i)
      /\ Len(granted) - n < Limit /\ n \in Nat
  BY <1>1 DEF Expired, Full
<1>3. \A i \in 1..n : Old(i)
  BY <1>2
<1>4. /\ Len(granted') = Len(granted) + 1
      /\ \A i \in 1..Len(granted) : granted'[i] = granted[i]
      /\ granted'[Len(granted) + 1] = now
      /\ granted' \in Seq(Nat)
  BY <1>1
<1>5. WindowType'
  BY <1>1, <1>2, <1>4
<1>6. WindowKept'
  <2> SUFFICES ASSUME NEW i \in 1..Len(granted'), i + Limit <= Len(granted')
               PROVE  granted'[i] + Window <= granted'[i + Limit]
    BY DEF WindowKept
  <2> HIDE DEF WindowInv
  <2>0. Len(granted) \in Nat /\ Limit \in Nat \ {0} /\ i \in Nat \ {0}
    BY <1>2
  <2>1. CASE i + Limit <= Len(granted)
    <3>1. i \in 1..Len(granted) /\ i + Limit \in 1..Len(granted)
      BY <2>0, <2>1
    <3>2. granted[i] + Window <= granted[i + Limit]
      BY <2>1, <3>1 DEF WindowKept, WindowInv
    <3> QED  BY <3>1, <3>2, <1>4
  <2>2. CASE i + Limit = Len(granted) + 1
    <3>1. i \in 1..n /\ i \in 1..Len(granted)
      BY <2>0, <2>2, <1>2
    <3>2. granted[i] + Window <= now
      BY <3>1, <1>3 DEF Old
    <3>3. granted'[i] = granted[i] /\ granted'[i + Limit] = now
      BY <3>1, <2>2, <1>4
    <3> QED  BY <3>2, <3>3
  <2>3. i + Limit <= Len(granted) + 1
    BY <1>4
  <2>4. i + Limit <= Len(granted) \/ i + Limit = Len(granted) + 1
    BY <2>0, <2>3
  <2> QED  BY <2>1, <2>2, <2>4
<1>7. (\A i \in 1..Len(granted) : granted[i] <= now)'
  <2> SUFFICES ASSUME NEW i \in 1..Len(granted') PROVE granted'[i] <= now'
    OBVIOUS
  <2>1. Len(granted) \in Nat /\ now \in Nat
    OBVIOUS
  <2>2. CASE i \in 1..Len(granted)
    <3>1. granted[i] <= now
      BY <2>2
    <3> QED
      BY <1>4, <2>2, <3>1
  <2>3. CASE i = Len(granted) + 1
    BY <1>4, <2>1, <2>3
  <2>4. i \in 1..Len(granted) \/ i = Len(granted) + 1
    BY <1>4, <2>1
  <2> QED
    BY <2>2, <2>3, <2>4
<1>8. (\A i \in 1..dropped : Old(i))'
  BY <1>1, <1>2, <1>3, <1>4 DEF Old
<1>9. (Len(granted) <= dropped + Limit)'
  BY <1>1, <1>2, <1>4
<1> QED  BY <1>5, <1>6, <1>7, <1>8, <1>9

\* An acquisition that finds no room only drops what is old, and then the oldest
\* entry has a time.
LEMMA ThrottleKeeps ==
    ASSUME WindowInv, now' = now, Throttle
    PROVE  WindowInv' /\ NextRoom \in Nat
<1> USE WindowAssumption DEF WindowInv, WindowType
<1>1. PICK n \in Expired : Full(n) /\ dropped' = n /\ granted' = granted
  BY DEF Throttle
<1>2. /\ n \in dropped..Len(granted) /\ \A i \in (dropped + 1)..n : Old(i)
      /\ Len(granted) - n >= Limit /\ n \in Nat
  BY <1>1 DEF Expired, Full
<1>3. \A i \in 1..n : Old(i)
  BY <1>2
<1>4. (\A i \in 1..dropped : Old(i))'
  BY <1>1, <1>3 DEF Old
<1>5. NextRoom \in Nat
  <2>1. n + 1 \in 1..Len(granted)
    BY <1>2
  <2>2. granted[n + 1] \in Nat
    BY <2>1
  <2> QED  BY <1>1, <2>2 DEF NextRoom
<1>6. WindowKept'
  BY <1>1 DEF WindowKept
<1> QED  BY <1>1, <1>2, <1>4, <1>5, <1>6

\* Time passes, or nothing happens to the window.
LEMMA TimeKeeps ==
    ASSUME WindowInv, UNCHANGED window, now' \in {now, now + 1}
    PROVE  WindowInv'
<1> USE DEF WindowInv, WindowType, window
<1>1. now' \in Nat /\ now' >= now
  OBVIOUS
<1>2. (\A i \in 1..Len(granted) : granted[i] <= now)'
  <2> SUFFICES ASSUME NEW i \in 1..Len(granted) PROVE granted[i] <= now'
    OBVIOUS
  <2>1. granted[i] \in Nat /\ granted[i] <= now
    OBVIOUS
  <2> QED  BY <1>1, <2>1
<1>3. (\A i \in 1..dropped : Old(i))'
  <2> SUFFICES ASSUME NEW i \in 1..dropped PROVE granted[i] + Window <= now'
    BY DEF Old
  <2>1. granted[i] \in Nat /\ granted[i] + Window <= now
    BY DEF Old
  <2> QED  BY <1>1, <2>1, WindowAssumption
<1>4. WindowKept'
  BY DEF WindowKept
<1> QED  BY <1>1, <1>2, <1>3, <1>4
=============================================================================
