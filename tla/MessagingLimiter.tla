-------------------------- MODULE MessagingLimiter --------------------------
(***************************************************************************)
(* The outgoing queue of the messaging bridge (messaging/limiter.py): a    *)
(* deque of keys, a map from each key to the newest function to call for   *)
(* it and to everybody who waits for the outcome, and one worker that      *)
(* calls them within a sliding window.  The platforms give an edit the key *)
(* of its message, so that edits waiting for the same message compact into *)
(* the last of them.                                                       *)
(*                                                                         *)
(* Calls are numbered in the order in which they are made.  A call is      *)
(* awaited, or fired and forgotten: then a task of its own enqueues it and *)
(* repeats it after transient errors.  Tasks take their first step in the  *)
(* order in which they were created.                                       *)
(***************************************************************************)
EXTENDS SlidingWindow, FiniteSets

CONSTANTS Keys,        \* deduplication keys
          KeyOf,       \* the key of each call
          NoEntry,     \* nothing queued under a key
          MaxRetries,  \* max_retries of fire_and_forget()
          Backoff,     \* the pause before each repetition, 2^n in the code
          FloodPause,  \* the pause a flood error asks for
          Horizon      \* bound on time

Calls == DOMAIN KeyOf

ASSUME MessagingLimiterAssumption ==
    /\ KeyOf \in Seq(Keys) /\ NoEntry \notin [func : Calls, waiters : SUBSET Calls]
    /\ MaxRetries \in Nat /\ Backoff \in [0..MaxRetries -> Nat]
    /\ FloodPause \in Nat /\ Horizon \in Nat

VARIABLES
    queue,        \* _queue_list
    map,          \* _queue_map
    worker,       \* where _worker() stands, and with what
    pausedUntil,  \* _paused_until
    stopped,      \* has shutdown() been called?
    phase,        \* where the caller of each call stands
    forgotten,    \* calls made by fire_and_forget()
    attempt,      \* how often the task of such a call has repeated it
    wake,         \* when it repeats it next
    answer,       \* history: the call whose result a caller got
    shown         \* what the platform shows: the last call made for a key

callers == <<phase, forgotten, attempt, wake, answer>>
outboxVars == <<now, window, queue, map, worker, pausedUntil, stopped, callers,
                shown>>

Phases == {"none",      \* not made yet
           "made",      \* its task has not taken its first step
           "waiting",   \* for its future
           "backoff",   \* before a repetition
           "answered", "failed", "cancelled"}

NoCall == 0
Entries == [func: Calls, waiters: SUBSET Calls]
Idle == [pc |-> "idle", func |-> NoCall, waiters |-> {}, until |-> 0]

OutboxTypeOK ==
    /\ WindowType
    /\ queue \in Seq(Keys) /\ map \in [Keys -> Entries \cup {NoEntry}]
    /\ worker \in [pc : {"idle", "paused", "acquiring", "throttled", "calling", "stopped"},
                  func : Calls \cup {NoCall}, waiters : SUBSET Calls, until : Nat]
    /\ pausedUntil \in Nat
    /\ stopped \in BOOLEAN
    /\ phase \in [Calls -> Phases] /\ forgotten \subseteq Calls
    /\ attempt \in [Calls -> 0..MaxRetries] /\ wake \in [Calls -> Nat]
    /\ answer \in [Calls -> Calls \cup {NoCall}]
    /\ shown \in [Keys -> Calls \cup {NoCall}]

OutboxInit ==
    /\ WindowInit
    /\ queue = <<>> /\ map = [k \in Keys |-> NoEntry]
    /\ worker = Idle /\ pausedUntil = 0 /\ stopped = FALSE
    /\ phase = [c \in Calls |-> "none"] /\ forgotten = {}
    /\ attempt = [c \in Calls |-> 0] /\ wake = [c \in Calls |-> 0]
    /\ answer = [c \in Calls |-> NoCall]
    /\ shown = [k \in Keys |-> NoCall]

-----------------------------------------------------------------------------
(* Callers.                                                                *)

\* _enqueue_internal_multi(): a key that is queued keeps its place and its
\* waiters, and gets the new function.
Enqueue(c) ==
    LET k == KeyOf[c]
        others == IF map[k] = NoEntry THEN {} ELSE map[k].waiters
    IN  /\ map' = [map EXCEPT ![k] = [func |-> c, waiters |-> others \cup {c}]]
        /\ queue' = IF map[k] = NoEntry THEN Append(queue, k) ELSE queue

\* The next call to be made.
Next1(c) == phase[c] = "none" /\ \A d \in Calls : d < c => phase[d] # "none"

WorkerFrame == UNCHANGED <<window, worker, pausedUntil, stopped, shown>>

\* await enqueue(func, key).
MakeAwaited(c) ==
    /\ Next1(c) /\ Enqueue(c)
    /\ phase' = [phase EXCEPT ![c] = "waiting"]
    /\ WorkerFrame /\ UNCHANGED <<now, forgotten, attempt, wake, answer>>

\* fire_and_forget(func, key).
MakeForgotten(c) ==
    /\ Next1(c)
    /\ phase' = [phase EXCEPT ![c] = "made"]
    /\ forgotten' = forgotten \cup {c}
    /\ WorkerFrame /\ UNCHANGED <<now, queue, map, attempt, wake, answer>>

\* The first step of its task.
Begin(c) ==
    /\ phase[c] = "made" /\ \A d \in Calls : phase[d] = "made" => c <= d
    /\ Enqueue(c)
    /\ phase' = [phase EXCEPT ![c] = "waiting"]
    /\ WorkerFrame /\ UNCHANGED <<now, forgotten, attempt, wake, answer>>

\* A repetition: the same function, under the same key.
Repeat(c) ==
    /\ phase[c] = "backoff" /\ now >= wake[c]
    /\ Enqueue(c)
    /\ phase' = [phase EXCEPT ![c] = "waiting"]
    /\ attempt' = [attempt EXCEPT ![c] = @ + 1]
    /\ WorkerFrame /\ UNCHANGED <<now, forgotten, wake, answer>>

\* The task that awaits a call is cancelled, and its future with it.
Cancel(c) ==
    /\ phase[c] = "waiting" /\ c \notin forgotten
    /\ phase' = [phase EXCEPT ![c] = "cancelled"]
    /\ WorkerFrame
    /\ UNCHANGED <<now, queue, map, forgotten, attempt, wake, answer>>

-----------------------------------------------------------------------------
(* The worker.                                                             *)

QueueFrame == UNCHANGED <<queue, map>>
CallFrame == UNCHANGED <<callers, shown>>

\* Mutant: the pause after a flood is not looked at.
TakeAtOnce ==
    /\ worker.pc = "idle" /\ queue # <<>>
    /\ LET entry == map[Head(queue)] IN
       worker' = [pc |-> "acquiring", func |-> entry.func, waiters |-> entry.waiters, until |-> pausedUntil]
    /\ queue' = Tail(queue) /\ map' = [map EXCEPT ![Head(queue)] = NoEntry]
    /\ CallFrame /\ UNCHANGED <<now, window, pausedUntil, stopped>>

\* The oldest key, with its newest function and all who wait for it.
Take ==
    /\ worker.pc = "idle" /\ queue # <<>>
    /\ LET entry == map[Head(queue)] IN
       worker' = [pc |-> IF pausedUntil > now THEN "paused" ELSE "acquiring",
                  func |-> entry.func, waiters |-> entry.waiters, until |-> pausedUntil]
    /\ queue' = Tail(queue) /\ map' = [map EXCEPT ![Head(queue)] = NoEntry]
    /\ CallFrame /\ UNCHANGED <<now, window, pausedUntil, stopped>>

\* The end of a pause, or of a sleep in SlidingWindow.
Awake ==
    /\ worker.pc \in {"paused", "throttled"} /\ now >= worker.until
    /\ worker' = [worker EXCEPT !.pc = "acquiring"]
    /\ QueueFrame /\ CallFrame /\ UNCHANGED <<now, window, pausedUntil, stopped>>

StartCall ==
    /\ worker.pc = "acquiring" /\ Acquire
    /\ worker' = [worker EXCEPT !.pc = "calling"]
    /\ QueueFrame /\ CallFrame /\ UNCHANGED <<now, pausedUntil, stopped>>

WaitForRoom ==
    /\ worker.pc = "acquiring" /\ Throttle
    /\ worker' = [worker EXCEPT !.pc = "throttled", !.until = NextRoom]
    /\ QueueFrame /\ CallFrame /\ UNCHANGED <<now, pausedUntil, stopped>>

\* Futures that are done, because their callers were cancelled, are left.
Unanswered == {c \in worker.waiters : phase[c] = "waiting"}

Shows == shown' = [shown EXCEPT ![KeyOf[worker.func]] = worker.func]

CallSucceeds ==
    /\ worker.pc = "calling" /\ worker' = Idle
    /\ phase' = [c \in Calls |-> IF c \in Unanswered THEN "answered" ELSE phase[c]]
    /\ answer' = [c \in Calls |-> IF c \in Unanswered THEN worker.func ELSE answer[c]]
    /\ Shows
    /\ QueueFrame /\ UNCHANGED <<now, window, pausedUntil, stopped, forgotten, attempt, wake>>

\* A fired-and-forgotten call is repeated while it may be.
Repeats(c) == c \in forgotten /\ attempt[c] < MaxRetries

\* Every pending caller gets the error; a flood pauses the worker, and what
\* may pass is repeated after 1, 2, ... units.  Either may have been shown.
CallFails(error) ==
    LET again == IF error = "transient" THEN {c \in Unanswered : Repeats(c)} ELSE {} IN
    /\ worker.pc = "calling" /\ worker' = Idle
    /\ phase' = [c \in Calls |-> IF c \in again THEN "backoff"
                                 ELSE IF c \in Unanswered THEN "failed" ELSE phase[c]]
    /\ wake' = [c \in Calls |-> IF c \in again THEN now + Backoff[attempt[c]] ELSE wake[c]]
    /\ pausedUntil' = IF error = "flood" THEN now + FloodPause ELSE pausedUntil
    /\ Shows \/ UNCHANGED shown
    /\ QueueFrame /\ UNCHANGED <<now, window, stopped, forgotten, attempt, answer>>

\* shutdown(): the worker is cancelled wherever it stands.
Shutdown ==
    /\ ~stopped /\ stopped' = TRUE
    /\ worker' = [Idle EXCEPT !.pc = "stopped"]
    /\ QueueFrame /\ CallFrame /\ UNCHANGED <<now, window, pausedUntil>>

Tick ==
    /\ now < Horizon /\ now' = now + 1
    /\ QueueFrame /\ CallFrame /\ UNCHANGED <<window, worker, pausedUntil, stopped>>

OutboxNext ==
    \/ \E c \in Calls : \/ MakeAwaited(c) \/ MakeForgotten(c) \/ Begin(c)
                        \/ Repeat(c) \/ Cancel(c)
    \/ Take \/ Awake \/ StartCall \/ WaitForRoom \/ CallSucceeds
    \/ \E error \in {"transient", "flood", "final"} : CallFails(error)
    \/ Shutdown \/ Tick

-----------------------------------------------------------------------------
(* Properties.                                                             *)

\* The deque holds the keys of the map, each once: no entry of the map is out
\* of the worker's reach, and the worker finds one for every key it takes.
QueueIsMap ==
    /\ \A k \in Keys : map[k] # NoEntry <=> \E i \in DOMAIN queue : queue[i] = k
    /\ \A i, j \in DOMAIN queue : queue[i] = queue[j] => i = j

\* Whoever waits is waited upon: it is in the queue under its key, or with
\* the worker, unless the limiter was shut down, which resolves no future.
WaiterHeld ==
    \A c \in Calls : phase[c] = "waiting" =>
        \/ c \in worker.waiters
        \/ map[KeyOf[c]] # NoEntry /\ c \in map[KeyOf[c]].waiters
        \/ stopped

\* The pause after a flood error is over whenever a call is made.
PauseHonoured == [][worker'.pc = "calling" => now >= pausedUntil]_<<worker>>

\* Calls that may enter the queue after a newer one of their key: a repetition,
\* or one whose task had not begun when a newer one was awaited.
Late == {c \in Calls :
            \/ attempt[c] > 0
            \/ c \in forgotten /\ \E d \in Calls \ forgotten :
                                    phase[d] # "none" /\ d > c /\ KeyOf[d] = KeyOf[c]}

\* The queue shows the versions of a message in the order in which they were
\* made, except for calls that entered it late.
NeverBack ==
    [][\A k \in Keys : shown'[k] < shown[k] => shown'[k] \in Late]_outboxVars

\* What a step of the outgoing queue never does.
OutboxSteps == PauseHonoured /\ NeverBack

\* The result a caller gets is that of its own call or of a newer one of the
\* same message, except when a late call took the place of both.
AnswerIsOwn ==
    \A c \in Calls : phase[c] = "answered" =>
        /\ answer[c] \in Calls /\ KeyOf[answer[c]] = KeyOf[c]
        /\ answer[c] >= c \/ answer[c] \in Late

\* What the outgoing queue keeps of its callers, and what no step of it does.
OutboxHolds == OutboxTypeOK /\ WindowKept /\ QueueIsMap /\ WaiterHeld /\ AnswerIsOwn
OutboxKept == []OutboxHolds /\ OutboxSteps
=============================================================================
