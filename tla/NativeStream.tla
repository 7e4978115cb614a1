---------------------------- MODULE NativeStream ----------------------------
(***************************************************************************)
(* One streamed answer of a provider that speaks the Anthropic protocol    *)
(* itself (providers/transports/anthropic_messages: stream.py, recovery.py;*)
(* core/anthropic: native_sse_block_policy.py, emitted_sse_tracker.py,     *)
(* stream_recovery*.py).                                                   *)
(*                                                                         *)
(* Events pass through the block policy, which gives every block a fresh   *)
(* index and keeps one block open at a time, then past the tracker, which  *)
(* remembers what was emitted, into the holdback buffer.  When the         *)
(* provider fails, the attempt is repeated, completed from a second        *)
(* request, or closed with an error, from what the tracker knows.          *)
(*                                                                         *)
(* A provider sends message_start first, starts no index twice, gives the  *)
(* deltas of a block the block's kind, sends no thinking to an index that  *)
(* it has not started, sends message_delta once, stops what it began       *)
(* before message_stop, and sends nothing after that.  Its blocks may      *)
(* overlap; it may send input to an index it has not started, more deltas  *)
(* to a stopped block, and a stop twice; and it may fail anywhere.         *)
(***************************************************************************)
EXTENDS AnthropicMessage, FiniteSets

CONSTANTS Upstream,      \* indices of the provider's blocks
          EarlyRetries,  \* EARLY_TRANSPARENT_MAX_RETRIES
          MaxBlocks      \* bound: blocks emitted in one attempt

ASSUME NativeAssumption ==
    /\ Upstream \subseteq Nat /\ EarlyRetries \in Nat /\ MaxBlocks \in Nat

VARIABLES
    stage,      \* where the runner stands, or how it ended
    thinks,     \* thinking_enabled
    policy,     \* NativeSseBlockPolicyState
    tracker,    \* EmittedNativeSseTracker
    view,       \* the message once every held event is delivered
    client,     \* what the client has received
    committed,  \* RecoveryHoldbackBuffer.committed
    retries,    \* StreamRecoverySession._early_retries
    clamped,    \* _clamp_retry_attempted
    unusual     \* history: which of four unusual things happened in this attempt

nativeVars == <<stage, thinks, policy, tracker, view, client, committed, retries,
          clamped, unusual>>

NoBlock == -1
Contents == {"none",    \* empty
             "part",    \* some text; tool input that more could complete
             "whole",   \* tool input, complete and valid
             "broken"}  \* tool input that nothing appended can make valid

\* What the provider has done with an index, of which kind, and the segment
\* it goes to now.
Segment == [kind : Kinds \cup {"none"}, state : {"new", "open", "stopped"},
            down : Nat \cup {NoBlock}, live : BOOLEAN, named : BOOLEAN]
NewSegment == [kind |-> "none", state |-> "new", down |-> NoBlock,
               live |-> FALSE, named |-> FALSE]

Policy == [next : Nat, seg : [Upstream -> Segment],
           dropped : SUBSET Upstream, pending : SUBSET Upstream]
NewPolicy == [next |-> 0, seg |-> [u \in Upstream |-> NewSegment],
              dropped |-> {}, pending |-> {}]

EmittedBlock == [kind : Kinds, named : BOOLEAN, content : Contents, open : BOOLEAN]

\* next: _max_index + 1.
NewTracker == [block |-> [i \in {} |-> 0], next |-> 0, reason |-> FALSE, stopped |-> FALSE]

Ended == {"complete",   \* the provider's answer, to its end
          "salvaged",   \* ended with the tool calls of a broken answer
          "continued",  \* a broken text, continued by a second request
          "failed",     \* closed with an error
          "gone"}       \* the client went away
Active == {"opening", "streaming", "recovering"}

Unusual == {"late_delta",   \* a segment was begun for a delta beside an open one
            "late_repair",  \* a tool call was repaired after its stop
            "past_stop",    \* something followed the message_stop
            "empty"}        \* it came without a block, or after dropped thinking alone

NativeTypeOK ==
    /\ stage \in Active \cup Ended /\ thinks \in BOOLEAN
    /\ policy \in Policy
    /\ DOMAIN tracker.block \subseteq Nat /\ tracker.next \in Nat
    /\ \A i \in DOMAIN tracker.block : tracker.block[i] \in EmittedBlock
    /\ tracker.reason \in BOOLEAN /\ tracker.stopped \in BOOLEAN
    /\ view \in View /\ client \in View
    /\ committed \in BOOLEAN /\ clamped \in BOOLEAN
    /\ retries \in 0..EarlyRetries
    /\ unusual \subseteq Unusual

NativeInit ==
    /\ stage = "opening" /\ thinks \in BOOLEAN
    /\ policy = NewPolicy /\ tracker = NewTracker
    /\ view = NewView /\ client = NewView
    /\ committed = FALSE /\ retries = 0 /\ clamped = FALSE /\ unusual = {}

-----------------------------------------------------------------------------
(* EmittedNativeSseTracker.                                                *)

Blocks(t) == DOMAIN t.block
OpenBlocks(t) == {i \in Blocks(t) : t.block[i].open}
ToolBlocks(t) == {i \in Blocks(t) : t.block[i].kind = "tool_use"}

\* Mutant: a block that was begun by a synthetic start is not recorded.
ObserveStartForget(t, i, k, n) == t

ObserveStart(t, i, k, n) ==
    [t EXCEPT !.next = IF i < @ THEN @ ELSE i + 1,
              !.block = [j \in Blocks(t) \cup {i} |->
        IF j = i THEN [kind |-> k, named |-> n, content |-> "none", open |-> TRUE]
        ELSE t.block[j]]]
ObserveDelta(t, i, c) == [t EXCEPT !.block[i].content = c]
ObserveStops(t, S) ==
    [t EXCEPT !.block = [j \in Blocks(t) |->
        IF j \in S THEN [t.block[j] EXCEPT !.open = FALSE] ELSE t.block[j]]]

\* A tool block that could be executed as it is.
Whole(b) == b.named /\ b.content = "whole"
IncompleteTools(t) == {i \in ToolBlocks(t) : ~Whole(t.block[i])}
CanSalvage(t) == ToolBlocks(t) # {} /\ IncompleteTools(t) = {}

\* What a block's content may be after one more piece.
After(k, c) ==
    IF k # "tool_use" THEN {"part"}
    ELSE CASE c \in {"none", "part"} -> {"part", "whole", "broken"}
           [] c \in {"whole", "broken"} -> {"broken"}

-----------------------------------------------------------------------------
(* Delivery.                                                               *)

\* An event that leads to policy p, tracker t and view v goes through the
\* holdback buffer, which keeps it, or commits for its size or its age.
PushOdd(p, t, v, odd) ==
    /\ policy' = p /\ tracker' = t /\ view' = v /\ unusual' = unusual \cup odd
    /\ \/ committed' = TRUE /\ client' = v
       \/ ~committed /\ UNCHANGED <<committed, client>>
    /\ UNCHANGED <<stage, thinks, retries, clamped>>
Push(p, t, v) == PushOdd(p, t, v, {})

\* The event is dropped: only the policy's state changes.
Drop(p) == /\ policy' = p
           /\ UNCHANGED <<stage, thinks, tracker, view, client, committed,
                          retries, clamped, unusual>>

Sending == stage = "streaming" /\ view.phase = "open" /\ ~tracker.stopped

-----------------------------------------------------------------------------
(* The provider's events, through transform_native_sse_block_event.        *)

Drops(k) == k = "thinking" /\ ~thinks

MessageStarts ==
    /\ stage = "streaming" /\ view.phase = "new"
    /\ Push(policy, tracker, MessageStart(view))

\* _synthetic_close_other_open_blocks and _allocate_new_segment: a segment
\* for u begins, and every other one ends.  n: has it a tool's name?
Others(p, u) == {w \in Upstream \ {u} : p.seg[w].live}
Allocate(p, u, k, n, closed) ==
    [p EXCEPT
        !.next = @ + 1, !.pending = (@ \cup closed) \ {u},
        !.seg = [w \in Upstream |->
            IF w = u THEN [kind |-> k, state |-> "open", down |-> p.next,
                           live |-> TRUE, named |-> n]
            ELSE [p.seg[w] EXCEPT !.live = @ /\ w \notin closed]]]

\* content_block_start.
Start(u, k) ==
    LET closed == Others(policy, u)
        downs == {policy.seg[w].down : w \in closed}
        t == ObserveStart(ObserveStops(tracker, downs), policy.next, k, TRUE) IN
    /\ Sending /\ policy.seg[u].state = "new" /\ policy.next < MaxBlocks
    /\ IF Drops(k)
       THEN Drop([policy EXCEPT !.seg[u].kind = k, !.seg[u].state = "open",
                                !.dropped = @ \cup {u}])
       ELSE Push(Allocate(policy, u, k, TRUE, closed), t,
                 BlockStart(BlockStops(view, downs), policy.next, k))

\* content_block_delta: of an open segment, or one for which a synthetic start
\* is sent first, be it that u was closed meanwhile or never started.  Neither
\* of the latter closes the other blocks.
Delta(u, k) ==
    LET seg == policy.seg[u]
        named == seg.state # "new" /\ seg.named
        i == IF seg.live THEN seg.down ELSE policy.next
        t == IF seg.live THEN tracker ELSE ObserveStart(tracker, i, k, named)
        v == IF seg.live THEN view ELSE BlockStart(view, i, k)
        p == IF seg.live THEN policy ELSE Allocate(policy, u, k, named, {}) IN
    /\ Sending
    /\ k = seg.kind \/ (seg.state = "new" /\ k # "thinking")
    /\ IF u \in policy.dropped THEN Drop(policy)
       ELSE /\ seg.live \/ policy.next < MaxBlocks
            /\ \E c \in After(k, t.block[i].content) :
                  PushOdd(p, ObserveDelta(t, i, c), BlockDelta(v, i, k),
                          IF seg.live \/ Others(policy, u) = {} THEN {} ELSE {"late_delta"})

\* content_block_stop: of an open segment; any other is dropped.
Stop(u) ==
    LET seg == policy.seg[u]
        p == [policy EXCEPT !.seg[u].state = "stopped"] IN
    /\ Sending /\ seg.state # "new"
    /\ IF u \in policy.dropped \/ u \in policy.pending \/ ~seg.live
       THEN Drop([p EXCEPT !.pending = @ \ {u}])
       ELSE Push([p EXCEPT !.seg[u].live = FALSE],
                 ObserveStops(tracker, {seg.down}), BlockStop(view, seg.down))

MessageDeltas ==
    /\ Sending /\ ~tracker.reason
    /\ Push(policy, [tracker EXCEPT !.reason = TRUE], MessageDelta(view))

MessageStops ==
    /\ Sending /\ tracker.reason
    /\ \A u \in Upstream : policy.seg[u].state # "open"
    /\ PushOdd(policy, [tracker EXCEPT !.stopped = TRUE], MessageStop(view),
               IF Blocks(tracker) = {} THEN {"empty"} ELSE {})

-----------------------------------------------------------------------------
(* How an attempt ends.                                                    *)

\* The message ends as v, and everything held is delivered.
Finish(t, v, how, odd) ==
    /\ stage' = how /\ tracker' = t /\ view' = v /\ client' = v
    /\ committed' = TRUE /\ unusual' = unusual \cup odd
    /\ UNCHANGED <<thinks, policy, retries, clamped>>

CloseAll(v, t) == BlockStops(v, OpenBlocks(t))

\* iter_midstream_error_tail: the error as a text block, and the end.
ErrorBlock(v, i) ==
    MessageStop(MessageDelta(BlockStop(BlockDelta(BlockStart(v, i, "text"), i, "text"), i)))

\* With nothing delivered and nothing held the error is a message of its own.
FinalError ==
    IF committed \/ view # client
    THEN Finish(ObserveStops(tracker, OpenBlocks(tracker)),
                ErrorBlock(CloseAll(view, tracker), tracker.next), "failed",
                IF tracker.stopped THEN {"past_stop"} ELSE {})
    ELSE Finish(NewTracker, ErrorBlock(MessageStart(client), 0), "failed", {})

StartOver ==
    /\ stage' = "opening" /\ policy' = NewPolicy /\ tracker' = NewTracker
    /\ view' = client /\ unusual' = {}
    /\ UNCHANGED <<thinks, client, committed>>

\* Mutant: whether events were delivered is not looked at.
MayRetryDelivered == ~CanSalvage(tracker) /\ retries < EarlyRetries

\* advance_failure.
MayRetryEarly == ~committed /\ ~CanSalvage(tracker) /\ retries < EarlyRetries

Fail(retryable) ==
    \/ /\ retryable /\ MayRetryEarly /\ StartOver
       /\ retries' = retries + 1 /\ UNCHANGED clamped
    \/ /\ retryable /\ ~MayRetryEarly /\ Blocks(tracker) # {}
       /\ stage' = "recovering"
       /\ UNCHANGED <<thinks, policy, tracker, view, client, committed, retries,
                      clamped, unusual>>
    \/ /\ ~retryable \/ (~MayRetryEarly /\ Blocks(tracker) = {})
       /\ FinalError

Open == /\ stage = "opening" /\ stage' = "streaming"
        /\ UNCHANGED <<thinks, policy, tracker, view, client, committed, retries,
                       clamped, unusual>>

\* The request is refused: once, for its length, the body may be clamped.
OpenFails ==
    /\ stage = "opening"
    /\ \/ ~clamped /\ StartOver /\ clamped' = TRUE /\ UNCHANGED retries
       \/ FinalError

StreamFails == stage = "streaming" /\ \E retryable \in BOOLEAN : Fail(retryable)

\* A stream that ends without message_stop counts as cut.
Truncated == stage = "streaming" /\ ~tracker.stopped /\ Fail(TRUE)

StreamEnds == stage = "streaming" /\ tracker.stopped
              /\ Finish(tracker, view, "complete", {})

-----------------------------------------------------------------------------
(* AnthropicMessagesRecovery.events, from requests the client does not see.*)

\* iter_success_tail.
SuccessTail(v, t) ==
    LET c == CloseAll(v, t)
        d == IF t.reason THEN c ELSE MessageDelta(c) IN
    IF t.stopped THEN d ELSE MessageStop(d)

Repairable(b) == b.named /\ b.content \in {"none", "part"}

\* Every incomplete tool call is completed by one delta, be it open or not.
Salvage ==
    LET R == IncompleteTools(tracker)
        t == [tracker EXCEPT !.block = [i \in Blocks(tracker) |->
                IF i \in R THEN [tracker.block[i] EXCEPT !.content = "whole"]
                ELSE tracker.block[i]]] IN
    /\ stage = "recovering" /\ ToolBlocks(tracker) # {}
    /\ \A i \in R : Repairable(tracker.block[i])
    /\ Finish(ObserveStops(t, OpenBlocks(t)),
              SuccessTail(BlockDeltas(view, R, "tool_use"), t), "salvaged",
              IF R \subseteq OpenBlocks(tracker) THEN {} ELSE {"late_repair"})

\* append_text_suffix, append_thinking_suffix: to the last open block of kind
\* k, or to a new one.  The result is a tracker and a view.
Suffixed(s, k) ==
    LET B == {i \in OpenBlocks(s.t) : s.t.block[i].kind = k}
        n == s.t.next
        i == IF B = {} THEN n ELSE CHOOSE j \in B : \A l \in B : l <= j
        t == IF B = {} THEN ObserveStart(s.t, n, k, FALSE) ELSE s.t
        v == IF B = {} THEN BlockStart(s.v, n, k) ELSE s.v IN
    [t |-> ObserveDelta(t, i, "part"), v |-> BlockDelta(v, i, k)]

\* The rest of a text, of its thinking, or of both.
Continue(thinking, text) ==
    LET s == [t |-> tracker, v |-> view]
        a == IF thinking THEN Suffixed(s, "thinking") ELSE s
        b == IF text THEN Suffixed(a, "text") ELSE a IN
    /\ stage = "recovering" /\ ToolBlocks(tracker) = {} /\ (thinking \/ text)
    /\ thinking => thinks
    /\ \E i \in Blocks(tracker) : tracker.block[i].content # "none"
    /\ Finish(ObserveStops(b.t, OpenBlocks(b.t)), SuccessTail(b.v, b.t), "continued",
              IF tracker.stopped THEN {"past_stop"} ELSE {})

RecoveryFails == stage = "recovering" /\ ~CanSalvage(tracker) /\ FinalError

\* The client disconnects, or the server stops: CancelledError, GeneratorExit.
Disconnect ==
    /\ stage \in Active /\ stage' = "gone"
    /\ UNCHANGED <<thinks, policy, tracker, view, client, committed, retries,
                   clamped, unusual>>

Events == \/ MessageStarts \/ MessageDeltas \/ MessageStops
          \/ \E u \in Upstream : \/ \E k \in Kinds : Start(u, k) \/ Delta(u, k)
                                \/ Stop(u)
StreamOver == StreamEnds \/ StreamFails \/ Truncated
Recovery == \/ Salvage \/ RecoveryFails
            \/ \E thinking, text \in BOOLEAN : Continue(thinking, text)

NativeNext == Open \/ OpenFails \/ Events \/ StreamOver \/ Recovery \/ Disconnect

-----------------------------------------------------------------------------
(* Properties.                                                             *)

\* The client receives one message by the contract of stream_contracts.py,
\* however blocks overlap at the provider and wherever it fails, but for three
\* cases: a tool call that was stopped unfinished and is repaired later, an
\* error after message_stop was passed on, and a message_stop that is passed on
\* with no block before it, where all that the provider sent was dropped.
ContractKept == client.fault => unusual \cap {"late_repair", "past_stop", "empty"} # {}

\* Blocks that overlap at the provider reach the client one after the other
\* ("overlap repair"), unless deltas come late.
OneBlockAtATime ==
    stage \in Active /\ "late_delta" \notin unusual => Cardinality(view.open) <= 1

\* What the tracker takes for the open blocks, and will close or continue, are
\* the blocks that are open to the client once it has everything.
TrackerAgrees ==
    stage \in Active => view.open = {<<i, tracker.block[i].kind>> : i \in OpenBlocks(tracker)}

\* When a broken answer is presented as a request for tools, each call in it
\* has a name and a complete, valid input.
SalvagedIsWhole ==
    stage = "salvaged" => \A i \in ToolBlocks(tracker) : Whole(tracker.block[i])

\* A request that did not ask for thinking gets no thinking block, not even
\* from a continuation.
NoUnaskedThinking ==
    ~thinks => \A i \in Blocks(tracker) : tracker.block[i].kind # "thinking"

\* What a native stream keeps at every event, wherever its provider fails.
NativeStreamKept ==
    /\ NativeTypeOK /\ ContractKept /\ OneBlockAtATime /\ TrackerAgrees
    /\ SalvagedIsWhole /\ NoUnaskedThinking

\* A request is repeated only while the client has seen nothing: the parts of
\* two answers are never mixed.
RetryIsInvisible ==
    [][retries' # retries \/ clamped' # clamped => client' = NewView]_nativeVars

\* The client's message is a MessageStream, which ends with the runner, and without a
\* block only if the provider's answer had none to show.
MessagePhase == IF stage = "gone" THEN "gone"
                ELSE IF stage \in Ended THEN "ended" ELSE "open"
Message == INSTANCE MessageStream WITH
               phase <- MessagePhase, started <- client.started, open <- client.open,
               bare <- "empty" \in unusual
ServesMessage == Message!Spec

\* A native stream is a MessageStream to its client, which is told nothing of
\* an attempt that is repeated.
NativeServes == RetryIsInvisible /\ ServesMessage
=============================================================================
