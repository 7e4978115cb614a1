-------------------------- MODULE OpenAIChatStream --------------------------
(***************************************************************************)
(* One streamed answer of an OpenAI-compatible provider, turned into an    *)
(* Anthropic message (providers/transports/openai_chat: stream.py,         *)
(* tool_calls.py, recovery.py; core/anthropic: sse.py, stream_recovery.py, *)
(* stream_recovery_session.py).                                            *)
(*                                                                         *)
(* A provider may fail at any chunk.  Until the holdback buffer commits,   *)
(* what was produced is thrown away and the request repeated; after that   *)
(* the message is completed from a second request, or closed with an       *)
(* error.  The builder is one record, changed by the operators of          *)
(* SSEBuilder and of the tool-call assembler; its field "view" is what the *)
(* client will have seen once every held event is delivered.               *)
(*                                                                         *)
(* The JSON of a tool call is one of: "none"; "part", which more text      *)
(* could complete; "whole", complete and valid against the tool's schema;  *)
(* "broken", which no text appended can make valid.                        *)
(***************************************************************************)
EXTENDS AnthropicMessage

CONSTANTS Calls,         \* tool calls of the provider's answer, by index
          TaskCalls,     \* those of the tool Task
          AliasedCalls,  \* those of tools whose argument names were replaced
          ThinkingEnabled,  \* does the request ask for thinking?
          EarlyRetries,  \* EARLY_TRANSPARENT_MAX_RETRIES
          MaxBlocks      \* bound: blocks a provider opens in one attempt

ASSUME StreamAssumption ==
    /\ TaskCalls \subseteq Calls /\ AliasedCalls \subseteq Calls
    /\ TaskCalls \cap AliasedCalls = {}
    /\ ThinkingEnabled \in BOOLEAN
    /\ EarlyRetries \in Nat /\ MaxBlocks \in Nat

VARIABLES
    phase,      \* where the runner stands, or how it ended
    sse,        \* the SSEBuilder, with its view of the message
    client,     \* what the client has received
    committed,  \* RecoveryHoldbackBuffer.committed
    retries,    \* StreamRecoverySession._early_retries
    finish      \* has a finish_reason been seen in this attempt?

vars == <<phase, sse, client, committed, retries, finish>>

NoBlock == -1
Json == {"none", "part", "whole", "broken"}

ToolCallState ==
    [name      : {"none", "part", "whole"},  \* of the name, what has arrived
     block     : Nat \cup {NoBlock},         \* NoBlock: not started
     json      : Json,                       \* the input sent in deltas
     held      : {"none", "part", "broken"}, \* Task or alias buffer
     early     : Json]                       \* pre_start_args

NewCall == [name |-> "none", block |-> NoBlock, json |-> "none",
            held |-> "none", early |-> "none"]

Builder ==
    [next : Nat, text : Nat \cup {NoBlock}, textOpen : BOOLEAN,
     thinking : Nat \cup {NoBlock}, thinkingOpen : BOOLEAN,
     call : [Calls -> ToolCallState], view : View]

Ended == {"complete",   \* the provider's answer, to its end
          "salvaged",   \* ended with the tool calls of a broken answer
          "continued",  \* a broken text, continued by a second request
          "failed",     \* closed with an error
          "gone"}       \* the client went away
Active == {"opening", "streaming", "recovering"}

TypeOK ==
    /\ phase \in Active \cup Ended
    /\ sse \in Builder /\ client \in View
    /\ committed \in BOOLEAN /\ finish \in BOOLEAN
    /\ retries \in 0..EarlyRetries

\* _new_sse_builder, for a client that has seen v.
NewBuilder(v) ==
    [next |-> 0, text |-> NoBlock, textOpen |-> FALSE,
     thinking |-> NoBlock, thinkingOpen |-> FALSE,
     call |-> [t \in Calls |-> NewCall], view |-> v]

Init ==
    /\ phase = "opening"
    /\ client = MessageStart(NewView) /\ sse = NewBuilder(MessageStart(NewView))
    /\ committed = FALSE /\ retries = 0 /\ finish = FALSE

-----------------------------------------------------------------------------
(* SSEBuilder.                                                             *)

Started(s) == {t \in Calls : s.call[t].block # NoBlock}

StopText(s) ==
    IF s.textOpen
    THEN [s EXCEPT !.textOpen = FALSE, !.view = BlockStop(@, s.text)] ELSE s
StopThinking(s) ==
    IF s.thinkingOpen
    THEN [s EXCEPT !.thinkingOpen = FALSE, !.view = BlockStop(@, s.thinking)] ELSE s
CloseContentBlocks(s) == StopText(StopThinking(s))

StartText(s) ==
    IF s.textOpen THEN s
    ELSE [s EXCEPT !.next = @ + 1, !.text = s.next, !.textOpen = TRUE,
                   !.view = BlockStart(@, s.next, "text")]
StartThinking(s) ==
    IF s.thinkingOpen THEN s
    ELSE [s EXCEPT !.next = @ + 1, !.thinking = s.next, !.thinkingOpen = TRUE,
                   !.view = BlockStart(@, s.next, "thinking")]

\* ensure_text_block or ensure_thinking_block, and one delta.
Text(s) == LET e == StartText(StopThinking(s)) IN
    [e EXCEPT !.view = BlockDelta(@, e.text, "text")]
Thinking(s) == LET e == StartThinking(StopText(s)) IN
    [e EXCEPT !.view = BlockDelta(@, e.thinking, "thinking")]

StartTool(s, t) ==
    [s EXCEPT !.next = @ + 1, !.call[t].block = s.next,
              !.view = BlockStart(@, s.next, "tool_use")]

\* Mutant: the blocks of tool calls stay open.
CloseContentOnly(s) == CloseContentBlocks(s)

CloseAllBlocks(s) == LET c == CloseContentBlocks(s) IN
    [c EXCEPT !.view = BlockStops(@, {c.call[t].block : t \in Started(c)})]

\* message_delta and message_stop.
EndMessage(s) == [s EXCEPT !.view = MessageStop(MessageDelta(@))]

\* A block of its own: begun, filled by one delta and ended at once.
WholeBlock(s, k) ==
    [s EXCEPT !.next = @ + 1,
              !.view = BlockStop(BlockDelta(BlockStart(@, s.next, k), s.next, k), s.next)]

\* A tool call found in the text.
HeuristicTool(s) == WholeBlock(CloseContentBlocks(s), "tool_use")

-----------------------------------------------------------------------------
(* The tool-call assembler.                                                *)

Converts(t) == t \in TaskCalls \cup AliasedCalls

\* What the JSON j may have become after one more piece of text.
After(j) == CASE j = "none" -> {"part", "whole", "broken"}
              [] j = "part" -> {"part", "whole", "broken"}
              [] j = "whole" -> {"broken"}
              [] j = "broken" -> {"broken"}

\* Input j of t goes out in a delta; what was buffered for it is spent.
EmitJson(s, t, j) ==
    [s EXCEPT !.call[t].json = j, !.call[t].held = "none",
              !.view = BlockDelta(@, s.call[t].block, "tool_use")]

\* Text that a provider sends for the arguments of t, when what has come so
\* far may amount to any of A: the deltas it may cause, and the buffering.
Emitted(s, t, A) ==
    IF ~Converts(t) THEN {EmitJson(s, t, j) : j \in A}
    ELSE IF t \in TaskCalls /\ s.call[t].json # "none" THEN {}
    ELSE {EmitJson(s, t, j) : j \in A \cap {"whole", "broken"}}
Withheld(s, t, A) ==
    IF ~Converts(t) THEN {}
    ELSE IF t \in TaskCalls /\ s.call[t].json # "none" THEN {s}
    ELSE {[s EXCEPT !.call[t].held = h] : h \in A \cap {"part", "broken"}}

\* What the arguments of t amount to with one more piece of text.
Longer(c, t) ==
    IF c.json # "none" /\ Converts(t) THEN {"broken"}
    ELSE IF c.held # "none" THEN After(c.held) ELSE After(c.json)

\* Mutant: nothing is flushed at the end of the stream.
FlushNothing(s, e) == s

\* flush_tool_argument_alias_buffers and flush_task_arg_buffers: what is held
\* goes out as it is, or, for a Task, as {}, a valid input or not (e).
FlushHeld(s, e) ==
    LET H == {t \in Started(s) : s.call[t].held # "none"} IN
    [s EXCEPT
        !.call = [t \in Calls |->
            IF t \notin H THEN s.call[t]
            ELSE [s.call[t] EXCEPT !.held = "none",
                                   !.json = IF t \in TaskCalls THEN e ELSE s.call[t].held]],
        !.view = BlockDeltas(@, {s.call[t].block : t \in H}, "tool_use")]

-----------------------------------------------------------------------------
(* Delivery and failure.                                                   *)

\* Events that turn the builder into s go through the holdback buffer, which
\* keeps them, or commits for its size or its age.
Push(s) ==
    /\ sse' = s
    /\ \/ committed' = TRUE /\ client' = s.view
       \/ ~committed /\ UNCHANGED <<committed, client>>

\* The builder becomes s and the message ends: what is held is delivered too.
Finish(s, how) ==
    /\ phase' = how /\ sse' = s /\ client' = sse'.view /\ committed' = TRUE
    /\ UNCHANGED <<retries, finish>>

\* The final error tail: every block closed, the error as a text block or,
\* beside tool calls, as an event, and the end of the message.
ErrorTail(s) == LET c == CloseAllBlocks(s) IN
    EndMessage(IF Started(c) # {} THEN c ELSE WholeBlock(c, "text"))

\* Mutant: every final error starts a builder afresh.
FinalErrorAfresh(s) == Finish(ErrorTail(NewBuilder(client)), "failed")

\* With nothing delivered and nothing held the builder starts afresh.
FinalError(s) ==
    Finish(ErrorTail(IF committed \/ s.view # client THEN s ELSE NewBuilder(client)),
           "failed")

\* advance_failure: what is held is discarded, and the builder with it.
RetryEarly ==
    /\ phase' = "opening" /\ sse' = NewBuilder(client)
    /\ retries' = retries + 1 /\ finish' = FALSE
    /\ UNCHANGED <<client, committed>>

AllComplete(s) ==
    Started(s) # {} /\ \A t \in Started(s) : s.call[t].json = "whole"

\* Mutant: delivered events are not looked at.
MayRetryDelivered(s) == ~AllComplete(s) /\ retries < EarlyRetries

MayRetryEarly(s) == ~committed /\ ~AllComplete(s) /\ retries < EarlyRetries

HasOutput(s) == s.text # NoBlock \/ s.thinking # NoBlock \/ Started(s) # {}

\* The provider's stream fails with an error that may be retried or not.
Fail(s, retryable) ==
    \/ retryable /\ MayRetryEarly(s) /\ RetryEarly
    \/ /\ retryable /\ ~MayRetryEarly(s) /\ HasOutput(s)
       /\ phase' = "recovering" /\ sse' = s
       /\ UNCHANGED <<client, committed, retries, finish>>
    \/ /\ ~retryable \/ (~MayRetryEarly(s) /\ ~HasOutput(s))
       /\ FinalError(s)

-----------------------------------------------------------------------------
(* The provider's stream.                                                  *)

Open == /\ phase = "opening" /\ phase' = "streaming"
        /\ UNCHANGED <<sse, client, committed, retries, finish>>

\* The request is refused, after the retries of the rate limiter.
OpenFails == phase = "opening" /\ FinalError(sse)

\* A chunk is handled; bound: MaxBlocks.
Chunk(s) == /\ phase = "streaming" /\ s.next <= MaxBlocks
            /\ Push(s)
            /\ UNCHANGED <<phase, retries, finish>>

\* The same for a chunk that may cause no event: only the assembler's own
\* buffers change.
Buffer(s) ==
    \/ s.view # sse.view /\ Chunk(s)
    \/ /\ phase = "streaming" /\ s.view = sse.view
       /\ sse' = s
       /\ UNCHANGED <<phase, client, committed, retries, finish>>

ThinkingChunk == ThinkingEnabled /\ Chunk(Thinking(sse))
TextChunk == Chunk(Text(sse))
HeuristicChunk == Chunk(HeuristicTool(sse))

\* A piece of the name of call t: the first begins the block and lets go of
\* the arguments that came before it.
NameChunk(t, n) ==
    LET c == sse.call[t]
        s == [CloseContentBlocks(sse) EXCEPT !.call[t].name = n]
        b == StartTool(s, t)
        fresh == [b EXCEPT !.call[t].early = "none"] IN
    /\ c.name # "whole" /\ (c.early # "none" => n = "whole")
    /\ \/ c.name = "none" /\ c.early = "none" /\ Chunk(b)
       \/ /\ c.name = "none" /\ c.early # "none"
          /\ \E a \in Emitted(fresh, t, {c.early}) \cup Withheld(fresh, t, {c.early}) :
                Chunk(a)
       \/ c.name # "none" /\ Buffer(s)

\* A piece of the arguments of call t, whose name has come or is to come.
ArgumentsChunk(t) ==
    LET c == sse.call[t]
        s == CloseContentBlocks(sse) IN
    \/ /\ c.name = "whole"
       /\ \/ \E a \in Emitted(s, t, Longer(c, t)) : Chunk(a)
          \/ \E a \in Withheld(s, t, Longer(c, t)) : Buffer(a)
    \/ /\ c.name = "none"
       /\ \E j \in After(c.early) : LET a == [s EXCEPT !.call[t].early = j] IN
             Buffer(a)

\* Task arguments that are JSON and no object: the assembler raises.
TaskNotObject(t) ==
    /\ phase = "streaming" /\ t \in TaskCalls
    /\ sse.call[t].name = "whole" /\ sse.call[t].json = "none"
    /\ Fail(CloseContentBlocks(sse), FALSE)

FinishReason == /\ phase = "streaming" /\ ~finish /\ finish' = TRUE
                /\ UNCHANGED <<phase, sse, client, committed, retries>>

StreamFails == phase = "streaming" /\ \E retryable \in BOOLEAN : Fail(sse, retryable)

\* A stream that ends without a finish_reason counts as cut.
Truncated == phase = "streaming" /\ ~finish /\ Fail(sse, TRUE)

\* The stream has ended well.  The parsers let go of what they withheld.
Remainders == {sse, Text(sse)} \cup IF ThinkingEnabled THEN {Thinking(sse)} ELSE {}

\* A blank text when there is no block, and, as a text of white space counts
\* for nothing, perhaps when there is thinking and no begun call.
Padded(s) ==
    IF ~HasOutput(s) THEN {Text(s)}
    ELSE IF Started(s) = {} /\ s.thinking # NoBlock THEN {s, Text(s)} ELSE {s}

\* Then what the assembler holds goes out, and the end.
StreamEnds ==
    /\ phase = "streaming" /\ finish
    /\ \E p \in Remainders : \E h \in {p, HeuristicTool(p)} : \E b \in Padded(h) :
       \E f \in {FlushHeld(b, e) : e \in {"whole", "broken"}} :
          Finish(EndMessage(CloseAllBlocks(f)), "complete")

-----------------------------------------------------------------------------
(* Recovery, from requests the client does not see.                        *)

\* Mutant: a call whose arguments are only buffered counts as complete.
IncompleteSent(s) == {t \in Started(s) : s.call[t].json \notin {"whole", "none"}}

Incomplete(s) == {t \in Started(s) : s.call[t].json # "whole"}

\* What a call has so far, sent or buffered, can be completed.
Repairable(c) == (IF c.json # "none" THEN c.json ELSE c.held) \in {"none", "part"}

\* _repair_tool_args: one delta completes each call; what was buffered goes
\* out as the provider wrote it.
Repair(s) ==
    [s EXCEPT
        !.call = [t \in Calls |-> IF t \in Incomplete(s)
                                  THEN [s.call[t] EXCEPT !.json = "whole"] ELSE s.call[t]],
        !.view = BlockDeltas(@, {s.call[t].block : t \in Incomplete(s)}, "tool_use")]

Salvage ==
    /\ phase = "recovering" /\ Started(sse) # {}
    /\ \A t \in Incomplete(sse) : Repairable(sse.call[t])
    /\ Finish(EndMessage(CloseAllBlocks(Repair(sse))), "salvaged")

\* The rest of a text, of its thinking, or of both.
Continue(thinking, text) ==
    LET s == IF thinking THEN Thinking(sse) ELSE sse
        r == IF text THEN Text(s) ELSE s IN
    /\ phase = "recovering" /\ Started(sse) = {} /\ (thinking \/ text)
    /\ Finish(EndMessage(CloseAllBlocks(r)), "continued")

RecoveryFails ==
    phase = "recovering" /\ ~AllComplete(sse) /\ FinalError(sse)

\* The client disconnects, or the server stops: CancelledError, GeneratorExit.
Disconnect ==
    /\ phase \in Active /\ phase' = "gone"
    /\ UNCHANGED <<sse, client, committed, retries, finish>>

Chunks == \/ ThinkingChunk \/ TextChunk \/ HeuristicChunk \/ FinishReason
          \/ \E t \in Calls : \/ \E n \in {"part", "whole"} : NameChunk(t, n)
                             \/ ArgumentsChunk(t)

StreamOver == \/ StreamEnds \/ StreamFails \/ Truncated
              \/ \E t \in Calls : TaskNotObject(t)

Recovery == \/ Salvage \/ RecoveryFails
            \/ \E thinking, text \in BOOLEAN : Continue(thinking, text)

Next == Open \/ OpenFails \/ Chunks \/ StreamOver \/ Recovery \/ Disconnect

Spec == Init /\ [][Next]_vars

\* Requests are answered or time out, and no answer goes on for ever: the
\* client's read timeout ends a silent one, the provider's limits a long one.
FairSpec == /\ Spec /\ WF_vars(Open \/ OpenFails)
            /\ WF_vars(StreamOver) /\ WF_vars(Recovery)

-----------------------------------------------------------------------------
(* Properties.                                                             *)

\* Whatever the provider sends and wherever it fails, the client receives one
\* message by the contract of stream_contracts.py: no block is begun twice or
\* reused, every delta goes to an open block of its kind, and the message ends
\* once, with every block closed and one at least.
ContractKept == ~client.fault

\* A request is repeated only while the client has seen nothing but the
\* message_start: the parts of two answers are never mixed ("early stream
\* cutoffs can be retried invisibly", RecoveryHoldbackBuffer).
RetryIsInvisible ==
    [][retries' # retries => client' = MessageStart(NewView)]_vars

\* When a broken answer is presented as a request for tools, every call in it
\* has a complete and valid input, and none keeps text in a buffer unsent.
SalvagedIsWhole ==
    phase = "salvaged" => \A t \in Started(sse) : sse.call[t].json = "whole"

\* An answer that ends well leaves nothing that its provider sent for a begun
\* call in a buffer ("without losing malformed JSON").
NothingHeldBack ==
    phase = "complete" => \A t \in Started(sse) : sse.call[t].held = "none"

\* The client's message is a MessageStream.
MessagePhase == IF phase = "gone" /\ client.phase = "open" THEN "gone" ELSE client.phase
Message == INSTANCE MessageStream WITH
               phase <- MessagePhase, started <- client.started, open <- client.open,
               bare <- FALSE
ServesMessage == Message!FairSpec
-----------------------------------------------------------------------------
(* The inductive invariant behind ContractKept and ServesMessage.          *)

\* Blocks are numbered below the next index, and what is open is what the
\* builder takes to be open, each block for one purpose.
Numbered(s) ==
    /\ \A i \in s.view.started : i < s.next
    /\ {s.text, s.thinking} \subseteq s.view.started \cup {NoBlock}
    /\ \A b \in s.view.open : b[1] \in s.view.started
    /\ \A b, c \in s.view.open : b[1] = c[1] => b[2] = c[2]

Tracked(s) ==
    /\ s.textOpen => <<s.text, "text">> \in s.view.open
    /\ s.thinkingOpen => <<s.thinking, "thinking">> \in s.view.open
    /\ \A t \in Started(s) : <<s.call[t].block, "tool_use">> \in s.view.open
    /\ \A t, u \in Started(s) : s.call[t].block = s.call[u].block => t = u
    /\ \A b \in s.view.open :
          \/ s.textOpen /\ b[1] = s.text /\ b[2] = "text"
          \/ s.thinkingOpen /\ b[1] = s.thinking /\ b[2] = "thinking"
          \/ \E t \in Started(s) : b[1] = s.call[t].block /\ b[2] = "tool_use"

\* A call has a block from the first piece of its name on.
Named(s) ==
    \A t \in Calls : s.call[t].name = "none" <=> s.call[t].block = NoBlock

Lawful(v, p) == ~v.fault /\ v.phase = p

WellFormed(s) == Lawful(s.view, "open") /\ Numbered(s) /\ Tracked(s)

Inv ==
    /\ TypeOK
    /\ phase \in Active =>
          /\ WellFormed(sse) /\ Named(sse)
          /\ IF committed THEN client = sse.view ELSE client = MessageStart(NewView)
    /\ phase = "recovering" => HasOutput(sse)
    /\ phase = "gone" => Lawful(client, "open")
    /\ phase \in Ended \ {"gone"} =>
          Lawful(client, "ended") /\ client.open = {} /\ client.started # {}
=============================================================================
