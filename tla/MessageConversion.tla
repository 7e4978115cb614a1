------------------------- MODULE MessageConversion --------------------------
(***************************************************************************)
(* The conversion of a conversation for chat completions                   *)
(* (core/anthropic/conversion.py), message by message, and of the items of *)
(* a Responses request into messages before it                             *)
(* (core/openai_responses/input.py).                                       *)
(*                                                                         *)
(* Chat completions want the results of an assistant's tool calls directly *)
(* after them, so that what the assistant said after its first call is     *)
(* deferred until they are there.  Every piece of content is a number, in  *)
(* the order in which the client gives them; the message that a piece      *)
(* ends up in, and where, is what is modelled.  Replay as <think> tags,    *)
(* which no provider asks for, is left out, and so are the blocks that the *)
(* conversion refuses (images, server tools), which end it with an error.  *)
(***************************************************************************)
EXTENDS Naturals, Sequences, FiniteSets, Functions, SequencesExt

CONSTANTS MaxPieces,   \* bound on the pieces of a conversation
          MaxBlocks    \* bound on the blocks of a message

ASSUME MessageConversionAssumption == MaxPieces \in Nat /\ MaxBlocks \in Nat

VARIABLES
    api,       \* which API the conversation comes by
    replay,    \* whether reasoning is replayed
    made,      \* pieces of content so far
    kindOf,    \* history: the kind of each piece
    out,       \* the messages for chat completions
    pending,   \* _PendingAfterTools: deferred blocks and the calls they wait for
    held,      \* pending_reasoning of a Responses request
    owed,      \* calls that the conversation has not answered yet
    direct,    \* history: calls were answered before anything else was said
    converted

convVars == <<api, replay, made, kindOf, out, pending, held, owed, direct, converted>>

Kinds == {"text", "thinking", "redacted", "tool"}
NoPending == [ids |-> {}, blocks |-> <<>>]
Ids(blocks) == [i \in 1..Len(blocks) |-> blocks[i].id]
Only(blocks, kind) == SelectSeq(blocks, LAMBDA b : b.kind = kind)

ConvInit ==
    /\ api \in {"messages", "responses"} /\ replay \in BOOLEAN /\ made = 0 /\ kindOf = <<>>
    /\ out = <<>> /\ pending = NoPending /\ held = <<>> /\ owed = {} /\ direct = TRUE /\ converted = FALSE

-----------------------------------------------------------------------------
(* Messages of the assistant.                                              *)

\* _convert_assistant_message(): reasoning of the message itself wins over the
\* thinking blocks, and opaque thinking is not replayed at all.
AssistantMessage(blocks, reasoning) ==
    [role |-> "assistant", content |-> Ids(Only(blocks, "text")), calls |-> Ids(Only(blocks, "tool")),
     reasoning |-> IF ~replay THEN <<>>
                   ELSE IF reasoning # <<>> THEN reasoning ELSE Ids(Only(blocks, "thinking"))]

\* _deferred_post_tool_to_messages()
DeferredMessage(p) == IF p.blocks = <<>> THEN <<>> ELSE <<AssistantMessage(p.blocks, <<>>)>>

\* _convert_assistant_message_with_split(): what precedes the first call, with all
\* the calls of the message.
FirstTool(blocks) == CHOOSE i \in 1..Len(blocks) : blocks[i].kind = "tool" /\ \A j \in 1..(i - 1) : blocks[j].kind # "tool"
HasTool(blocks) == Only(blocks, "tool") # <<>>
SplitMessage(blocks, reasoning) ==
    [AssistantMessage(SubSeq(blocks, 1, FirstTool(blocks) - 1), reasoning) EXCEPT !.calls = Ids(Only(blocks, "tool"))]
PostTool(blocks) == SelectSeq(SubSeq(blocks, FirstTool(blocks), Len(blocks)), LAMBDA b : b.kind # "tool")

\* The branch of convert_messages() for the assistant's blocks: blocks that still
\* wait for their results are given up waiting for.
ConvertAssistant(blocks, reasoning) ==
    /\ out' = out \o DeferredMessage(pending)
                \o <<IF HasTool(blocks) THEN SplitMessage(blocks, reasoning) ELSE AssistantMessage(blocks, reasoning)>>
    /\ pending' = IF HasTool(blocks) /\ PostTool(blocks) # <<>>
                  THEN [ids |-> Range(Ids(Only(blocks, "tool"))), blocks |-> PostTool(blocks)]
                  ELSE NoPending

\* The branch for a string: only one of the user makes deferred blocks come first.
ConvertString(role, content, reasoning) ==
    /\ out' = (IF role = "user" THEN out \o DeferredMessage(pending) ELSE out)
                \o <<[role |-> role, content |-> content, calls |-> <<>>,
                      reasoning |-> IF replay THEN reasoning ELSE <<>>]>>
    /\ pending' = IF role = "user" THEN NoPending ELSE pending

-----------------------------------------------------------------------------
(* Messages of the user.                                                   *)

\* flush_text()
Flushed(s) ==
    IF s.texts = <<>> THEN s.messages
    ELSE Append(s.messages, [role |-> "user", content |-> s.texts, calls |-> <<>>, reasoning |-> <<>>])

ToolMessage(b) == [role |-> "tool", content |-> <<b.id>>, calls |-> <<b.of>>, reasoning |-> <<>>]

\* Mutant: the deferred blocks come after the first result.
AfterResultEarly(s, p, b) ==
    LET left == s.left \ {b.of} IN [messages |-> Flushed(s) \o <<ToolMessage(b)>> \o DeferredMessage(p),
                                    texts |-> <<>>, left |-> left, cleared |-> TRUE]

\* A result is a message of its own; the last of those that are waited for brings
\* the deferred blocks with it.
AfterResult(s, p, b) ==
    LET left == s.left \ {b.of}
    IN  [messages |-> Flushed(s) \o <<ToolMessage(b)>> \o (IF left = {} THEN DeferredMessage(p) ELSE <<>>),
         texts |-> <<>>, left |-> left, cleared |-> s.cleared \/ left = {}]

\* _convert_user_message_with_injection(), and _convert_user_message() when
\* nothing is pending.
Blockwise(blocks, p) ==
    LET after[i \in 0..Len(blocks)] ==
            IF i = 0 THEN [messages |-> <<>>, texts |-> <<>>, left |-> p.ids, cleared |-> FALSE]
            ELSE IF blocks[i].kind = "text" THEN [after[i - 1] EXCEPT !.texts = Append(@, blocks[i].id)]
            ELSE AfterResult(after[i - 1], p, blocks[i])
    IN  after[Len(blocks)]

ConvertUser(blocks) ==
    LET end == Blockwise(blocks, pending)
    IN  /\ out' = out \o Flushed(end)
        /\ pending' = IF end.cleared \/ pending = NoPending THEN NoPending
                      ELSE [pending EXCEPT !.ids = end.left]

-----------------------------------------------------------------------------
(* A conversation of the messages API: the assistant's blocks, and the     *)
(* user's answers, which start with the results of the calls before them.  *)

Fits(n) == ~converted /\ made + n <= MaxPieces
Piece(i, kind) == [kind |-> kind, id |-> made + i]
Pieces(kinds) == [i \in 1..Len(kinds) |-> Piece(i, kinds[i])]
Says(kinds) == made' = made + Len(kinds) /\ kindOf' = kindOf \o kinds

\* A client may resume a conversation whose calls were never answered.
AssistantSpeaks(kinds) ==
    /\ api = "messages" /\ Fits(Len(kinds)) /\ Says(kinds) /\ ConvertAssistant(Pieces(kinds), <<>>)
    /\ owed' = Range(Ids(Only(Pieces(kinds), "tool"))) /\ direct' = (direct /\ owed = {})
    /\ UNCHANGED <<api, replay, held, converted>>

UserAnswers(calls, n) ==
    LET kinds == [i \in 1..(Len(calls) + n) |-> IF i <= Len(calls) THEN "result" ELSE "text"]
    IN  /\ Fits(Len(kinds)) /\ Says(kinds)
        /\ ConvertUser([i \in 1..Len(kinds) |->
               IF i <= Len(calls) THEN [kind |-> "result", id |-> made + i, of |-> calls[i]] ELSE Piece(i, "text")])
        /\ owed' = owed \ Range(calls) /\ direct' = (direct /\ (owed \subseteq Range(calls) \/ n = 0))
        /\ UNCHANGED <<api, replay, held, converted>>

StringSpeaks(role) ==
    /\ api = "messages" /\ Fits(1) /\ Says(<<"text">>) /\ ConvertString(role, <<made + 1>>, <<>>)
    /\ owed' = {} /\ direct' = (direct /\ owed = {})
    /\ UNCHANGED <<api, replay, held, converted>>

-----------------------------------------------------------------------------
(* _append_input_item() for each kind of item of a Responses request, each *)
(* of which becomes a message that is converted as above.  The reasoning   *)
(* before an item belongs to it when it is the assistant's, and is a       *)
(* message of its own otherwise.                                           *)

\* _append_pending_reasoning()
ReasoningFirst(messages) ==
    (IF held = <<>> THEN <<>>
     ELSE <<[role |-> "assistant", content |-> <<>>, calls |-> <<>>, reasoning |-> IF replay THEN held ELSE <<>>]>>)
        \o messages

Item(n) == api = "responses" /\ Fits(n)

ReasoningItem ==
    /\ Item(1) /\ Says(<<"thinking">>) /\ held' = Append(held, made + 1)
    /\ UNCHANGED <<api, replay, out, pending, owed, direct, converted>>

CallItem ==
    /\ Item(1) /\ Says(<<"tool">>) /\ ConvertAssistant(Pieces(<<"tool">>), held) /\ held' = <<>>
    /\ owed' = owed \cup {made + 1} /\ direct' = (direct /\ owed = {})
    /\ UNCHANGED <<api, replay, converted>>

AssistantItem ==
    /\ Item(1) /\ Says(<<"text">>) /\ held' = <<>> /\ direct' = (direct /\ owed = {})
    /\ ConvertAssistant(Pieces(<<"text">>), held) \/ ConvertString("assistant", <<made + 1>>, held)
    /\ UNCHANGED <<api, replay, owed, converted>>

\* A message of the user, and the developer's, which moves to the system prompt.
OtherItem ==
    /\ Item(1) /\ held' = <<>>
    /\ \/ /\ Says(<<"text">>) /\ direct' = (direct /\ owed = {})
          /\ out' = out \o ReasoningFirst(<<[role |-> "user", content |-> <<made + 1>>, calls |-> <<>>, reasoning |-> <<>>]>>)
       \/ /\ held # <<>> /\ UNCHANGED <<made, kindOf>> /\ direct' = (direct /\ owed = {})
          /\ out' = out \o ReasoningFirst(<<>>)
    /\ UNCHANGED <<api, replay, pending, owed, converted>>

OutputItem(call) ==
    /\ Item(1) /\ Says(<<"result">>) /\ held' = <<>> /\ owed' = owed \ {call}
    /\ direct' = (direct /\ held = <<>>)
    /\ out' = out \o ReasoningFirst(<<ToolMessage([id |-> made + 1, of |-> call])>>)
    /\ UNCHANGED <<api, replay, pending, converted>>

-----------------------------------------------------------------------------
\* The end of the conversation: what is pending or held is given.
EndConversation ==
    /\ ~converted /\ converted' = TRUE
    /\ out' = out \o DeferredMessage(pending) \o ReasoningFirst(<<>>)
    /\ pending' = NoPending /\ held' = <<>>
    /\ UNCHANGED <<api, replay, made, kindOf, owed, direct>>

ConvNext ==
    \/ \E n \in 1..MaxBlocks : \E kinds \in [1..n -> Kinds] : AssistantSpeaks(kinds)
    \/ \E S \in SUBSET owed, n \in 0..2 : \E calls \in SetToSeqs(S) :
           api = "messages" /\ Len(calls) + n > 0 /\ (n = 2 => S = {}) /\ UserAnswers(calls, n)
    \/ \E role \in {"user", "assistant"} : StringSpeaks(role)
    \/ ReasoningItem \/ CallItem \/ AssistantItem \/ OtherItem \/ EndConversation
    \/ \E call \in owed : OutputItem(call)

-----------------------------------------------------------------------------
(* Properties.                                                             *)

ConvTypeOK ==
    /\ made \in 0..MaxPieces /\ kindOf \in [1..made -> Kinds \cup {"result"}]
    /\ owed \subseteq 1..made /\ pending.ids \subseteq 1..made
    /\ \A i \in 1..Len(out) : out[i].role \in {"user", "assistant", "tool"}

Given(n, s) == Cardinality({i \in 1..Len(s) : s[i] = n})
Places(n) == FoldFunction(+, 0, [i \in 1..Len(out) |->
                 Given(n, out[i].content \o out[i].reasoning \o (IF out[i].role = "tool" THEN <<>> ELSE out[i].calls))])

\* Every piece of the conversation is in exactly one place of the converted one,
\* except for reasoning that is not to be replayed and opaque thinking.
NothingLostOrDoubled ==
    converted => \A n \in 1..made :
        Places(n) = IF kindOf[n] = "redacted" \/ (kindOf[n] = "thinking" /\ ~replay) THEN 0 ELSE 1

\* The results of an assistant's calls are the messages directly after it, in a
\* conversation where they were given before anything else.
ResultsFollowCalls ==
    direct => \A i \in 1..Len(out) :
        LET k == Len(out[i].calls)
        IN  out[i].role = "assistant" /\ (owed \cap Range(out[i].calls) = {}) =>
                {out[j].calls : j \in (i + 1)..(i + k)} = {<<c>> : c \in Range(out[i].calls)}

\* What is said stays in its order there, deferred or not.
OrderKept ==
    LET said == FlattenSeq([i \in 1..Len(out) |-> SelectSeq(out[i].content, LAMBDA n : kindOf[n] = "text")])
    IN  direct /\ api = "messages" => \A i, j \in 1..Len(said) : i < j => said[i] < said[j]

\* The invariant of the conversion.
ConversationKept == ConvTypeOK /\ NothingLostOrDoubled /\ ResultsFollowCalls /\ OrderKept
=============================================================================
