-------------------------- MODULE ProviderRequests --------------------------
(***************************************************************************)
(* What a provider is sent: the request builders of providers/*/request.py *)
(* and core/anthropic/native_messages_request.py, and the attempts with a  *)
(* downgraded body that the transports make when an upstream refuses a     *)
(* field.  One conversation of the client grows turn by turn; the client   *)
(* has two callers (the agent and a side question) on one provider         *)
(* instance, which shares the opt-out of stream_options and the thought    *)
(* signatures of tool calls; an administrator pins OpenRouter's provider   *)
(* (core/anthropic/openrouter_session.py) at any time.                     *)
(*                                                                         *)
(* A body is its messages, its budget of tokens, and its other parameters, *)
(* whether top-level or in extra_body, each with who set it ("client" or   *)
(* "gateway").  The SDK merges extra_body over the rest.  How a chat       *)
(* provider's messages are built is in MessageConversion.                  *)
(***************************************************************************)
EXTENDS Integers, Sequences, FiniteSets, SequencesExt, TLC

CONSTANTS
    Providers,     \* the families of providers that are run
    Wishes,        \* [Providers -> sets of requests, apart from their messages]
    Upstreams,     \* [Providers -> sets of [rejects, limit]]
    FirstWords, Answers, FollowUps, \* kinds of blocks of messages; what a tool's result holds
    Collection,    \* OPENROUTER_DATA_COLLECTION for [free, paid] models
    NimMaxTokens, DefaultMax,
    Margin, Least, \* CONTEXT_CLAMP_MARGIN_TOKENS and _MIN_CLAMPED_MAX_TOKENS
    MaxCache,      \* MAX_TOOL_CALL_EXTRA_CONTENT_CACHE
    MaxTalk,       \* bound on the messages of a conversation
    MaxSideTalk,   \* bound on those the side question is asked with
    MaxStarts      \* bound on the times a request opens its stream

VARIABLES
    provider, wish, upstream, \* who is asked, for what; chosen at the start
    talk,        \* the client's conversation
    statsWanted, \* include_stream_usage of the provider instance
    pin,         \* OpenRouterSessionOverrides: the slug and allow_fallbacks
    signed,      \* _tool_call_extra_content_by_id: ids, the oldest first
    calls        \* [Callers -> the state of its request]
provVars == <<provider, wish, upstream, talk, statsWanted, pin, signed, calls>>

Callers == {"agent", "side"}
ChatProviders == {"nim", "google", "cloudflare", "freebuff", "chat"}
Clampers == {"openrouter", "cloudflare"}
Thoughts == {"thinking", "signed", "redacted"}
NoPin == [slug |-> "none", fallbacks |-> "no"]
Skip == -1   \* SKIP_THOUGHT_SIGNATURE_VALIDATOR; 0 is no signature, and a call's own is its id
NoBody == [messages |-> <<>>, max |-> 0, params |-> <<>>, route |-> <<>>, hints |-> {}, choice |-> "auto"]
NoCall == [stage |-> "idle", body |-> NoBody, sent |-> NoBody, refused |-> NoBody, blamed |-> "none",
           starts |-> 0, clamped |-> FALSE, pin |-> NoPin, known |-> {}]

Part(kind) == [kind |-> kind, id |-> 0, inner |-> {}, sig |-> 0]
Message(role, parts) == [role |-> role, content |-> parts]
Holds(m, kinds) == \E i \in DOMAIN m.content : m.content[i].kind \in kinds
Ours(keys) == [k \in keys |-> "gateway"]
Theirs(keys) == [k \in keys |-> "client"]
Without(f, keys) == [k \in DOMAIN f \ keys |-> f[k]]

ProvInit ==
    /\ provider \in Providers /\ wish \in Wishes[provider] /\ upstream \in Upstreams[provider]
    /\ talk \in {<<Message("user", [i \in DOMAIN w |-> Part(w[i])])>> : w \in FirstWords}
    /\ statsWanted = TRUE /\ pin = NoPin /\ signed = <<>>
    /\ calls = [c \in Callers |-> NoCall]

-----------------------------------------------------------------------------
(* The messages.                                                           *)

Enabled == wish.policy /\ wish.asks # "disabled"

\* Assistant messages without the blocks of some kinds; an emptied one has "".
Dropping(messages, kinds) ==
    [i \in DOMAIN messages |->
        IF messages[i].role # "assistant" THEN messages[i]
        ELSE [messages[i] EXCEPT !.content = SelectSeq(@, LAMBDA b : b.kind \notin kinds)]]

NativeMessages(on) == Dropping(talk, IF on THEN {"thinking"} ELSE {"thinking", "signed", "redacted"})
ChatMessages(on) == Dropping(talk, IF on THEN {"redacted"} ELSE Thoughts)

OmittedAttachment == Part("text")
WithoutAttachments(messages) ==
    LET Inner(b) ==
            IF b.kind # "result" \/ b.inner = {"string"} THEN b
            ELSE [b EXCEPT !.inner = IF @ \subseteq {"image"} THEN {"text"} ELSE @ \ {"image"}]
        Kept(m) == SelectSeq(m.content, LAMBDA b : b.kind # "image")
    IN [i \in DOMAIN messages |->
           LET kept == Kept(messages[i])
           IN [messages[i] EXCEPT !.content =
                  IF kept = <<>> /\ Holds(messages[i], {"image"}) THEN <<OmittedAttachment>>
                  ELSE [j \in DOMAIN kept |-> Inner(kept[j])]]]

StringResults(messages) ==
    [i \in DOMAIN messages |->
        [messages[i] EXCEPT !.content =
            [j \in DOMAIN @ |-> IF @[j].kind = "result" THEN [@[j] EXCEPT !.inner = {"string"}] ELSE @[j]]]]

HasToolHistory(messages) ==
    \E i \in DOMAIN messages : Holds(messages[i], {IF messages[i].role = "assistant" THEN "call" ELSE "result"})

\* The first call of a message is judged by the thinking before it.
HasReplayableThinking(messages) ==
    \E i \in DOMAIN messages :
        LET m == messages[i].content
        IN /\ messages[i].role = "assistant"
           /\ \E j \in DOMAIN m :
                 /\ m[j].kind = "call" /\ \A k \in 1..(j - 1) : m[k].kind # "call"
                 /\ \E k \in 1..(j - 1) : m[k].kind \in {"thinking", "signed"}

-----------------------------------------------------------------------------
(* The thought signatures of Google's endpoints.                           *)

CurrentTurn(messages) ==
    LET starts == {i \in DOMAIN messages : messages[i].role = "user" /\ Holds(messages[i], {"text"})}
    IN {i \in DOMAIN messages : messages[i].role = "assistant" /\ \A s \in starts : s < i}

IsFirstCall(m, j) == m.content[j].kind = "call" /\ \A k \in 1..(j - 1) : m.content[k].kind # "call"

\* The signatures of `sig`, by message and block, for the calls that have none.
Signing(messages, sig) ==
    [i \in DOMAIN messages |->
        [messages[i] EXCEPT !.content =
            [j \in DOMAIN @ |-> IF @[j].kind = "call" /\ @[j].sig = 0 THEN [@[j] EXCEPT !.sig = sig[i][j]] ELSE @[j]]]]

Replayed(messages) ==
    LET cached == [i \in DOMAIN messages |->
                      [j \in DOMAIN messages[i].content |->
                          LET call == messages[i].content[j].id
                          IN IF Contains(signed, call) THEN call ELSE 0]]
    IN Signing(messages, cached)

Filled(messages) ==
    LET gaps == [i \in DOMAIN messages |->
                    [j \in DOMAIN messages[i].content |->
                        IF wish.gemini3 /\ i \in CurrentTurn(messages) /\ IsFirstCall(messages[i], j)
                        THEN Skip ELSE 0]]
    IN Signing(messages, gaps)

\* Mutant: the gaps are filled before the signatures are replayed.
SignedFilledFirst(messages) == Replayed(Filled(messages))
Signed(messages) == Filled(Replayed(messages))

RecordSignatures(ids) ==
    LET all == signed \o SelectSeq(ids, LAMBDA i : ~Contains(signed, i))
    IN SubSeq(all, Len(all) - (IF Len(all) > MaxCache THEN MaxCache ELSE Len(all)) + 1, Len(all))

-----------------------------------------------------------------------------
(* NIM's tool schemas: a property that is called "type" has an alias.      *)

RECURSIVE Sane(_), NamesIn(_), Renamed(_, _, _)
Sane(node) ==
    [bool |-> FALSE, required |-> node.required,
     props |-> [k \in {k \in DOMAIN node.props : ~node.props[k].bool} |-> Sane(node.props[k])],
     any |-> {Sane(n) : n \in {n \in node.any : ~n.bool}}]

NamesIn(node) ==
    DOMAIN node.props \cup UNION {NamesIn(node.props[k]) : k \in DOMAIN node.props} \cup UNION {NamesIn(n) : n \in node.any}

\* required is renamed where its own node has the property.
Renamed(node, old, new) ==
    LET New(k) == IF k = old THEN new ELSE k
        Old(k) == IF k = new /\ old \in DOMAIN node.props THEN old ELSE k
    IN [bool |-> FALSE,
        props |-> [k \in {New(k) : k \in DOMAIN node.props} |-> Renamed(node.props[Old(k)], old, new)],
        required |-> IF old \in DOMAIN node.props THEN {New(k) : k \in node.required} ELSE node.required,
        any |-> {Renamed(n, old, new) : n \in node.any}]

Aliases == <<"_fcc_arg_type", "_fcc_arg_type_2", "_fcc_arg_type_3">>
AliasOf(node) == Aliases[CHOOSE i \in DOMAIN Aliases :
                    Aliases[i] \notin NamesIn(node) /\ \A j \in 1..(i - 1) : Aliases[j] \in NamesIn(node)]
NimSchema(node) == Renamed(Sane(node), "type", AliasOf(Sane(node)))

\* _restore_aliased_tool_arguments of the transport: the keys of an argument object.
Restored(node, names) == {IF k = AliasOf(Sane(node)) THEN "type" ELSE k : k \in names}

-----------------------------------------------------------------------------
(* The bodies.                                                             *)

Canonical == {"model", "system", "tools", "tool_choice", "max_tokens"} \* among _OPENROUTER_EXTRA_BODY_FORBIDDEN_KEYS

Plain(messages) ==
    [messages |-> messages, max |-> wish.max, params |-> <<>>, route |-> <<>>, hints |-> wish.hints,
     choice |-> IF wish.forced THEN "forced" ELSE "auto"]
Budget(body) == [body EXCEPT !.max = IF @ = 0 THEN DefaultMax ELSE @]
Asked(on) == Ours(IF on /\ wish.asks # "unset" THEN {"thinking"} ELSE {})

NativeBody(on) == [Budget(Plain(NativeMessages(on))) EXCEPT !.params = Asked(on)]

WaferBody == [NativeBody(Enabled) EXCEPT !.params = @ @@ Ours({"thinking"})]

StrictBody == NativeBody(Enabled) \* Kimi, Z.ai: without extra_body

\* Fireworks takes the operator's policy alone, and extra_body over everything.
FireworksBody == [NativeBody(wish.policy) EXCEPT !.params = Theirs(wish.extra) @@ @]

DeepSeekBody ==
    LET plain == WithoutAttachments(talk)
        unsafe == HasToolHistory(plain) /\ ~HasReplayableThinking(plain)
        on == Enabled /\ ~unsafe
        kept == Dropping(plain, IF on THEN {"redacted"} ELSE Thoughts)
    IN [Budget(Plain(StringResults(kept))) EXCEPT
           !.params = Asked(on),
           !.hints = IF Enabled /\ unsafe THEN @ \ {"effort", "clear_thinking"} ELSE @,
           !.choice = "auto"]

\* The gateway's options are merged last, so that they win over the client's.
Route ==
    LET policy == "data_collection" :> Collection[IF wish.free THEN "free" ELSE "paid"]
        pinned == IF pin.slug = "none" THEN <<>> ELSE "order" :> pin.slug @@ "allow_fallbacks" :> pin.fallbacks
    IN pinned @@ policy @@ Theirs(wish.route)

OpenRouterBody ==
    [Budget(Plain(NativeMessages(Enabled))) EXCEPT
        !.params = Theirs(wish.extra) @@ Ours(IF Enabled THEN {"reasoning"} ELSE {}), !.route = Route]

NimBody ==
    LET kwargs == Ours(IF Enabled THEN {"chat_template_kwargs"} ELSE {})
        budget == Ours(IF Enabled THEN {"reasoning_budget"} ELSE {})
    IN [Plain(ChatMessages(Enabled)) EXCEPT
           !.max = IF @ = 0 \/ @ > NimMaxTokens THEN NimMaxTokens ELSE @,
           !.params = Theirs(wish.extra) @@ kwargs @@ budget @@ Ours(IF wish.template THEN {"chat_template"} ELSE {})]

GoogleBody ==
    [Plain(Signed(ChatMessages(Enabled))) EXCEPT
        !.params = Theirs(wish.extra) @@ Ours({IF Enabled THEN "include_thoughts" ELSE "reasoning_effort"})]

CloudflareBody ==
    [Plain(ChatMessages(Enabled)) EXCEPT !.params = Ours({"session_affinity"}) @@ Theirs(wish.extra)]

FreebuffBody ==
    [Plain(ChatMessages(Enabled)) EXCEPT
        !.params = Ours(IF Enabled THEN {"reasoning_effort"} ELSE {}) @@ Theirs(wish.extra)]

PlainChatBody == Plain(ChatMessages(Enabled)) \* Mistral, Codestral, OpenCode: without extra_body

\* Groq and Cerebras rename max_tokens beside the client's extra_body, which has the last word.
MaxRenamed(body) == [body EXCEPT !.params = @ @@ Ours(IF wish.max = 0 THEN {} ELSE {"max_completion_tokens"})]
RenamingBody == MaxRenamed([PlainChatBody EXCEPT !.params = Theirs(wish.extra)])

Body ==
    CASE provider = "native" -> NativeBody(Enabled)
      [] provider = "strict" -> StrictBody
      [] provider = "wafer" -> WaferBody
      [] provider = "fireworks" -> FireworksBody
      [] provider = "deepseek" -> DeepSeekBody
      [] provider = "openrouter" -> OpenRouterBody
      [] provider = "nim" -> NimBody
      [] provider = "google" -> GoogleBody
      [] provider = "cloudflare" -> CloudflareBody
      [] provider = "freebuff" -> FreebuffBody
      [] OTHER -> IF wish.renames THEN RenamingBody ELSE PlainChatBody

\* InvalidRequestError: blocks, tools and fields that the provider cannot be sent.
Unsendable ==
    \/ provider \in ChatProviders /\ \E i \in DOMAIN talk : talk[i].role = "user" /\ Holds(talk[i], {"image"})
    \/ provider = "strict" /\ wish.extra # {}
    \/ provider \in {"openrouter", "fireworks"} /\ wish.extra \cap Canonical # {}
    \/ provider = "deepseek" /\ (wish.mcp \/ wish.listed)

-----------------------------------------------------------------------------
(* The attempts.                                                           *)

Call(c, new) == calls' = [calls EXCEPT ![c] = new]
Fixed == UNCHANGED <<provider, wish, upstream>>

Build(c) ==
    /\ calls[c].stage = "idle" /\ (c = "side" => Len(talk) <= MaxSideTalk)
    /\ Call(c, IF Unsendable THEN [NoCall EXCEPT !.stage = "refused"]
               ELSE [NoCall EXCEPT !.stage = "built", !.body = Body, !.pin = pin,
                                   !.known = {signed[i] : i \in DOMAIN signed}])
    /\ UNCHANGED <<talk, statsWanted, pin, signed>> /\ Fixed

Sent(body) ==
    IF provider \in ChatProviders /\ statsWanted THEN [body EXCEPT !.params = @ @@ Ours({"stream_options"})] ELSE body

\* A stream is created for the body at hand.
Start(c) ==
    /\ calls[c].stage = "built" /\ calls[c].starts < MaxStarts
    /\ Call(c, [calls[c] EXCEPT !.stage = "sent", !.sent = Sent(calls[c].body), !.starts = @ + 1])
    /\ UNCHANGED <<talk, statsWanted, pin, signed>> /\ Fixed

Tokens == Len(talk)
HasReasoning(body) == \E i \in DOMAIN body.messages : body.messages[i].role = "assistant" /\ Holds(body.messages[i], Thoughts)
Faults(body) ==
    (upstream.rejects \cap DOMAIN body.params)
    \cup (IF "reasoning_content" \in upstream.rejects /\ HasReasoning(body) THEN {"reasoning_content"} ELSE {})
    \cup (IF upstream.limit # 0 /\ Tokens + body.max > upstream.limit THEN {"context"} ELSE {})

NimRetry(body, fault) ==
    CASE fault = "reasoning_budget" -> [body EXCEPT !.params = Without(@, {fault})]
      [] fault \in {"chat_template", "chat_template_kwargs"} -> [body EXCEPT !.params = Without(@, {"chat_template"})]
      [] fault = "reasoning_content" -> [body EXCEPT !.messages = Dropping(@, Thoughts)]
      [] OTHER -> body

\* The error counts the input, or the input with max_tokens.
Clamped(body, total) ==
    LET room == upstream.limit - Tokens - Margin
    IN IF room < Least \/ (total /\ body.max = 0) \/ (body.max # 0 /\ room >= body.max) THEN body
       ELSE [body EXCEPT !.max = room]

\* _get_retry_request_body(): the body itself when there is none.
RetryBody(body, fault, total) ==
    CASE provider = "nim" -> NimRetry(body, fault)
      [] provider \in Clampers /\ fault = "context" -> Clamped(body, total)
      [] OTHER -> body

Accepted(c) ==
    /\ calls[c].stage \in {"sent", "resent"} /\ Faults(calls[c].sent) = {}
    /\ Call(c, [calls[c] EXCEPT !.stage = "open"])
    /\ UNCHANGED <<talk, statsWanted, pin, signed>> /\ Fixed

\* _create_stream() of a chat provider, which has one more attempt.
RejectedOptions(c) ==
    /\ provider \in ChatProviders /\ calls[c].stage = "sent"
    /\ "stream_options" \in Faults(calls[c].sent) /\ statsWanted
    /\ statsWanted' = FALSE
    /\ Call(c, [calls[c] EXCEPT !.stage = "resent", !.sent = calls[c].body, !.refused = calls[c].sent, !.blamed = "stream_options"])
    /\ UNCHANGED <<talk, pin, signed>> /\ Fixed

RejectedChat(c, fault, total) ==
    LET again == RetryBody(calls[c].body, fault, total)
    IN /\ provider \in ChatProviders /\ calls[c].stage = "sent" /\ fault \in Faults(calls[c].sent)
       /\ ~(fault = "stream_options" /\ statsWanted)
       /\ Call(c, IF again = calls[c].body THEN [calls[c] EXCEPT !.stage = "failed", !.blamed = fault]
                  ELSE [calls[c] EXCEPT !.stage = "resent", !.body = again, !.sent = Sent(again),
                                        !.refused = calls[c].sent, !.blamed = fault])
       /\ UNCHANGED <<talk, statsWanted, pin, signed>> /\ Fixed

RejectedAgain(c, fault) ==
    /\ calls[c].stage = "resent" /\ fault \in Faults(calls[c].sent)
    /\ Call(c, [calls[c] EXCEPT !.stage = "failed", !.blamed = fault])
    /\ UNCHANGED <<talk, statsWanted, pin, signed>> /\ Fixed

\* The native stream's loop, which clamps once per request.
RejectedNative(c, total) ==
    LET again == RetryBody(calls[c].body, "context", total)
    IN /\ provider \notin ChatProviders /\ calls[c].stage = "sent" /\ "context" \in Faults(calls[c].sent)
       /\ Call(c, IF calls[c].clamped \/ again = calls[c].body
                  THEN [calls[c] EXCEPT !.stage = "failed"]
                  ELSE [calls[c] EXCEPT !.stage = "sent", !.body = again, !.sent = again, !.clamped = TRUE,
                                        !.refused = calls[c].sent, !.blamed = "context"])
       /\ UNCHANGED <<talk, statsWanted, pin, signed>> /\ Fixed

\* The stream breaks before anything was told: it is created again, with the last body.
Broken(c) ==
    /\ calls[c].stage = "open" /\ calls[c].starts < MaxStarts
    /\ Call(c, [calls[c] EXCEPT !.stage = "built", !.blamed = "none", !.refused = NoBody])
    /\ UNCHANGED <<talk, statsWanted, pin, signed>> /\ Fixed

\* The turn ends.  The agent's answer, and what the client says to it, extend the conversation;
\* the signature of a call is recorded, and the client may send it back or not.
CallsIn(messages) == Cardinality({<<i, j>> \in (1..MaxTalk) \X (1..5) :
    i \in DOMAIN messages /\ j \in DOMAIN messages[i].content /\ messages[i].content[j].kind = "call"})

Answered(kinds, follow, signs, kept) ==
    LET places == SelectSeq([j \in 1..Len(kinds) |-> j], LAMBDA j : kinds[j] = "call")
        Id(j) == CallsIn(talk) + Cardinality({k \in 1..j : kinds[k] = "call"})
        parts == [j \in DOMAIN kinds |->
                     [Part(kinds[j]) EXCEPT !.id = IF kinds[j] = "call" THEN Id(j) ELSE 0,
                                            !.sig = IF kinds[j] = "call" /\ signs /\ kept THEN Id(j) ELSE 0]]
        results == [n \in DOMAIN places |-> [Part("result") EXCEPT !.id = Id(places[n]), !.inner = follow.inner]]
        said == results \o (IF follow.text \/ places = <<>> THEN <<Part("text")>> ELSE <<>>)
    IN /\ talk' = talk \o <<Message("assistant", parts), Message("user", said)>>
       /\ signed' = IF signs THEN RecordSignatures([n \in DOMAIN places |-> Id(places[n])]) ELSE signed

EndTurn(c) ==
    /\ calls[c].stage = "open"
    /\ Call(c, NoCall)
    /\ \/ c = "agent" /\ Len(talk) < MaxTalk /\ calls["side"].stage = "idle"
          /\ \E kinds \in Answers, follow \in FollowUps, signs, kept \in BOOLEAN :
                (signs => provider = "google" /\ Enabled) /\ (kept => signs) /\ Answered(kinds, follow, signs, kept)
       \/ UNCHANGED <<talk, signed>>
    /\ UNCHANGED <<statsWanted, pin>> /\ Fixed

Pin(p) ==
    /\ provider = "openrouter" /\ pin' = p /\ p # pin
    /\ UNCHANGED <<talk, statsWanted, signed, calls>> /\ Fixed

ProvNext ==
    \/ \E c \in Callers : Build(c) \/ Start(c) \/ Accepted(c) \/ RejectedOptions(c) \/ Broken(c) \/ EndTurn(c)
    \/ \E c \in Callers, fault \in upstream.rejects \cup {"context"} : RejectedAgain(c, fault)
    \/ \E c \in Callers, fault \in upstream.rejects \cup {"context"}, total \in BOOLEAN : RejectedChat(c, fault, total)
    \/ \E c \in Callers, total \in BOOLEAN : RejectedNative(c, total)
    \/ \E p \in {NoPin, [slug |-> "fast", fallbacks |-> "no"], [slug |-> "safe", fallbacks |-> "yes"]} : Pin(p)

-----------------------------------------------------------------------------
(* Properties.                                                             *)

Stages == {"idle", "refused", "built", "sent", "resent", "open", "failed"}
ProvTypeOK ==
    /\ provider \in Providers /\ statsWanted \in BOOLEAN /\ Len(talk) <= MaxTalk /\ Len(signed) <= MaxCache
    /\ \A c \in Callers : calls[c].stage \in Stages /\ calls[c].starts \in 0..MaxStarts

Bodies == {calls[c] : c \in {d \in Callers : calls[d].stage \in Stages \ {"idle", "refused"}}}

\* What was thought before never reaches a provider whose thinking is off, and reaches
\* one that is on as that provider takes it: signed, or (DeepSeek, chat) without the
\* redacted; the gateway itself asks for thinking only when it is on (Wafer needs it).
ThinkingAsConfigured ==
    \A r \in Bodies :
        LET on == IF provider = "fireworks" THEN wish.policy ELSE Enabled
            unwanted == CASE ~on -> Thoughts
                          [] provider \in ChatProviders \cup {"deepseek"} -> {"redacted"}
                          [] OTHER -> {"thinking"}
            asks == {k \in DOMAIN r.body.params : r.body.params[k] = "gateway"}
                       \cap {"thinking", "reasoning", "include_thoughts", "reasoning_budget"}
        IN /\ \A i \in DOMAIN r.body.messages :
                 r.body.messages[i].role = "assistant" => ~Holds(r.body.messages[i], unwanted)
           /\ asks # {} => on \/ provider = "wafer"

\* DeepSeek gets no attachment, not even inside a result, results are strings, no user
\* message is emptied, and it thinks after a call only if some call has its thinking.
DeepSeekSuited ==
    provider = "deepseek" =>
        \A r \in Bodies :
            LET ms == r.body.messages
            IN /\ \A i \in DOMAIN ms :
                     /\ ms[i].role = "user" => ms[i].content # <<>>
                     /\ \A j \in DOMAIN ms[i].content :
                           LET b == ms[i].content[j]
                           IN b.kind # "image" /\ (b.kind = "result" => b.inner = {"string"})
               /\ "thinking" \in DOMAIN r.body.params /\ HasToolHistory(ms) => HasReplayableThinking(ms)
               /\ Enabled /\ HasToolHistory(ms) /\ ~HasReplayableThinking(ms)
                    => r.body.hints \cap {"effort", "clear_thinking"} = {}

\* The operator's data policy and the pinned provider win over the client, whatever it
\* asks for, and the rest of its provider options survives.
OperatorWins ==
    provider = "openrouter" =>
        \A r \in Bodies :
            LET route == r.body.route
            IN /\ route["data_collection"] = Collection[IF wish.free THEN "free" ELSE "paid"]
               /\ r.pin.slug # "none" => route["order"] = r.pin.slug /\ route["allow_fallbacks"] = r.pin.fallbacks
               /\ \A k \in wish.route \ {"data_collection", "order", "allow_fallbacks"} : route[k] = "client"
               /\ DOMAIN r.body.params \cap Canonical = {}

\* A tool's schema reaches NIM without a property "type", and what the model answers
\* has the names of the client's schema again.
RECURSIVE PropsRestored(_, _)
PropsRestored(node, sane) ==
    /\ "type" \notin DOMAIN node.props
    /\ Restored(wish.schema, DOMAIN node.props) = DOMAIN sane.props
    /\ Cardinality(DOMAIN node.props) = Cardinality(DOMAIN sane.props)
    /\ \A k \in DOMAIN node.props :
          PropsRestored(node.props[k], sane.props[CHOOSE o \in Restored(wish.schema, {k}) : TRUE])

NamesRestored == provider = "nim" => PropsRestored(NimSchema(wish.schema), Sane(wish.schema))

\* A call is sent with its own signature or none; one whose signature is known is sent
\* with it; in the current turn Gemini 3 finds one at the first call of each message.
SignaturesReplayed ==
    provider = "google" =>
        \A r \in Bodies : \A i \in DOMAIN r.body.messages : \A j \in DOMAIN r.body.messages[i].content :
            LET b == r.body.messages[i].content[j]
            IN b.kind = "call" =>
                  /\ b.sig \in {0, Skip, b.id}
                  /\ b.id \in r.known => b.sig = b.id
                  /\ wish.gemini3 /\ i \in CurrentTurn(r.body.messages) /\ IsFirstCall(r.body.messages[i], j) => b.sig # 0

\* The body that is sent again differs from the one that was refused only in what the
\* upstream blamed, and one that was clamped fits the window.
RetriedWithoutTheFault ==
    \A r \in Bodies : r.stage \in {"sent", "resent"} /\ r.refused # NoBody =>
        LET gone == IF r.blamed = "chat_template_kwargs" THEN {"chat_template"} ELSE {r.blamed}
        IN /\ r.sent.params \in {Without(r.refused.params, gone), Without(r.refused.params, gone \cup {"stream_options"})}
           /\ r.blamed # "reasoning_content" => r.sent.messages = r.refused.messages
           /\ r.blamed # "context" => r.sent.max = r.refused.max
           /\ r.blamed = "context" => r.sent.max < r.refused.max /\ Tokens + r.sent.max <= upstream.limit
           /\ r.sent # r.refused

\* The type of the state and the six invariants above.
RequestsSuitProviders ==
    /\ ProvTypeOK /\ ThinkingAsConfigured /\ DeepSeekSuited /\ OperatorWins
    /\ NamesRestored /\ SignaturesReplayed /\ RetriedWithoutTheFault

\* A 400 that names stream_options is answered by the same request without it
\* (transport.py:137): no request fails by it at its first attempt.
NamedOptionIsDropped ==
    \A c \in Callers : calls[c].stage = "failed" /\ calls[c].blamed = "stream_options" => calls[c].refused # NoBody
=============================================================================
