----------------------------- MODULE MCRequests -----------------------------
(***************************************************************************)
(* What happens to a request, for TLC: one of the pipeline, the conversion *)
(* of a conversation, the translation of a stream, the bodies and attempts *)
(* of a provider, and the parsers of its text is run at a time.            *)
(***************************************************************************)
EXTENDS RequestPipeline, MessageConversion, ResponsesStream, ProviderRequests, TextParsers, TLC

VARIABLE subject

vars == <<subject, reqVars, convVars, respVars, provVars, textVars>>

MCSupported == {"nim", "router"}
MCChatUpstreams == {"nim"}
ChatModel == <<"nim", "org", "big-opus">>
NativeModel == <<"router", "small">>
GoneModel == <<"gone", "old">>
MCSpoken ==
    [s \in {"anthropic", "quiet", "nim", "router", "gone", "org", "big-opus", "small", "old",
            "claude-opus", "claude-sonnet"} |->
        CASE s \in {"big-opus", "claude-opus"} -> "opus" [] s = "claude-sonnet" -> "sonnet" [] OTHER -> "none"]
MCSettings ==
    [refs : {"main" :> NativeModel @@ "chat" :> ChatModel},
     modelOf : {"opus" :> "unset" @@ "haiku" :> "unset" @@ "sonnet" :> s : s \in {"unset", "chat"}},
     thinking : {"on", "off"},
     thinkingOf : {"opus" :> "on" @@ "haiku" :> "unset" @@ "sonnet" :> "unset"},
     known : {<<NativeModel, ChatModel, GoneModel, NativeModel>>}, cannotThink : {{NativeModel}},
     wide : {{}, {ChatModel}}, guarded : BOOLEAN, long : {<<>>, ChatModel}, threshold : {2}, multiplier : {3},
     webTools : BOOLEAN, optimizations : {{"quota", "suggestion", "title", "filepath"}},
     rewrites : {{NativeModel}}, concise : {TRUE}, directives : {<<"concise", "polite">>}]
Names == {Name(<<"claude-sonnet">>), Name(<<"claude-opus">>), Name(NativeModel), GatewayId(ChatModel, TRUE),
          QuietId(ChatModel, FALSE), QuietId(GoneModel, FALSE)}
Basic == [api |-> "messages", name |-> Name(<<"claude-sonnet">>), turns |-> 2, tokens |-> 3, plain |-> TRUE,
          tools |-> {}, choice |-> "auto", marks |-> {}, oldMarks |-> {}, system |-> <<"polite", "client">>,
          repo |-> "repo", authentic |-> TRUE]
MCRequestSet ==
    {[Basic EXCEPT !.api = a, !.name = n, !.tokens = t, !.tools = s, !.choice = c] :
        a \in {"messages", "responses"}, n \in Names, t \in {1, 3}, s \in SUBSET {"named", "typed"},
        c \in {"auto", "web"}}
    \cup {[Basic EXCEPT !.turns = n, !.marks = s, !.oldMarks = o] :
             n \in 0..2, s \in {{}, {"quota", "title"}, {"filepath"}, {"prefix"}}, o \in {{}, {"suggestion"}}}
    \cup {[Basic EXCEPT !.api = a, !.authentic = b, !.plain = FALSE, !.tokens = t] :
             a \in {"models", "count", "responses"}, b \in BOOLEAN, t \in {0, 3}}

MCTools == <<[kind |-> "function", namespace |-> "", name |-> "read"],
             [kind |-> "custom", namespace |-> "fs", name |-> "patch"]>>

Leaf == [bool |-> FALSE, props |-> <<>>, required |-> {}, any |-> {}]
Anything == [Leaf EXCEPT !.bool = TRUE]
Deep == [Leaf EXCEPT !.props = "type" :> Leaf @@ "path" :> Anything, !.required = {"type"}]
MCSchema ==
    [Leaf EXCEPT !.props = "type" :> Deep @@ "_fcc_arg_type" :> Leaf @@ "path" :> Leaf, !.required = {"type", "path"},
                 !.any = {[Leaf EXCEPT !.required = {"type"}], Deep, Anything}]
Wish == [asks |-> "enabled", policy |-> TRUE, max |-> 9, extra |-> {}, route |-> {}, hints |-> {"effort", "clear_thinking", "format"},
         listed |-> FALSE, mcp |-> FALSE, forced |-> TRUE, schema |-> Leaf, free |-> FALSE, gemini3 |-> FALSE,
         template |-> FALSE, renames |-> FALSE]
Thinking == {[Wish EXCEPT !.asks = a, !.policy = p] : a \in {"unset", "enabled", "disabled"}, p \in BOOLEAN}
MCProviders == {"native", "strict", "wafer", "fireworks", "deepseek", "openrouter", "nim", "google", "cloudflare", "freebuff", "chat"}
MCWishes ==
    [p \in MCProviders |->
        CASE p = "fireworks" -> {[w EXCEPT !.extra = x] : w \in Thinking, x \in {{}, {"thinking"}, {"model"}}}
          [] p = "strict" -> {[Wish EXCEPT !.extra = x] : x \in {{}, {"top_k"}}}
          [] p = "deepseek" -> Thinking \cup {[Wish EXCEPT !.mcp = b, !.listed = ~b] : b \in BOOLEAN}
          [] p = "openrouter" ->
                {[Wish EXCEPT !.policy = b, !.extra = x, !.free = b, !.max = IF b THEN 0 ELSE 9,
                              !.route = {"data_collection", "order", "sort"}] :
                    b \in BOOLEAN, x \in {{"reasoning"}, {"tools"}}}
          [] p = "nim" -> {[Wish EXCEPT !.policy = b, !.schema = MCSchema, !.template = b, !.extra = x] : b \in BOOLEAN, x \in {{}, {"top_k", "reasoning_budget"}}}
          [] p = "google" -> {[Wish EXCEPT !.policy = b, !.gemini3 = g, !.extra = {"reasoning_effort"}] : b, g \in BOOLEAN}
          [] p = "cloudflare" -> {[Wish EXCEPT !.max = n] : n \in {0, 9}}
          [] p = "chat" -> {[Wish EXCEPT !.renames = b, !.policy = b, !.extra = {"logprobs"}] : b \in BOOLEAN}
          [] OTHER -> {Wish, [Wish EXCEPT !.policy = FALSE, !.max = 0]}]
Up(rejects, limit) == [rejects |-> rejects, limit |-> limit]
MCUpstreams ==
    [p \in MCProviders |->
        CASE p = "nim" -> {Up({"stream_options", f}, 0) : f \in {"reasoning_budget", "chat_template", "chat_template_kwargs", "reasoning_content"}}
          [] p \in {"openrouter", "cloudflare"} -> {Up({}, 0), Up({"stream_options"}, 10), Up({}, 5)}
          [] p = "chat" -> {Up({"stream_options"}, 0), Up({}, 0)}
          [] OTHER -> {Up({}, 0)}]
MCFirst == {<<"text">>, <<"image", "text">>, <<"image">>}
MCAnswers == {<<"text">>, <<"thinking", "call">>, <<"signed", "call", "call">>, <<"redacted", "call", "thinking">>}
MCFollow == {[inner |-> {"string"}, text |-> FALSE], [inner |-> {"image"}, text |-> FALSE], [inner |-> {"text", "image"}, text |-> TRUE]}
MCCollection == [free |-> "allow", paid |-> "deny"]

Init ==
    /\ subject \in {"pipeline", "conversion", "stream", "provider", "text"}
    /\ IF subject = "pipeline" THEN TRUE ELSE cfg = (CHOOSE c \in SettingsSet : TRUE) /\ req = Basic
    /\ IF subject = "conversion" THEN TRUE ELSE api = "messages" /\ replay = FALSE
    /\ IF subject = "provider" THEN TRUE
       ELSE provider = "native" /\ wish = Wish /\ talk = <<Message("user", <<Part("text")>>)>>
    /\ IF subject = "text" THEN TRUE ELSE reader = "think"
    /\ TextInit /\ RequestInit /\ ConvInit /\ RespInit /\ ProvInit

Next ==
    \/ subject = "pipeline" /\ RequestNext /\ UNCHANGED <<subject, convVars, respVars, provVars, textVars>>
    \/ subject = "conversion" /\ ConvNext /\ UNCHANGED <<subject, reqVars, respVars, provVars, textVars>>
    \/ subject = "stream" /\ RespNext /\ UNCHANGED <<subject, reqVars, convVars, provVars, textVars>>
    \/ subject = "provider" /\ ProvNext /\ UNCHANGED <<subject, reqVars, convVars, respVars, textVars>>
    \/ subject = "text" /\ TextNext /\ UNCHANGED <<subject, reqVars, convVars, respVars, provVars>>

Spec == Init /\ [][Next]_vars

\* What the model is told of a conversation, and the stream of what it answers,
\* are whole and in order.
ConversionsKept == ConversationKept /\ TextParsed
=============================================================================
