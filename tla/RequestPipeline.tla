-------------------------- MODULE RequestPipeline ---------------------------
(***************************************************************************)
(* How the API turns a request into a call of a provider: the route's      *)
(* dependencies (api/routes.py), the resolution of model names             *)
(* (api/model_router.py, gateway_model_ids.py, config/settings.py), and    *)
(* the pipeline of reroutes, rejections, intercepts and directives         *)
(* (api/request_pipeline.py), with the list of models that the API         *)
(* advertises (api/model_catalog.py).                                      *)
(*                                                                         *)
(* A model name is the sequence of its segments between slashes, and       *)
(* whether it ends in the [1m] marker.  The settings and the request are   *)
(* chosen at the start; what a module's strategies answer, and whether a   *)
(* provider can be made, is chosen at the step.                            *)
(***************************************************************************)
EXTENDS Naturals, Sequences, FiniteSets, FiniteSetsExt

CONSTANTS Supported,     \* SUPPORTED_PROVIDER_IDS
          ChatUpstreams, \* those that the Anthropic messages are converted for
          Spoken,        \* the tier (opus, haiku, sonnet) a segment speaks of, or "none"
          SettingsSet, RequestSet,
          MaxStrategies  \* bound on the reroute strategies of modules

Tiers == {"opus", "haiku", "sonnet"}
\* The references and names there may be: at least one segment.
Paths == Seq(DOMAIN Spoken) \ {<<>>}

ASSUME RequestPipelineAssumption ==
    /\ ChatUpstreams \subseteq Supported /\ {"anthropic", "quiet"} \cap Supported = {}
    /\ MaxStrategies \in Nat

\* validate_model_format() has seen to it that every configured reference starts
\* with a provider that is supported; what a module answers, and what a provider's
\* list names, is any reference.
ASSUME SettingsAssumption ==
    \A c \in SettingsSet :
       /\ DOMAIN c.modelOf = Tiers /\ DOMAIN c.thinkingOf = Tiers
       /\ \A k \in {"main"} \cup ({c.modelOf[t] : t \in Tiers} \ {"unset"}) :
             c.refs[k] \in Paths /\ Head(c.refs[k]) \in Supported
       /\ c.long # <<>> => c.long \in Paths /\ Head(c.long) \in Supported
       /\ c.known \in Seq(Paths) /\ c.rewrites \subseteq Paths /\ c.directives \in Seq(STRING)

ASSUME RequestsAssumption ==
    \A r \in RequestSet : r.name.path \in Paths /\ r.system \in Seq(STRING) /\ r.repo \in STRING

VARIABLES
    cfg, req,   \* the settings and the request, as they are from the start
    step,       \* the next step of the pipeline
    repo,       \* request.state.graphify_project_path, by require_api_key()
    repoSeen,   \* the value of it the pipeline was built with
    routed,     \* RoutedMessagesRequest: the request's model, and its resolution
    chosen,     \* history: the name that was resolved last
    strategies, \* strategies of modules that still have to run
    system,     \* the directives in the request's system prompt
    outcome,    \* what the client gets
    listed      \* the ids of build_models_list_response()

reqVars == <<cfg, req, step, repo, repoSeen, routed, chosen, strategies, system, outcome, listed>>

Steps == {"build", "authenticate", "resolve", "reroute", "long", "reject", "intercept", "optimize",
          "module", "direct", "provider", "done"}
NoRoute == [provider |-> "none", model |-> <<>>, ref |-> [path |-> <<>>, wide |-> FALSE],
            thinking |-> FALSE]

RequestInit ==
    /\ cfg \in SettingsSet /\ req \in RequestSet
    /\ step = "build" /\ repo = "" /\ repoSeen = "" /\ routed = NoRoute /\ chosen = NoRoute.ref
    /\ strategies = 0 /\ system = req.system /\ outcome = "none" /\ listed = <<>>

-----------------------------------------------------------------------------
(* Model names.                                                            *)

Name(path) == [path |-> path, wide |-> FALSE]

\* gateway_model_id() and no_thinking_gateway_model_id()
GatewayId(ref, wide) == [path |-> <<"anthropic">> \o ref, wide |-> wide]
QuietId(ref, wide) == [path |-> <<"quiet">> \o ref, wide |-> wide]

\* The first tier that the path speaks of and that has a value.
ByTier(path, table, default) ==
    LET spoken == {Spoken[path[i]] : i \in 1..Len(path)}
        order == <<"opus", "haiku", "sonnet">>
        hits == {i \in 1..3 : order[i] \in spoken /\ table[order[i]] # "unset"}
    IN  IF hits = {} THEN default ELSE table[order[Min(hits)]]

\* resolve_model(): the models are keys of cfg.refs, so that "unset" is one.
ConfiguredModel(path) == cfg.refs[ByTier(path, cfg.modelOf, "main")]
ConfiguredThinking(path) == ByTier(path, cfg.thinkingOf, cfg.thinking) = "on"

\* _direct_provider_model(): the provider, the model and the forced thinking of a
\* name of the gateway or of a reference to a provider; a name of neither kind,
\* or of a provider that is not supported, gives none.
Decoded(path) ==
    IF Len(path) > 2 /\ Head(path) \in {"anthropic", "quiet"}
    THEN [provider |-> path[2], model |-> SubSeq(path, 3, Len(path)), quiet |-> Head(path) = "quiet"]
    ELSE [provider |-> Head(path), model |-> Tail(path), quiet |-> FALSE]
IsDirect(path) == Decoded(path).provider \in Supported /\ Decoded(path).model # <<>>

\* ModelRouter.resolve(), which takes the marker away, and the model of the
\* request is set to what it finds.
Resolve(name) ==
    LET d == Decoded(name.path)
        ref == ConfiguredModel(name.path)
    IN  IF IsDirect(name.path)
        THEN [provider |-> d.provider, model |-> d.model, ref |-> name,
              thinking |-> ~d.quiet /\ ConfiguredThinking(d.model)]
        ELSE [provider |-> Head(ref), model |-> Tail(ref), ref |-> Name(ref),
              thinking |-> ConfiguredThinking(name.path)]

-----------------------------------------------------------------------------
(* The routes and their dependencies.                                      *)

\* get_request_pipeline(), the first of the route's dependencies.
BuildPipeline ==
    /\ step = "build" /\ step' = "authenticate" /\ repoSeen' = repo
    /\ UNCHANGED <<cfg, req, repo, routed, chosen, strategies, system, outcome, listed>>

\* require_api_key(), the last one: the token's suffix names the repository.
Authenticate ==
    /\ step = "authenticate"
    /\ IF ~cfg.guarded THEN step' = "resolve" /\ UNCHANGED <<repo, outcome>>
       ELSE /\ repo' = req.repo
            /\ IF req.authentic THEN step' = "resolve" /\ UNCHANGED outcome
               ELSE step' = "done" /\ outcome' = "401"
    /\ UNCHANGED <<cfg, req, repoSeen, routed, chosen, strategies, system, listed>>

\* _append_unique_model(), and the test of append_system_directive()
Occurs(list, x) == \E i \in 1..Len(list) : list[i] = x
AppendUnique(list, x) == IF Occurs(list, x) THEN list ELSE Append(list, x)

\* list_models(): each configured model, then each that a provider's list names,
\* under a plain id unless it cannot think, and under one without thinking.
WithVariants(ids, ref) ==
    AppendUnique(IF ref \in cfg.cannotThink THEN ids ELSE AppendUnique(ids, GatewayId(ref, ref \in cfg.wide)),
                 QuietId(ref, ref \in cfg.wide))
Advertised(refs) ==
    LET list[i \in 0..Len(refs)] == IF i = 0 THEN <<>> ELSE WithVariants(list[i - 1], refs[i])
    IN  list[Len(refs)]

ListModels ==
    /\ step = "resolve" /\ req.api = "models"
    /\ listed' = Advertised(cfg.known) /\ step' = "done" /\ outcome' = "models"
    /\ UNCHANGED <<cfg, req, repo, repoSeen, routed, chosen, strategies, system>>

-----------------------------------------------------------------------------
(* The pipeline.                                                           *)

\* Each API has its own way of telling an error; what matters is which it is.
Fails(code) == step' = "done" /\ outcome' = code

\* _require_non_empty_messages() and resolve_messages_request(); the responses API
\* refuses a request that is not to be streamed, or that it cannot convert, before.
ResolveRequest ==
    /\ step = "resolve" /\ req.api \in {"messages", "responses"}
    /\ IF req.turns = 0 \/ (req.api = "responses" /\ ~req.plain)
       THEN Fails("400") /\ UNCHANGED <<routed, chosen, strategies>>
       ELSE /\ routed' = Resolve(req.name) /\ chosen' = req.name
            /\ strategies' \in 0..MaxStrategies /\ step' = "reroute" /\ UNCHANGED outcome
    /\ UNCHANGED <<cfg, req, repo, repoSeen, system, listed>>

\* count_tokens(): the route is resolved, and the tokens of the request are told
\* with the multiplier of the settings, and never as none.
CountTokens ==
    /\ step = "resolve" /\ req.api = "count"
    /\ IF req.turns = 0 THEN Fails("400") /\ UNCHANGED <<routed, chosen>>
       ELSE /\ routed' = Resolve(req.name) /\ chosen' = req.name
            /\ Fails(IF (req.tokens * cfg.multiplier) \div 2 > 1 THEN "counted" ELSE "one")
    /\ UNCHANGED <<cfg, req, repo, repoSeen, strategies, system, listed>>

\* _apply_module_reroutes(): a strategy that raises, or that has nothing to say,
\* leaves the route; another gives a route for a name of its own.
RunStrategy ==
    /\ step = "reroute" /\ strategies > 0 /\ strategies' = strategies - 1
    /\ \/ UNCHANGED <<routed, chosen>>
       \/ \E ref \in cfg.rewrites : routed' = Resolve(Name(ref)) /\ chosen' = Name(ref)
    /\ UNCHANGED <<cfg, req, step, repo, repoSeen, system, outcome, listed>>
StrategiesDone ==
    /\ step = "reroute" /\ strategies = 0 /\ step' = "long"
    /\ UNCHANGED <<cfg, req, repo, repoSeen, routed, chosen, strategies, system, outcome, listed>>

Oversized == cfg.long # <<>> /\ cfg.threshold > 0 /\ req.tokens > cfg.threshold

\* Mutant: the thinking of the model that was asked for is kept.
MaybeRerouteKeeping ==
    IF Oversized /\ routed.ref # Name(cfg.long)
    THEN /\ routed' = [Resolve(Name(cfg.long)) EXCEPT !.thinking = routed.thinking]
         /\ chosen' = Name(cfg.long)
    ELSE UNCHANGED <<routed, chosen>>

\* _maybe_reroute_long_context()
MaybeReroute ==
    IF Oversized /\ routed.ref # Name(cfg.long)
    THEN routed' = Resolve(Name(cfg.long)) /\ chosen' = Name(cfg.long)
    ELSE UNCHANGED <<routed, chosen>>

RerouteLong ==
    /\ step = "long" /\ step' = "reject" /\ MaybeReroute
    /\ UNCHANGED <<cfg, req, repo, repoSeen, strategies, system, outcome, listed>>

\* forced_server_tool_name(), has_tool_named() of it, and
\* has_listed_anthropic_server_tools(), which knows a tool by its type, too
Forced == req.choice = "web"
Named == "named" \in req.tools
ListsServerTool == req.tools \cap {"named", "typed"} # {}

\* openai_chat_upstream_server_tool_error()
ChatCannotServe == IF Forced THEN ~cfg.webTools ELSE ListsServerTool

\* _reject_unsupported_server_tools()
RejectServerTools ==
    /\ step = "reject"
    /\ IF routed.provider \in ChatUpstreams /\ ChatCannotServe
       THEN Fails("400")
       ELSE step' = (IF req.api = "messages" THEN "intercept" ELSE "direct") /\ UNCHANGED outcome
    /\ UNCHANGED <<cfg, req, repo, repoSeen, routed, chosen, strategies, system, listed>>

\* _intercept_web_server_tool()
InterceptWebTool ==
    /\ step = "intercept"
    /\ IF cfg.webTools /\ Forced /\ Named THEN Fails("web tool") ELSE step' = "optimize" /\ UNCHANGED outcome
    /\ UNCHANGED <<cfg, req, repo, repoSeen, routed, chosen, strategies, system, listed>>

\* The probes the client is known to send, in the order of OPTIMIZATION_HANDLERS.
\* Most are known by being short; a suggestion is known by any user's message.
Probes == <<"quota", "prefix", "title", "suggestion", "filepath">>
Detected(probe) ==
    CASE probe \in {"quota", "prefix"} -> probe \in req.marks /\ req.turns = 1
      [] probe = "title"               -> probe \in req.marks /\ req.tools = {}
      [] probe = "suggestion"          -> probe \in req.marks \cup req.oldMarks
      [] probe = "filepath"            -> probe \in req.marks /\ req.turns = 1 /\ req.tools = {}

\* try_optimizations(): the first handler that is enabled and knows the request
\* answers it.
TryOptimizations ==
    /\ step = "optimize"
    /\ LET hits == {i \in 1..Len(Probes) : Probes[i] \in cfg.optimizations /\ Detected(Probes[i])}
       IN  IF hits = {} THEN step' = "module" /\ UNCHANGED outcome ELSE Fails(Probes[Min(hits)])
    /\ UNCHANGED <<cfg, req, repo, repoSeen, routed, chosen, strategies, system, listed>>

\* The intercepts of modules, run last: one may answer, and one may raise.
RunModuleIntercepts ==
    /\ step = "module"
    /\ \/ step' = "direct" /\ UNCHANGED outcome
       \/ Fails("module")
       \/ Fails("500")
    /\ UNCHANGED <<cfg, req, repo, repoSeen, routed, chosen, strategies, system, listed>>

\* append_system_directive()
WithDirective(prompt, d) == IF d = "" THEN prompt ELSE AppendUnique(prompt, d)

Directives == <<IF cfg.concise THEN "concise" ELSE "", repoSeen>> \o cfg.directives

Directed(prompt) ==
    LET with[i \in 0..Len(Directives)] == IF i = 0 THEN prompt ELSE WithDirective(with[i - 1], Directives[i])
    IN  with[Len(Directives)]

\* The first half of _provider_stream()
AppendDirectives ==
    /\ step = "direct" /\ step' = "provider"
    /\ system' = Directed(system)
    /\ UNCHANGED <<cfg, req, repo, repoSeen, routed, chosen, strategies, outcome, listed>>

\* The provider is made (the messages API tells a missing key, an HTTPException of
\* the getter, as its own failure), its preflight may refuse, and the stream starts.
CallProvider ==
    /\ step = "provider"
    /\ Fails("streamed") \/ Fails("500") \/ Fails("refused")
    /\ UNCHANGED <<cfg, req, repo, repoSeen, routed, chosen, strategies, system, listed>>

RequestNext ==
    \/ BuildPipeline \/ Authenticate \/ ListModels \/ ResolveRequest \/ CountTokens
    \/ RunStrategy \/ StrategiesDone \/ RerouteLong \/ RejectServerTools \/ InterceptWebTool
    \/ TryOptimizations \/ RunModuleIntercepts \/ AppendDirectives \/ CallProvider

-----------------------------------------------------------------------------
(* Properties.                                                             *)

RequestTypeOK ==
    /\ step \in Steps /\ strategies \in 0..MaxStrategies
    /\ routed.provider \in Supported \cup {"none"} /\ routed.thinking \in BOOLEAN
    /\ repo \in {"", req.repo} /\ repoSeen \in {"", req.repo}

Streamed == outcome = "streamed"

\* A request that reaches a provider asks it for the model it was routed to, and a
\* request over the threshold is served by the fallback model, whatever name it
\* came by and whatever modules made of it; a model that is served under a name
\* of its own thinks as the settings say, and never under an id without thinking.
ServedByRoute ==
    Streamed =>
      /\ Oversized /\ Tail(cfg.long) # <<>> => routed.provider = Head(cfg.long) /\ routed.model = Tail(cfg.long)
      /\ chosen.path[1] = "quiet" /\ IsDirect(chosen.path) => ~routed.thinking
      /\ chosen.path[1] # "quiet" /\ IsDirect(chosen.path) => routed.thinking = ConfiguredThinking(routed.model)

\* Over the messages API, a conversion to chat completions is never asked for a
\* server tool that is listed, unless the client forces one it does not list.
NoServerToolForChat ==
    Streamed /\ req.api = "messages" /\ routed.provider \in ChatUpstreams /\ ListsServerTool
        => Forced /\ cfg.webTools /\ ~Named

\* The system prompt is the client's, and then each directive that applies and
\* that the client's does not hold, once.
DirectivesOnce ==
    Streamed =>
      /\ SubSeq(system, 1, Len(req.system)) = req.system
      /\ \A k \in 1..Len(Directives) : Directives[k] # "" => Occurs(system, Directives[k])
      /\ \A i \in (Len(req.system) + 1)..Len(system) :
            /\ Occurs(Directives, system[i])
            /\ \A j \in 1..Len(system) : system[j] = system[i] => j = i

\* Every id that the API advertises is listed once and leads, when it is asked
\* for, to the provider and model it stands for; ids without thinking turn it off.
AdvertisedLeadHome ==
    \A i \in 1..Len(listed) :
       LET route == Resolve(listed[i])
           ref == Tail(listed[i].path)
           served == Head(ref) \in Supported /\ Tail(ref) # <<>>
       IN  /\ served => route.provider = Head(ref) /\ route.model = Tail(ref)
           /\ served /\ Head(listed[i].path) = "quiet" => ~route.thinking
           /\ \A j \in 1..Len(listed) : listed[j] = listed[i] => j = i

\* The invariant of the pipeline.
RequestsServedRight ==
    RequestTypeOK /\ ServedByRoute /\ NoServerToolForChat /\ DirectivesOnce /\ AdvertisedLeadHome

-----------------------------------------------------------------------------
(* What holds on the way there: the steps after which each guarantee does. *)

From(steps) == step \in steps \/ Streamed

\* The request and the settings are what the client and the operator gave; a
\* request has no outcome before it is done.
AsSent == cfg \in SettingsSet /\ req \in RequestSet /\ (step # "done" => outcome = "none")

\* From its resolution on, a request has the route of the name that was chosen last.
RouteIsResolved ==
    From({"reroute", "long", "reject", "intercept", "optimize", "module", "direct", "provider"})
        => chosen.path \in Paths /\ routed = Resolve(chosen)

\* After the long-context step the fallback serves what is oversized.
FallbackTaken ==
    From({"reject", "intercept", "optimize", "module", "direct", "provider"})
        => (Oversized /\ Tail(cfg.long) # <<>> => routed.provider = Head(cfg.long) /\ routed.model = Tail(cfg.long))

\* After the rejection, and over the messages API after the interception too.
ToolsServed ==
    /\ From({"intercept", "optimize", "module", "direct", "provider"})
          => ~(routed.provider \in ChatUpstreams /\ ChatCannotServe)
    /\ From({"optimize", "module", "direct", "provider"}) /\ req.api = "messages"
          => ~(cfg.webTools /\ Forced /\ Named)

\* The prompt is the client's until the directives are in it.
PromptIsDirected ==
    /\ step \notin {"provider", "done"} => system = req.system
    /\ From({"provider"}) => system = Directed(req.system)

RequestInv ==
    /\ RequestTypeOK /\ AsSent /\ RouteIsResolved /\ FallbackTaken /\ ToolsServed /\ PromptIsDirected
    /\ listed \in {<<>>, Advertised(cfg.known)}

=============================================================================
