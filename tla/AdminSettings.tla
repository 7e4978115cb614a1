--------------------------- MODULE AdminSettings ----------------------------
(***************************************************************************)
(* The settings as the admin page sees and applies them (api/admin_env.py, *)
(* apply_admin_config of api/admin_routes.py): the value of a key comes    *)
(* from the template, the .env of the repository, the managed file the page*)
(* writes, or from the explicit file and the environment, which lock it.   *)
(* A layer is a function on the keys it sets.  Texts are those a file gives*)
(* back as they were written.                                              *)
(***************************************************************************)
EXTENDS FiniteSets, Functions

CONSTANTS Secret, \* the keys shown as a mask
          Manual, \* those that take a restart, or end sessions
          Plain,  \* the others
          Texts, Empty, Bad, Mask

ASSUME SettingsAssumption == {Empty, Bad} \subseteq Texts /\ Mask \notin Texts

Keys == Secret \cup Manual \cup Plain
Layers == UNION {[ks -> Texts] : ks \in SUBSET Keys}

VARIABLES
    template, \* the values of .env.example and of the manifest
    repo,     \* .env
    managed,  \* the managed file
    outer,    \* the explicit file and the environment, which lock their keys
    running,  \* the settings the process started with
    cache,    \* get_settings()
    pending,  \* admin_pending_fields
    told,     \* history: the keys a page was told to be pending since the start
    asked,    \* history: the keys of the last update
    aside     \* history: the keys whose value changed without a word

cfgVars == <<template, repo, managed, outer, running, cache, pending, told, asked, aside>>

CfgTypeOK ==
    /\ template \in [Keys -> Texts] /\ {repo, managed, outer} \subseteq Layers
    /\ {running, cache} \subseteq [Keys -> Texts]
    /\ pending \subseteq Manual /\ told \subseteq Manual
    /\ asked \subseteq Keys /\ aside \subseteq Keys

Over(low, high) == [k \in DOMAIN low |-> IF k \in DOMAIN high THEN high[k] ELSE low[k]]

\* _load_value_state(): later layers win.
Value == Over(Over(Over(template, repo), managed), outer)
Locked == DOMAIN outer
Valid(c) == \A k \in Keys : c[k] # Bad

CfgInit ==
    /\ template \in [Keys -> {Empty}] /\ repo \in Layers
    /\ managed \in Layers /\ outer \in Layers
    /\ Valid(Value) /\ running = Value /\ cache = Value
    /\ pending = {} /\ told = {} /\ asked = {} /\ aside = {}

\* What a write starts from: the managed file, or else what is not locked.
Base ==
    IF managed # <<>> THEN Over(template, managed)
    ELSE [k \in Keys |-> IF k \in Locked THEN template[k] ELSE Value[k]]

\* _target_values_with_updates(): locked keys and masked secrets are skipped.
Target(u) ==
    [k \in Keys |->
        IF k \in DOMAIN u \ Locked /\ ~(k \in Secret /\ u[k] = Mask) THEN u[k] ELSE Base[k]]

EffectiveForValidation(target) == Over(target, outer)

\* changed_pending_fields(): a mask and the value of a locked key count too.
ChangedPending(u, target) == {k \in Manual \cap DOMAIN u : u[k] # Value[k]}

\* What a page may send for a key: a text, or the mask it was shown.
Updates == UNION {{u \in [ks -> Texts \cup {Mask}] :
                      \A k \in ks : u[k] = Mask => k \in Secret /\ Value[k] # Empty}
                  : ks \in SUBSET Keys}

\* Mutant: the update is written, valid or not.
WrittenUnchecked(u) ==
    managed' = Target(u) /\ asked' = DOMAIN u /\ UNCHANGED <<template, repo, outer>>

\* An update whose values Settings refuses changes nothing.
Written(u) ==
    /\ Valid(EffectiveForValidation(Target(u)))
    /\ managed' = Target(u) /\ asked' = DOMAIN u /\ UNCHANGED <<template, repo, outer>>

\* The values an update changed that it did not name.
Unnamed(u) == {k \in Keys \ DOMAIN u : Value'[k] # Value[k]}

\* apply_admin_config() without a callback for restarts, or with nothing
\* pending: the fields that an earlier apply left pending are forgotten.
ApplyUpdate ==
    \E u \in Updates :
        LET fields == ChangedPending(u, Target(u)) IN
        /\ Written(u) /\ pending' = fields /\ told' = told \cup fields
        /\ aside' = aside \cup Unnamed(u) /\ cache' = Value' /\ UNCHANGED running

\* The server starts again on the new settings.
ApplyAndRestart ==
    /\ \E u \in Updates : ChangedPending(u, Target(u)) # {} /\ Written(u)
    /\ running' = Value' /\ cache' = Value' /\ pending' = {} /\ told' = {} /\ aside' = {}

\* The file of the Claude permissions cannot be parsed, after the write: the
\* settings stay cached and nothing is reported.
ApplyHalf ==
    /\ \E u \in Updates : Written(u)
    /\ aside' = Keys /\ UNCHANGED <<running, cache, pending, told>>

\* The process is started again, perhaps in another environment.
Relaunch ==
    /\ UNCHANGED <<template, repo, managed>> /\ outer' \in Layers /\ asked' = {}
    /\ Valid(Value') /\ running' = Value' /\ cache' = Value'
    /\ pending' = {} /\ told' = {} /\ aside' = {}

CfgNext == ApplyUpdate \/ ApplyAndRestart \/ ApplyHalf \/ Relaunch

-----------------------------------------------------------------------------
(* Properties.                                                             *)

\* A mask is shown, never stored.
MaskNeverStored == Mask \notin Range(managed) \cup Range(cache)

\* What the page wrote is valid together with the keys that are locked, so that
\* the server starts again where it is.
StartsAgain == [][managed' # managed => Valid(Value')]_cfgVars

\* A write keeps the value of every key that is not in the update: unless the
\* managed file was there and did not have it.
OthersKept ==
    [][managed' # managed =>
           \A k \in Keys \ asked' :
               k \in DOMAIN managed \/ managed = <<>> => Value'[k] = Value[k]]_cfgVars

\* A setting that takes a restart and differs from what the process started
\* with was reported to a page, unless an apply failed half-way or dropped it.
NothingUntold == \A k \in Manual : Value[k] # running[k] => k \in told \cup aside

\* What the managed file keeps of what the page sent, and tells it.
SettingsKept ==
    /\ [](CfgTypeOK /\ MaskNeverStored /\ NothingUntold)
    /\ StartsAgain /\ OthersKept
=============================================================================
