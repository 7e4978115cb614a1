---------------------------- MODULE ModuleLoader ----------------------------
(***************************************************************************)
(* Custom modules (api/modules/loader.py, api/runtime.py): the files of the*)
(* modules directory are imported in order of name, what each declares is  *)
(* registered with the tables of the server, and their hooks run at start  *)
(* and at shutdown.  A module is its place in that order.  Declarations    *)
(* that are only appended to a list (routers, intercepts, tabs, commands,  *)
(* listeners) stand for one another: handlers.                             *)
(***************************************************************************)
EXTENDS Naturals, SequencesExt

CONSTANTS Modules,      \* how many files there are
          BuiltinKind,  \* a provider the server comes with
          CustomKinds,  \* providers that only modules declare
          Platforms,    \* messaging platforms that modules declare
          BuiltinPlatform

ASSUME ModuleAssumption ==
    Modules \in Nat /\ BuiltinKind \notin CustomKinds /\ BuiltinPlatform \in Platforms

ModuleIds == 1..Modules
Builtin == 0
Owners == ModuleIds \cup {Builtin}
AnyKind == CustomKinds \cup {BuiltinKind}

VARIABLES
    stage,       \* where the life of the server is
    file,        \* the file that is next, or whose hooks are
    loadedMods,  \* the modules that were loaded
    catalog,     \* PROVIDER_CATALOG: who declared each provider
    factories,   \* PROVIDER_FACTORIES
    supported,   \* how often SUPPORTED_PROVIDER_IDS lists each provider
    counter,     \* the token counter in use
    handlers,    \* the modules whose handlers run, in order
    platforms,   \* _PLATFORM_FACTORIES
    registeredP, \* _messaging_platforms: the platforms the manager registered
    hooksRun,    \* history: the modules whose startup hooks ran, in order
    hooksDown    \* history: those whose shutdown hooks did

modVars == <<stage, file, loadedMods, catalog, factories, supported, counter, handlers,
             platforms, registeredP, hooksRun, hooksDown>>

Tables == <<catalog, factories, supported, counter, handlers, platforms, registeredP>>

ModuleTypeOK ==
    /\ stage \in {"load", "starting", "up", "down", "reset"}
    /\ file \in 0..Modules + 1 /\ loadedMods \in Seq(ModuleIds)
    /\ DOMAIN catalog \subseteq AnyKind /\ Range(catalog) \subseteq Owners
    /\ DOMAIN factories \subseteq AnyKind /\ Range(factories) \subseteq Owners
    /\ supported \in [AnyKind -> Nat]
    /\ counter \in Owners /\ handlers \in Seq(ModuleIds)
    /\ DOMAIN platforms \subseteq Platforms /\ Range(platforms) \subseteq Owners
    /\ registeredP \subseteq [name : Platforms, by : ModuleIds]
    /\ hooksRun \in Seq(ModuleIds) /\ hooksDown \in Seq(ModuleIds)

Owned(kinds, m) == [k \in kinds |-> m]
Add(table, names, m) ==
    [k \in DOMAIN table \cup names |-> IF k \in names THEN m ELSE table[k]]

ModuleInit ==
    /\ stage = "load" /\ file = 1 /\ loadedMods = <<>>
    /\ catalog = Owned({BuiltinKind}, Builtin) /\ factories = Owned({BuiltinKind}, Builtin)
    /\ supported = [k \in AnyKind |-> IF k = BuiltinKind THEN 1 ELSE 0]
    /\ counter = Builtin /\ handlers = <<>>
    /\ platforms = <<>> /\ registeredP = {}
    /\ hooksRun = <<>> /\ hooksDown = <<>>

-----------------------------------------------------------------------------
(* load_for_app(), one file per step.                                      *)

\* Mutant: a provider needs only one of its two halves.
AcceptedHalves(desc, fact) == (desc \cup fact) \ (DOMAIN catalog \cup DOMAIN factories)

\* Both a descriptor and a factory, and no module that came first.
Accepted(desc, fact) == (desc \cap fact) \ (DOMAIN catalog \cup DOMAIN factories)

Registrable(names) == names \ DOMAIN platforms

RegisterProviders(m, desc, fact) ==
    LET ids == Accepted(desc, fact) IN
    /\ catalog' = Add(catalog, ids \cap desc, m)
    /\ factories' = Add(factories, ids \cap fact, m)
    /\ supported' = [k \in AnyKind |-> IF k \in ids /\ supported[k] = 0 THEN 1
                                       ELSE supported[k]]

RegisterPlatforms(m, names) ==
    /\ platforms' = Add(platforms, Registrable(names), m)
    /\ registeredP' = registeredP \cup [name : Registrable(names), by : {m}]

\* A file that fails to import, or gives no Module, is skipped.
LoadFails ==
    /\ stage = "load" /\ file <= Modules /\ file' = file + 1
    /\ UNCHANGED <<stage, loadedMods, hooksRun, hooksDown>>
    /\ UNCHANGED Tables

LoadModule ==
    /\ stage = "load" /\ file <= Modules /\ file' = file + 1
    /\ loadedMods' = Append(loadedMods, file)
    /\ \E desc, fact \in SUBSET AnyKind : RegisterProviders(file, desc, fact)
    /\ \E names \in SUBSET Platforms : RegisterPlatforms(file, names)
    /\ counter' \in {counter, file} /\ handlers' \in {handlers, Append(handlers, file)}
    /\ UNCHANGED <<stage, hooksRun, hooksDown>>

-----------------------------------------------------------------------------
(* The hooks.  Those of a module that raises do not keep the next from     *)
(* running, and run_startup() itself never raises: what strict mode would  *)
(* make fatal never reaches it.                                            *)

StartHooks ==
    /\ stage = "load" /\ file = Modules + 1 /\ stage' = "starting" /\ file' = 1
    /\ UNCHANGED <<loadedMods, hooksRun, hooksDown>> /\ UNCHANGED Tables

StartupHook ==
    /\ stage = "starting" /\ file <= Len(loadedMods) /\ file' = file + 1
    /\ hooksRun' = Append(hooksRun, loadedMods[file])
    /\ UNCHANGED <<stage, loadedMods, hooksDown>> /\ UNCHANGED Tables

Started ==
    /\ stage = "starting" /\ file = Len(loadedMods) + 1 /\ stage' = "up"
    /\ UNCHANGED <<file, loadedMods, hooksRun, hooksDown>> /\ UNCHANGED Tables

\* The platform is created in the background, and the first creation adds the
\* platforms the server comes with, whoever has taken their names.
BuiltinPlatforms ==
    /\ stage = "up" /\ ~(\E p \in DOMAIN platforms : platforms[p] = Builtin)
    /\ platforms' = Add(platforms, {BuiltinPlatform}, Builtin)
    /\ UNCHANGED <<stage, file, loadedMods, catalog, factories, supported, counter,
                   handlers, registeredP, hooksRun, hooksDown>>

Shutdown ==
    /\ stage = "up" /\ stage' = "down" /\ file' = Len(loadedMods)
    /\ UNCHANGED <<loadedMods, hooksRun, hooksDown>> /\ UNCHANGED Tables

ShutdownHook ==
    /\ stage = "down" /\ file > 0 /\ file' = file - 1
    /\ hooksDown' = Append(hooksDown, loadedMods[file])
    /\ UNCHANGED <<stage, loadedMods, hooksRun>> /\ UNCHANGED Tables

\* All hooks together have a few seconds.
ShutdownTimeout ==
    /\ stage = "down" /\ file > 0 /\ file' = 0
    /\ UNCHANGED <<stage, loadedMods, hooksRun, hooksDown>>
    /\ UNCHANGED Tables

\* reset() undoes what the manager registered.
Reset ==
    /\ stage = "down" /\ file = 0 /\ stage' = "reset"
    /\ LET mine == {k \in DOMAIN catalog : catalog[k] # Builtin} IN
       /\ catalog' = [k \in DOMAIN catalog \ mine |-> catalog[k]]
       /\ factories' = [k \in DOMAIN factories \ mine |-> factories[k]]
       /\ supported' = [k \in AnyKind |-> IF k \in mine /\ supported[k] > 0
                                          THEN supported[k] - 1 ELSE supported[k]]
    /\ counter' = Builtin /\ handlers' = <<>> /\ loadedMods' = <<>>
    /\ platforms' = [p \in DOMAIN platforms \ {r.name : r \in registeredP} |-> platforms[p]]
    /\ registeredP' = {}
    /\ UNCHANGED <<file, hooksRun, hooksDown>>

ModuleNext ==
    \/ LoadFails \/ LoadModule \/ StartHooks \/ StartupHook \/ Started \/ BuiltinPlatforms
    \/ Shutdown \/ ShutdownHook \/ ShutdownTimeout \/ Reset

-----------------------------------------------------------------------------
(* Properties.                                                             *)

\* The catalogue, the factories and the list of supported ids never diverge,
\* and every provider is built from the descriptor of its own module.
CatalogAgrees ==
    /\ catalog = factories
    /\ \A k \in AnyKind : supported[k] = IF k \in DOMAIN catalog THEN 1 ELSE 0

\* The hooks of the modules shut down in the reverse of the order in which
\* they started, and only those of modules that were started.
HooksMirrored ==
    \E n \in 0..Len(hooksRun) : hooksDown = SubSeq(Reverse(hooksRun), 1, n)

\* A platform stays with the module that registered it first, unless it has
\* the name of one the server comes with.
PlatformKept ==
    \A r \in registeredP :
        /\ r.name \in DOMAIN platforms
        /\ \A q \in registeredP : q.name = r.name => q = r
        /\ platforms[r.name] = r.by \/ (r.name = BuiltinPlatform /\ platforms[r.name] = Builtin)

\* What the tables keep of the modules that registered in them.
ModulesKept == ModuleTypeOK /\ CatalogAgrees /\ HooksMirrored /\ PlatformKept
=============================================================================
