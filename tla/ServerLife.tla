----------------------------- MODULE ServerLife -----------------------------
(***************************************************************************)
(* The life of the server: serve() runs one supervised server after        *)
(* another in a process (cli/entrypoints.py), each with settings that are  *)
(* read once and cached (config/settings.py), the custom modules it loads  *)
(* (api/app.py), and what AppRuntime starts, some of it in tasks, and      *)
(* stops (api/runtime.py).  A server:app run by uvicorn itself is one      *)
(* server only.  Beside it, fcc-claude starts a client for a user.         *)
(*                                                                         *)
(* A settings file is its version, and whether it names a provider that    *)
(* only a module declares.                                                 *)
(***************************************************************************)
EXTENDS Naturals, FiniteSets, Sequences

CONSTANTS MaxEdits,    \* bound on the versions of the settings file
          MaxRestarts, \* bound on the restarts of a process
          MaxFailures  \* bound on the parts whose stop fails

ASSUME ServerAssumption == MaxEdits \in Nat \ {0} /\ MaxRestarts \in Nat /\ MaxFailures \in Nat

Tasks == {"validation", "messaging", "graphify"}
Parts == {"platform", "cli", "graphify", "registry", "limiter"}

\* The steps of shutdown(), in order: it waits for tasks, and stops parts.
Steps == <<"validation", "messaging", "graphify", "platform", "cli", "graphify", "registry", "limiter">>
IsWait(i) == i <= 3

VARIABLES
    entry,      \* serve(), or uvicorn with server:app
    watch,      \* who acts beside the server: an editor of the settings, a browser, or fcc-claude
    file,       \* the settings file; version 0 is none
    cache,      \* get_settings: what is cached
    config,     \* the settings of this server
    registered, \* are the providers of the modules registered?
    stage,      \* what the process is doing
    step,       \* the step of shutdown()
    restart,    \* restart_requested
    interrupted,\* the user has asked the process to end
    restarts,   \* history: how often a server was restarted
    task,       \* the tasks of AppRuntime
    part,       \* what it has started
    replaced,   \* an apply has put another provider registry in place
    published,  \* what app.state shows
    unstopped,  \* history: parts of former servers whose stop failed
    survivors,  \* history: parts of former servers that may run on
    newest,     \* history: the file's version when the last server ended
    browser,    \* the thread that opens the admin page, and how often it did
    launcher,   \* fcc-claude
    child       \* the client it started

serverVars == <<entry, watch, file, cache, config, registered, stage, step, restart, interrupted,
                restarts, task, part, replaced, published, unstopped, survivors, newest, browser, launcher, child>>

NoFile == [v |-> 0, needs |-> FALSE]
FirstFile == [v |-> 1, needs |-> FALSE]
AllOff == [p \in Parts |-> "none"]
NoTasks == [t \in Tasks |-> "none"]

ServerInit ==
    /\ entry \in {"serve", "asgi"} /\ watch \in {"editor", "browser", "launcher"}
    /\ file \in {NoFile, [v |-> 1, needs |-> TRUE], [v |-> 1, needs |-> FALSE]}
    /\ cache = <<>> /\ config = NoFile /\ registered = FALSE
    /\ stage = (IF entry = "serve" THEN "migrate" ELSE "create") /\ step = 1
    /\ restart = FALSE /\ interrupted = FALSE /\ restarts = 0
    /\ task = NoTasks /\ part = AllOff /\ replaced = FALSE /\ published = {}
    /\ unstopped = {} /\ survivors = {} /\ newest = 0 /\ browser = [polls |-> FALSE, opened |-> 0]
    /\ launcher = "none" /\ child = "none"

-----------------------------------------------------------------------------
(* The settings.                                                           *)

IsUp == stage \in {"starting", "serving", "draining", "stopping"}
Over == stage \in {"over", "forced", "crashed"}

\* What was made and is not stopped, and what of it outlives the process: the CLIs are
\* in its registry of pids, and Graphify's child is not.
Left == {p \in Parts : part[p] \in {"made", "on"}}
Outlives(parts) == parts \cap {"graphify"}

\* validate_model_format(): a provider is one that is supported now.
Valid(f) == f.needs => registered

\* get_settings(): what is cached, or else what the file says now.
GetSettings(then) ==
    IF cache # <<>> THEN UNCHANGED cache /\ stage' = then
    ELSE IF Valid(file) THEN cache' = <<file>> /\ stage' = then
    ELSE UNCHANGED cache /\ stage' = "crashed"

\* _migrate_legacy_env_if_missing(), which finds no file of an earlier release, or copies it.
Migrate ==
    /\ stage = "migrate" /\ stage' = "settings"
    /\ file' \in IF file = NoFile THEN {NoFile, FirstFile} ELSE {file}
    /\ UNCHANGED <<entry, watch, cache, config, registered, step, restart, interrupted, restarts, task,
                   part, replaced, published, unstopped, survivors, newest, browser, launcher, child>>

\* serve() reads the settings for the server's host and port.
ReadSettings ==
    /\ stage = "settings" /\ GetSettings("create")
    /\ survivors' = IF stage' = "crashed" THEN Outlives(survivors) ELSE survivors
    /\ UNCHANGED <<entry, watch, file, config, registered, step, restart, interrupted, restarts, task,
                   part, replaced, published, unstopped, newest, browser, launcher, child>>

\* create_app() loads the modules and then reads them.  serve() has the admin page
\* opened when the first server is healthy.
CreateApp ==
    /\ stage = "create" /\ registered' = TRUE
    /\ cache' = (IF cache = <<>> THEN <<file>> ELSE cache)
    /\ stage' = "starting" /\ step' = 1 /\ part' = AllOff /\ task' = NoTasks
    /\ published' = {} /\ replaced' = FALSE /\ restart' = FALSE
    /\ browser' = [browser EXCEPT !.polls = watch = "browser" /\ entry = "serve" /\ restarts = 0]
    /\ UNCHANGED <<entry, watch, file, config, interrupted, restarts, unstopped, survivors, newest,
                   launcher, child>>

\* The user edits the file, or scaffolds one with fcc-init, which leaves a file alone.
Edit ==
    /\ watch = "editor" /\ ~Over /\ file.v < MaxEdits /\ \E needs \in BOOLEAN : file' = [v |-> file.v + 1, needs |-> needs]
    /\ UNCHANGED <<entry, watch, cache, config, registered, stage, step, restart, interrupted, restarts, task,
                   part, replaced, published, unstopped, survivors, newest, browser, launcher, child>>
FccInit ==
    /\ watch = "editor" /\ file = NoFile /\ ~Over /\ file' = FirstFile
    /\ UNCHANGED <<entry, watch, cache, config, registered, stage, step, restart, interrupted, restarts, task,
                   part, replaced, published, unstopped, survivors, newest, browser, launcher, child>>

-----------------------------------------------------------------------------
(* AppRuntime.startup() and the tasks that it leaves running.              *)

Publish(parts) == published' = {p \in parts : part'[p] # "none"}
OnShow == {"platform", "cli", "graphify"}

Startup ==
    /\ stage = "starting" /\ step = 1 /\ step' = 2 /\ config' = cache[1]
    /\ part' = [part EXCEPT !["registry"] = "on"]
    /\ task' = [task EXCEPT !["validation"] = "running", !["messaging"] = "running"]
    /\ UNCHANGED <<entry, watch, file, cache, registered, stage, restart, interrupted, restarts,
                   replaced, published, unstopped, survivors, newest, browser, launcher, child>>

\* The startup hooks of the modules are over.
Started ==
    /\ stage = "starting" /\ step = 2 /\ stage' = "serving" /\ UNCHANGED part /\ Publish(OnShow)
    /\ task' \in {[task EXCEPT !["graphify"] = s] : s \in {"running", "done"}}
    /\ UNCHANGED <<entry, watch, file, cache, config, registered, step, restart, interrupted, restarts,
                   replaced, unstopped, survivors, newest, browser, launcher, child>>

Runs(t) == IsUp /\ task[t] = "running"
TaskFrame == UNCHANGED <<entry, watch, file, cache, config, registered, stage, step, restart, interrupted,
                         restarts, replaced, unstopped, survivors, newest, browser, launcher, child>>

ValidationEnds ==
    /\ Runs("validation") /\ task' = [task EXCEPT !["validation"] = "done"] /\ TaskFrame
    /\ UNCHANGED <<part, published>>

\* _start_messaging_if_configured(): no platform is configured or it cannot be made,
\* or the platform, the CLI manager and the handler are made, and it connects; the
\* limiter is there before or after that.
NoPlatform ==
    /\ Runs("messaging") /\ part["platform"] = "none"
    /\ task' = [task EXCEPT !["messaging"] = "done"] /\ UNCHANGED part
    /\ (Publish(OnShow) \/ UNCHANGED published) /\ TaskFrame
MakePlatform ==
    /\ Runs("messaging") /\ part["platform"] = "none"
    /\ part' \in {[part EXCEPT !["platform"] = "made", !["cli"] = "on", !["limiter"] = l] : l \in {"none", "on"}}
    /\ UNCHANGED <<task, published>> /\ TaskFrame
PlatformConnects ==
    /\ Runs("messaging") /\ part["platform"] = "made"
    /\ part' = [part EXCEPT !["platform"] = "on", !["limiter"] = "on"]
    /\ task' = [task EXCEPT !["messaging"] = "done"] /\ Publish(OnShow) /\ TaskFrame
PlatformFails ==
    /\ Runs("messaging") /\ part["platform"] = "made"
    /\ task' = [task EXCEPT !["messaging"] = "done"] /\ UNCHANGED <<part, published>> /\ TaskFrame

\* _start_graphify_if_enabled()
MakeGraphify ==
    /\ Runs("graphify") /\ part["graphify"] = "none"
    /\ part' = [part EXCEPT !["graphify"] = "made"] /\ Publish(OnShow) /\ UNCHANGED task /\ TaskFrame
GraphifyStarts ==
    /\ Runs("graphify") /\ part["graphify"] = "made"
    /\ part' \in {part, [part EXCEPT !["graphify"] = "on"]}
    /\ task' = [task EXCEPT !["graphify"] = "done"] /\ UNCHANGED published /\ TaskFrame

-----------------------------------------------------------------------------
(* Serving.                                                                *)

\* An apply writes the file and forgets the cached settings, and has the next
\* request read them, for a registry of its own.
Apply ==
    /\ watch = "editor" /\ stage = "serving" /\ file.v < MaxEdits /\ \E needs \in BOOLEAN : file' = [v |-> file.v + 1, needs |-> needs]
    /\ cache' = <<file'>> /\ replaced' = TRUE
    /\ UNCHANGED <<entry, watch, config, registered, stage, step, restart, interrupted, restarts, task,
                   part, published, unstopped, survivors, newest, browser, launcher, child>>

\* request_restart(), from the admin page.
RequestRestart ==
    /\ stage = "serving" /\ entry = "serve" /\ restarts < MaxRestarts
    /\ restart' = TRUE /\ stage' = "draining"
    /\ UNCHANGED <<entry, watch, file, cache, config, registered, step, interrupted, restarts, task,
                   part, replaced, published, unstopped, survivors, newest, browser, launcher, child>>

\* A signal, which uvicorn raises again when the server has ended.
Interrupt ==
    /\ stage \in {"serving", "draining"} /\ ~interrupted /\ interrupted' = TRUE /\ stage' = "draining"
    /\ UNCHANGED <<entry, watch, file, cache, config, registered, step, restart, restarts, task,
                   part, replaced, published, unstopped, survivors, newest, browser, launcher, child>>

\* A second one while requests are under way has uvicorn end without the shutdown of
\* its lifespan, and kill_all_best_effort() end the CLIs.
ForceExit ==
    /\ stage = "draining" /\ interrupted /\ stage' = "forced"
    /\ survivors' = Outlives(survivors \cup Left) /\ part' = AllOff
    /\ UNCHANGED <<entry, watch, file, cache, config, registered, step, restart, interrupted, restarts, task,
                   replaced, published, unstopped, newest, browser, launcher, child>>

OpenBrowser ==
    /\ browser.polls /\ stage = "serving" /\ browser' = [polls |-> FALSE, opened |-> browser.opened + 1]
    /\ UNCHANGED <<entry, watch, file, cache, config, registered, stage, step, restart, interrupted, restarts,
                   task, part, replaced, published, unstopped, survivors, newest, launcher, child>>

-----------------------------------------------------------------------------
(* AppRuntime.shutdown()                                                   *)

StopFrame == UNCHANGED <<entry, watch, file, cache, config, registered, restart, interrupted, restarts,
                         replaced, published, survivors, newest, browser, launcher, child>>

\* The requests under way have ended, or have been cut.
Drained ==
    /\ stage = "draining" /\ stage' = "stopping" /\ step' = 1
    /\ StopFrame /\ UNCHANGED <<task, part, unstopped>>

\* Mutant: the tasks of the start are not waited for.
WaitTaskNot ==
    /\ stage = "stopping" /\ step \in 1..Len(Steps) /\ IsWait(step) /\ step' = step + 1
    /\ StopFrame /\ UNCHANGED <<stage, part, task, unstopped>>

\* It waits for a task for a while, and then cancels it.
WaitTask ==
    /\ stage = "stopping" /\ step \in 1..Len(Steps) /\ IsWait(step) /\ step' = step + 1
    /\ task' = IF task[Steps[step]] = "running" THEN [task EXCEPT ![Steps[step]] = "cancelled"] ELSE task
    /\ StopFrame /\ UNCHANGED <<stage, part, unstopped>>

\* best_effort(): a step may fail, or take too long.
StopPart ==
    /\ stage = "stopping" /\ step \in 1..Len(Steps) /\ ~IsWait(step) /\ step' = step + 1
    /\ LET p == Steps[step] IN
       \/ part[p] = "none" /\ UNCHANGED <<part, unstopped>>
       \/ part[p] # "none" /\ part' = [part EXCEPT ![p] = "stopped"] /\ UNCHANGED unstopped
       \/ part[p] # "none" /\ Cardinality(unstopped \cup {p}) <= MaxFailures /\ unstopped' = unstopped \cup {p} /\ UNCHANGED part
    /\ StopFrame /\ UNCHANGED <<stage, task>>

\* server.run() has returned.
Down ==
    /\ stage = "stopping" /\ step = Len(Steps) + 1
    /\ newest' = file.v
    /\ IF entry = "serve" /\ restart /\ ~interrupted
       THEN /\ stage' = "migrate" /\ restarts' = restarts + 1 /\ cache' = <<>>
            /\ survivors' = survivors \cup Left
       ELSE /\ stage' = "over" /\ UNCHANGED <<restarts, cache>>
            /\ survivors' = Outlives(survivors \cup Left)
    /\ UNCHANGED <<entry, watch, file, config, registered, step, restart, interrupted, task,
                   part, replaced, published, unstopped, browser, launcher, child>>

-----------------------------------------------------------------------------
(* fcc-claude: _launch_client_cli()                                        *)

LaunchFrame == UNCHANGED <<entry, watch, file, cache, config, registered, stage, step, restart, interrupted,
                           restarts, task, part, replaced, published, unstopped, survivors, newest, browser>>

\* It starts the client if the proxy answers.
StartClient ==
    /\ watch = "launcher" /\ launcher = "none" /\ LaunchFrame
    /\ \/ stage = "serving" /\ launcher' = "waiting" /\ child' = "running"
       \/ launcher' = "gone" /\ UNCHANGED child
ChildExits ==
    /\ child \in {"running", "killed"} /\ child' = "exited" /\ UNCHANGED launcher /\ LaunchFrame
LauncherReturns ==
    /\ launcher \in {"waiting", "killing"} /\ child = "exited" /\ launcher' = "gone" /\ UNCHANGED child /\ LaunchFrame
\* The user interrupts it, and may do so again while it waits for the client.
LauncherInterrupted ==
    /\ LaunchFrame
    /\ \/ launcher = "waiting" /\ launcher' = "killing" /\ child' = (IF child = "exited" THEN child ELSE "killed")
       \/ launcher = "killing" /\ launcher' = "gone" /\ UNCHANGED child

ServerNext ==
    \/ Migrate \/ ReadSettings \/ CreateApp \/ Edit \/ FccInit
    \/ Startup \/ Started \/ ValidationEnds \/ NoPlatform \/ MakePlatform \/ PlatformConnects
    \/ PlatformFails \/ MakeGraphify \/ GraphifyStarts
    \/ Apply \/ RequestRestart \/ Interrupt \/ ForceExit \/ OpenBrowser
    \/ Drained \/ WaitTask \/ StopPart \/ Down
    \/ StartClient \/ ChildExits \/ LauncherReturns \/ LauncherInterrupted

-----------------------------------------------------------------------------
(* Properties.                                                             *)

ServerTypeOK ==
    /\ file \in [v : 0..MaxEdits, needs : BOOLEAN] /\ step \in 1..Len(Steps) + 1
    /\ task \in [Tasks -> {"none", "running", "done", "cancelled"}]
    /\ part \in [Parts -> {"none", "made", "on", "stopped"}]
    /\ restarts \in 0..MaxRestarts

\* A server runs with settings that are no older than the end of the one before it.
FreshSettings == stage = "serving" => config.v >= newest

\* What runs on after a server is only what could not be stopped, and Graphify's child
\* after a forced exit; no task of its start brings anything up behind the shutdown.
CleanDown == survivors \subseteq unstopped \cup {p \in {"graphify"} : stage = "forced"}
NothingComesUp ==
    \A i \in 4..8 : stage = "stopping" /\ step > i /\ Steps[i] \in Left => Steps[i] \in unstopped

\* When messaging is up, the routes can see it.
MessagingIsSeen ==
    stage = "serving" /\ part["platform"] = "on" => {"platform", "cli"} \subseteq published

\* The admin page is opened once, and no client survives an interrupted fcc-claude
\* unsignalled.
OncePerProcess == browser.opened <= 1 /\ (launcher = "gone" => child # "running")

\* The invariant of the server's life.
ServerLivesRight ==
    ServerTypeOK /\ FreshSettings /\ CleanDown /\ NothingComesUp /\ MessagingIsSeen /\ OncePerProcess

=============================================================================
