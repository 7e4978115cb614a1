---------------------------- MODULE CliSessions -----------------------------
(***************************************************************************)
(* The Claude Code processes of the messaging bridge: the manager's maps of*)
(* sessions (cli/manager.py), the subprocess each session runs             *)
(* (cli/session.py), the set of pids killed at exit                        *)
(* (cli/process_registry.py), and the turns that use them                  *)
(* (messaging/handler.py, _process_node_impl).                             *)
(*                                                                         *)
(* A turn opens a session, runs one process in it, learns the id the       *)
(* process gives its session, and removes the session when it ends.  Turns *)
(* of one tree follow each other, except that a stop of everything frees   *)
(* the tree before the stopped turn has ended: the next turn may then find *)
(* the session of the one before it and share it.  A session object is     *)
(* named after the turn that created it, and a process after its turn.     *)
(***************************************************************************)
EXTENDS Naturals, FiniteSets

CONSTANTS Turns,
          ParentOf,    \* the turn each turn replies to, or None
          TreeOf,      \* the tree of each turn
          None,
          Manager,     \* stop_all(), as the holder of the manager's lock
          MaxStopAlls  \* bound on calls of stop_all()

ASSUME CliSessionsAssumption ==
    /\ ParentOf \in [Turns -> Turns \cup {None}]
    /\ \A t \in Turns : ParentOf[t] # None => TreeOf[ParentOf[t]] = TreeOf[t]
    /\ None \notin Turns /\ Manager \notin Turns /\ None # Manager
    /\ MaxStopAlls \in Nat

VARIABLES
    pending,     \* _pending_sessions
    sessions,    \* _sessions
    tempToReal, realToTemp,
    lock,        \* who holds the manager's lock
    process,     \* CLISession.process, the last process of each session
    cliLock,     \* who holds each session's _cli_lock
    alive,       \* the state of each turn's process
    pids,        \* the registered processes
    pc,          \* where each turn stands
    session,     \* the session it uses
    resume,      \* parent_session_id
    temp, captured,
    waitsFor,    \* the process whose end stop() awaits, for each caller of it
    recorded,    \* the session id recorded for the turn's node
    current,     \* _current_task of each tree
    over,        \* turns whose node is in state COMPLETED or ERROR
    cleared,     \* trees removed by /clear
    freed,       \* turns whose tree was freed before they ended
    sweep,       \* where stop_all_tasks() stands, and what it has still to stop
    sweeps,      \* how many calls of it have ended
    openedIn,    \* history: sweeps when the turn opened its session
    overlapped,  \* history: turns that ran beside another of their tree
    seen,        \* history: the processes that ran when stop_all() began
    orphaned,    \* history: turns cancelled while they waited to clean up
    exited

managerVars == <<pending, sessions, tempToReal, realToTemp>>
turnVars == <<session, resume, temp, captured, recorded, openedIn, overlapped>>
treeVars == <<current, over, freed, cleared>>
sweepVars == <<sweep, sweeps, seen>>
cliVars == <<managerVars, lock, process, cliLock, alive, pids, pc, turnVars,
          waitsFor, treeVars, sweepVars, orphaned, exited>>

Pending(t) == <<"pending", t>>  \* the temporary id of a new session
Real(t) == <<"real", t>>        \* the id a process gives its session
Ids == {"pending", "real"} \X Turns
MaybeTurns == Turns \cup {None}
Places == {"idle", "opening", "queued", "spawning", "reading", "registering",
           "handling", "finishing", "halting", "cleanup", "removing", "done"}
NoSweep == [pc |-> "idle", left |-> {}]
Trees == {TreeOf[t] : t \in Turns}
Waits == [session : Turns, process : Turns, id : Ids \cup {None}]

\* None is no id and no call that waits.
ASSUME NoneAssumption == None \notin Ids \cup Waits

CliTypeOK ==
    /\ pending \in [Ids -> MaybeTurns] /\ sessions \in [Ids -> MaybeTurns]
    /\ tempToReal \in [Ids -> Ids \cup {None}] /\ realToTemp \in [Ids -> Ids \cup {None}]
    /\ lock \in MaybeTurns \cup {Manager}
    /\ process \in [Turns -> MaybeTurns] /\ cliLock \in [Turns -> MaybeTurns]
    /\ alive \in [Turns -> {"none", "running", "dying", "dead"}]
    /\ pids \subseteq {t \in Turns : alive[t] # "none"}
    /\ pc \in [Turns -> Places] /\ session \in [Turns -> MaybeTurns]
    /\ resume \in [Turns -> Ids \cup {None}] /\ recorded \in [Turns -> Ids \cup {None}]
    /\ temp \in [Turns -> Ids \cup {None}] /\ captured \in [Turns -> Ids \cup {None}]
    /\ waitsFor \in [Turns \cup {Manager} -> Waits \cup {None}]
    /\ current \in [Trees -> MaybeTurns] /\ over \subseteq Turns
    /\ freed \subseteq Turns /\ orphaned \subseteq Turns /\ seen \subseteq Turns
    /\ cleared \subseteq Trees
    /\ sweep \in [pc : {"idle", "cancelling", "waiting", "sweeping", "stopping"},
                  left : SUBSET (Turns \cup Trees)]
    /\ sweeps \in 0..MaxStopAlls /\ openedIn \in [Turns -> 0..MaxStopAlls]
    /\ overlapped \subseteq Turns
    /\ exited \in BOOLEAN

CliInit ==
    /\ pending = [i \in Ids |-> None] /\ sessions = [i \in Ids |-> None]
    /\ tempToReal = [i \in Ids |-> None] /\ realToTemp = [i \in Ids |-> None]
    /\ lock = None
    /\ process = [s \in Turns |-> None] /\ cliLock = [s \in Turns |-> None]
    /\ alive = [t \in Turns |-> "none"] /\ pids = {}
    /\ pc = [t \in Turns |-> "idle"] /\ session = [t \in Turns |-> None]
    /\ resume = [t \in Turns |-> None] /\ recorded = [t \in Turns |-> None]
    /\ temp = [t \in Turns |-> None] /\ captured = [t \in Turns |-> None]
    /\ waitsFor = [w \in Turns \cup {Manager} |-> None]
    /\ current = [r \in Trees |-> None] /\ over = {} /\ freed = {} /\ cleared = {}
    /\ sweep = NoSweep /\ sweeps = 0 /\ seen = {}
    /\ openedIn = [t \in Turns |-> 0] /\ overlapped = {} /\ orphaned = {} /\ exited = FALSE

-----------------------------------------------------------------------------
(* A turn opens its session.                                               *)

Goes(t, place) == pc' = [pc EXCEPT ![t] = place]
Stops == <<waitsFor, treeVars, sweepVars, orphaned, exited>>
Processes == <<process, cliLock, alive, pids>>

Ended(t) == pc[t] = "done" \/ t \in freed
Active(t) == pc[t] \notin {"idle", "done"}

\* The queue of the tree hands the turn out: none of its tree is unfinished,
\* as far as the tree knows, and its parent went before it.
Start(t) ==
    /\ ~exited /\ pc[t] = "idle" /\ TreeOf[t] \notin cleared
    /\ \A u \in Turns : TreeOf[u] = TreeOf[t] /\ pc[u] # "idle" => Ended(u)
    /\ ParentOf[t] # None => pc[ParentOf[t]] # "idle"
    /\ resume' = [resume EXCEPT ![t] = IF ParentOf[t] = None THEN None
                                       ELSE recorded[ParentOf[t]]]
    /\ current' = [current EXCEPT ![TreeOf[t]] = t]
    /\ Goes(t, "opening")
    /\ UNCHANGED <<managerVars, lock, Processes, session, temp, captured,
                   recorded, openedIn, overlapped, waitsFor, over, freed, cleared, sweepVars,
                   orphaned, exited>>

\* The session in the maps for the id a turn resumes.
Known(id) ==
    LET real == IF tempToReal[id] = None THEN id ELSE tempToReal[id] IN
    IF sessions[real] # None THEN <<sessions[real], real>> ELSE <<pending[real], real>>

\* get_or_create_session().
Open(t) ==
    /\ pc[t] = "opening" /\ lock = None
    /\ LET old == IF resume[t] = None THEN <<None, None>> ELSE Known(resume[t])
           new == IF resume[t] = None THEN Pending(t) ELSE resume[t]
       IN  IF old[1] # None
           THEN /\ session' = [session EXCEPT ![t] = old[1]]
                /\ captured' = [captured EXCEPT ![t] = old[2]]
                /\ UNCHANGED <<pending, temp>>
           ELSE /\ session' = [session EXCEPT ![t] = t]
                /\ pending' = [pending EXCEPT ![new] = t]
                /\ temp' = [temp EXCEPT ![t] = new]
                /\ UNCHANGED captured
    /\ openedIn' = [openedIn EXCEPT ![t] = sweeps]
    /\ LET beside == {u \in Turns \ {t} : TreeOf[u] = TreeOf[t] /\ Active(u)} IN
       overlapped' = overlapped \cup beside \cup (IF beside = {} THEN {} ELSE {t})
    /\ Goes(t, "queued")
    /\ UNCHANGED <<sessions, tempToReal, realToTemp, lock, Processes, resume,
                   recorded, Stops>>

-----------------------------------------------------------------------------
(* start_task(), and what the turn does with its events.                   *)

TakeCli(t) ==
    /\ pc[t] = "queued" /\ cliLock[session[t]] = None
    /\ cliLock' = [cliLock EXCEPT ![session[t]] = t]
    /\ Goes(t, "spawning")
    /\ UNCHANGED <<managerVars, lock, process, alive, pids, turnVars, Stops>>

Spawn(t) ==
    /\ pc[t] = "spawning"
    /\ process' = [process EXCEPT ![session[t]] = t]
    /\ alive' = [alive EXCEPT ![t] = "running"]
    /\ pids' = pids \cup {t}
    /\ Goes(t, "reading")
    /\ UNCHANGED <<managerVars, lock, cliLock, turnVars, Stops>>

\* The end of start_task(): its finally clause and the release of the lock.
\* What is unregistered is the process the session has now.
Leave(s) ==
    /\ pids' = pids \ {process[s]}
    /\ cliLock' = [cliLock EXCEPT ![s] = None]

SpawnFails(t) ==
    /\ pc[t] = "spawning" /\ Leave(session[t])
    /\ Goes(t, "cleanup") /\ over' = over \cup {t}
    /\ UNCHANGED <<managerVars, lock, process, alive, turnVars, waitsFor, current,
                   freed, cleared, sweepVars, orphaned, exited>>

\* session_info: only the first one of a new session is registered.
SessionInfo(t) ==
    /\ pc[t] = "reading" /\ alive[t] # "none" /\ temp[t] # None
    /\ Goes(t, "registering")
    /\ UNCHANGED <<managerVars, lock, Processes, turnVars, Stops>>

\* register_real_session_id(); the turn records the id whether or not the
\* manager still knew the session.
Register(t) ==
    /\ pc[t] = "registering" /\ lock = None
    /\ IF pending[temp[t]] = None
       THEN UNCHANGED managerVars
       ELSE /\ pending' = [pending EXCEPT ![temp[t]] = None]
            /\ sessions' = [sessions EXCEPT ![Real(t)] = pending[temp[t]]]
            /\ tempToReal' = [tempToReal EXCEPT ![temp[t]] = Real(t)]
            /\ realToTemp' = [realToTemp EXCEPT ![Real(t)] = temp[t]]
    /\ recorded' = [recorded EXCEPT ![t] = Real(t)]
    /\ captured' = [captured EXCEPT ![t] = Real(t)]
    /\ temp' = [temp EXCEPT ![t] = None]
    /\ Goes(t, "reading")
    /\ UNCHANGED <<lock, Processes, session, resume, openedIn, overlapped, Stops>>

\* Any other event: the turn awaits edits of its status message.
Event(t) ==
    /\ \/ pc[t] = "reading" /\ alive[t] # "none" /\ Goes(t, "handling")
       \/ pc[t] = "handling" /\ Goes(t, "reading")
    /\ UNCHANGED <<managerVars, lock, Processes, turnVars, Stops>>

\* The end of the output: an exit event, and the turn handles it.
Eof(t) ==
    /\ pc[t] = "reading" /\ alive[t] = "dead"
    /\ Goes(t, "finishing")
    /\ UNCHANGED <<managerVars, lock, Processes, turnVars, Stops>>

\* A turn that completes records the id it holds; one without an id, whose
\* process reported no error, leaves its node in progress.
Finish(t) ==
    /\ pc[t] = "finishing" /\ Leave(session[t])
    /\ \/ /\ captured[t] # None /\ recorded' = [recorded EXCEPT ![t] = captured[t]]
          /\ over' = over \cup {t}
       \/ over' = over \cup {t} /\ UNCHANGED recorded
       \/ captured[t] = None /\ UNCHANGED <<recorded, over>>
    /\ Goes(t, "cleanup")
    /\ UNCHANGED <<managerVars, lock, process, alive, session, resume, temp, captured,
                   openedIn, overlapped, waitsFor, current, freed, cleared, sweepVars,
                   orphaned, exited>>

Dies(t) ==
    /\ alive[t] \in {"running", "dying"}
    /\ alive' = [alive EXCEPT ![t] = "dead"]
    /\ UNCHANGED <<managerVars, lock, process, cliLock, pids, pc, turnVars, Stops>>

-----------------------------------------------------------------------------
(* The end of a turn.                                                      *)

Running(s) == process[s] # None /\ alive[process[s]] \in {"running", "dying"}

\* CLISession.stop() up to its wait, called by w for session s; id is what
\* remove_session() still has to forget after it.
Kill(w, s, id) ==
    /\ alive' = [alive EXCEPT ![process[s]] = "dying"]
    /\ waitsFor' = [waitsFor EXCEPT ![w] = [session |-> s, process |-> process[s], id |-> id]]

Killed(w) == waitsFor[w] # None /\ alive[waitsFor[w].process] = "dead"

\* Mutant: the session is forgotten and not stopped.
RemoveUnstopped(t) ==
    LET id == IF captured[t] # None THEN captured[t] ELSE temp[t] IN
    /\ pc[t] = "cleanup" /\ lock = None /\ id # None
    /\ pending' = [pending EXCEPT ![id] = None]
    /\ sessions' = [sessions EXCEPT ![id] = None]
    /\ Goes(t, "done")
    /\ UNCHANGED <<tempToReal, realToTemp, lock, Processes, turnVars, Stops>>

Forget(id) ==
    /\ realToTemp' = [realToTemp EXCEPT ![id] = None]
    /\ tempToReal' = IF realToTemp[id] = None THEN tempToReal
                     ELSE [tempToReal EXCEPT ![realToTemp[id]] = None]

\* remove_session(), from the finally clause of the turn.
RemoveSession(t) ==
    LET id == IF captured[t] # None THEN captured[t] ELSE temp[t]
        isPending == id # None /\ pending[id] # None
        isReal == id # None /\ ~isPending /\ sessions[id] # None
        s == IF isPending THEN pending[id] ELSE sessions[id]
    IN  /\ pc[t] = "cleanup" /\ lock = None
        /\ pending' = IF isPending THEN [pending EXCEPT ![id] = None] ELSE pending
        /\ sessions' = IF isReal THEN [sessions EXCEPT ![id] = None] ELSE sessions
        /\ \/ /\ isPending \/ isReal
              /\ Running(s) /\ Kill(t, s, IF isReal THEN id ELSE None)
              /\ Goes(t, "removing") /\ lock' = t
              /\ UNCHANGED <<tempToReal, realToTemp>>
           \/ /\ (isPending \/ isReal) => ~Running(s)
              /\ IF isReal THEN Forget(id) ELSE UNCHANGED <<tempToReal, realToTemp>>
              /\ Goes(t, "done") /\ UNCHANGED <<lock, alive, waitsFor>>
        /\ UNCHANGED <<process, cliLock, pids, turnVars, treeVars, sweepVars, orphaned, exited>>

Removed(t) ==
    /\ pc[t] = "removing" /\ Killed(t)
    /\ pids' = pids \ {process[waitsFor[t].session]}
    /\ IF waitsFor[t].id = None THEN UNCHANGED <<tempToReal, realToTemp>>
       ELSE Forget(waitsFor[t].id)
    /\ waitsFor' = [waitsFor EXCEPT ![t] = None]
    /\ lock' = None /\ Goes(t, "done")
    /\ UNCHANGED <<pending, sessions, process, cliLock, alive, turnVars, treeVars,
                   sweepVars, orphaned, exited>>

\* A cancelled turn whose process has ended leaves start_task().
Halted(t) ==
    /\ pc[t] = "halting" /\ (waitsFor[t] = None \/ Killed(t))
    /\ Leave(session[t]) /\ waitsFor' = [waitsFor EXCEPT ![t] = None]
    /\ Goes(t, "cleanup")
    /\ UNCHANGED <<managerVars, lock, process, alive, turnVars, treeVars, sweepVars,
                   orphaned, exited>>

\* A generator that was left suspended is closed: it awaits the end of the
\* standard error of its process, and then leaves.
Collect(t) ==
    /\ pc[t] \in {"cleanup", "removing", "done"} /\ session[t] # None
    /\ cliLock[session[t]] = t /\ alive[t] = "dead"
    /\ Leave(session[t])
    /\ UNCHANGED <<managerVars, lock, process, alive, pc, turnVars, Stops>>

-----------------------------------------------------------------------------
(* Cancellation.                                                           *)

\* Task.cancel() of a turn, wherever it stands.
CancelTurn(t) ==
    \/ /\ pc[t] \in {"opening", "queued", "registering", "handling", "finishing"}
       /\ Goes(t, "cleanup") /\ UNCHANGED <<lock, Processes, waitsFor, orphaned>>
    \/ /\ pc[t] = "spawning" /\ Leave(session[t])
       /\ Goes(t, "cleanup") /\ UNCHANGED <<lock, process, alive, waitsFor, orphaned>>
    \/ /\ pc[t] = "reading"
       /\ IF Running(session[t]) THEN Kill(t, session[t], None)
          ELSE UNCHANGED <<alive, waitsFor>>
       /\ Goes(t, "halting") /\ UNCHANGED <<lock, process, cliLock, pids, orphaned>>
    \/ /\ pc[t] \in {"halting", "cleanup"}
       /\ UNCHANGED <<pc, lock, Processes, waitsFor, orphaned>>
    \/ /\ pc[t] = "cleanup" /\ lock # None /\ orphaned' = orphaned \cup {t}
       /\ Goes(t, "done") /\ UNCHANGED <<lock, Processes, waitsFor>>
    \/ /\ pc[t] = "removing" /\ lock' = None
       /\ waitsFor' = [waitsFor EXCEPT ![t] = None]
       /\ Goes(t, "done") /\ UNCHANGED <<Processes, orphaned>>

\* /stop in reply to the current turn of a tree, unless its node has ended.
Stop(t) ==
    /\ Active(t) /\ current[TreeOf[t]] = t /\ t \notin over /\ ~exited
    /\ CancelTurn(t) /\ over' = over \cup {t}
    /\ UNCHANGED <<managerVars, turnVars, current, freed, cleared, sweepVars, exited>>

\* cancel_tree(): the current task is cancelled whatever the state of its
\* node, and the tree is free.
CancelTree(r) ==
    LET t == current[r] IN
    /\ IF t # None /\ Active(t) THEN CancelTurn(t) /\ over' = over \cup {t}
       ELSE UNCHANGED <<pc, lock, Processes, waitsFor, orphaned, over>>
    /\ freed' = freed \cup {u \in Turns : TreeOf[u] = r /\ Active(u)}
    /\ UNCHANGED <<managerVars, turnVars, current, exited>>

\* /clear of a tree that runs: nothing of it is started any more.  (It comes
\* after a Stop of the turn, and does not stop the sessions.)
Clear(r) ==
    /\ ~exited /\ current[r] # None /\ Active(current[r])
    /\ current[r] \in over
    /\ CancelTree(r) /\ UNCHANGED sweepVars
    /\ cleared' = cleared \cup {r}

\* stop_all_tasks(), tree by tree.  Calls of it are taken to follow each other.
StopAll ==
    /\ ~exited /\ sweep.pc = "idle" /\ sweeps < MaxStopAlls
    /\ sweep' = [pc |-> "cancelling", left |-> Trees]
    /\ UNCHANGED <<managerVars, lock, Processes, pc, turnVars, waitsFor, treeVars,
                   sweeps, seen, orphaned, exited>>

CancelNext(r) ==
    /\ sweep.pc = "cancelling" /\ r \in sweep.left /\ CancelTree(r)
    /\ UNCHANGED cleared
    /\ sweep' = IF sweep.left = {r} THEN [pc |-> "waiting", left |-> {}]
                ELSE [sweep EXCEPT !.left = @ \ {r}]
    /\ UNCHANGED <<sweeps, seen>>

\* The stop_all() of a shutdown, or of POST /stop without messaging, which
\* cancels no turn.
StopSessions ==
    /\ ~exited /\ sweep.pc = "idle" /\ sweeps < MaxStopAlls
    /\ sweep' = [pc |-> "waiting", left |-> {}]
    /\ UNCHANGED <<managerVars, lock, Processes, pc, turnVars, waitsFor, treeVars,
                   sweeps, seen, orphaned, exited>>

Values(map) == {map[i] : i \in Ids} \ {None}

\* Mutant: sessions without a real id are not stopped.
SweepRegistered ==
    /\ sweep.pc = "waiting" /\ lock = None /\ lock' = Manager
    /\ sweep' = [pc |-> "sweeping", left |-> Values(sessions)]
    /\ seen' = {t \in Turns : alive[t] = "running"}
    /\ UNCHANGED <<managerVars, Processes, pc, turnVars, waitsFor, treeVars, sweeps,
                   orphaned, exited>>

SweepBegin ==
    /\ sweep.pc = "waiting" /\ lock = None /\ lock' = Manager
    /\ sweep' = [pc |-> "sweeping", left |-> Values(sessions) \cup Values(pending)]
    /\ seen' = {t \in Turns : alive[t] = "running"}
    /\ UNCHANGED <<managerVars, Processes, pc, turnVars, waitsFor, treeVars, sweeps,
                   orphaned, exited>>

SweepNext(s) ==
    /\ sweep.pc = "sweeping" /\ s \in sweep.left
    /\ sweep' = [pc |-> IF Running(s) THEN "stopping" ELSE "sweeping",
                 left |-> sweep.left \ {s}]
    /\ IF Running(s) THEN Kill(Manager, s, None) ELSE UNCHANGED <<alive, waitsFor>>
    /\ UNCHANGED <<managerVars, lock, process, cliLock, pids, pc, turnVars, treeVars,
                   sweeps, seen, orphaned, exited>>

SweepStopped ==
    /\ sweep.pc = "stopping" /\ Killed(Manager)
    /\ pids' = pids \ {process[waitsFor[Manager].session]}
    /\ waitsFor' = [waitsFor EXCEPT ![Manager] = None]
    /\ sweep' = [sweep EXCEPT !.pc = "sweeping"]
    /\ UNCHANGED <<managerVars, lock, process, cliLock, alive, pc, turnVars, treeVars,
                   sweeps, seen, orphaned, exited>>

SweepEnd ==
    /\ sweep.pc = "sweeping" /\ sweep.left = {}
    /\ pending' = [i \in Ids |-> None] /\ sessions' = [i \in Ids |-> None]
    /\ tempToReal' = [i \in Ids |-> None] /\ realToTemp' = [i \in Ids |-> None]
    /\ lock' = None /\ sweep' = NoSweep /\ sweeps' = sweeps + 1
    /\ UNCHANGED <<Processes, pc, turnVars, waitsFor, treeVars, seen, orphaned, exited>>

\* The process of the bridge ends, at any time: kill_all_best_effort().
Exit ==
    /\ ~exited /\ exited' = TRUE
    /\ alive' = [t \in Turns |-> IF t \in pids /\ alive[t] = "running" THEN "dying"
                                 ELSE alive[t]]
    /\ pids' = {} /\ pc' = [t \in Turns |-> "done"]
    /\ UNCHANGED <<managerVars, lock, process, cliLock, turnVars, waitsFor, treeVars,
                   sweepVars, orphaned>>

CliNext ==
    \/ \E t \in Turns :
           \/ Start(t) \/ Open(t) \/ TakeCli(t) \/ Spawn(t) \/ SpawnFails(t)
           \/ SessionInfo(t) \/ Register(t) \/ Event(t) \/ Eof(t) \/ Finish(t)
           \/ Dies(t) \/ RemoveSession(t) \/ Removed(t) \/ Halted(t) \/ Collect(t) \/ Stop(t)
           \/ SweepNext(t)
    \/ \E r \in Trees : Clear(r) \/ CancelNext(r)
    \/ StopAll \/ StopSessions \/ SweepBegin \/ SweepStopped \/ SweepEnd \/ Exit

-----------------------------------------------------------------------------
(* Properties.                                                             *)

\* Turns that ran beside another of their tree, or found its session.
Shared(t) == \E u \in Turns \ {t} : session[u] = session[t] /\ session[t] # None
Mixed(t) == t \in overlapped \/ Shared(t)

\* Whenever the program ends, kill_all_best_effort() leaves no CLI behind: a
\* running process is registered, unless its session passed to another turn,
\* whose pid stop() may then unregister in place of the one it stopped.
KilledAtExit ==
    \A t \in Turns : alive[t] = "running" => t \in pids \/ Mixed(t)

\* A turn that is over has told its CLI to end, unless stop_all() emptied the
\* maps after it had opened its session, or it was cancelled a second time
\* while it waited for the manager's lock.
NoneLeftBehind ==
    \A t \in Turns : pc[t] = "done" /\ alive[t] = "running" =>
        openedIn[t] < sweeps \/ t \in orphaned \/ Mixed(t)

\* What ran when stop_all() began is no longer running when it is done, save
\* the processes an earlier call had already lost, and those of a session
\* that changed hands.
StopAllStops ==
    [][sweeps' > sweeps => \A t \in seen : \/ alive[t] # "running"
                                           \/ openedIn[t] < sweeps \/ Mixed(t)]_cliVars

\* The two maps of ids agree on every session the manager knows, so that
\* whoever resumes it by its temporary id finds it; no session is known twice.
AliasesAgree ==
    /\ \A i \in Ids : tempToReal[i] # None => realToTemp[tempToReal[i]] = i
    /\ \A r \in Ids : sessions[r] # None =>
           /\ realToTemp[r] # None /\ tempToReal[realToTemp[r]] = r
           /\ \A i \in Ids : pending[i] # sessions[r]

\* The id recorded for a turn is the one its own CLI reported: a reply to it
\* resumes its conversation and no other.
RecordedIsOwn ==
    \A t \in Turns : recorded[t] \in {None, Real(t)} \/ Mixed(t)

\* Two turns use one session only after a stop that freed their tree, or that
\* cut the cleanup of one of them short: otherwise a turn removes its session
\* before the next of its tree looks for it.
SharedOnlyWhenFreed ==
    \A t, u \in Turns : t # u /\ session[t] # None /\ session[t] = session[u] =>
        {t, u} \cap (freed \cup orphaned) # {}

\* What the sessions, their ids and their processes keep of each other.
SessionsKept ==
    /\ CliTypeOK /\ KilledAtExit /\ NoneLeftBehind /\ AliasesAgree
    /\ RecordedIsOwn /\ SharedOnlyWhenFreed
=============================================================================
