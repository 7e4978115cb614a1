-------------------------- MODULE PersistentTrees ---------------------------
(***************************************************************************)
(* The conversations of the messaging bridge across restarts: which        *)
(* handler saves what and when (messaging/handler.py,                      *)
(* messaging/node_event_pipeline.py, messaging/commands.py), the order of  *)
(* a clean shutdown (api/runtime.py), and what a new process makes of the  *)
(* file (AppRuntime._restore_tree_state).                                  *)
(*                                                                         *)
(* TreeQueue has the order of the turns of one tree in full; here a tree   *)
(* is what the store sees of it, and its replies all answer its root.      *)
(***************************************************************************)
EXTENDS SessionStore

CONSTANTS Nodes,       \* messages
          RootOf,      \* the message that opened a message's conversation
          Commands,    \* the global commands users send
          MaxRestarts, \* bound: how often a new process starts
          MaxFailures  \* bound: how many writes fail

States == {"pending", "in_progress", "completed", "error"}

\* What can be saved of a tree: the states of its nodes.
TreeData == UNION {[S -> States] : S \in (SUBSET Nodes) \ {{}}}

ASSUME PersistentTreesAssumption ==
    /\ Data = TreeData
    /\ RootOf \in [Nodes -> Roots] /\ Roots \subseteq Nodes
    /\ \A r \in Roots : RootOf[r] = r
    /\ Commands \subseteq {"stop", "clear"}
    /\ MaxRestarts \in Nat /\ MaxFailures \in Nat

VARIABLES
    mode,      \* how far the process has got
    received,  \* messages the platform has delivered
    tree,      \* the tree under each root, as MessageTree holds it
    known,     \* the trees in the repository of the current manager
    live,      \* nodes with an asyncio task, or queued for one
    captured,  \* of these, those whose CLI has told its session
    clearing,  \* trees whose /clear is deleting messages
    global,    \* where the one global command being handled stands
    unsaved,   \* trees with nodes it cancelled, to be saved
    restarts, failures,
    silent,    \* history: nodes whose CLI exited without telling a session
    removed,   \* history: trees a /clear has removed
    outlived,  \* history: trees a turn of which outlived a global /clear
    wiped,     \* history: trees a global /clear has removed from the file, and
               \* no late write has brought back
    flushed    \* history: the contents a shutdown flushed, until the next start

trees3  == <<tree, known>>
turns   == <<received, live, captured>>
clears  == <<clearing, global, unsaved>>
bounds  == <<restarts, failures>>
history == <<silent, removed, outlived, wiped, flushed>>
vars == <<storeVars, mode, trees3, turns, clears, bounds, history>>

Modes == {"up",        \* serving
          "flushing",  \* shutdown: the event loop writes the store
          "flushed",   \* the platform still delivers messages
          "quiet",     \* the platform is stopped, the CLIs are being stopped
          "down"}

TypeOK ==
    /\ StoreTypeOK
    /\ mode \in Modes
    /\ tree \in Contents /\ known \subseteq Roots
    /\ live \subseteq received /\ received \subseteq Nodes /\ captured \subseteq live
    /\ clearing \subseteq Roots /\ unsaved \subseteq Roots
    /\ global \in {"none", "stop", "clear", "deleting"}
    /\ restarts \in 0..MaxRestarts /\ failures \in 0..MaxFailures
    /\ silent \subseteq received
    /\ removed \subseteq Roots /\ outlived \subseteq Roots /\ wiped \subseteq Roots
    /\ flushed \in Contents \cup {NoTree}

Init ==
    /\ StoreInit
    /\ mode = "up" /\ tree = Nothing /\ known = {}
    /\ received = {} /\ live = {} /\ captured = {}
    /\ clearing = {} /\ global = "none" /\ unsaved = {}
    /\ restarts = 0 /\ failures = 0
    /\ silent = {} /\ removed = {} /\ outlived = {} /\ wiped = {}
    /\ flushed = NoTree

-----------------------------------------------------------------------------
(* Trees.                                                                  *)

Members(r) == IF tree[r] = NoTree THEN {} ELSE DOMAIN tree[r]
State(n) == tree[RootOf[n]][n]
InTree(n) == n \in Members(RootOf[n])
Unfinished(n) == InTree(n) /\ State(n) \in {"pending", "in_progress"}

\* The tree of r with the nodes of S in state s.
Marked(r, S, s) ==
    [n \in Members(r) |-> IF n \in S THEN s ELSE tree[r][n]]

\* PendingChildren of a node of a tree of depth one.
PendingChildren(n) ==
    IF n \in Roots THEN {c \in Members(n) \ {n} : State(c) = "pending"} ELSE {}

\* The event loop runs handlers, in a process that is up.
Runs == mode \in {"up", "flushed", "quiet"} /\ LoopRuns

\* A handler replaces the tree of r by t, and saves it.
UpdateAndSave(r, t) ==
    /\ tree' = [tree EXCEPT ![r] = t]
    /\ SaveTree(r, t)

Update(r, t) ==
    /\ tree' = [tree EXCEPT ![r] = t]
    /\ UNCHANGED storeVars

-----------------------------------------------------------------------------
(* Turns.                                                                  *)

\* _handle_message_impl(): a new conversation, or a reply to a known one.
Receive(n) ==
    LET r == RootOf[n] IN
    /\ Runs /\ mode # "quiet" /\ n \notin received
    /\ n = r \/ (r \in known /\ r \in Members(r))
    /\ received' = received \cup {n} /\ live' = live \cup {n}
    /\ known' = known \cup {r}
    /\ UpdateAndSave(r, [m \in Members(r) \cup {n} |->
                           IF m = n THEN "pending" ELSE tree[r][m]])
    /\ UNCHANGED <<mode, captured, clears, bounds, history>>

\* Tasks that end take what they captured with them.
EndTurns(S) == live' = live \ S /\ captured' = captured \ S

\* _process_node_impl() marks its node, which nobody saves.  A task that
\* starts after its tree left the repository has no tree to mark.
Start(n) ==
    LET r == RootOf[n] IN
    /\ Runs /\ n \in live /\ InTree(n) /\ State(n) = "pending"
    /\ \A m \in Members(r) \cap live : State(m) # "in_progress"
    /\ IF r \in known
       THEN Update(r, Marked(r, {n}, "in_progress")) /\ UNCHANGED <<live, captured>>
       ELSE EndTurns({n}) /\ UNCHANGED <<storeVars, tree>>
    /\ UNCHANGED <<mode, known, received, clears, bounds, history>>

Running(n) == Runs /\ n \in live /\ InTree(n) /\ State(n) # "pending"

\* handle_session_info_event() of a task with a tree.
SessionInfo(n) ==
    /\ Running(n) /\ n \notin captured
    /\ captured' = captured \cup {n}
    /\ UpdateAndSave(RootOf[n], Marked(RootOf[n], {n}, "in_progress"))
    /\ UNCHANGED <<mode, known, received, live, clears, bounds, history>>

\* mark_node_error() with the replies that wait, of a tree in the repository.
\* The nodes of S have no turn any more, and nobody saves.
MarkError(n, S) ==
    LET failing == IF RootOf[n] \in known THEN {n} \cup PendingChildren(n) ELSE {}
    IN  /\ Update(RootOf[n], Marked(RootOf[n], failing, "error"))
        /\ EndTurns(S \cup (failing \ {n}))

\* An error event.
CliError(n) ==
    /\ Running(n) /\ MarkError(n, {})
    /\ UNCHANGED <<mode, known, received, clears, bounds, history>>

\* The exit event, whatever the code, ends in a completion, which counts
\* once a session was captured.
CliExit(n) ==
    /\ Running(n) /\ EndTurns({n})
    /\ IF n \in captured
       THEN /\ UpdateAndSave(RootOf[n], Marked(RootOf[n], {n}, "completed"))
            /\ UNCHANGED silent
       ELSE /\ silent' = silent \cup {n}
            /\ UNCHANGED <<storeVars, tree>>
    /\ UNCHANGED <<mode, known, received, clears, bounds, removed, outlived, wiped, flushed>>

\* The exception handler of _process_node_impl(): the same, and the end.
TaskFails(n) ==
    /\ Running(n) /\ MarkError(n, {n})
    /\ UNCHANGED <<mode, known, received, clears, bounds, history>>

-----------------------------------------------------------------------------
(* Commands.                                                               *)

Cancelled(r) == {n \in Members(r) : Unfinished(n)}

\* stop_task() and update_cancelled_nodes_ui().
Stop(n) ==
    /\ Runs /\ mode # "quiet" /\ RootOf[n] \in known /\ Unfinished(n)
    /\ EndTurns({n})
    /\ UpdateAndSave(RootOf[n], Marked(RootOf[n], {n}, "error"))
    /\ UNCHANGED <<mode, known, received, clears, bounds, history>>

\* Bound: one command at a time.
Idle == clearing = {} /\ global = "none"

\* Bound: global commands and failing writes come before the first restart.
FirstLife == restarts = 0

\* Every unfinished node of the trees of S fails, and loses its task.
CancelTrees(S) ==
    /\ tree' = [r \in Roots |-> IF r \in S /\ tree[r] # NoTree
                                THEN Marked(r, Cancelled(r), "error") ELSE tree[r]]
    /\ EndTurns(UNION {Members(r) : r \in S})

\* _handle_clear_branch() of a root, up to the deletion of its messages ...
ClearTree(r) ==
    /\ Runs /\ mode # "quiet" /\ r \in known /\ Idle
    /\ clearing' = clearing \cup {r}
    /\ CancelTrees({r})
    /\ IF Cancelled(r) # {} THEN SaveTree(r, tree'[r]) ELSE UNCHANGED storeVars
    /\ UNCHANGED <<mode, known, received, global, unsaved, bounds, history>>

\* ... and after it: what arrived meanwhile is cancelled too.
TreeCleared(r) ==
    /\ Runs /\ r \in clearing
    /\ clearing' = clearing \ {r}
    /\ IF r \in known
       THEN /\ tree' = [tree EXCEPT ![r] = NoTree]
            /\ EndTurns(Members(r))
            /\ RemoveTree(r) /\ known' = known \ {r}
            /\ removed' = removed \cup {r}
       ELSE UNCHANGED <<storeVars, trees3, live, captured, removed>>
    /\ UNCHANGED <<mode, received, global, unsaved, bounds,
                   silent, outlived, wiped, flushed>>

\* stop_all_tasks(), for /stop or for /clear, up to its wait for the CLIs ...
StopAll(command) ==
    /\ Runs /\ mode # "quiet" /\ Idle /\ FirstLife
    /\ global' = command
    /\ CancelTrees(known)
    /\ unsaved' = {r \in known : Cancelled(r) # {}}
    /\ UNCHANGED <<storeVars, mode, known, received, clearing, bounds, history>>

\* ... after which update_cancelled_nodes_ui() saves the trees that are still
\* in the repository, and /clear goes on to the deletions.
AllStopped ==
    /\ Runs /\ global \in {"stop", "clear"}
    /\ global' = IF global = "clear" THEN "deleting" ELSE "none"
    /\ unsaved' = {}
    /\ IF unsaved \cap known # {}
       THEN SaveTrees([r \in Roots |-> IF r \in unsaved \cap known
                                       THEN tree[r] ELSE trees[r]])
       ELSE UNCHANGED storeVars
    /\ UNCHANGED <<mode, trees3, turns, clearing, bounds, history>>

\* The rest of handle_clear_command(): the store is emptied, and the manager
\* is replaced, with whatever turns began meanwhile.
ChatCleared ==
    /\ Runs /\ global = "deleting"
    /\ global' = "none" /\ known' = {}
    /\ ClearAll
    /\ removed' = removed \cup known
    /\ outlived' = outlived \cup {RootOf[n] : n \in live}
    /\ UNCHANGED <<mode, tree, turns, clearing, unsaved, bounds,
                   silent, wiped, flushed>>

-----------------------------------------------------------------------------
(* Timer threads, the disk, and the process.                               *)

Frame == UNCHANGED <<trees3, turns, clears>>

Timer ==
    /\ TimerFires \/ TimerSnapshots
    /\ Frame /\ UNCHANGED <<mode, bounds, history>>

\* The shutdown goes on once its flush is over.
GoOn(by) == mode' = IF by = "loop" /\ mode = "flushing" THEN "flushed" ELSE mode

\* The write of clear_all() leaves no tree in the file.
Lands(i) ==
    LET write == inFlight[i] IN
    /\ WriteLands(i) /\ GoOn(write.by)
    /\ wiped' = IF write.by = "loop" /\ mode # "flushing" THEN received \cap Roots
                ELSE IF write.late THEN {r \in wiped : write.trees[r] = NoTree}
                ELSE wiped
    /\ Frame /\ UNCHANGED <<bounds, silent, removed, outlived, flushed>>

Fails(i) ==
    /\ FirstLife /\ failures < MaxFailures
    /\ failures' = failures + 1
    /\ WriteFails(i) /\ GoOn(inFlight[i].by)
    /\ flushed' = IF inFlight[i].by = "loop" THEN NoTree ELSE flushed
    /\ Frame /\ UNCHANGED <<restarts, silent, removed, outlived, wiped>>

\* AppRuntime.shutdown(): the store is flushed while the platform and the
\* CLIs still run ...
Shutdown ==
    /\ Runs /\ mode = "up"
    /\ mode' = "flushing" /\ FlushPendingSave
    /\ flushed' = trees
    /\ Frame /\ UNCHANGED <<bounds, silent, removed, outlived, wiped>>

\* ... then the platform stops ...
PlatformStops ==
    /\ Runs /\ mode = "flushed" /\ mode' = "quiet"
    /\ Frame /\ UNCHANGED <<storeVars, bounds, history>>

\* ... and at last, with the CLIs and everything else, the process; or it
\* crashes at any moment.
Dies ==
    /\ StoreDies /\ mode' = "down"
    /\ tree' = Nothing /\ known' = {} /\ live' = {} /\ captured' = {}
    /\ clearing' = {} /\ global' = "none" /\ unsaved' = {}
    /\ UNCHANGED <<received, bounds, silent, removed, outlived, wiped>>

Exit == mode = "quiet" /\ LoopRuns /\ Dies /\ UNCHANGED flushed
Crash == mode # "down" /\ Dies /\ flushed' = NoTree

\* Mutant: every restored node fails.
CleanedAll(t) == IF t = NoTree THEN NoTree ELSE [n \in DOMAIN t |-> "error"]

\* cleanup_stale_nodes() on a saved tree.
Cleaned(t) ==
    IF t = NoTree THEN NoTree
    ELSE [n \in DOMAIN t |-> IF t[n] \in {"pending", "in_progress"}
                             THEN "error" ELSE t[n]]

Restart ==
    LET restored == [r \in Roots |-> Cleaned(file[r])] IN
    /\ mode = "down" /\ restarts < MaxRestarts
    /\ restarts' = restarts + 1 /\ mode' = "up"
    /\ StoreLoads(restored)
    /\ tree' = restored /\ known' = {r \in Roots : file[r] # NoTree}
    /\ flushed' = NoTree
    /\ UNCHANGED <<turns, clears, failures, silent, removed, outlived, wiped>>

Next ==
    \/ \E n \in Nodes : \/ Receive(n) \/ Start(n) \/ SessionInfo(n) \/ CliError(n)
                        \/ CliExit(n) \/ TaskFails(n) \/ Stop(n)
    \/ \E r \in Roots : ClearTree(r) \/ TreeCleared(r)
    \/ \E command \in Commands : StopAll(command)
    \/ AllStopped \/ ChatCleared
    \/ Timer
    \/ \E i \in DOMAIN inFlight : Lands(i) \/ Fails(i)
    \/ Shutdown \/ PlatformStops \/ Exit \/ Crash \/ Restart

Spec == Init /\ [][Next]_vars

-----------------------------------------------------------------------------
(* Properties.                                                             *)

Completed(c, r) == IF c[r] = NoTree THEN {} ELSE {n \in DOMAIN c[r] : c[r][n] = "completed"}

\* In a process that runs, what is in the store's memory is in the file, or
\* will be, unless an older snapshot was written over a newer one.
NothingForgotten == mode # "down" => SavedOrPending /\ DirtyHasTimer

\* A node that reads as pending or in progress has a task that will change
\* that, after a restart too, unless its CLI ended without telling a session.
WaitsForTask ==
    \A r \in known : \A n \in Members(r) :
        Unfinished(n) => n \in live \cup silent

\* A global /clear whose write has landed is final: its trees come back
\* neither in the file nor, after a restart, in the bridge, unless one of
\* their turns began while the messages were being deleted.
ClearedForGood ==
    \A r \in wiped \ outlived : file[r] = NoTree /\ r \notin known

\* A clean shutdown keeps what was completed when it flushed the store.
FlushSurvives ==
    mode = "down" /\ flushed # NoTree /\ ~overtaken =>
        \A r \in Roots \ removed : Completed(flushed, r) \subseteq Completed(file, r)

\* What the session file and the bridge keep of each other.
StoreKept == /\ TypeOK /\ NothingForgotten /\ WaitsForTask /\ ClearedForGood
             /\ FlushSurvives

\* No completed turn leaves the file, but with its conversation or by an
\* older snapshot written over a newer one.
NoneLost ==
    \A r \in Roots : \/ Completed(file, r) \subseteq Completed(file', r)
                    \/ r \in removed \/ overtaken'

\* A turn that the file once held as completed stays so, through failed
\* writes, crashes and restarts, until its conversation is cleared.
CompletedStaysSaved == [][NoneLost]_vars
=============================================================================
