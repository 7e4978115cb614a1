--------------------------- MODULE GraphifyIndex ----------------------------
(***************************************************************************)
(* The indexing of Graphify projects                                       *)
(* (api/graphify/graphify_coordinator.py): a queue, one worker that        *)
(* indexes a project at a time, and the registry file, where every         *)
(* operation loads, changes and saves all projects.                        *)
(*                                                                         *)
(* A step of the event loop is an action: the worker can be overtaken      *)
(* only while it prepares the environment and while the extraction runs.   *)
(* The futures of queued projects are awaited by nobody and are left out,  *)
(* and so are the environment and arguments of the extraction.             *)
(***************************************************************************)
EXTENDS Naturals, Sequences, FiniteSets, Functions

CONSTANTS Projects, NoProject,
          AutoIndex,    \* graphify_auto_index_on_start
          TokenBudget,  \* --token-budget of the first attempt
          MinBudget,    \* no attempt is made below it
          MaxLives,     \* bound on stops and crashes
          MaxEdits      \* bound on additions and removals of projects

ASSUME GraphifyIndexAssumption ==
    /\ IsFiniteSet(Projects) /\ NoProject \notin Projects /\ AutoIndex \in BOOLEAN
    /\ TokenBudget \in Nat /\ MinBudget \in Nat \ {0} /\ MaxLives \in Nat /\ MaxEdits \in Nat

VARIABLES
    registry,   \* the file: the status of each project
    copy,       \* the registry the worker loaded before the extraction
    indexQueue, queuePaths,
    current,    \* _index_current
    stage,      \* what the worker does
    wake,       \* _index_event
    budget,     \* token budget of the attempt that runs
    extracting, \* extraction processes of each project that still run
    abandoned,  \* history: projects whose indexing was given up half-way
    lives, edits

idxVars == <<registry, copy, indexQueue, queuePaths, current, stage, wake, budget,
             extracting, abandoned, lives, edits>>

Statuses == {"absent", "missing", "indexing", "ready", "error", "queued"}
NoCopy == [p \in Projects |-> "absent"]
QueuedProjects == Range(indexQueue)

IndexTypeOK ==
    /\ registry \in [Projects -> Statuses] /\ copy \in [Projects -> Statuses]
    /\ indexQueue \in Seq(Projects) /\ queuePaths \subseteq Projects
    /\ current \in Projects \cup {NoProject}
    /\ stage \in {"none", "loop", "wait", "setup", "extract", "cancelled"}
    /\ wake \in BOOLEAN /\ budget \in 0..TokenBudget
    /\ extracting \in [Projects -> 0..(MaxLives + 1)]
    /\ abandoned \subseteq Projects /\ lives \in 0..MaxLives /\ edits \in 0..MaxEdits

IndexInit ==
    /\ registry = NoCopy /\ copy = NoCopy
    /\ indexQueue = <<>> /\ queuePaths = {} /\ current = NoProject
    /\ stage = "none" /\ wake = FALSE /\ budget = 0
    /\ extracting = [p \in Projects |-> 0] /\ abandoned = {} /\ lives = 0 /\ edits = 0

-----------------------------------------------------------------------------
(* The routes of the admin page, and the watcher of changed files.         *)

AddProject(p) ==
    /\ edits < MaxEdits /\ edits' = edits + 1
    /\ registry' = [registry EXCEPT ![p] = IF @ = "absent" THEN "missing" ELSE @]
    /\ UNCHANGED <<copy, indexQueue, queuePaths, current, stage, wake, budget,
                   extracting, abandoned, lives>>

RemoveProject(p) ==
    /\ edits < MaxEdits /\ edits' = edits + 1 /\ registry[p] # "absent"
    /\ registry' = [registry EXCEPT ![p] = "absent"]
    /\ UNCHANGED <<copy, indexQueue, queuePaths, current, stage, wake, budget,
                   extracting, abandoned, lives>>

\* Mutant: the worker is not woken.
EnqueuedQuietly(s) ==
    /\ \A i \in 1..Len(s) : s[i] \notin queuePaths \cup {current}
    /\ indexQueue' = indexQueue \o s /\ queuePaths' = queuePaths \cup Range(s)
    /\ registry' = [p \in Projects |-> IF p \in Range(s) THEN "queued" ELSE registry[p]]
    /\ abandoned' = abandoned \ Range(s) /\ UNCHANGED wake

\* The projects of s, neither being indexed nor queued, join the queue.
Enqueued(s) ==
    /\ \A i \in 1..Len(s) : s[i] \notin queuePaths \cup {current}
    /\ indexQueue' = indexQueue \o s /\ queuePaths' = queuePaths \cup Range(s)
    /\ registry' = [p \in Projects |-> IF p \in Range(s) THEN "queued" ELSE registry[p]]
    /\ wake' = (wake \/ s # <<>>) /\ abandoned' = abandoned \ Range(s)

\* start_index_project(): the watcher asks for fewer projects than the routes.
IndexProject(p) ==
    /\ registry[p] # "absent" /\ Enqueued(<<p>>)
    /\ UNCHANGED <<copy, current, stage, budget, extracting, lives, edits>>

-----------------------------------------------------------------------------
(* start() and stop() of the manager, and a crash of the server.           *)

\* The projects that have no graph, those included that an earlier life of the
\* server was interrupted at.
Unfinished ==
    {p \in Projects : registry[p] \in {"missing", "error", "indexing"}}
        \ (queuePaths \cup {current})

\* _start_index_worker() and _auto_index_projects().  A worker that has not
\* ended yet, be it cancelled, is not replaced.
StartWorker ==
    /\ stage' = IF stage = "none" THEN "loop" ELSE stage
    /\ IF AutoIndex
       THEN \E s \in [1..Cardinality(Unfinished) -> Unfinished] : IsInjective(s) /\ Enqueued(s)
       ELSE Enqueued(<<>>)
    /\ UNCHANGED <<copy, current, budget, extracting, lives, edits>>

\* _drain_index_queue(): the worker is cancelled where it waits.  The process
\* of an extraction is not.
CancelWorker ==
    /\ stage \in {"loop", "wait", "setup", "extract"} /\ lives < MaxLives
    /\ lives' = lives + 1 /\ stage' = "cancelled"
    /\ abandoned' = abandoned \cup ({current} \ {NoProject}) /\ current' = NoProject
    /\ UNCHANGED <<registry, copy, indexQueue, queuePaths, wake, budget, extracting, edits>>

\* When it has ended, the queue is emptied.  The file is left as it is.
Drained ==
    /\ stage = "cancelled" /\ stage' = "none"
    /\ abandoned' = abandoned \cup QueuedProjects
    /\ indexQueue' = <<>> /\ queuePaths' = {} /\ current' = NoProject
    /\ UNCHANGED <<registry, copy, wake, budget, extracting, lives, edits>>

\* The server dies: only the file and the extractions are left.
CrashIndex ==
    /\ lives < MaxLives /\ lives' = lives + 1
    /\ abandoned' = abandoned \cup QueuedProjects \cup ({current} \ {NoProject})
    /\ indexQueue' = <<>> /\ queuePaths' = {} /\ current' = NoProject
    /\ stage' = "none" /\ wake' = FALSE
    /\ UNCHANGED <<registry, copy, budget, extracting, edits>>

-----------------------------------------------------------------------------
(* The worker: _run_index_worker() and index_project().                    *)

Sleep ==
    /\ stage = "loop" /\ indexQueue = <<>> /\ stage' = "wait" /\ wake' = FALSE
    /\ UNCHANGED <<registry, copy, indexQueue, queuePaths, current, budget, extracting,
                   abandoned, lives, edits>>

Awake ==
    /\ stage = "wait" /\ wake /\ stage' = "loop"
    /\ UNCHANGED <<registry, copy, indexQueue, queuePaths, current, wake, budget, extracting,
                   abandoned, lives, edits>>

TakeProject ==
    /\ stage = "loop" /\ indexQueue # <<>> /\ stage' = "setup" /\ wake' = FALSE
    /\ current' = Head(indexQueue) /\ indexQueue' = Tail(indexQueue)
    /\ queuePaths' = queuePaths \ {current'}
    /\ UNCHANGED <<registry, copy, budget, extracting, abandoned, lives, edits>>

\* The worker goes on to the next project.
TurnsToNext == stage' = "loop" /\ current' = NoProject

\* Graphify is not available: the file still says that the project is queued.
SetupFails ==
    /\ stage = "setup" /\ TurnsToNext /\ abandoned' = abandoned \cup {current}
    /\ UNCHANGED <<registry, copy, indexQueue, queuePaths, wake, budget, extracting, lives,
                   edits>>

\* The packages cannot be installed, or the project is too large.  A project
\* that has been removed is not found, and its indexing just ends.
Refused ==
    /\ stage = "setup" /\ TurnsToNext
    /\ registry' = [registry EXCEPT ![current] = IF @ = "absent" THEN @ ELSE "error"]
    /\ UNCHANGED <<copy, indexQueue, queuePaths, wake, budget, extracting, abandoned, lives,
                   edits>>

\* The extraction starts.  No attempt is made with a budget that is too small.
Extract ==
    /\ stage = "setup"
    /\ IF registry[current] = "absent"
       THEN TurnsToNext /\ UNCHANGED <<registry, copy, budget, extracting>>
       ELSE /\ copy' = [registry EXCEPT ![current] = "indexing"] /\ registry' = copy'
            /\ stage' = "extract" /\ budget' = TokenBudget
            /\ extracting' = IF TokenBudget < MinBudget THEN extracting
                             ELSE [extracting EXCEPT ![current] = @ + 1]
            /\ UNCHANGED current
    /\ UNCHANGED <<indexQueue, queuePaths, wake, abandoned, lives, edits>>

\* An attempt timed out, and half of its budget is enough for another.
ExtractAgain ==
    /\ stage = "extract" /\ budget \div 2 >= MinBudget /\ budget' = budget \div 2
    /\ UNCHANGED <<registry, copy, indexQueue, queuePaths, current, stage, wake, extracting,
                   abandoned, lives, edits>>

\* Mutant: a failed extraction is not written to the file.
ExtractedUnsaved(ok) ==
    /\ stage = "extract" /\ TurnsToNext /\ (ok => budget >= MinBudget)
    /\ registry' = IF ok THEN [copy EXCEPT ![current] = "ready"] ELSE registry
    /\ extracting' = [extracting EXCEPT ![current] = IF budget < MinBudget THEN @ ELSE @ - 1]
    /\ UNCHANGED <<copy, indexQueue, queuePaths, wake, budget, abandoned, lives, edits>>

\* The registry that was loaded before the extraction is saved with the result.
Extracted(ok) ==
    /\ stage = "extract" /\ TurnsToNext /\ (ok => budget >= MinBudget)
    /\ registry' = [copy EXCEPT ![current] = IF ok THEN "ready" ELSE "error"]
    /\ extracting' = [extracting EXCEPT ![current] = IF budget < MinBudget THEN @ ELSE @ - 1]
    /\ UNCHANGED <<copy, indexQueue, queuePaths, wake, budget, abandoned, lives, edits>>

\* An extraction that nobody waits for any more ends.
OrphanEnds(p) ==
    /\ extracting[p] > IF stage = "extract" /\ current = p THEN 1 ELSE 0
    /\ extracting' = [extracting EXCEPT ![p] = @ - 1]
    /\ UNCHANGED <<registry, copy, indexQueue, queuePaths, current, stage, wake, budget,
                   abandoned, lives, edits>>

WorkerStep ==
    \/ Sleep \/ Awake \/ TakeProject \/ SetupFails \/ Refused \/ Extract \/ ExtractAgain
    \/ \E ok \in BOOLEAN : Extracted(ok)

IndexNext ==
    \/ \E p \in Projects :
           AddProject(p) \/ RemoveProject(p) \/ IndexProject(p) \/ OrphanEnds(p)
    \/ StartWorker \/ CancelWorker \/ Drained \/ CrashIndex
    \/ WorkerStep

-----------------------------------------------------------------------------
(* Properties.                                                             *)

\* The set that refuses a project twice agrees with the queue, and the project
\* being indexed is not queued again.
QueueAgrees ==
    /\ QueuedProjects = queuePaths /\ Cardinality(queuePaths) = Len(indexQueue)
    /\ current \notin queuePaths

\* While the worker runs, a project the file calls "indexing" is the one being
\* indexed: those an earlier life left so are queued again at the start, and
\* the stale registry saved after an extraction brings none back.
IndexingIsReal ==
    \A p \in Projects :
        (AutoIndex /\ registry[p] = "indexing" /\ stage \notin {"none", "cancelled"}) => current = p

\* A project the file calls "queued" is queued, or about to be indexed, or was
\* given up by a stop, a crash or a failed set-up.  Such a project is queued by
\* nobody again: neither the start nor the watcher looks for it.
QueuedIsReal ==
    \A p \in Projects :
        registry[p] = "queued" => p \in queuePaths \cup {current} \cup abandoned

\* What the index queue keeps of the registry of projects.
IndexKept == IndexTypeOK /\ QueueAgrees /\ IndexingIsReal /\ QueuedIsReal

\* While the worker runs, a queued project leaves the queue.
QueueMoves ==
    \A p \in Projects :
        (p \in queuePaths /\ stage \notin {"none", "cancelled"}) ~> p \notin queuePaths
=============================================================================
