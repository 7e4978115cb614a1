----------------------------- MODULE TreeQueue ------------------------------
(***************************************************************************)
(* One conversation of the messaging bridge: the message tree, its FIFO of *)
(* queued replies and the asyncio tasks that process them                  *)
(* (messaging/trees/data.py, messaging/trees/queue_manager.py), driven by  *)
(* the message handler and by the commands /stop and /clear                *)
(* (messaging/handler.py, messaging/commands.py,                           *)
(* messaging/node_event_pipeline.py).                                      *)
(*                                                                         *)
(* An asyncio step runs to its next real suspension, and neither the tree  *)
(* lock nor the manager lock is ever held across one, so every section     *)
(* under those locks is atomic here.  The suspensions that remain are the  *)
(* steps of this model: sending the status message before a reply is       *)
(* attached, a new task waiting for its first turn, reading the client     *)
(* CLI, stopping the CLI of a cancelled task, giving the session back, and *)
(* the message deletions of /clear.                                        *)
(***************************************************************************)
EXTENDS SnapshotQueue

CONSTANTS Nodes,         \* messages of this conversation, by message id
          Root,          \* the message that opens the conversation
          None,          \* no node
          Commands,      \* the commands users send
          EarlyCommands  \* may a command run in the same pass of the event
                         \* loop as create_task, before the task's first step?

ASSUME TreeQueueAssumption ==
    /\ Root \in Nodes
    /\ None \notin Nodes
    /\ Commands \subseteq {"stop", "stop_all", "clear_branch", "clear_all"}
    /\ EarlyCommands \in BOOLEAN

VARIABLES
    received,      \* messages the platform has delivered to the handler
    arriving,      \* replies whose handler is still sending the status message
    parent,        \* the node a message replies to
    nodes,         \* MessageTree._nodes
    inRepo,        \* is the tree in the repository of the current manager?
    state,         \* MessageNode.state
    captured,      \* has the node's task seen the session id of its CLI?
    queue,         \* MessageTree._queue
    isProcessing,  \* MessageTree._is_processing
    currentNode,   \* MessageTree._current_node_id
    currentTask,   \* MessageTree._current_task, by the node it processes
    task,          \* where the asyncio task of a node stands
    hasTree,       \* did the node's task find its tree when it started?
    clearing,      \* branches whose /clear is deleting messages
    clearingAll,   \* is a global /clear deleting messages?
    ahead          \* history: what was queued when a node was attached

repo    == <<inRepo, nodes>>
turn    == <<queue, isProcessing, currentNode, currentTask>>
intake  == <<received, arriving, parent>>
running == <<task, hasTree, captured>>
clears  == <<clearing, clearingAll>>
vars == <<intake, repo, turn, running, clears, state, ahead>>

States == {"pending", "in_progress", "completed", "error"}
Phases == {"none",       \* no task has been created for the node
           "created",    \* create_task was called, the first step is due
           "running",    \* in start_task, reading the CLI
           "unwinding",  \* cancelled, waiting for the CLI to stop
           "closing",    \* giving the session back to the CLI manager
           "failing",    \* the same, after a CLI that failed
           "done"}

TypeOK ==
    /\ received \subseteq Nodes /\ arriving \subseteq received
    /\ parent \in [Nodes -> Nodes \cup {None}]
    /\ nodes \subseteq received /\ inRepo \in BOOLEAN
    /\ state \in [Nodes -> States]
    /\ captured \in [Nodes -> BOOLEAN] /\ hasTree \in [Nodes -> BOOLEAN]
    /\ queue \in Seq(Nodes) /\ isProcessing \in BOOLEAN
    /\ currentNode \in Nodes \cup {None} /\ currentTask \in Nodes \cup {None}
    /\ task \in [Nodes -> Phases]
    /\ clearing \subseteq Nodes /\ clearingAll \in BOOLEAN
    /\ ahead \in [Nodes -> SUBSET Nodes]

Init ==
    /\ received = {} /\ arriving = {} /\ parent = [n \in Nodes |-> None]
    /\ nodes = {} /\ inRepo = FALSE
    /\ state = [n \in Nodes |-> "pending"]
    /\ captured = [n \in Nodes |-> FALSE] /\ hasTree = [n \in Nodes |-> FALSE]
    /\ queue = <<>> /\ isProcessing = FALSE
    /\ currentNode = None /\ currentTask = None
    /\ task = [n \in Nodes |-> "none"]
    /\ clearing = {} /\ clearingAll = FALSE
    /\ ahead = [n \in Nodes |-> {}]

-----------------------------------------------------------------------------
(* The tree and its queue.                                                 *)

Terminal(n) == state[n] \in {"completed", "error"}
Live(n) == task[n] \in Phases \ {"none", "done"}
Queued(n) == InQueue(queue, n)

\* The nodes the repository maps to this tree (TreeRepository._node_to_tree).
Registered == IF inRepo THEN nodes ELSE {}

\* What can be reached from b through the nodes of C: the least set that
\* contains the nodes of C under b, or under a node already reached.
Reach(b, C) ==
    {d \in C : \A S \in SUBSET C :
        (\A c \in C : parent[c] \in S \cup {b} => c \in S) => d \in S}

Descendants(b) == {b} \cup Reach(b, nodes)
PendingChildren(n) == Reach(n, {c \in nodes : state[c] = "pending"})

SetState(S, s) == [n \in Nodes |-> IF n \in S THEN s ELSE state[n]]

\* Task.cancel(): a task that never ran is dropped whole, its finally clause
\* included; one that reads the CLI unwinds; one that is unwinding or closing
\* reaches the same finally clause.
AfterCancel(phase) ==
    CASE phase = "created" -> "done"
      [] phase = "running" -> "unwinding"
      [] OTHER -> phase

CancelCurrentTask ==
    [n \in Nodes |-> IF n = currentTask THEN AfterCancel(task[n]) ELSE task[n]]

\* create_task(process_node(...)) for n, over the tasks t.
Spawn(t, n) == [t EXCEPT ![n] = "created"]

\* Mutant: a reply is put at the head of the queue.
EnqueueAtHead(n) ==
    IF isProcessing
    THEN /\ queue' = <<n>> \o queue
         /\ UNCHANGED <<isProcessing, currentNode, currentTask, task>>
    ELSE /\ isProcessing' = TRUE /\ currentNode' = n
         /\ currentTask' = n /\ task' = Spawn(task, n)
         /\ UNCHANGED queue

EnqueueAndStart(n) ==
    IF isProcessing
    THEN /\ queue' = Append(queue, n)
         /\ UNCHANGED <<isProcessing, currentNode, currentTask, task>>
    ELSE /\ isProcessing' = TRUE /\ currentNode' = n
         /\ currentTask' = n /\ task' = Spawn(task, n)
         /\ UNCHANGED queue

\* Mutants: the head is read and never popped; set_current_task is forgotten;
\* the next node is left to the next reply.
ProcessNextPeeks(n) ==
    LET ended == [task EXCEPT ![n] = "done"] IN
    IF queue = <<>>
    THEN isProcessing' = FALSE /\ currentNode' = None /\ task' = ended
         /\ UNCHANGED <<queue, currentTask>>
    ELSE /\ isProcessing' = TRUE /\ currentNode' = Head(queue)
         /\ task' = Spawn(ended, Head(queue)) /\ currentTask' = Head(queue)
         /\ UNCHANGED queue
ProcessNextKeepsTask(n) ==
    LET ended == [task EXCEPT ![n] = "done"] IN
    IF queue = <<>>
    THEN isProcessing' = FALSE /\ currentNode' = None /\ task' = ended
         /\ UNCHANGED <<queue, currentTask>>
    ELSE /\ queue' = Tail(queue)
         /\ isProcessing' = TRUE /\ currentNode' = Head(queue)
         /\ task' = Spawn(ended, Head(queue)) /\ UNCHANGED currentTask
ProcessNextWaits(n) ==
    /\ task' = [task EXCEPT ![n] = "done"]
    /\ currentNode' = None
    /\ UNCHANGED <<queue, isProcessing, currentTask>>

\* _process_next, run by the task of n as its last step.
ProcessNext(n) ==
    LET ended == [task EXCEPT ![n] = "done"] IN
    \/ /\ queue = <<>>
       /\ isProcessing' = FALSE /\ currentNode' = None
       /\ task' = ended
       /\ UNCHANGED <<queue, currentTask>>
    \/ /\ queue # <<>>
       /\ queue' = Tail(queue)
       /\ isProcessing' = TRUE /\ currentNode' = Head(queue)
       /\ IF Head(queue) \in nodes
          THEN task' = Spawn(ended, Head(queue)) /\ currentTask' = Head(queue)
          ELSE task' = ended /\ UNCHANGED currentTask

-----------------------------------------------------------------------------
(* Messages.                                                               *)

\* A message that replies to nothing opens the tree and starts at once.
CreateTree ==
    /\ Root \notin received
    /\ received' = received \cup {Root}
    /\ inRepo' = TRUE /\ nodes' = {Root}
    /\ EnqueueAndStart(Root)
    /\ UNCHANGED <<arriving, parent, state, captured, hasTree, clears, ahead>>

\* A reply finds its parent's tree, then waits for its status message.
Receive(m, r) ==
    /\ m \notin received \cup {Root} /\ r \in Registered
    /\ received' = received \cup {m}
    /\ arriving' = arriving \cup {m}
    /\ parent' = [parent EXCEPT ![m] = r]
    /\ UNCHANGED <<repo, turn, running, clears, state, ahead>>

\* The status message is out: the reply joins the tree and its queue.
Attach(m) ==
    /\ m \in arriving /\ parent[m] \in Registered
    /\ arriving' = arriving \ {m}
    /\ nodes' = nodes \cup {m}
    /\ ahead' = [ahead EXCEPT ![m] = {n \in Nodes : Queued(n)}]
    /\ EnqueueAndStart(m)
    /\ UNCHANGED <<received, parent, inRepo, state, captured, hasTree, clears>>

\* The parent was cleared meanwhile: add_to_tree raises ValueError and the
\* message is gone.
AttachFails(m) ==
    /\ m \in arriving /\ parent[m] \notin Registered
    /\ arriving' = arriving \ {m}
    /\ UNCHANGED <<received, parent, repo, turn, running, clears, state, ahead>>

-----------------------------------------------------------------------------
(* The task of a node: process_node around _process_node_impl.             *)

\* Mutant: a skipped node returns without looking at the queue.
SkipAndReturn(n) ==
    /\ task[n] = "created" /\ state[n] = "error"
    /\ task' = [task EXCEPT ![n] = "done"]
    /\ UNCHANGED <<intake, repo, turn, captured, hasTree, clears, state, ahead>>

\* A node marked ERROR while it waited is skipped.
Skip(n) ==
    /\ task[n] = "created" /\ state[n] = "error"
    /\ ProcessNext(n)
    /\ UNCHANGED <<intake, repo, captured, hasTree, clears, state, ahead>>

\* Mutant: process_node without the check for an ERROR state.
StartUnchecked(n) ==
    /\ task[n] = "created"
    /\ task' = [task EXCEPT ![n] = "running"]
    /\ hasTree' = [hasTree EXCEPT ![n] = n \in Registered]
    /\ state' = IF n \in Registered THEN SetState({n}, "in_progress") ELSE state
    /\ UNCHANGED <<intake, repo, turn, captured, clears, ahead>>

Start(n) ==
    /\ task[n] = "created" /\ state[n] # "error"
    /\ task' = [task EXCEPT ![n] = "running"]
    /\ hasTree' = [hasTree EXCEPT ![n] = n \in Registered]
    /\ state' = IF n \in Registered THEN SetState({n}, "in_progress") ELSE state
    /\ UNCHANGED <<intake, repo, turn, captured, clears, ahead>>

\* The CLI reports its session id.
SessionInfo(n) ==
    /\ task[n] = "running" /\ ~captured[n]
    /\ captured' = [captured EXCEPT ![n] = TRUE]
    /\ state' = IF hasTree[n] /\ n \in nodes
                THEN SetState({n}, "in_progress") ELSE state
    /\ UNCHANGED <<intake, repo, turn, task, hasTree, clears, ahead>>

\* mark_node_error with propagate_to_children, on the states s.
Failed(n) ==
    IF n \in Registered THEN SetState({n} \cup PendingChildren(n), "error") ELSE state

\* An error event in the stream; the CLI goes on.
ErrorEvent(n) ==
    /\ task[n] = "running"
    /\ state' = IF hasTree[n] THEN Failed(n) ELSE state
    /\ UNCHANGED <<intake, repo, turn, running, clears, ahead>>

\* State of n after a "complete" event, over the states s.
Completed(s, n) ==
    IF hasTree[n] /\ captured[n] /\ n \in nodes
    THEN [s EXCEPT ![n] = "completed"] ELSE s

\* Exit with code 0.
ExitOk(n) ==
    /\ task[n] = "running"
    /\ state' = Completed(state, n)
    /\ task' = [task EXCEPT ![n] = "closing"]
    /\ UNCHANGED <<intake, repo, turn, captured, hasTree, clears, ahead>>

\* Any other exit code: an error event, then a "complete" one.
ExitFail(n) ==
    /\ task[n] = "running"
    /\ state' = Completed(IF hasTree[n] THEN Failed(n) ELSE state, n)
    /\ task' = [task EXCEPT ![n] = "failing"]
    /\ UNCHANGED <<intake, repo, turn, captured, hasTree, clears, ahead>>

\* The CLI could not be spawned or read.
Exception(n) ==
    /\ task[n] = "running"
    /\ state' = IF hasTree[n] THEN Failed(n) ELSE state
    /\ task' = [task EXCEPT ![n] = "failing"]
    /\ UNCHANGED <<intake, repo, turn, captured, hasTree, clears, ahead>>

\* The CLI of a cancelled task has stopped.
Unwind(n) ==
    /\ task[n] = "unwinding"
    /\ state' = IF hasTree[n] /\ n \in nodes THEN SetState({n}, "error") ELSE state
    /\ task' = [task EXCEPT ![n] = "closing"]
    /\ UNCHANGED <<intake, repo, turn, captured, hasTree, clears, ahead>>

\* The finally clause of process_node.
Finish(n) ==
    /\ task[n] \in {"closing", "failing"}
    /\ ProcessNext(n)
    /\ UNCHANGED <<intake, repo, captured, hasTree, clears, state, ahead>>

TaskStep(n) ==
    \/ Skip(n) \/ Start(n) \/ SessionInfo(n) \/ ErrorEvent(n) \/ ExitOk(n)
    \/ ExitFail(n) \/ Exception(n) \/ Unwind(n) \/ Finish(n)

-----------------------------------------------------------------------------
(* Commands.                                                               *)

Settled == EarlyCommands \/ \A n \in Nodes : task[n] # "created"
MayCommand(c) == c \in Commands /\ Settled

\* Mutant: the tree is freed at once, as cancel_tree does.
StopFreesTree(n) ==
    /\ MayCommand("stop") /\ n \in Registered /\ ~Terminal(n)
    /\ task' = IF n = currentNode THEN CancelCurrentTask ELSE task
    /\ queue' = Without(queue, {n})
    /\ state' = SetState({n}, "error")
    /\ isProcessing' = FALSE /\ currentNode' = None
    /\ UNCHANGED <<intake, repo, currentTask, captured, hasTree, clears, ahead>>

\* /stop as a reply: cancel_node.
Stop(n) ==
    /\ MayCommand("stop") /\ n \in Registered /\ ~Terminal(n)
    /\ task' = IF n = currentNode THEN CancelCurrentTask ELSE task
    /\ queue' = Without(queue, {n})
    /\ state' = SetState({n}, "error")
    /\ UNCHANGED <<intake, repo, isProcessing, currentNode, currentTask,
                   captured, hasTree, clears, ahead>>

CancelTree ==
    /\ task' = CancelCurrentTask
    /\ queue' = <<>>
    /\ state' = SetState({n \in nodes : ~Terminal(n) \/ Queued(n)}, "error")
    /\ isProcessing' = FALSE /\ currentNode' = None
    /\ UNCHANGED currentTask

\* /stop on its own: cancel_all.
StopAll ==
    /\ MayCommand("stop_all") /\ inRepo
    /\ CancelTree
    /\ UNCHANGED <<intake, repo, captured, hasTree, clears, ahead>>

\* /clear as a reply, up to the deletion of the messages: cancel_branch.
ClearBranchBegin(b) ==
    /\ MayCommand("clear_branch") /\ b \in Registered
    /\ LET cancelled == {n \in Descendants(b) : ~Terminal(n)} IN
       /\ task' = IF currentNode \in cancelled THEN CancelCurrentTask ELSE task
       /\ queue' = Without(queue, cancelled \ {currentNode})
       /\ state' = SetState(cancelled, "error")
    /\ clearing' = clearing \cup {b}
    /\ UNCHANGED <<intake, repo, isProcessing, currentNode, currentTask,
                   captured, hasTree, clearingAll, ahead>>

\* The messages are deleted: remove_branch drops the branch as it is by now,
\* or the whole tree when the branch is the root's.
ClearBranchEnd(b) ==
    /\ b \in clearing /\ Settled
    /\ clearing' = clearing \ {b}
    /\ \/ /\ b \notin Registered
          /\ UNCHANGED <<repo, turn, task, state>>
       \/ /\ b \in Registered /\ b # Root
          /\ nodes' = nodes \ Descendants(b)
          /\ UNCHANGED <<inRepo, turn, task, state>>
       \/ /\ b \in Registered /\ b = Root
          /\ CancelTree
          /\ inRepo' = FALSE
          /\ UNCHANGED nodes
    /\ UNCHANGED <<intake, captured, hasTree, clearingAll, ahead>>

\* /clear on its own: stop everything, delete the messages, then replace the
\* manager and its trees.
ClearAllBegin ==
    /\ MayCommand("clear_all") /\ inRepo /\ ~clearingAll
    /\ CancelTree
    /\ clearingAll' = TRUE
    /\ UNCHANGED <<intake, repo, captured, hasTree, clearing, ahead>>

ClearAllEnd ==
    /\ clearingAll
    /\ clearingAll' = FALSE /\ inRepo' = FALSE
    /\ UNCHANGED <<intake, nodes, turn, running, clearing, state, ahead>>

-----------------------------------------------------------------------------

Arrival == \/ CreateTree
           \/ \E m, r \in Nodes : Receive(m, r)
           \/ \E m \in Nodes : Attach(m) \/ AttachFails(m)

Command == \/ \E n \in Nodes : Stop(n) \/ ClearBranchBegin(n) \/ ClearBranchEnd(n)
           \/ StopAll \/ ClearAllBegin \/ ClearAllEnd

Next == Arrival \/ Command \/ \E n \in Nodes : TaskStep(n)

Spec == Init /\ [][Next]_vars

\* The event loop gives every ready task its turn, and a client CLI that is
\* not stopped ends in the end.  Nothing forces users to send anything.
Ends(n) == ExitOk(n) \/ ExitFail(n) \/ Exception(n)
Fairness == \A n \in Nodes :
    /\ WF_vars(Skip(n)) /\ WF_vars(Start(n))
    /\ WF_vars(Ends(n)) /\ WF_vars(Unwind(n)) /\ WF_vars(Finish(n))
    /\ WF_vars(Attach(n) \/ AttachFails(n))

FairSpec == Spec /\ Fairness

-----------------------------------------------------------------------------
(* Properties for every set of commands.                                   *)

\* What is queued waits behind a task: the queue of an idle tree is empty, so
\* a reply that starts at once (enqueue_and_start) overtakes nobody.
IdleMeansEmpty == ~isProcessing => queue = <<>>

\* Replies start in the order in which they were attached: once a node has a
\* task, nothing that was queued when it arrived is queued still.
FifoOrder ==
    \A n \in Nodes : task[n] # "none" => \A m \in ahead[n] : ~Queued(m)

\* A message is handed to the CLI once: whatever /stop and /clear take out of
\* the queue, no node that has had a task ever gets another.
RunsOnce == [][\A n \in Nodes :
                  task[n] # "none" /\ task'[n] = "created" => task[n] = "created"]_vars

\* A node that was stopped, cleared or failed with its parent before its task
\* took a first step is never started, and stays in error.
StoppedNeverStarts ==
    [][\A n \in nodes :
          state[n] = "error" /\ task[n] \in {"none", "created"}
             => task'[n] # "running" /\ state'[n] = "error"]_vars

\* A completed node stays completed: no late cancel, failed parent or stale
\* cleanup rewrites the state of a turn that has ended well.
CompletedIsFinal ==
    [][\A n \in Nodes : state[n] = "completed" => state'[n] = "completed"]_vars

\* "Cancel a single node (queued or in-progress) without affecting other
\* nodes" (cancel_node): the task that is cancelled is the node's own.
StopIsolated ==
    [][\A n \in Nodes : Stop(n) =>
          \A m \in Nodes \ {n} : task'[m] = task[m] /\ state'[m] = state[m]]_vars

\* A node whose task was cancelled reads as an error while its CLI is being
\* stopped: no event of the task, and no other command, brings it back.
CancelledIsError ==
    \A n \in nodes : task[n] = "unwinding" => state[n] = "error"

(* Properties without stop_all and clear_all.                              *)

\* The step after which cancel_node has nothing to do for n, whose CLI runs on.
Deafens(n) ==
    task[n] = "running" /\ ~Terminal(n) /\ task'[n] = "running" /\ Terminal(n)'

\* "each tree processes one node at a time" (ARCHITECTURE.md).
AtMostOne == \A n, m \in Nodes : Live(n) /\ Live(m) => n = m

\* /stop on a node reaches its CLI: cancel_node leaves none running unless it
\* finds the node completed or in error, and the one thing that puts a node
\* there while its CLI runs on is an error event of that CLI.
StopReachesCli ==
    [][\A n \in Nodes :
         /\ Stop(n) => task'[n] \notin {"created", "running"}
         /\ Deafens(n) => ErrorEvent(n)]_vars

\* A reply runs only when its parent will not: the task of the parent, whose
\* session the reply forks, is over or was never due.
ParentBeforeChild ==
    \A n \in Nodes \ {Root} :
        Live(n) => ~Live(parent[n]) /\ ~Queued(parent[n])

\* One turn at a time, and a reply's after its parent's.
OneTurnAtATime == AtMostOne /\ ParentBeforeChild

(* Properties when the only command is stop, and never early.              *)

\* The tree is marked busy only while a task is there to take the next node.
NoLostWakeup == isProcessing => \E n \in Nodes : Live(n)

\* Every reply that joins the queue leaves it.
QueueDrains == \A n \in Nodes : Queued(n) ~> ~Queued(n)

\* The tree is a single server of its turns, in order of arrival.
Active == IF \E n \in Nodes : Live(n) THEN CHOOSE n \in Nodes : Live(n) ELSE None
Over == {n \in nodes : ~Live(n) /\ ~Queued(n)}
Turns == INSTANCE TurnOrder WITH waiting <- queue, active <- Active, over <- Over
ServesTurns == Turns!FairSpec

-----------------------------------------------------------------------------
(* The inductive invariant behind the safety properties.                   *)

\* A message joins the tree when it is attached and not before; it is queued
\* at most once, and only until it has a task.
Membership ==
    /\ \A n \in Nodes : n \in nodes \/ Queued(n) \/ task[n] # "none" \/ n = currentNode
                       => n \in received \ arriving
    /\ Root \notin arriving
    /\ NoRepeats(queue)
    /\ \A n \in Nodes : Queued(n) => task[n] = "none"

\* The queue is in order of arrival.
InOrder ==
    /\ \A n \in Nodes : ahead[n] \subseteq received \ arriving
    /\ \A n \in Nodes : n \notin received \ arriving => ahead[n] = {}
    /\ \A n, m \in Nodes : Queued(n) /\ m \in ahead[n] => ~Precedes(queue, n, m) /\ m # n

\* The task to cancel for the current node is that node's.
CurrentTaskIsCurrent == currentNode \in nodes => currentTask = currentNode

\* Only a task that reached the end of its CLI completes a node.
CompletedIsOver ==
    \A n \in Nodes : state[n] = "completed" => task[n] \in {"closing", "failing", "done"}

\* A parent that is queued was queued before its reply.
ParentOrder ==
    \A n \in received \ {Root} :
        /\ parent[n] \in received \ arriving /\ parent[n] # n
        /\ (n \in nodes \/ Queued(n) \/ task[n] # "none") /\ Queued(parent[n])
              => parent[n] \in ahead[n]

TreeInv == /\ TypeOK /\ IdleMeansEmpty /\ Membership /\ InOrder /\ FifoOrder
           /\ CurrentTaskIsCurrent /\ CompletedIsOver /\ CancelledIsError
           /\ ParentOrder

\* Without the global commands: a live task is the only one, it is the current
\* one, and it holds the tree unless the tree was dropped.
OneTurn ==
    /\ AtMostOne
    /\ \A n \in Nodes : Live(n) =>
          \/ isProcessing /\ currentTask = n /\ currentNode = n
          \/ ~inRepo /\ queue = <<>>

\* With /stop alone: nothing leaves the tree, and the node the tree is busy
\* with has a task that will take the next one.
Awake ==
    /\ clearing = {}
    /\ \A n \in Nodes : Queued(n) => n \in nodes
    /\ isProcessing => currentNode \in nodes /\ Live(currentNode)
=============================================================================
