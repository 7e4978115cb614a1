--------------------------- MODULE QueuePositions ---------------------------
(***************************************************************************)
(* What the status messages of a conversation say while its replies wait   *)
(* their turn (messaging/handler.py, trees/queue_manager.py): the position *)
(* told on arrival, the positions told again after each dequeue, and what  *)
(* the turn itself tells.                                                  *)
(*                                                                         *)
(* Edits are not made where they are decided on.  One that is awaited      *)
(* leaves a task behind that hands it to the outbox, one that is not first *)
(* leaves a task that awaits it; ready is the order in which the event     *)
(* loop runs these tasks.  The outbox keeps the last edit of a message,    *)
(* so that the last one handed over is what the message will say.          *)
(***************************************************************************)
EXTENDS Naturals, Sequences, FiniteSets, SequencesExt

CONSTANTS Replies,    \* messages of one conversation
          ParentOf,   \* the message each replies to
          NoReply

ASSUME QueueAssumption == IsFiniteSet(Replies) /\ NoReply \notin Replies /\ ParentOf \in [Replies -> Replies \cup {NoReply}]

VARIABLES
    waiting,   \* the queue of the tree
    current,   \* the node it is busy with
    turnAt,    \* where that node's task stands
    nodeAt,    \* where each message stands
    ready,     \* the tasks the loop will run, in order
    said,      \* what each status message was last told to say
    hasty      \* history: turns that failed in their first step

queueVars == <<waiting, current, turnAt, nodeAt, ready, said, hasty>>

Notice(kind, n) == [kind |-> kind, place |-> n]
Endings == {"done", "failed", "stopped", "cancelled"}
Kinds == {"nothing", "continuing", "queued", "processing", "output"} \cup Endings

\* An edit that is awaited has one task to go, one that is not has two.
Awaited(n, t) == [do |-> "hand over", node |-> n, text |-> t]
Forgotten(n, t) == [do |-> "await", node |-> n, text |-> t]
Scheduled(n) == [do |-> "start", node |-> n, text |-> Notice("nothing", 0)]
Unwinding(n) == [do |-> "unwind", node |-> n, text |-> Notice("nothing", 0)]

QueueInit ==
    /\ waiting = <<>> /\ current = NoReply /\ turnAt = "none" /\ ready = <<>> /\ hasty = {}
    /\ nodeAt = [n \in Replies |-> "unsent"] /\ said = [n \in Replies |-> Notice("nothing", 0)]

-----------------------------------------------------------------------------
\* _get_initial_status(), and the status message it is sent as.
Announce(n) ==
    /\ nodeAt[n] = "unsent" /\ (ParentOf[n] # NoReply => nodeAt[ParentOf[n]] \notin {"unsent", "sent"})
    /\ nodeAt' = [nodeAt EXCEPT ![n] = "sent"]
    /\ said' = [said EXCEPT ![n] = IF current # NoReply THEN Notice("queued", Len(waiting) + 1) ELSE Notice("continuing", 0)]
    /\ UNCHANGED <<waiting, current, turnAt, ready, hasty>>

\* add_to_tree() and enqueue(): the size is read after the node was put, and the
\* edit is awaited.
Attach(n) ==
    /\ nodeAt[n] = "sent" /\ nodeAt' = [nodeAt EXCEPT ![n] = "pending"]
    /\ \/ current # NoReply /\ waiting' = Append(waiting, n)
          /\ ready' = Append(ready, Awaited(n, Notice("queued", Len(waiting) + 1))) /\ UNCHANGED <<current, turnAt>>
       \/ current = NoReply /\ current' = n /\ turnAt' = "scheduled"
          /\ ready' = Append(ready, Scheduled(n)) /\ UNCHANGED waiting
    /\ UNCHANGED <<said, hasty>>

Pending(q) == SelectSeq(q, LAMBDA n : nodeAt[n] = "pending")

\* Mutant: positions are counted from zero.
PositionsFromZero(q) == [i \in 1..Len(Pending(q)) |-> Forgotten(Pending(q)[i], Notice("queued", i - 1))]

\* update_queue_positions(): the nodes that still wait, counted from one.
Positions(q) == [i \in 1..Len(Pending(q)) |-> Forgotten(Pending(q)[i], Notice("queued", i))]

\* mark_node_processing(): not for a node that will be skipped.
Processing(n) == IF nodeAt[n] = "ended" THEN <<>> ELSE <<Forgotten(n, Notice("processing", 0))>>

\* _process_next(): the task is made first, and the callbacks run before it does.
ProcessNext(rest) ==
    IF waiting = <<>>
    THEN current' = NoReply /\ turnAt' = "none" /\ ready' = rest /\ UNCHANGED waiting
    ELSE /\ current' = Head(waiting) /\ waiting' = Tail(waiting) /\ turnAt' = "scheduled"
         /\ ready' = Append(rest, Scheduled(Head(waiting))) \o Processing(Head(waiting)) \o Positions(Tail(waiting))

\* _propagate_error_to_children(): the descendants that still wait.
RECURSIVE Below(_, _)
Below(n, p) == n # NoReply /\ (ParentOf[n] = p \/ Below(ParentOf[n], p))
FailsBelow(n, edit) ==
    LET children == SetToSeq({m \in Replies : Below(m, n) /\ nodeAt[m] = "pending"})
    IN /\ nodeAt' = [m \in Replies |-> IF m = n \/ m \in Range(children) THEN "ended" ELSE nodeAt[m]]
       /\ ready' = Append(edit, Awaited(n, Notice("failed", 0)))
                     \o [i \in 1..Len(children) |-> Forgotten(children[i], Notice("cancelled", 0))]

\* The loop runs a task: the first step of a turn may be its last, when there is no
\* client to run.
Start(n, rest) ==
    \/ /\ nodeAt[n] = "ended" /\ ProcessNext(rest) /\ UNCHANGED <<nodeAt, hasty>>
    \/ /\ nodeAt[n] = "pending" /\ nodeAt' = [nodeAt EXCEPT ![n] = "running"]
       /\ turnAt' = "running" /\ ready' = rest /\ UNCHANGED <<waiting, current, hasty>>
    \/ /\ nodeAt[n] = "pending" /\ FailsBelow(n, rest) /\ turnAt' = "closing"
       /\ hasty' = hasty \cup {n} /\ UNCHANGED <<waiting, current>>
Unwind(n, rest) ==
    /\ ready' = Append(rest, Awaited(n, Notice("stopped", 0))) /\ turnAt' = "closing"
    /\ UNCHANGED <<waiting, current, nodeAt, hasty>>
RunReady ==
    /\ ready # <<>>
    /\ LET it == Head(ready)
           rest == Tail(ready)
       IN \/ it.do = "start" /\ Start(it.node, rest) /\ UNCHANGED said
          \/ it.do = "unwind" /\ Unwind(it.node, rest) /\ UNCHANGED said
          \/ it.do = "await" /\ ready' = Append(rest, Awaited(it.node, it.text))
             /\ UNCHANGED <<waiting, current, turnAt, nodeAt, said, hasty>>
          \/ it.do = "hand over" /\ ready' = rest /\ said' = [said EXCEPT ![it.node] = it.text]
             /\ UNCHANGED <<waiting, current, turnAt, nodeAt, hasty>>

\* What a turn does after its first step comes after all that was ready then.
GoesOn(n) ==
    /\ current = n /\ turnAt = "running"
    /\ Forgotten(n, Notice("processing", 0)) \notin Range(ready)
Output(n) ==
    /\ GoesOn(n) /\ said[n].kind # "output" /\ Awaited(n, Notice("output", 0)) \notin Range(ready)
    /\ ready' = Append(ready, Awaited(n, Notice("output", 0)))
    /\ UNCHANGED <<waiting, current, turnAt, nodeAt, said, hasty>>
TurnEnds(n) ==
    /\ GoesOn(n) /\ turnAt' = "closing"
    /\ \/ FailsBelow(n, ready)
       \/ nodeAt' = [nodeAt EXCEPT ![n] = "ended"] /\ ready' = Append(ready, Awaited(n, Notice("done", 0)))
    /\ UNCHANGED <<waiting, current, said, hasty>>

\* The session is removed, and the next turn taken.
Freed ==
    /\ turnAt = "closing" /\ ProcessNext(ready) /\ UNCHANGED <<nodeAt, said, hasty>>

\* stop_task(): a task that has not begun is gone without a trace, and nobody is
\* told of the positions behind the node.
Stop(n) ==
    /\ nodeAt[n] \in {"pending", "running"} /\ nodeAt' = [nodeAt EXCEPT ![n] = "ended"]
    /\ waiting' = SelectSeq(waiting, LAMBDA m : m # n)
    /\ LET told == Forgotten(n, Notice("stopped", 0))
       IN CASE current # n -> ready' = Append(ready, told) /\ UNCHANGED turnAt
            [] current = n /\ turnAt = "scheduled" ->
                 turnAt' = "gone" /\ ready' = Append(SelectSeq(ready, LAMBDA it : it # Scheduled(n)), told)
            [] current = n /\ turnAt = "running" ->
                 turnAt' = "unwinding" /\ ready' = ready \o <<Unwinding(n), told>>
    /\ UNCHANGED <<current, said, hasty>>

QueueNext ==
    \/ RunReady \/ Freed
    \/ \E n \in Replies : Announce(n) \/ Attach(n) \/ Output(n) \/ TurnEnds(n) \/ Stop(n)

-----------------------------------------------------------------------------
QueueTypeOK ==
    /\ Range(waiting) \subseteq Replies /\ current \in Replies \cup {NoReply} /\ hasty \subseteq Replies
    /\ turnAt \in {"none", "scheduled", "running", "unwinding", "closing", "gone"}
    /\ nodeAt \in [Replies -> {"unsent", "sent", "pending", "running", "ended"}]
    /\ \A n \in Replies : said[n].kind \in Kinds /\ said[n].place \in 0..Cardinality(Replies)

\* What a waiting reply is told in the end is never better than its place in the
\* queue: other replies leave it, none gets ahead.
PlacesArePromised ==
    ready = <<>> =>
        \A i \in 1..Len(Pending(waiting)) :
            said[Pending(waiting)[i]].kind = "queued" /\ said[Pending(waiting)[i]].place >= i

\* When nothing is being said any more, a turn that has ended says so, not that it
\* waits or works; only one that failed in its first step may still say it works.
EndingsAreSaid ==
    ready = <<>> =>
        \A n \in Replies :
            nodeAt[n] = "ended" =>
                said[n].kind \in Endings \/ (n \in hasty /\ said[n].kind = "processing")

\* The status messages can be trusted.
PlacesAreTold == QueueTypeOK /\ PlacesArePromised /\ EndingsAreSaid
=============================================================================
