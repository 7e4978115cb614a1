--------------------------- MODULE GraphifyServer ---------------------------
(***************************************************************************)
(* The Graphify server process of the manager (api/graphify/               *)
(* graphify_process.py): overlapping calls of start(), stop() and          *)
(* restart(), a child process per start, and the server of another         *)
(* instance of the program, which may already hold the fixed port.  A      *)
(* child is named after the call that spawned it.                          *)
(***************************************************************************)
EXTENDS Naturals

CONSTANTS Calls, NoCall

ASSUME GraphifyServerAssumption == NoCall \notin Calls

VARIABLES
    call,       \* where each call stands
    wants,      \* what each call was made for
    victim,     \* the process a stop waits for, and whether it was owned
    child,      \* the state of the child each start spawned
    process,    \* _process
    owns, adopted,  \* _owns_process, _adopted
    sibling,    \* the server of the other instance
    entry,      \* the graphify entry of ~/.claude.json
    overlapped, \* history: a call began while another was under way
    raced       \* history: the other server and a child wanted the port at once

srvVars == <<call, wants, victim, child, process, owns, adopted, sibling, entry,
             overlapped, raced>>

Running(c) == child[c] \in {"starting", "up"}

ServerTypeOK ==
    /\ call \in [Calls -> {"idle", "probe", "spawn", "ready", "drain", "ending", "done"}]
    /\ wants \in [Calls -> {"start", "stop", "restart", "fail"}]
    /\ victim \in [Calls -> [process : Calls \cup {NoCall}, owned : BOOLEAN]]
    /\ child \in [Calls -> {"none", "starting", "up", "ending", "dead"}]
    /\ process \in Calls \cup {NoCall} /\ owns \in BOOLEAN /\ adopted \in BOOLEAN
    /\ sibling \in {"none", "up", "gone"} /\ entry \in BOOLEAN
    /\ overlapped \in BOOLEAN /\ raced \in BOOLEAN

ServerInit ==
    /\ call = [c \in Calls |-> "idle"] /\ wants = [c \in Calls |-> "start"]
    /\ victim = [c \in Calls |-> [process |-> NoCall, owned |-> FALSE]]
    /\ child = [c \in Calls |-> "none"] /\ process = NoCall
    /\ owns = FALSE /\ adopted = FALSE /\ sibling = "none" /\ entry = FALSE
    /\ overlapped = FALSE /\ raced = FALSE

At(c, pc) == call' = [call EXCEPT ![c] = pc]
UnderWay == \E c \in Calls : call[c] \notin {"idle", "done"}
Healthy == sibling = "up" \/ \E c \in Calls : child[c] = "up"
PortFree == sibling # "up" /\ \A c \in Calls : child[c] \notin {"up", "ending"}
IsRunning == adopted \/ (process # NoCall /\ child[process] \in {"starting", "up", "ending"})

-----------------------------------------------------------------------------
(* start().                                                                *)

StartServer(c) ==
    /\ call[c] = "idle" /\ At(c, IF IsRunning THEN "done" ELSE "probe")
    /\ overlapped' = (overlapped \/ UnderWay)
    /\ UNCHANGED <<wants, victim, child, process, owns, adopted, sibling, entry, raced>>

\* Mutant: an adopted server counts as owned.
AdoptOwned(c) ==
    /\ call[c] = "probe" /\ Healthy /\ At(c, "done")
    /\ adopted' = TRUE /\ owns' = TRUE /\ entry' = TRUE
    /\ UNCHANGED <<wants, victim, child, process, sibling, overlapped, raced>>

\* A server answers on the port, whoever it belongs to.
Adopt(c) ==
    /\ call[c] = "probe" /\ Healthy /\ At(c, "done")
    /\ adopted' = TRUE /\ owns' = FALSE /\ entry' = TRUE
    /\ UNCHANGED <<wants, victim, child, process, sibling, overlapped, raced>>

\* None answers: one that is starting or ending may not.
ProbeFails(c) ==
    /\ call[c] = "probe" /\ ~Healthy /\ At(c, "spawn")
    /\ UNCHANGED <<wants, victim, child, process, owns, adopted, sibling, entry, overlapped,
                   raced>>

SpawnServer(c) ==
    /\ call[c] = "spawn" /\ At(c, "ready")
    /\ child' = [child EXCEPT ![c] = "starting"] /\ process' = c
    /\ owns' = TRUE /\ adopted' = FALSE
    /\ raced' = (raced \/ sibling = "up")
    /\ UNCHANGED <<wants, victim, sibling, entry, overlapped>>

\* The process cannot be spawned, or the caller is cancelled.
StartGivenUp(c) ==
    /\ call[c] \in {"probe", "spawn", "ready"} /\ At(c, "done")
    /\ UNCHANGED <<wants, victim, child, process, owns, adopted, sibling, entry, overlapped,
                   raced>>

\* Some server answers within the time limit, and the entry is written.
Ready(c) ==
    /\ call[c] = "ready" /\ Healthy /\ At(c, "done") /\ entry' = TRUE
    /\ UNCHANGED <<wants, victim, child, process, owns, adopted, sibling, overlapped, raced>>

\* None does: the start stops what it has spawned.
NeverReady(c) ==
    /\ call[c] = "ready" /\ At(c, "drain") /\ wants' = [wants EXCEPT ![c] = "fail"]
    /\ UNCHANGED <<victim, child, process, owns, adopted, sibling, entry, overlapped, raced>>

-----------------------------------------------------------------------------
(* stop() and restart().                                                   *)

StopServer(c) ==
    /\ call[c] = "idle" /\ At(c, "drain")
    /\ \E w \in {"stop", "restart"} : wants' = [wants EXCEPT ![c] = w]
    /\ overlapped' = (overlapped \/ UnderWay)
    /\ UNCHANGED <<victim, child, process, owns, adopted, sibling, entry, raced>>

\* The watcher and the worker have ended: the manager lets go of the process,
\* and terminates it if it owns it.
LetGo(c) ==
    /\ call[c] = "drain" /\ At(c, "ending")
    /\ victim' = [victim EXCEPT ![c] = [process |-> process, owned |-> owns]]
    /\ process' = NoCall /\ adopted' = FALSE /\ owns' = FALSE
    /\ child' = IF owns /\ process # NoCall
                THEN [child EXCEPT ![process] =
                          IF @ \in {"starting", "up"} THEN "ending" ELSE @]
                ELSE child
    /\ UNCHANGED <<wants, sibling, entry, overlapped, raced>>

\* The process has ended, or was killed after its time: the entry of an owned
\* one is removed, and a restart goes on with a start.
StopEnds(c) ==
    LET v == victim[c] IN
    /\ call[c] = "ending"
    /\ v.owned /\ v.process # NoCall => child[v.process] # "ending"
    /\ entry' = (entry /\ ~v.owned)
    /\ At(c, IF wants[c] = "restart" /\ ~IsRunning THEN "probe" ELSE "done")
    /\ UNCHANGED <<wants, victim, child, process, owns, adopted, sibling, overlapped, raced>>

-----------------------------------------------------------------------------
(* The processes.                                                          *)

\* A child that finds the port taken exits.
ChildListens(c) ==
    /\ child[c] = "starting"
    /\ child' = [child EXCEPT ![c] = IF PortFree THEN "up" ELSE "dead"]
    /\ UNCHANGED <<call, wants, victim, process, owns, adopted, sibling, entry, overlapped,
                   raced>>

ChildEnds(c) ==
    /\ child[c] \in {"starting", "up", "ending"} /\ child' = [child EXCEPT ![c] = "dead"]
    /\ UNCHANGED <<call, wants, victim, process, owns, adopted, sibling, entry, overlapped,
                   raced>>

\* Another instance of the program starts its server, and stops it later.
SiblingStarts ==
    /\ sibling = "none" /\ PortFree /\ sibling' = "up" /\ entry' = TRUE
    /\ raced' = (raced \/ owns \/ \E c \in Calls : call[c] = "ending" /\ victim[c].owned)
    /\ UNCHANGED <<call, wants, victim, child, process, owns, adopted, overlapped>>

SiblingStops ==
    /\ sibling = "up" /\ sibling' = "gone" /\ entry' = FALSE
    /\ UNCHANGED <<call, wants, victim, child, process, owns, adopted, overlapped, raced>>

ServerNext ==
    \/ \E c \in Calls :
           \/ StartServer(c) \/ Adopt(c) \/ ProbeFails(c) \/ SpawnServer(c)
           \/ StartGivenUp(c) \/ Ready(c) \/ NeverReady(c)
           \/ StopServer(c) \/ LetGo(c) \/ StopEnds(c) \/ ChildListens(c) \/ ChildEnds(c)
    \/ SiblingStarts \/ SiblingStops

-----------------------------------------------------------------------------
(* Properties.                                                             *)

\* As long as the calls come one after another, no child is leaked: one that
\* runs and is not being terminated is the process the manager holds and owns,
\* and a stop will end it.
NoChildLeaked ==
    \A c \in Calls : Running(c) => (process = c /\ owns) \/ overlapped

\* The manager does not remove the entry of a server that another instance
\* runs, as long as that one did not compete with a child for the port: then
\* the child is gone, but the manager takes the server for its own.
SiblingKeepsEntry ==
    [][sibling = "up" /\ sibling' = "up" /\ entry /\ ~entry' => raced]_srvVars

\* What the manager of the Graphify server keeps of processes and of the entry.
ServerKept == [](ServerTypeOK /\ NoChildLeaked) /\ SiblingKeepsEntry
=============================================================================
