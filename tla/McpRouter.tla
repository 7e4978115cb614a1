----------------------------- MODULE McpRouter ------------------------------
(***************************************************************************)
(* One client connection of the MCP router (scripts/mcp/mcp_router.py): its*)
(* dictionary of backends, the requests it serves concurrently, and the    *)
(* tasks that own the sessions to the backends.                            *)
(*                                                                         *)
(* A reload replaces the Backend object of a name, so a name may stand for *)
(* several objects in turn: object v of name n is <<n, v>>, v being the    *)
(* version of the configuration it was built from.  An owner task is named *)
(* after the request that created it.  Reading the file and naming tools   *)
(* change no state and are left out.                                       *)
(***************************************************************************)
EXTENDS Naturals, FiniteSets

CONSTANTS Names,       \* names of backends
          Requests,    \* requests of the client, each made at most once
          Client,      \* the handler of the connection
          Nobody,
          MaxReloads   \* bound on changes of the configuration file

ASSUME McpRouterAssumption ==
    /\ Nobody \notin Requests \cup Nat /\ Client \notin Requests /\ Client # Nobody
    /\ MaxReloads \in Nat

VARIABLES
    backends,   \* the dictionary: the version a name stands for, or Nobody
    session,    \* _session of each object: the owner whose session it is
    control,    \* _shutdown, _owner_done: the owner they belong to
    activating, \* who holds the _activate_lock of each object
    owner,      \* the state of each owner task
    ownerOf,    \* the object it was created for
    shutdown,   \* owners whose shutdown event is set
    request,    \* where each request stands, and the object it works on
    left,       \* names each reload has still to visit
    seen,       \* the configuration each reload has read
    file,       \* the configuration file: the version of each name
    connected,
    cutShort,   \* history: objects one of whose activations or deactivations
                \* was cancelled
    dropped     \* history: objects replaced while somebody was activating
                \* them, or by a reload that another one had overtaken

mcpDict == <<backends, left, seen, file, dropped>>
mcpOwners == <<owner, ownerOf>>
mcpVars == <<backends, session, control, activating, owner, ownerOf, shutdown, request,
             left, seen, file, connected, cutShort, dropped>>

Versions == 0..MaxReloads
Objects == Names \X Versions
NoObject == <<Nobody, 0>>
Waiting(q) == request[q].pc \in {"use", "deactivate", "replace"}
Stages == {"idle", "use", "connect", "abort", "deactivate", "deactivating",
           "reload", "replace", "replacing", "done"}

McpTypeOK ==
    /\ backends \in [Names -> Versions \cup {Nobody}]
    /\ session \in [Objects -> Requests \cup {Nobody}]
    /\ control \in [Objects -> Requests \cup {Nobody}]
    /\ activating \in [Objects -> Requests \cup {Client, Nobody}]
    /\ owner \in [Requests -> {"none", "connecting", "live", "closing", "ending", "done"}]
    /\ ownerOf \in [Requests -> Objects \cup {NoObject}] /\ shutdown \subseteq Requests
    /\ request \in [Requests -> [pc : Stages, object : Objects \cup {NoObject}]]
    /\ left \in [Requests -> SUBSET Names]
    /\ seen \in [Requests -> [Names -> Versions \cup {Nobody}]]
    /\ file \in [Names -> Versions \cup {Nobody}] /\ connected \in BOOLEAN
    /\ cutShort \subseteq Objects /\ dropped \subseteq Objects

McpInit ==
    /\ file = [n \in Names |-> 0] /\ backends = file
    /\ session = [b \in Objects |-> Nobody] /\ control = [b \in Objects |-> Nobody]
    /\ activating = [b \in Objects |-> Nobody]
    /\ owner = [q \in Requests |-> "none"] /\ ownerOf = [q \in Requests |-> NoObject]
    /\ shutdown = {} /\ request = [q \in Requests |-> [pc |-> "idle", object |-> NoObject]]
    /\ left = [q \in Requests |-> {}] /\ seen = [q \in Requests |-> file]
    /\ connected = TRUE /\ cutShort = {} /\ dropped = {}

Object(n) == <<n, backends[n]>>
Registered == {n \in Names : backends[n] # Nobody}
Goes(q, pc) == request' = [request EXCEPT ![q].pc = pc]
Takes(q, pc, b) == request' = [request EXCEPT ![q] = [pc |-> pc, object |-> b]]

-----------------------------------------------------------------------------
(* The tasks that own sessions: _session_owner().                          *)

\* The handshake is done: the session is published, and the activation that
\* waits for it ends.  An owner already told to shut down closes at once.
Connected(o) ==
    /\ owner[o] = "connecting"
    /\ session' = [session EXCEPT ![ownerOf[o]] = o]
    /\ owner' = [owner EXCEPT ![o] = IF o \in shutdown THEN "closing" ELSE "live"]
    /\ IF request[o].pc = "connect"
       THEN Goes(o, "done") /\ activating' = [activating EXCEPT ![ownerOf[o]] = Nobody]
       ELSE UNCHANGED <<request, activating>>
    /\ UNCHANGED <<control, ownerOf, shutdown, connected, cutShort>> /\ UNCHANGED mcpDict

\* The handshake fails: the activation waits for the end of the task.
HandshakeFails(o) ==
    /\ owner[o] = "connecting" /\ owner' = [owner EXCEPT ![o] = "closing"]
    /\ IF request[o].pc = "connect" THEN Goes(o, "abort") ELSE UNCHANGED request
    /\ UNCHANGED <<session, control, activating, ownerOf, shutdown, connected, cutShort>>
    /\ UNCHANGED mcpDict

\* The shutdown event is set, or the backend drops the connection.
Closes(o) ==
    /\ owner[o] = "live" /\ owner' = [owner EXCEPT ![o] = "closing"]
    /\ UNCHANGED <<session, control, activating, ownerOf, shutdown, request, connected,
                   cutShort>>
    /\ UNCHANGED mcpDict

\* The finally clause: whatever session the object has now is forgotten.  An owner with
\* an HTTP client of its own waits for that to close, and only then tells that it is done.
OwnerForgets(o) ==
    /\ owner[o] = "closing"
    /\ \E end \in {"ending", "done"} : owner' = [owner EXCEPT ![o] = end]
    /\ session' = [session EXCEPT ![ownerOf[o]] = Nobody]
    /\ UNCHANGED <<control, activating, ownerOf, shutdown, request, connected, cutShort>>
    /\ UNCHANGED mcpDict

OwnerEnds(o) ==
    /\ owner[o] = "ending" /\ owner' = [owner EXCEPT ![o] = "done"]
    /\ UNCHANGED <<session, control, activating, ownerOf, shutdown, request, connected,
                   cutShort>>
    /\ UNCHANGED mcpDict

-----------------------------------------------------------------------------
(* use_server and deactivate_server.                                       *)

\* _activate(), once it has the lock of the object.
Activate(q, b) ==
    /\ activating[b] = Nobody
    /\ IF session[b] # Nobody
       THEN Takes(q, "done", b) /\ UNCHANGED <<activating, control, owner, ownerOf>>
       ELSE /\ Takes(q, "connect", b) /\ activating' = [activating EXCEPT ![b] = q]
            /\ control' = [control EXCEPT ![b] = q]
            /\ owner' = [owner EXCEPT ![q] = "connecting"]
            /\ ownerOf' = [ownerOf EXCEPT ![q] = b]
    /\ UNCHANGED <<session, shutdown, connected, cutShort>> /\ UNCHANGED mcpDict

\* _deactivate() up to its wait for the owner; gone and going are where its
\* caller is when there is no owner, and while it waits.
Signal(q, b, gone, going) ==
    /\ activating[b] = Nobody
    /\ IF control[b] = Nobody
       THEN Takes(q, gone, b) /\ UNCHANGED <<activating, shutdown>>
       ELSE /\ Takes(q, going, b) /\ activating' = [activating EXCEPT ![b] = q]
            /\ shutdown' = shutdown \cup {control[b]}
    /\ UNCHANGED <<session, control, owner, ownerOf, connected, cutShort>>

\* The object has no session and no owner, and its lock is free.
Released(b) ==
    /\ session' = [session EXCEPT ![b] = Nobody]
    /\ control' = [control EXCEPT ![b] = Nobody]
    /\ activating' = [activating EXCEPT ![b] = Nobody]

\* The rest of _deactivate(), once the owner is done.
Deactivated(b) == owner[control[b]] = "done" /\ Released(b)

\* A request that finds the lock taken waits for it.
Queues(q, pc, b) ==
    /\ activating[b] # Nobody /\ Takes(q, pc, b)
    /\ UNCHANGED <<session, control, activating, owner, ownerOf, shutdown, connected,
                   cutShort>>
    /\ UNCHANGED mcpDict

Use(q, n) ==
    /\ connected /\ request[q].pc = "idle" /\ n \in Registered
    /\ Activate(q, Object(n)) \/ Queues(q, "use", Object(n))

UseLater(q) == request[q].pc = "use" /\ Activate(q, request[q].object)

Deactivate(q, n) ==
    /\ connected /\ request[q].pc = "idle" /\ n \in Registered
    /\ \/ Signal(q, Object(n), "done", "deactivating") /\ UNCHANGED mcpDict
       \/ Queues(q, "deactivate", Object(n))

DeactivateLater(q) ==
    /\ request[q].pc = "deactivate"
    /\ Signal(q, request[q].object, "done", "deactivating") /\ UNCHANGED mcpDict

DeactivateEnds(q) ==
    /\ request[q].pc = "deactivating" /\ Deactivated(request[q].object) /\ Goes(q, "done")
    /\ UNCHANGED <<owner, ownerOf, shutdown, connected, cutShort>> /\ UNCHANGED mcpDict

\* An activation that failed ends with its owner.
AbortEnds(q) ==
    /\ request[q].pc = "abort" /\ owner[q] = "done" /\ Goes(q, "done")
    /\ shutdown' = shutdown \cup {q}
    /\ control' = [control EXCEPT ![request[q].object] = Nobody]
    /\ activating' = [activating EXCEPT ![request[q].object] = Nobody]
    /\ UNCHANGED <<session, owner, ownerOf, connected, cutShort>> /\ UNCHANGED mcpDict

\* The client cancels a request, or is gone: an activation tells its owner to
\* shut down, and neither it nor a deactivation waits for the owner any more.
CancelRequest(q) ==
    LET b == request[q].object IN
    /\ request[q].pc \in Stages \ {"idle", "reload", "replacing", "done"}
    /\ Goes(q, "done")
    /\ IF Waiting(q)
       THEN UNCHANGED <<shutdown, control, activating, cutShort, session>>
       ELSE /\ shutdown' = shutdown \cup {control[b]}
            /\ cutShort' = cutShort \cup {b}
            /\ control' = [control EXCEPT ![b] = Nobody]
            /\ activating' = [activating EXCEPT ![b] = Nobody]
            /\ session' = IF request[q].pc = "deactivating"
                          THEN [session EXCEPT ![b] = Nobody] ELSE session
    /\ UNCHANGED <<owner, ownerOf, connected>> /\ UNCHANGED mcpDict

-----------------------------------------------------------------------------
(* reload_servers: a name is visited at a time, in any order.              *)

\* Somebody edits the configuration: a name is added, changed or removed.
EditFile(n) ==
    /\ \E v \in 1..MaxReloads :
           /\ \A m \in Names, q \in Requests : {file[m], seen[q][m]} \cap (v..MaxReloads) = {}
           /\ file' \in {[file EXCEPT ![n] = v], [file EXCEPT ![n] = Nobody]}
    /\ file' # file
    /\ UNCHANGED <<backends, session, control, activating, owner, ownerOf, shutdown,
                   request, left, seen, connected, cutShort, dropped>>

Reload(q) ==
    /\ connected /\ request[q].pc = "idle" /\ Goes(q, "reload")
    /\ left' = [left EXCEPT ![q] = Registered \cup {n \in Names : file[n] # Nobody}]
    /\ seen' = [seen EXCEPT ![q] = file]
    /\ UNCHANGED <<backends, session, control, activating, owner, ownerOf, shutdown,
                   file, connected, cutShort, dropped>>

\* To remove a name that another reload has removed raises KeyError, which ends this one.
Missing(q, n) == seen[q][n] = Nobody /\ n \notin Registered
After(q, n) == IF Missing(q, n) THEN "done" ELSE "reload"

\* The object a name stands for now is let go, and another takes the name.
Puts(q, n) ==
    /\ backends' = [backends EXCEPT ![n] = seen[q][n]]
    /\ left' = [left EXCEPT ![q] = IF Missing(q, n) THEN {} ELSE @ \ {n}]
    /\ dropped' = IF /\ n \in Registered
                     /\ \/ activating[Object(n)] \notin {Nobody, q}
                        \/ \E u \in Requests : request[u].object = Object(n) /\ Waiting(u)
                        \/ request[q].object[1] = n /\ request[q].object # Object(n)
                  THEN dropped \cup {Object(n)} ELSE dropped
    /\ UNCHANGED <<seen, file>>

\* Mutant: a changed backend is replaced at once, its session with it.
VisitAtOnce(q, n) ==
    /\ request[q].pc = "reload" /\ n \in left[q]
    /\ UNCHANGED request /\ Puts(q, n)
    /\ UNCHANGED <<session, control, activating, owner, ownerOf, shutdown, connected,
                   cutShort>>

\* A name that is as the file says stays, and one that stands for nothing, or for an
\* object without a session, is put or removed at once.
Visit(q, n) ==
    /\ request[q].pc = "reload" /\ n \in left[q]
    /\ \/ /\ n \in Registered /\ seen[q][n] = backends[n]
          /\ left' = [left EXCEPT ![q] = @ \ {n}]
          /\ UNCHANGED <<request, backends, seen, file, dropped>>
       \/ /\ n \in Registered => seen[q][n] # backends[n] /\ session[Object(n)] = Nobody
          /\ Goes(q, After(q, n)) /\ Puts(q, n)
    /\ UNCHANGED <<session, control, activating, owner, ownerOf, shutdown, connected,
                   cutShort>>

\* One with a session is deactivated first, behind its lock.
Unseat(q, n) ==
    /\ request[q].pc = "reload" /\ n \in left[q] \cap Registered
    /\ seen[q][n] # backends[n] /\ session[Object(n)] # Nobody
    /\ \/ Signal(q, Object(n), "reload", "replacing")
          /\ IF control[Object(n)] = Nobody THEN Puts(q, n) ELSE UNCHANGED mcpDict
       \/ Queues(q, "replace", Object(n))

UnseatLater(q) ==
    LET n == request[q].object[1] IN
    /\ request[q].pc = "replace" /\ Signal(q, request[q].object, After(q, n), "replacing")
    /\ IF control[request[q].object] = Nobody THEN Puts(q, n) ELSE UNCHANGED mcpDict

Replaced(q) ==
    /\ request[q].pc = "replacing" /\ Deactivated(request[q].object)
    /\ Goes(q, After(q, request[q].object[1])) /\ Puts(q, request[q].object[1])
    /\ UNCHANGED <<owner, ownerOf, shutdown, connected, cutShort>>

\* A reload that is cancelled there swallows it, and replaces the object with
\* its owner still closing.
CancelReload(q) ==
    LET b == request[q].object IN
    /\ request[q].pc = "replacing" /\ Goes(q, After(q, b[1]))
    /\ Released(b) /\ Puts(q, b[1]) /\ cutShort' = cutShort \cup {b}
    /\ UNCHANGED <<owner, ownerOf, shutdown, connected>>

ReloadEnds(q) ==
    /\ request[q].pc = "reload" /\ left[q] = {} /\ Goes(q, "done")
    /\ UNCHANGED <<backends, session, control, activating, owner, ownerOf, shutdown, left,
                   seen, file, connected, cutShort, dropped>>

-----------------------------------------------------------------------------
(* The end of the connection: requests are cancelled or end, then every    *)
(* backend of the dictionary that has a session is deactivated.            *)

Disconnect ==
    /\ connected /\ connected' = FALSE
    /\ UNCHANGED <<backends, session, control, activating, owner, ownerOf, shutdown, request,
                   left, seen, file, cutShort, dropped>>

Served == \A q \in Requests : request[q].pc \in {"idle", "done"}

CleanBegins(n) ==
    /\ ~connected /\ Served /\ n \in Registered
    /\ session[Object(n)] # Nobody /\ control[Object(n)] # Nobody
    /\ activating[Object(n)] = Nobody
    /\ activating' = [activating EXCEPT ![Object(n)] = Client]
    /\ shutdown' = shutdown \cup {control[Object(n)]}
    /\ UNCHANGED <<backends, session, control, owner, ownerOf, request, left, seen, file,
                   connected, cutShort, dropped>>

CleanEnds(n) ==
    /\ n \in Registered /\ activating[Object(n)] = Client /\ Deactivated(Object(n))
    /\ UNCHANGED <<backends, owner, ownerOf, shutdown, request, left, seen, file, connected,
                   cutShort, dropped>>

\* Nothing is left for the handler to do.
Cleaned ==
    /\ ~connected /\ Served
    /\ \A n \in Registered : /\ activating[Object(n)] = Nobody
                            /\ Nobody \in {session[Object(n)], control[Object(n)]}

McpNext ==
    \/ \E q \in Requests :
           \/ Connected(q) \/ HandshakeFails(q) \/ Closes(q)
           \/ OwnerForgets(q) \/ OwnerEnds(q)
           \/ UseLater(q) \/ DeactivateLater(q) \/ DeactivateEnds(q) \/ AbortEnds(q)
           \/ CancelRequest(q) \/ Reload(q) \/ UnseatLater(q) \/ Replaced(q) \/ CancelReload(q)
           \/ ReloadEnds(q)
           \/ \E n \in Names : Use(q, n) \/ Deactivate(q, n) \/ Visit(q, n) \/ Unseat(q, n)
    \/ \E n \in Names : EditFile(n) \/ CleanBegins(n) \/ CleanEnds(n)
    \/ Disconnect

-----------------------------------------------------------------------------
(* Properties.                                                             *)

Open(o) == owner[o] \in {"connecting", "live"}

\* A backend has at most one owner task that may yet touch its session, a closing one
\* included, unless one of its activations or deactivations was cancelled: the finally
\* of an owner (496-503) forgets whatever session the object has.  One that has done so,
\* and only closes its HTTP client, may overlap with the next.
OneOwner ==
    \A o, p \in Requests :
        (o # p /\ ownerOf[o] = ownerOf[p] /\ ownerOf[o] \notin cutShort)
            => ~({owner[o], owner[p]} \subseteq {"connecting", "live", "closing"})

\* A session that is not told to close can be closed: it is the session of an
\* object the dictionary still has, and the object holds its controls.  The two
\* ways to lose one are the history variables.
SessionsAreReachable ==
    \A o \in Requests :
        (owner[o] = "live" /\ o \notin shutdown /\ ownerOf[o] \notin cutShort \cup dropped)
            => /\ session[ownerOf[o]] = o /\ control[ownerOf[o]] = o
               /\ backends[ownerOf[o][1]] = ownerOf[o][2]

\* When the handler of a connection has ended, no session of it stays open but
\* one that was lost.
NothingLeftOpen ==
    Cleaned => \A o \in Requests :
        Open(o) => o \in shutdown \/ ownerOf[o] \in cutShort \cup dropped

\* What the router keeps of the sessions of its backends.
RouterKept == McpTypeOK /\ OneOwner /\ SessionsAreReachable /\ NothingLeftOpen

=============================================================================
