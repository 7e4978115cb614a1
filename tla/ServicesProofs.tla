--------------------------- MODULE ServicesProofs ---------------------------
(***************************************************************************)
(* The properties of the services beside the proxy, the MCP router, the    *)
(* index queue and the server of Graphify and the Freebuff instance, for   *)
(* every number of requests, backends, projects, calls, reloads, stops and *)
(* crashes.  Each part names those of its inductive invariant, shows that  *)
(* every action keeps them, and concludes.                                 *)
(***************************************************************************)
EXTENDS McpRouter, GraphifyIndex, GraphifyServer, FreebuffManager, FiniteSetTheorems, SequenceTheorems, TLAPS

-----------------------------------------------------------------------------
(* The sessions of the MCP router.                                         *)

Holding == {"connect", "abort", "deactivating", "replacing"}

\* Whoever holds the lock of an object is at the operation that took it.
LocksAreHeld ==
    /\ \A q \in Requests : request[q].pc \in Holding => activating[request[q].object] = q
    /\ \A b \in Objects : \A q \in Requests :
           activating[b] = q => request[q].pc \in Holding /\ request[q].object = b

\* What the holder of a lock waits for.
HoldersWait ==
    /\ \A q \in Requests :
           /\ request[q].pc \in {"use", "deactivate", "replace"} \cup Holding => request[q].object \in Objects
           /\ request[q].pc \in {"connect", "abort"} =>
                  control[request[q].object] = q /\ ownerOf[q] = request[q].object
           /\ request[q].pc = "connect" => owner[q] = "connecting"
           /\ request[q].pc = "abort" => owner[q] \in {"closing", "ending", "done"}
           /\ request[q].pc \in {"deactivating", "replacing"} =>
                  control[request[q].object] \in Requests
    /\ \A b \in Objects : activating[b] = Client => control[b] \in Requests

\* An owner is created once, for an object, and has its session while it lives.
OwnersAreNew ==
    /\ \A q \in Requests : request[q].pc \in {"idle", "use"} => owner[q] = "none"
    /\ \A q \in Requests : owner[q] # "none" => ownerOf[q] \in Objects
    /\ \A b \in Objects : \A o \in Requests :
           session[b] = o => ownerOf[o] = b /\ owner[o] \in {"live", "closing"}

Alive(o) == owner[o] \in {"connecting", "live", "closing"}

\* An owner that has not ended is the one its object knows.
OwnersAreKnown ==
    \A o \in Requests :
        Alive(o) /\ ownerOf[o] \notin cutShort =>
            /\ control[ownerOf[o]] = o
            /\ owner[o] = "connecting" => request[o].pc = "connect"
            /\ owner[o] = "live" => session[ownerOf[o]] = o
            /\ owner[o] = "closing" => session[ownerOf[o]] = o \/ request[o].pc = "abort"

Current(b) == backends[b[1]] = b[2]

\* An object that is activated, or about to be, is in the dictionary, unless it
\* was dropped.
UsedAreCurrent ==
    \A q \in Requests :
        /\ request[q].pc = "use" => Current(request[q].object) \/ request[q].object \in dropped
        /\ Open(q) /\ q \notin shutdown /\ ownerOf[q] \notin cutShort \cup dropped => Current(ownerOf[q])

SessionsInv == LocksAreHeld /\ HoldersWait /\ OwnersAreNew /\ OwnersAreKnown
RouterInv == McpTypeOK /\ SessionsInv /\ UsedAreCurrent

Requested == [pc : Stages, object : Objects \cup {NoObject}]
mcpSessions == <<session, control, activating, owner, ownerOf, cutShort>>

\* A request that goes on keeps its object.
LEMMA GoesFacts ==
    ASSUME McpTypeOK, NEW q \in Requests, NEW pc \in Stages, Goes(q, pc)
    PROVE  /\ request' \in [Requests -> Requested]
           /\ request'[q].pc = pc /\ request'[q].object = request[q].object
           /\ \A u \in Requests \ {q} : request'[u] = request[u]
<1>1. request \in [Requests -> Requested] /\ request[q] \in Requested
  BY DEF McpTypeOK, Requested
<1>2. /\ request[q] = [pc |-> request[q].pc, object |-> request[q].object]
      /\ request[q].object \in Objects \cup {NoObject}
  BY <1>1 DEF Requested
<1>3. [request[q] EXCEPT !.pc = pc] = [pc |-> pc, object |-> request[q].object]
  BY <1>2
<1>4. [pc |-> pc, object |-> request[q].object] \in Requested
  BY <1>2 DEF Requested
<1>5. request' = [request EXCEPT ![q] = [pc |-> pc, object |-> request[q].object]]
  BY <1>1, <1>3 DEF Goes
<1> QED  BY <1>1, <1>4, <1>5

\* One that takes up an object is at work on it.
LEMMA MovesFacts ==
    ASSUME McpTypeOK, NEW q \in Requests, NEW pc \in Stages, NEW b \in Objects, Takes(q, pc, b)
    PROVE  /\ request' \in [Requests -> Requested]
           /\ request'[q] = [pc |-> pc, object |-> b]
           /\ request'[q].pc = pc /\ request'[q].object = b
           /\ \A u \in Requests \ {q} : request'[u] = request[u]
<1>1. request \in [Requests -> Requested] /\ [pc |-> pc, object |-> b] \in Requested
  BY DEF McpTypeOK, Requested
<1> QED  BY <1>1 DEF Takes

\* A request that holds no lock, before or after, leaves the sessions as they are.
LEMMA MovesKeep ==
    ASSUME McpTypeOK, SessionsInv, NEW q \in Requests, UNCHANGED mcpSessions,
           request' \in [Requests -> Requested],
           \A u \in Requests \ {q} : request'[u] = request[u],
           request[q].pc \notin Holding, request'[q].pc \notin Holding \cup {"idle"},
           request'[q].pc \in {"use", "deactivate", "replace"} => request'[q].object \in Objects,
           request'[q].pc = "use" => request[q].pc = "idle"
    PROVE  SessionsInv'
<1>1. /\ UNCHANGED <<session, control, activating, owner, ownerOf, cutShort>>
      /\ Client \notin Requests
  BY McpRouterAssumption DEF mcpSessions
<1>2. LocksAreHeld'
  BY <1>1 DEF SessionsInv, LocksAreHeld, Holding
<1>3. HoldersWait'
  BY <1>1 DEF SessionsInv, HoldersWait, Holding
<1>4. OwnersAreNew'
  BY <1>1 DEF SessionsInv, OwnersAreNew
<1>5. OwnersAreKnown'
  <2> SUFFICES ASSUME NEW o \in Requests, Alive(o), ownerOf[o] \notin cutShort
               PROVE  /\ control[ownerOf[o]] = o
                      /\ owner[o] = "connecting" => request'[o].pc = "connect"
                      /\ owner[o] = "live" => session[ownerOf[o]] = o
                      /\ owner[o] = "closing" => session[ownerOf[o]] = o \/ request'[o].pc = "abort"
    BY <1>1 DEF OwnersAreKnown, Alive
  <2>1. /\ control[ownerOf[o]] = o
        /\ owner[o] = "connecting" => request[o].pc = "connect"
        /\ owner[o] = "live" => session[ownerOf[o]] = o
        /\ owner[o] = "closing" => session[ownerOf[o]] = o \/ request[o].pc = "abort"
    BY DEF SessionsInv, OwnersAreKnown
  <2>2. CASE o = q
    BY <2>1, <2>2 DEF Holding
  <2>3. CASE o # q
    BY <2>1, <2>3
  <2> QED  BY <2>2, <2>3
<1> QED  BY <1>2, <1>3, <1>4, <1>5 DEF SessionsInv

\* An object without a session, whose lock is free, gets its only owner.
LEMMA ActivateKeeps ==
    ASSUME McpTypeOK, SessionsInv, NEW q \in Requests, NEW b \in Objects,
           request[q].pc \in {"idle", "use"}, Activate(q, b)
    PROVE  SessionsInv'
<1>0. /\ session \in [Objects -> Requests \cup {Nobody}] /\ control \in [Objects -> Requests \cup {Nobody}]
      /\ activating \in [Objects -> Requests \cup {Client, Nobody}]
      /\ owner \in [Requests -> {"none", "connecting", "live", "closing", "ending", "done"}]
      /\ ownerOf \in [Requests -> Objects \cup {NoObject}]
      /\ Nobody \notin Requests /\ Client \notin Requests /\ Client # Nobody
      /\ activating[b] = Nobody /\ cutShort' = cutShort /\ session' = session
  BY McpRouterAssumption DEF McpTypeOK, Activate
<1>1. CASE session[b] # Nobody
  <2>1. Takes(q, "done", b) /\ UNCHANGED mcpSessions
    BY <1>1 DEF Activate, mcpSessions
  <2>2. "done" \in Stages
    BY DEF Stages
  <2>3. /\ request' \in [Requests -> Requested]
        /\ request'[q].pc = "done" /\ \A u \in Requests \ {q} : request'[u] = request[u]
    BY <2>1, <2>2, MovesFacts
  <2>4. /\ request[q].pc \notin Holding /\ request'[q].pc \notin Holding \cup {"idle"}
        /\ request'[q].pc \notin {"use", "deactivate", "replace"}
    BY <2>3 DEF Holding
  <2> QED  BY <2>1, <2>3, <2>4, MovesKeep
<1>2. CASE session[b] = Nobody
  <2>1. /\ Takes(q, "connect", b) /\ activating' = [activating EXCEPT ![b] = q]
        /\ control' = [control EXCEPT ![b] = q]
        /\ owner' = [owner EXCEPT ![q] = "connecting"]
        /\ ownerOf' = [ownerOf EXCEPT ![q] = b]
    BY <1>2 DEF Activate
  <2>2. "connect" \in Stages
    BY DEF Stages
  <2>3. /\ request'[q].pc = "connect" /\ request'[q].object = b
        /\ \A u \in Requests \ {q} : request'[u] = request[u]
    BY <2>1, <2>2, MovesFacts
  <2>4. /\ activating'[b] = q /\ \A d \in Objects \ {b} : activating'[d] = activating[d]
        /\ control'[b] = q /\ \A d \in Objects \ {b} : control'[d] = control[d]
        /\ owner'[q] = "connecting" /\ \A u \in Requests \ {q} : owner'[u] = owner[u]
        /\ ownerOf'[q] = b /\ \A u \in Requests \ {q} : ownerOf'[u] = ownerOf[u]
    BY <1>0, <2>1
  <2>5. /\ owner[q] = "none" /\ request[q].pc \notin Holding
        /\ \A d \in Objects : activating[d] # q /\ session[d] # q
        /\ \A u \in Requests : request[u].pc \in Holding => request[u].object \in Objects \ {b}
    BY <1>0 DEF SessionsInv, OwnersAreNew, LocksAreHeld, HoldersWait, Holding
  <2>6. \A o \in Requests : ownerOf[o] = b /\ b \notin cutShort => ~Alive(o)
    <3> SUFFICES ASSUME NEW o \in Requests, ownerOf[o] = b, b \notin cutShort, Alive(o) PROVE FALSE
      OBVIOUS
    <3>1. /\ owner[o] = "connecting" => request[o].pc = "connect"
          /\ owner[o] = "live" => session[b] = o
          /\ owner[o] = "closing" => session[b] = o \/ request[o].pc = "abort"
      BY DEF SessionsInv, OwnersAreKnown
    <3>2. request[o].pc \in {"connect", "abort"}
      BY <1>0, <1>2, <3>1 DEF Alive
    <3>3. request[o].object = b /\ request[o].pc \in Holding
      BY <3>2 DEF SessionsInv, HoldersWait, Holding
    <3> QED  BY <2>5, <3>3
  <2>7. LocksAreHeld'
    BY <1>0, <2>3, <2>4, <2>5 DEF SessionsInv, LocksAreHeld, Holding
  <2>8. HoldersWait'
    <3>1. ASSUME NEW u \in Requests, u # q
          PROVE  /\ request'[u].pc \in {"use", "deactivate", "replace"} \cup Holding => request'[u].object \in Objects
                 /\ request'[u].pc \in {"connect", "abort"} =>
                        control'[request'[u].object] = u /\ ownerOf'[u] = request'[u].object
                 /\ request'[u].pc = "connect" => owner'[u] = "connecting"
                 /\ request'[u].pc = "abort" => owner'[u] \in {"closing", "ending", "done"}
                 /\ request'[u].pc \in {"deactivating", "replacing"} =>
                        control'[request'[u].object] \in Requests
      BY <2>3, <2>4, <2>5, <3>1 DEF SessionsInv, HoldersWait, Holding
    <3>2. \A d \in Objects : activating'[d] = Client => control'[d] \in Requests
      BY <1>0, <2>4 DEF SessionsInv, HoldersWait
    <3> QED  BY <2>3, <2>4, <3>1, <3>2 DEF HoldersWait, Holding
  <2>9. OwnersAreNew'
    BY <1>0, <2>3, <2>4, <2>5 DEF SessionsInv, OwnersAreNew
  <2>10. OwnersAreKnown'
    <3> SUFFICES ASSUME NEW o \in Requests, Alive(o)', ownerOf'[o] \notin cutShort
                 PROVE  /\ control'[ownerOf'[o]] = o
                        /\ owner'[o] = "connecting" => request'[o].pc = "connect"
                        /\ owner'[o] = "live" => session[ownerOf'[o]] = o
                        /\ owner'[o] = "closing" => session[ownerOf'[o]] = o \/ request'[o].pc = "abort"
      BY <1>0 DEF OwnersAreKnown
    <3>1. CASE o = q
      BY <2>3, <2>4, <3>1
    <3>2. CASE o # q
      <4>1. Alive(o) /\ ownerOf[o] \notin cutShort /\ ownerOf[o] \in Objects \ {b}
        BY <2>4, <2>6, <3>2 DEF Alive, SessionsInv, OwnersAreNew
      <4> QED  BY <2>3, <2>4, <3>2, <4>1 DEF SessionsInv, OwnersAreKnown
    <3> QED  BY <3>1, <3>2
  <2> QED  BY <2>7, <2>8, <2>9, <2>10 DEF SessionsInv
<1> QED  BY <1>1, <1>2

\* Whoever tells an owner to shut down takes the lock and waits for it.
LEMMA SignalKeeps ==
    ASSUME McpTypeOK, SessionsInv, NEW q \in Requests, NEW b \in Objects,
           NEW gone \in {"done", "reload"}, NEW going \in {"deactivating", "replacing"},
           request[q].pc \in {"idle", "deactivate", "replace", "reload"}, Signal(q, b, gone, going)
    PROVE  SessionsInv'
<1>0. /\ control \in [Objects -> Requests \cup {Nobody}]
      /\ activating \in [Objects -> Requests \cup {Client, Nobody}]
      /\ Nobody \notin Requests /\ Client \notin Requests /\ Client # Nobody
      /\ activating[b] = Nobody /\ UNCHANGED <<session, control, owner, ownerOf, cutShort>>
      /\ gone \in Stages /\ going \in Stages /\ going \in Holding
  BY McpRouterAssumption DEF McpTypeOK, Signal, Stages, Holding
<1>1. CASE control[b] = Nobody
  <2>1. Takes(q, gone, b) /\ UNCHANGED mcpSessions
    BY <1>0, <1>1 DEF Signal, mcpSessions
  <2>2. /\ request' \in [Requests -> Requested]
        /\ request'[q].pc = gone /\ \A u \in Requests \ {q} : request'[u] = request[u]
    BY <1>0, <2>1, MovesFacts
  <2>3. /\ request[q].pc \notin Holding /\ request'[q].pc \notin Holding \cup {"idle"}
        /\ request'[q].pc \notin {"use", "deactivate", "replace"}
    BY <2>2 DEF Holding
  <2> QED  BY <2>1, <2>2, <2>3, MovesKeep
<1>2. CASE control[b] # Nobody
  <2>1. Takes(q, going, b) /\ activating' = [activating EXCEPT ![b] = q]
    BY <1>2 DEF Signal
  <2>2. /\ request'[q].pc = going /\ request'[q].object = b
        /\ \A u \in Requests \ {q} : request'[u] = request[u]
    BY ZenonT(40), <1>0, <2>1, MovesFacts
  <2>3. /\ activating'[b] = q /\ \A d \in Objects \ {b} : activating'[d] = activating[d]
        /\ control[b] \in Requests
    BY <1>0, <1>2, <2>1
  <2>4. /\ request[q].pc \notin Holding /\ \A d \in Objects : activating[d] # q
        /\ \A u \in Requests : request[u].pc \in Holding => request[u].object \in Objects \ {b}
    BY <1>0 DEF SessionsInv, LocksAreHeld, HoldersWait, Holding
  <2>5. LocksAreHeld'
    BY <1>0, <2>2, <2>3, <2>4 DEF SessionsInv, LocksAreHeld
  <2>6. HoldersWait'
    BY <1>0, <2>2, <2>3, <2>4 DEF SessionsInv, HoldersWait, Holding
  <2>7. OwnersAreNew'
    BY <1>0, <2>2 DEF SessionsInv, OwnersAreNew
  <2>8. OwnersAreKnown'
    <3> SUFFICES ASSUME NEW o \in Requests, Alive(o), ownerOf[o] \notin cutShort
                 PROVE  /\ control[ownerOf[o]] = o
                        /\ owner[o] = "connecting" => request'[o].pc = "connect"
                        /\ owner[o] = "live" => session[ownerOf[o]] = o
                        /\ owner[o] = "closing" => session[ownerOf[o]] = o \/ request'[o].pc = "abort"
      BY <1>0 DEF OwnersAreKnown, Alive
    <3>1. CASE o = q
      BY <3>1 DEF SessionsInv, OwnersAreKnown
    <3>2. CASE o # q
      BY <2>2, <3>2 DEF SessionsInv, OwnersAreKnown
    <3> QED  BY <3>1, <3>2
  <2> QED  BY <2>5, <2>6, <2>7, <2>8 DEF SessionsInv
<1> QED  BY <1>1, <1>2

\* The holder of a lock lets the object go: its owner has ended, or somebody
\* was cancelled.
LEMMA FreeKeeps ==
    ASSUME McpTypeOK, SessionsInv, NEW b \in Objects,
           control' = [control EXCEPT ![b] = Nobody], activating' = [activating EXCEPT ![b] = Nobody],
           session' \in {session, [session EXCEPT ![b] = Nobody]},
           UNCHANGED <<owner, ownerOf>>, cutShort \subseteq cutShort',
           \/ b \in cutShort'
           \/ control[b] \in Requests /\ owner[control[b]] = "done",
           request' \in [Requests -> Requested],
           \A u \in Requests : IF activating[b] = u THEN request'[u].pc \in {"done", "reload"}
                               ELSE request'[u] = request[u]
    PROVE  SessionsInv'
<1>0. /\ session \in [Objects -> Requests \cup {Nobody}] /\ control \in [Objects -> Requests \cup {Nobody}]
      /\ activating \in [Objects -> Requests \cup {Client, Nobody}]
      /\ Nobody \notin Requests /\ Client \notin Requests /\ Client # Nobody
  BY McpRouterAssumption DEF McpTypeOK
<1>1. /\ activating'[b] = Nobody /\ \A d \in Objects \ {b} : activating'[d] = activating[d]
      /\ control'[b] = Nobody /\ \A d \in Objects \ {b} : control'[d] = control[d]
      /\ session'[b] \in {Nobody, session[b]} /\ \A d \in Objects \ {b} : session'[d] = session[d]
  BY <1>0
<1>2. \A u \in Requests : request'[u].pc \in Holding \cup {"idle", "use", "deactivate", "replace"} =>
          activating[b] # u /\ request'[u] = request[u]
  BY DEF Holding
<1>3. \A u \in Requests : request'[u].pc \in Holding => request[u].object \in Objects \ {b}
  BY <1>2 DEF SessionsInv, LocksAreHeld, HoldersWait
<1>4. LocksAreHeld'
  <2>1. \A u \in Requests : request'[u].pc \in Holding => activating'[request'[u].object] = u
    BY <1>1, <1>2, <1>3 DEF SessionsInv, LocksAreHeld
  <2>2. ASSUME NEW d \in Objects, NEW u \in Requests, activating'[d] = u
        PROVE  request'[u].pc \in Holding /\ request'[u].object = d
    <3>1. d # b /\ activating[d] = u
      BY <1>0, <1>1, <2>2
    <3>2. request[u].pc \in Holding /\ request[u].object = d
      BY <3>1 DEF SessionsInv, LocksAreHeld
    <3>3. activating[b] # u
      BY <3>1, <3>2 DEF SessionsInv, LocksAreHeld
    <3> QED  BY <3>2, <3>3
  <2> QED  BY <2>1, <2>2 DEF LocksAreHeld
<1>5. HoldersWait'
  <2>1. ASSUME NEW u \in Requests
        PROVE  /\ request'[u].pc \in {"use", "deactivate", "replace"} \cup Holding => request'[u].object \in Objects
               /\ request'[u].pc \in {"connect", "abort"} =>
                      control'[request'[u].object] = u /\ ownerOf'[u] = request'[u].object
               /\ request'[u].pc = "connect" => owner'[u] = "connecting"
               /\ request'[u].pc = "abort" => owner'[u] \in {"closing", "ending", "done"}
               /\ request'[u].pc \in {"deactivating", "replacing"} =>
                      control'[request'[u].object] \in Requests
    BY <1>1, <1>2, <1>3 DEF SessionsInv, HoldersWait, Holding
  <2>2. \A d \in Objects : activating'[d] = Client => control'[d] \in Requests
    BY <1>0, <1>1 DEF SessionsInv, HoldersWait
  <2> QED  BY <2>1, <2>2 DEF HoldersWait
<1>6. OwnersAreNew'
  BY <1>0, <1>1, <1>2 DEF SessionsInv, OwnersAreNew
<1>7. OwnersAreKnown'
  <2> SUFFICES ASSUME NEW o \in Requests, Alive(o), ownerOf[o] \notin cutShort'
               PROVE  /\ control'[ownerOf[o]] = o
                      /\ owner[o] = "connecting" => request'[o].pc = "connect"
                      /\ owner[o] = "live" => session'[ownerOf[o]] = o
                      /\ owner[o] = "closing" => session'[ownerOf[o]] = o \/ request'[o].pc = "abort"
    BY DEF OwnersAreKnown, Alive
  <2>1. /\ control[ownerOf[o]] = o
        /\ owner[o] = "connecting" => request[o].pc = "connect"
        /\ owner[o] = "live" => session[ownerOf[o]] = o
        /\ owner[o] = "closing" => session[ownerOf[o]] = o \/ request[o].pc = "abort"
    BY DEF SessionsInv, OwnersAreKnown
  <2>2. ownerOf[o] \in Objects
    BY DEF SessionsInv, OwnersAreNew, Alive
  <2>3. ownerOf[o] # b
    BY <2>1 DEF Alive
  <2>4. request[o].pc \in {"connect", "abort"} => request'[o] = request[o]
    <3>1. request[o].pc \in {"connect", "abort"} => request[o].object = ownerOf[o]
      BY DEF SessionsInv, HoldersWait
    <3>2. activating[b] = o => request[o].object = b
      BY DEF SessionsInv, LocksAreHeld
    <3> QED  BY <2>3, <3>1, <3>2
  <2> QED  BY <1>1, <2>1, <2>2, <2>3, <2>4
<1> QED  BY <1>4, <1>5, <1>6, <1>7 DEF SessionsInv

\* What the dictionary has to know of an object does not change with it.
LEMMA UsedStays ==
    ASSUME UsedAreCurrent, UNCHANGED <<backends, dropped>>, cutShort \subseteq cutShort',
           \A q \in Requests : request'[q].pc = "use" =>
               \/ request[q].pc = "use" /\ request'[q].object = request[q].object
               \/ Current(request'[q].object),
           \A q \in Requests : owner'[q] \in {"connecting", "live"} /\ q \notin shutdown' =>
               \/ Open(q) /\ q \notin shutdown /\ ownerOf'[q] = ownerOf[q]
               \/ Current(ownerOf'[q]) \/ ownerOf'[q] \in dropped
    PROVE  UsedAreCurrent'
<1>1. \A b : backends'[b[1]] = backends[b[1]]
  OBVIOUS
<1>2. ASSUME NEW q \in Requests, request'[q].pc = "use"
      PROVE  backends[request'[q].object[1]] = request'[q].object[2] \/ request'[q].object \in dropped
  BY <1>2 DEF UsedAreCurrent, Current
<1>3. ASSUME NEW q \in Requests, owner'[q] \in {"connecting", "live"}, q \notin shutdown',
             ownerOf'[q] \notin cutShort' \cup dropped
      PROVE  backends[ownerOf'[q][1]] = ownerOf'[q][2]
  BY <1>3 DEF UsedAreCurrent, Current, Open
<1> QED  BY <1>1, <1>2, <1>3 DEF UsedAreCurrent, Current, Open

\* An object in use that is replaced is remembered as dropped.
LEMMA PutsKeep ==
    ASSUME RouterInv, NEW q \in Requests, NEW n \in Names, Puts(q, n),
           UNCHANGED <<owner, ownerOf>>, shutdown \subseteq shutdown', cutShort \subseteq cutShort',
           \A u \in Requests : request'[u].pc = "use" => request'[u] = request[u],
           \/ seen[q][n] = backends[n]
           \/ n \notin Registered
           \/ \A o \in Requests : Open(o) /\ ownerOf[o] = Object(n) => Object(n) \in cutShort' \cup dropped'
    PROVE  /\ UsedAreCurrent'
           /\ backends' \in [Names -> Versions \cup {Nobody}]
           /\ left' \in [Requests -> SUBSET Names] /\ dropped' \subseteq Objects
           /\ UNCHANGED <<seen, file>>
<1>0. /\ backends \in [Names -> Versions \cup {Nobody}] /\ left \in [Requests -> SUBSET Names]
      /\ seen \in [Requests -> [Names -> Versions \cup {Nobody}]] /\ dropped \subseteq Objects
      /\ seen[q] \in [Names -> Versions \cup {Nobody}] /\ Nobody \notin Versions
  BY McpRouterAssumption DEF RouterInv, McpTypeOK, Versions
<1>1. /\ backends' = [backends EXCEPT ![n] = seen[q][n]] /\ UNCHANGED <<seen, file>>
      /\ left' = [left EXCEPT ![q] = IF Missing(q, n) THEN {} ELSE @ \ {n}]
      /\ dropped' \in {dropped, dropped \cup {Object(n)}} /\ dropped \subseteq dropped'
      /\ n \notin Registered => dropped' = dropped
  BY DEF Puts
<1>2. n \in Registered => Object(n) \in Objects
  BY <1>0 DEF Registered, Object, Objects
<1>3. /\ backends' \in [Names -> Versions \cup {Nobody}] /\ backends'[n] = seen[q][n]
      /\ \A m \in Names \ {n} : backends'[m] = backends[m]
  BY <1>0, <1>1
<1>4. \A b \in Objects : /\ b[1] \in Names /\ b[2] \in Versions
                         /\ Current(b) /\ b[1] = n => n \in Registered /\ b = Object(n)
  BY <1>0 DEF Objects, Current, Registered, Object
<1>5. \A b \in Objects : Current(b) /\ b[1] # n => backends'[b[1]] = b[2]
  BY <1>3, <1>4 DEF Current
<1>6. ASSUME NEW u \in Requests, request'[u].pc = "use"
      PROVE  backends'[request'[u].object[1]] = request'[u].object[2] \/ request'[u].object \in dropped'
  <2>1. /\ request'[u] = request[u] /\ request[u].object \in Objects
        /\ Current(request[u].object) \/ request[u].object \in dropped
    BY <1>6 DEF RouterInv, UsedAreCurrent, SessionsInv, HoldersWait
  <2>2. CASE Current(request[u].object) /\ request[u].object[1] = n
    <3>1. n \in Registered /\ request[u].object = Object(n) /\ Waiting(u)
      BY <1>4, <1>6, <2>1, <2>2 DEF Waiting
    <3> QED  BY <2>1, <3>1 DEF Puts
  <2> QED  BY <1>1, <1>5, <2>1, <2>2
<1>7. ASSUME NEW o \in Requests, Open(o), o \notin shutdown', ownerOf[o] \notin cutShort' \cup dropped'
      PROVE  backends'[ownerOf[o][1]] = ownerOf[o][2]
  <2>1. ownerOf[o] \in Objects /\ Current(ownerOf[o])
    BY <1>1, <1>7 DEF RouterInv, UsedAreCurrent, SessionsInv, OwnersAreNew, Open
  <2>2. CASE ownerOf[o][1] = n
    <3>1. n \in Registered /\ ownerOf[o] = Object(n)
      BY <1>4, <2>1, <2>2
    <3>2. seen[q][n] = backends[n]
      BY <1>7, <3>1
    <3> QED  BY <1>3, <2>1, <2>2, <3>2 DEF Current
  <2> QED  BY <1>5, <2>1, <2>2
<1>8. UsedAreCurrent'
  BY <1>6, <1>7 DEF UsedAreCurrent, Current, Open
<1>9. left' \in [Requests -> SUBSET Names] /\ dropped' \subseteq Objects
  BY <1>0, <1>1, <1>2
<1> QED  BY <1>1, <1>3, <1>8, <1>9

\* The owner of a session connects, fails to, closes, and forgets it.
LEMMA OwnerKeeps ==
    ASSUME RouterInv, NEW o \in Requests,
           Connected(o) \/ HandshakeFails(o) \/ Closes(o) \/ OwnerForgets(o)
    PROVE  RouterInv'
<1> DEFINE b == ownerOf[o]
           moves == request[o].pc = "connect" /\ owner[o] = "connecting" /\ owner' # owner
<1>0. /\ session \in [Objects -> Requests \cup {Nobody}] /\ control \in [Objects -> Requests \cup {Nobody}]
      /\ activating \in [Objects -> Requests \cup {Client, Nobody}]
      /\ owner \in [Requests -> {"none", "connecting", "live", "closing", "ending", "done"}]
      /\ Nobody \notin Requests /\ Client \notin Requests /\ Client # Nobody
      /\ request \in [Requests -> Requested]
      /\ b \in Objects /\ owner[o] \in {"connecting", "live", "closing"}
      /\ UNCHANGED <<control, ownerOf, shutdown, connected, cutShort>> /\ UNCHANGED mcpDict
  BY McpRouterAssumption DEF RouterInv, McpTypeOK, SessionsInv, OwnersAreNew, Requested,
     Connected, HandshakeFails, Closes, OwnerForgets
<1>1. /\ owner' \in [Requests -> {"none", "connecting", "live", "closing", "ending", "done"}]
      /\ owner'[o] \in {"live", "closing", "ending", "done"} /\ \A u \in Requests \ {o} : owner'[u] = owner[u]
      /\ owner'[o] = "live" => owner[o] = "connecting"
      /\ owner'[o] \in {"ending", "done"} <=> owner[o] = "closing"
  BY <1>0 DEF Connected, HandshakeFails, Closes, OwnerForgets
<1>2. /\ session' = [session EXCEPT ![b] = session'[b]] /\ session'[b] \in {session[b], o, Nobody}
      /\ owner'[o] = "live" => session'[b] = o
      /\ owner[o] = "live" => session'[b] = session[b]
      /\ owner[o] = "connecting" => session'[b] = o \/ (session'[b] = session[b] /\ owner'[o] = "closing")
      /\ owner[o] = "closing" => session'[b] = Nobody
  BY <1>0 DEF Connected, HandshakeFails, Closes, OwnerForgets
<1>3. /\ session' \in [Objects -> Requests \cup {Nobody}]
      /\ \A d \in Objects \ {b} : session'[d] = session[d]
  BY <1>0, <1>2
<1>4. /\ request' \in [Requests -> Requested] /\ \A u \in Requests \ {o} : request'[u] = request[u]
      /\ request'[o].object = request[o].object
      /\ IF owner[o] = "connecting" /\ request[o].pc = "connect"
         THEN \/ request'[o].pc = "done" /\ activating' = [activating EXCEPT ![b] = Nobody] /\ session'[b] = o
              \/ request'[o].pc = "abort" /\ activating' = activating /\ owner'[o] = "closing"
         ELSE request' = request /\ activating' = activating
  <2>1. "done" \in Stages /\ "abort" \in Stages
    BY DEF Stages
  <2>2. CASE request' = request
    <3>1. activating' = activating /\ (owner[o] = "connecting" => request[o].pc # "connect")
      <4>1. CASE owner[o] = "connecting" /\ request[o].pc = "connect"
        <5>1. Goes(o, "done") \/ Goes(o, "abort")
          BY <4>1 DEF Connected, HandshakeFails, Closes, OwnerForgets
        <5>2. request'[o].pc \in {"done", "abort"}
          BY <2>1, <5>1, GoesFacts DEF RouterInv
        <5> QED  BY <2>2, <4>1, <5>2
      <4>2. CASE ~(owner[o] = "connecting" /\ request[o].pc = "connect")
        BY <4>2 DEF Connected, HandshakeFails, Closes, OwnerForgets
      <4> QED  BY <4>1, <4>2
    <3> QED  BY <1>0, <2>2, <3>1
  <2>3. CASE Connected(o) /\ request[o].pc = "connect"
    <3>1. /\ Goes(o, "done") /\ activating' = [activating EXCEPT ![b] = Nobody]
          /\ session' = [session EXCEPT ![b] = o] /\ owner[o] = "connecting"
      BY <2>3 DEF Connected
    <3>2. session'[b] = o
      BY <1>0, <3>1
    <3>3. /\ request' \in [Requests -> Requested] /\ \A u \in Requests \ {o} : request'[u] = request[u]
          /\ request'[o].object = request[o].object /\ request'[o].pc = "done"
      BY <2>1, <3>1, GoesFacts DEF RouterInv
    <3> QED  BY <3>1, <3>2, <3>3, <2>3
  <2>4. CASE HandshakeFails(o) /\ request[o].pc = "connect"
    <3>1. Goes(o, "abort") /\ activating' = activating /\ owner'[o] = "closing" /\ owner[o] = "connecting"
      BY <1>0, <2>4 DEF HandshakeFails
    <3>2. /\ request' \in [Requests -> Requested] /\ \A u \in Requests \ {o} : request'[u] = request[u]
          /\ request'[o].object = request[o].object /\ request'[o].pc = "abort"
      BY <2>1, <3>1, GoesFacts DEF RouterInv
    <3> QED  BY <3>1, <3>2, <2>4
  <2> QED  BY <2>2, <2>3, <2>4 DEF Connected, HandshakeFails, Closes, OwnerForgets
<1>5. activating' \in [Objects -> Requests \cup {Client, Nobody}]
  BY <1>0, <1>4
<1>6. McpTypeOK'
  BY <1>0, <1>1, <1>3, <1>4, <1>5 DEF RouterInv, McpTypeOK, Requested, mcpDict
<1> HIDE DEF b
<1>7. request[o].pc \in {"connect", "abort"} => request[o].object = b /\ activating[b] = o
  BY DEF RouterInv, SessionsInv, LocksAreHeld, HoldersWait, Holding, b
<1>8. LocksAreHeld'
  <2>1. CASE request'[o].pc = "done" /\ activating' = [activating EXCEPT ![b] = Nobody]
             /\ request[o].pc = "connect"
    <3>1. activating'[b] = Nobody /\ \A d \in Objects \ {b} : activating'[d] = activating[d]
      BY <1>0, <2>1
    <3>2. \A u \in Requests : request[u].pc \in Holding => request[u].object \in Objects
      BY DEF RouterInv, SessionsInv, HoldersWait
    <3>3. \A u \in Requests : request'[u].pc \in Holding => u # o
      BY <2>1 DEF Holding
    <3> QED  BY <1>0, <1>4, <1>7, <2>1, <3>1, <3>2, <3>3 DEF RouterInv, SessionsInv, LocksAreHeld
  <2>2. CASE /\ activating' = activating
             /\ request' = request \/ (request'[o].pc = "abort" /\ request[o].pc = "connect")
    BY <1>4, <2>2 DEF RouterInv, SessionsInv, LocksAreHeld, Holding
  <2> QED  BY <1>4, <2>1, <2>2
<1>9. HoldersWait'
  <2>1. \A d \in Objects : activating'[d] = Client => activating[d] = Client
    BY <1>0, <1>4
  <2>2. \A u \in Requests \ {o} : request[u].pc \in {"connect", "abort"} => owner'[u] = owner[u]
    BY <1>1
  <2>3. request[o].pc = "abort" => owner'[o] \in {"closing", "ending", "done"}
    BY <1>1 DEF RouterInv, SessionsInv, HoldersWait
  <2>4. request'[o].pc # "connect" /\ (request'[o].pc = "abort" => owner'[o] \in {"closing", "ending", "done"})
    BY <1>4, <2>3 DEF RouterInv, SessionsInv, HoldersWait
  <2>5. request'[o].pc \in Holding => request[o].pc \in Holding
    BY <1>4 DEF Holding
  <2> QED  BY <1>0, <1>1, <1>4, <2>1, <2>4, <2>5 DEF RouterInv, SessionsInv, HoldersWait, Holding
<1>10. OwnersAreNew'
  <2>1. \A u \in Requests : request'[u].pc \in {"idle", "use"} => owner'[u] = "none"
    BY <1>0, <1>1, <1>4 DEF RouterInv, SessionsInv, OwnersAreNew
  <2>2. ASSUME NEW d \in Objects, NEW u \in Requests, session'[d] = u
        PROVE  ownerOf[u] = d /\ owner'[u] \in {"live", "closing"}
    <3>1. CASE u = o
      <4>1. session[d] = o => d = b
        BY DEF RouterInv, SessionsInv, OwnersAreNew, b
      <4>2. d = b
        BY <1>3, <2>2, <3>1, <4>1
      <4> QED  BY <1>0, <1>1, <1>2, <2>2, <3>1, <4>2 DEF b
    <3>2. CASE u # o
      <4>1. session[d] = u
        BY <1>0, <1>2, <1>3, <2>2, <3>2
      <4> QED  BY <1>1, <3>2, <4>1 DEF RouterInv, SessionsInv, OwnersAreNew
    <3> QED  BY <3>1, <3>2
  <2>3. \A u \in Requests : owner'[u] # "none" => ownerOf[u] \in Objects
    BY <1>0, <1>1 DEF RouterInv, SessionsInv, OwnersAreNew, b
  <2> QED  BY <1>0, <2>1, <2>2, <2>3 DEF OwnersAreNew
<1>11. OwnersAreKnown'
  <2> SUFFICES ASSUME NEW u \in Requests, owner'[u] \in {"connecting", "live", "closing"},
                      ownerOf[u] \notin cutShort
               PROVE  /\ control[ownerOf[u]] = u
                      /\ owner'[u] = "connecting" => request'[u].pc = "connect"
                      /\ owner'[u] = "live" => session'[ownerOf[u]] = u
                      /\ owner'[u] = "closing" => session'[ownerOf[u]] = u \/ request'[u].pc = "abort"
    BY <1>0 DEF OwnersAreKnown, Alive
  <2>1. Alive(u)
    BY <1>0, <1>1 DEF Alive
  <2>2. /\ control[ownerOf[u]] = u
        /\ owner[u] = "connecting" => request[u].pc = "connect"
        /\ owner[u] = "live" => session[ownerOf[u]] = u
        /\ owner[u] = "closing" => session[ownerOf[u]] = u \/ request[u].pc = "abort"
    BY <2>1 DEF RouterInv, SessionsInv, OwnersAreKnown
  <2>3. CASE u = o
    <3>1. CASE owner[o] = "connecting"
      <4>1. request[o].pc = "connect"
        BY <2>2, <2>3, <3>1
      <4>2. session'[b] = o \/ (request'[o].pc = "abort" /\ owner'[o] = "closing")
        BY <1>4, <3>1, <4>1
      <4> QED  BY <1>1, <1>2, <2>2, <2>3, <3>1, <4>2 DEF b
    <3>2. CASE owner[o] = "live"
      <4>1. session[b] = o /\ session'[b] = o
        BY <1>2, <2>2, <2>3, <3>2 DEF b
      <4> QED  BY <1>1, <2>2, <2>3, <3>2, <4>1 DEF b
    <3>3. CASE owner[o] = "closing"
      BY <1>1, <2>3, <3>3
    <3> QED  BY <1>0, <3>1, <3>2, <3>3
  <2>4. CASE u # o
    <3>1. ownerOf[u] \in Objects
      BY <2>1 DEF RouterInv, SessionsInv, OwnersAreNew, Alive
    <3>2. ownerOf[u] # b
      <4> SUFFICES ASSUME ownerOf[u] = b PROVE FALSE
        OBVIOUS
      <4>1. control[b] = o
        BY <1>0 DEF RouterInv, SessionsInv, OwnersAreKnown, Alive, b
      <4> QED  BY <2>2, <2>4, <4>1
    <3> QED  BY <1>1, <1>3, <1>4, <2>2, <2>4, <3>1, <3>2
  <2> QED  BY <2>3, <2>4
<1>12. UsedAreCurrent'
  <2>1. \A q \in Requests : request'[q].pc = "use" => request'[q] = request[q]
    BY <1>4
  <2>2. \A q \in Requests : owner'[q] \in {"connecting", "live"} => Open(q)
    BY <1>1 DEF Open
  <2>3. UNCHANGED <<backends, dropped, ownerOf, shutdown, cutShort>>
    BY <1>0 DEF mcpDict
  <2> QED  BY <2>1, <2>2, <2>3, UsedStays DEF RouterInv
<1> QED  BY <1>6, <1>8, <1>9, <1>10, <1>11, <1>12 DEF RouterInv, SessionsInv

\* An owner whose session is forgotten ends, and touches nothing.
LEMMA EndKeeps == ASSUME RouterInv, NEW o \in Requests, OwnerEnds(o) PROVE RouterInv'
<1>1. /\ UNCHANGED <<session, control, activating, ownerOf, shutdown, request, connected, cutShort>>
      /\ UNCHANGED <<backends, left, seen, file, dropped>>
  BY DEF OwnerEnds, mcpDict
<1>2. /\ owner \in [Requests -> {"none", "connecting", "live", "closing", "ending", "done"}]
      /\ owner[o] = "ending" /\ owner' = [owner EXCEPT ![o] = "done"]
  BY DEF RouterInv, McpTypeOK, OwnerEnds
<1>3. /\ owner' \in [Requests -> {"none", "connecting", "live", "closing", "ending", "done"}]
      /\ owner'[o] = "done" /\ \A u \in Requests \ {o} : owner'[u] = owner[u]
  BY <1>2
<1>4. McpTypeOK'
  BY <1>1, <1>3 DEF RouterInv, McpTypeOK
<1>5. LocksAreHeld' /\ HoldersWait'
  BY <1>1, <1>2, <1>3 DEF RouterInv, SessionsInv, LocksAreHeld, HoldersWait
<1>6. OwnersAreNew' /\ OwnersAreKnown'
  BY <1>1, <1>2, <1>3 DEF RouterInv, SessionsInv, OwnersAreNew, OwnersAreKnown, Alive
<1>7. \A q \in Requests : owner'[q] \in {"connecting", "live"} => Open(q)
  BY <1>3 DEF Open
<1>8. UsedAreCurrent'
  BY <1>1, <1>7, UsedStays DEF RouterInv
<1> QED  BY <1>4, <1>5, <1>6, <1>8 DEF RouterInv, SessionsInv

\* The two halves of the types.
SessionTypes ==
    /\ session \in [Objects -> Requests \cup {Nobody}]
    /\ control \in [Objects -> Requests \cup {Nobody}]
    /\ activating \in [Objects -> Requests \cup {Client, Nobody}]
    /\ owner \in [Requests -> {"none", "connecting", "live", "closing", "ending", "done"}]
    /\ ownerOf \in [Requests -> Objects \cup {NoObject}] /\ shutdown \subseteq Requests
    /\ request \in [Requests -> Requested]
    /\ connected \in BOOLEAN /\ cutShort \subseteq Objects

DictTypes ==
    /\ backends \in [Names -> Versions \cup {Nobody}] /\ left \in [Requests -> SUBSET Names]
    /\ seen \in [Requests -> [Names -> Versions \cup {Nobody}]]
    /\ file \in [Names -> Versions \cup {Nobody}] /\ dropped \subseteq Objects

\* The invariant is the two halves of the types and what relates the states.
LEMMA TypesSplit ==
    RouterInv <=> SessionTypes /\ DictTypes /\ SessionsInv /\ UsedAreCurrent
BY DEF RouterInv, McpTypeOK, SessionTypes, DictTypes, Requested

\* What names a backend names an object, and the version is not Nobody.
LEMMA ObjectFacts ==
    ASSUME McpTypeOK, NEW n \in Registered
    PROVE  n \in Names /\ Object(n) \in Objects /\ Current(Object(n)) /\ Object(n)[1] = n
<1>1. backends \in [Names -> Versions \cup {Nobody}]
  BY DEF McpTypeOK
<1> QED  BY <1>1 DEF Registered, Object, Objects, Current

\* A request activates an object of the dictionary.
LEMMA ActivateRoutes ==
    ASSUME RouterInv, NEW q \in Requests, NEW b \in Objects, request[q].pc \in {"idle", "use"},
           Current(b) \/ b \in dropped, Activate(q, b)
    PROVE  RouterInv'
<1>0. SessionTypes /\ DictTypes /\ SessionsInv /\ UsedAreCurrent /\ McpTypeOK
  BY TypesSplit DEF RouterInv
<1>1. SessionsInv'
  BY <1>0, ActivateKeeps
<1>2. /\ UNCHANGED mcpDict /\ UNCHANGED <<session, shutdown, connected, cutShort>>
      /\ UNCHANGED <<backends, left, seen, file, dropped>>
  BY DEF Activate, mcpDict
<1>3. \/ Takes(q, "done", b) /\ UNCHANGED <<activating, control, owner, ownerOf>>
      \/ /\ Takes(q, "connect", b) /\ activating' = [activating EXCEPT ![b] = q]
         /\ control' = [control EXCEPT ![b] = q]
         /\ owner' = [owner EXCEPT ![q] = "connecting"]
         /\ ownerOf' = [ownerOf EXCEPT ![q] = b]
  BY DEF Activate
<1>4. "done" \in Stages /\ "connect" \in Stages
  BY DEF Stages
<1>5. /\ request' \in [Requests -> Requested] /\ request'[q].pc # "use"
      /\ \A u \in Requests \ {q} : request'[u] = request[u]
  <2>1. CASE Takes(q, "done", b)
    BY <1>0, <1>4, <2>1, MovesFacts
  <2>2. CASE Takes(q, "connect", b)
    BY <1>0, <1>4, <2>2, MovesFacts
  <2> QED  BY <1>3, <2>1, <2>2
<1>6. SessionTypes'
  BY SMTT(30), <1>0, <1>2, <1>3, <1>5 DEF SessionTypes, Requested
<1>7. DictTypes'
  BY <1>0, <1>2 DEF DictTypes
<1>8. UsedAreCurrent'
  <2>1. \A u \in Requests : request'[u].pc = "use" =>
            request[u].pc = "use" /\ request'[u].object = request[u].object
    BY <1>5
  <2>2. ASSUME NEW u \in Requests, owner'[u] \in {"connecting", "live"}, u \notin shutdown'
        PROVE  \/ Open(u) /\ u \notin shutdown /\ ownerOf'[u] = ownerOf[u]
               \/ Current(ownerOf'[u]) \/ ownerOf'[u] \in dropped
    BY <1>0, <1>2, <1>3, <2>2 DEF SessionTypes, Open
  <2> QED  BY <1>0, <1>2, <2>1, <2>2, UsedStays
<1> QED  BY <1>1, <1>6, <1>7, <1>8, TypesSplit DEF RouterInv, McpTypeOK, SessionTypes, DictTypes, Requested

\* A request waits for the lock of an object.
LEMMA QueuesRoute ==
    ASSUME RouterInv, NEW q \in Requests, NEW b \in Objects, NEW pc \in {"use", "deactivate", "replace"},
           request[q].pc \in {"idle", "reload"}, pc = "use" => request[q].pc = "idle" /\ Current(b),
           Queues(q, pc, b)
    PROVE  RouterInv'
<1>0. SessionTypes /\ DictTypes /\ SessionsInv /\ UsedAreCurrent /\ McpTypeOK
  BY TypesSplit DEF RouterInv
<1>1. /\ UNCHANGED mcpSessions /\ UNCHANGED <<shutdown, connected>> /\ Takes(q, pc, b)
      /\ UNCHANGED <<session, control, activating, owner, ownerOf, shutdown, connected, cutShort>>
      /\ UNCHANGED <<backends, left, seen, file, dropped>>
  BY DEF Queues, mcpSessions, mcpDict
<1>2. pc \in Stages
  BY DEF Stages
<1>3. /\ request' \in [Requests -> Requested]
      /\ request'[q].pc = pc /\ request'[q].object = b
      /\ \A u \in Requests \ {q} : request'[u] = request[u]
  BY <1>0, <1>1, <1>2, MovesFacts
<1>4. SessionsInv'
  <2>1. request[q].pc \notin Holding /\ request'[q].pc \notin Holding \cup {"idle"}
    BY <1>3 DEF Holding
  <2> QED  BY <1>0, <1>1, <1>3, <2>1, MovesKeep
<1>5. SessionTypes' /\ DictTypes'
  BY <1>0, <1>1, <1>3 DEF SessionTypes, DictTypes, Requested
<1>6. UsedAreCurrent'
  <2>1. \A u \in Requests : request'[u].pc = "use" =>
            \/ request[u].pc = "use" /\ request'[u].object = request[u].object
            \/ Current(request'[u].object)
    BY <1>3
  <2>2. \A u \in Requests : owner'[u] \in {"connecting", "live"} /\ u \notin shutdown' =>
            Open(u) /\ u \notin shutdown /\ ownerOf'[u] = ownerOf[u]
    BY <1>1 DEF Open
  <2> QED  BY <1>0, <1>1, <2>1, <2>2, UsedStays
<1> QED  BY <1>4, <1>5, <1>6 DEF RouterInv, McpTypeOK, SessionTypes, DictTypes, Requested

\* What telling an owner to shut down does besides taking the lock.
LEMMA SignalFacts ==
    ASSUME RouterInv, NEW q \in Requests, NEW b \in Objects,
           NEW gone \in {"done", "reload"}, NEW going \in {"deactivating", "replacing"},
           request[q].pc \in {"idle", "deactivate", "replace", "reload"}, Signal(q, b, gone, going)
    PROVE  /\ SessionsInv' /\ SessionTypes' /\ shutdown \subseteq shutdown'
           /\ UNCHANGED <<owner, ownerOf, cutShort>>
           /\ \A u \in Requests : request'[u].pc = "use" => request'[u] = request[u]
<1>0. SessionTypes /\ SessionsInv /\ McpTypeOK
  BY TypesSplit DEF RouterInv
<1>1. SessionsInv'
  BY <1>0, SignalKeeps
<1>2. /\ UNCHANGED <<session, control, owner, ownerOf, connected, cutShort>>
      /\ \/ Takes(q, gone, b) /\ UNCHANGED <<activating, shutdown>>
         \/ /\ Takes(q, going, b) /\ activating' = [activating EXCEPT ![b] = q]
            /\ shutdown' = shutdown \cup {control[b]} /\ control[b] # Nobody
  BY DEF Signal
<1>3. gone \in Stages /\ going \in Stages
  BY DEF Stages
<1>4. /\ request' \in [Requests -> Requested] /\ request'[q].pc # "use"
      /\ \A u \in Requests \ {q} : request'[u] = request[u]
  <2>1. CASE Takes(q, gone, b)
    BY <1>0, <1>3, <2>1, MovesFacts
  <2>2. CASE Takes(q, going, b)
    BY <1>0, <1>3, <2>2, MovesFacts
  <2> QED  BY <1>2, <2>1, <2>2
<1>5. SessionTypes'
  BY <1>0, <1>2, <1>4 DEF SessionTypes
<1> QED  BY <1>1, <1>2, <1>4, <1>5

\* An owner that is told to shut down takes nothing out of the dictionary.
LEMMA SignalRoutes ==
    ASSUME RouterInv, NEW q \in Requests, NEW b \in Objects,
           NEW gone \in {"done", "reload"}, NEW going \in {"deactivating", "replacing"},
           request[q].pc \in {"idle", "deactivate", "replace", "reload"}, Signal(q, b, gone, going),
           UNCHANGED mcpDict
    PROVE  RouterInv'
<1>0. SessionTypes /\ DictTypes /\ SessionsInv /\ UsedAreCurrent
  BY TypesSplit
<1>1. /\ SessionsInv' /\ SessionTypes' /\ shutdown \subseteq shutdown'
      /\ UNCHANGED <<owner, ownerOf, cutShort>>
      /\ \A u \in Requests : request'[u].pc = "use" => request'[u] = request[u]
  BY SignalFacts
<1>2. UNCHANGED <<backends, left, seen, file, dropped>>
  BY DEF mcpDict
<1>3. DictTypes'
  BY <1>0, <1>2 DEF DictTypes
<1>4. \A u \in Requests : owner'[u] \in {"connecting", "live"} /\ u \notin shutdown' =>
          Open(u) /\ u \notin shutdown /\ ownerOf'[u] = ownerOf[u]
  BY <1>1 DEF Open
<1>5. UsedAreCurrent'
  BY <1>0, <1>1, <1>2, <1>4, UsedStays
<1> QED  BY <1>1, <1>3, <1>5 DEF RouterInv, McpTypeOK, SessionTypes, DictTypes, Requested

\* An object that nobody shuts down any more is replaced by a reload.
LEMMA PutsRoute ==
    ASSUME RouterInv, SessionsInv', SessionTypes', NEW q \in Requests, NEW n \in Names, Puts(q, n),
           UNCHANGED <<owner, ownerOf>>, shutdown \subseteq shutdown', cutShort \subseteq cutShort',
           \A u \in Requests : request'[u].pc = "use" => request'[u] = request[u],
           \/ seen[q][n] = backends[n]
           \/ n \notin Registered
           \/ \A o \in Requests : Open(o) /\ ownerOf[o] = Object(n) => Object(n) \in cutShort' \cup dropped'
    PROVE  RouterInv'
<1>1. DictTypes
  BY TypesSplit
<1>2. /\ UsedAreCurrent'
      /\ backends' \in [Names -> Versions \cup {Nobody}]
      /\ left' \in [Requests -> SUBSET Names] /\ dropped' \subseteq Objects
      /\ UNCHANGED <<seen, file>>
  BY PutsKeep
<1>3. DictTypes'
  BY <1>1, <1>2 DEF DictTypes
<1> QED  BY <1>2, <1>3 DEF RouterInv, McpTypeOK, SessionTypes, DictTypes, Requested

\* A request lets go of the object whose lock it holds.
LEMMA LetGoFacts ==
    ASSUME RouterInv, NEW q \in Requests, request[q].pc \in Holding, NEW pc \in {"done", "reload"},
           Goes(q, pc), control' = [control EXCEPT ![request[q].object] = Nobody],
           activating' = [activating EXCEPT ![request[q].object] = Nobody],
           session' \in {session, [session EXCEPT ![request[q].object] = Nobody]},
           UNCHANGED <<owner, ownerOf, connected>>, shutdown' \subseteq Requests,
           cutShort \subseteq cutShort', cutShort' \subseteq Objects,
           \/ request[q].object \in cutShort'
           \/ control[request[q].object] \in Requests /\ owner[control[request[q].object]] = "done"
    PROVE  /\ SessionsInv' /\ SessionTypes'
           /\ \A u \in Requests : request'[u].pc = "use" => request'[u] = request[u]
<1> DEFINE b == request[q].object
<1>0. SessionTypes /\ SessionsInv /\ McpTypeOK
  BY TypesSplit DEF RouterInv
<1>1. b \in Objects /\ activating[b] = q
  BY <1>0 DEF SessionsInv, HoldersWait, LocksAreHeld
<1>2. pc \in Stages
  BY DEF Stages
<1>3. /\ request' \in [Requests -> Requested] /\ request'[q].pc = pc
      /\ request'[q].object = request[q].object
      /\ \A u \in Requests \ {q} : request'[u] = request[u]
  BY <1>0, <1>2, GoesFacts
<1>4. \A u \in Requests : IF activating[b] = u THEN request'[u].pc \in {"done", "reload"}
                          ELSE request'[u] = request[u]
  BY <1>1, <1>3
<1>5. /\ control' = [control EXCEPT ![b] = Nobody] /\ activating' = [activating EXCEPT ![b] = Nobody]
      /\ session' \in {session, [session EXCEPT ![b] = Nobody]}
      /\ b \in cutShort' \/ (control[b] \in Requests /\ owner[control[b]] = "done")
  OBVIOUS
<1> HIDE DEF b
<1>6. SessionsInv'
  BY <1>0, <1>1, <1>3, <1>4, <1>5, FreeKeeps
<1>7. SessionTypes'
  BY <1>0, <1>1, <1>3, <1>5 DEF SessionTypes
<1> QED  BY <1>3, <1>6, <1>7

\* Letting go of an object takes nothing out of the dictionary.
LEMMA LetGoRoutes ==
    ASSUME RouterInv, SessionsInv', SessionTypes', UNCHANGED <<owner, ownerOf>>, UNCHANGED mcpDict,
           shutdown \subseteq shutdown', cutShort \subseteq cutShort',
           \A u \in Requests : request'[u].pc = "use" => request'[u] = request[u]
    PROVE  RouterInv'
<1>0. DictTypes /\ UsedAreCurrent
  BY TypesSplit
<1>1. UNCHANGED <<backends, left, seen, file, dropped>>
  BY DEF mcpDict
<1>2. DictTypes'
  BY <1>0, <1>1 DEF DictTypes
<1>3. \A u \in Requests : owner'[u] \in {"connecting", "live"} /\ u \notin shutdown' =>
          Open(u) /\ u \notin shutdown /\ ownerOf'[u] = ownerOf[u]
  BY DEF Open
<1>4. UsedAreCurrent'
  BY <1>0, <1>1, <1>3, UsedStays
<1> QED  BY <1>2, <1>4 DEF RouterInv, McpTypeOK, SessionTypes, DictTypes, Requested

\* An owner of an object that no owner holds the controls of was cut short.
LEMMA NobodyOpen ==
    ASSUME RouterInv, NEW b \in Objects, control[b] = Nobody
    PROVE  \A o \in Requests : Open(o) /\ ownerOf[o] = b => b \in cutShort
<1> SUFFICES ASSUME NEW o \in Requests, Open(o), ownerOf[o] = b, b \notin cutShort PROVE FALSE
  OBVIOUS
<1>1. Nobody \notin Requests
  BY McpRouterAssumption
<1>2. control[b] = o
  BY DEF RouterInv, SessionsInv, OwnersAreKnown, Open, Alive
<1> QED  BY <1>1, <1>2

\* The requests that use and deactivate a server.
LEMMA UseRoutes ==
    ASSUME RouterInv, NEW q \in Requests, NEW n \in Names, Use(q, n) \/ Deactivate(q, n)
    PROVE  RouterInv'
<1>1. n \in Registered /\ request[q].pc = "idle" /\ McpTypeOK
  BY DEF Use, Deactivate, RouterInv
<1>2. Object(n) \in Objects /\ Current(Object(n))
  BY <1>1, ObjectFacts
<1>3. CASE Activate(q, Object(n))
  BY <1>1, <1>2, <1>3, ActivateRoutes
<1>4. CASE Queues(q, "use", Object(n))
  BY <1>1, <1>2, <1>4, QueuesRoute
<1>5. CASE Signal(q, Object(n), "done", "deactivating") /\ UNCHANGED mcpDict
  BY <1>1, <1>2, <1>5, SignalRoutes
<1>6. CASE Queues(q, "deactivate", Object(n))
  BY <1>1, <1>2, <1>6, QueuesRoute
<1> QED  BY <1>3, <1>4, <1>5, <1>6 DEF Use, Deactivate

\* The same, once the lock they waited for is free.
LEMMA LaterRoutes ==
    ASSUME RouterInv, NEW q \in Requests, UseLater(q) \/ DeactivateLater(q)
    PROVE  RouterInv'
<1>1. request[q].object \in Objects
  BY DEF UseLater, DeactivateLater, RouterInv, SessionsInv, HoldersWait
<1>2. CASE UseLater(q)
  <2>1. Current(request[q].object) \/ request[q].object \in dropped
    BY <1>2 DEF UseLater, RouterInv, UsedAreCurrent
  <2> QED  BY <1>1, <1>2, <2>1, ActivateRoutes DEF UseLater
<1>3. CASE DeactivateLater(q)
  BY <1>1, <1>3, SignalRoutes DEF DeactivateLater
<1> QED  BY <1>2, <1>3

\* A deactivation and an activation that failed end with the owner, and either
\* is cancelled.
LEMMA EndsRoute ==
    ASSUME RouterInv, NEW q \in Requests,
           DeactivateEnds(q) \/ AbortEnds(q) \/ CancelRequest(q)
    PROVE  RouterInv'
<1> DEFINE b == request[q].object
<1>0. SessionTypes /\ DictTypes /\ SessionsInv /\ UsedAreCurrent /\ McpTypeOK
  BY TypesSplit DEF RouterInv
<1>1. CASE DeactivateEnds(q)
  <2>1. /\ Goes(q, "done") /\ Deactivated(b) /\ request[q].pc \in Holding /\ request[q].pc = "deactivating"
        /\ UNCHANGED <<owner, ownerOf, shutdown, connected, cutShort>> /\ UNCHANGED mcpDict
    BY <1>1 DEF DeactivateEnds, Holding
  <2>2. control[b] \in Requests /\ owner[control[b]] = "done"
    BY <1>0, <2>1 DEF SessionsInv, HoldersWait, Deactivated
  <2>3. /\ control' = [control EXCEPT ![b] = Nobody] /\ activating' = [activating EXCEPT ![b] = Nobody]
        /\ session' = [session EXCEPT ![b] = Nobody] /\ shutdown' \subseteq Requests /\ cutShort' \subseteq Objects
    BY <1>0, <2>1 DEF Deactivated, Released, SessionTypes
  <2>4. /\ SessionsInv' /\ SessionTypes'
        /\ \A u \in Requests : request'[u].pc = "use" => request'[u] = request[u]
    BY <2>1, <2>2, <2>3, LetGoFacts
  <2> QED  BY <2>1, <2>4, LetGoRoutes
<1>2. CASE AbortEnds(q)
  <2>1. /\ Goes(q, "done") /\ request[q].pc \in Holding /\ request[q].pc = "abort" /\ owner[q] = "done"
        /\ control' = [control EXCEPT ![b] = Nobody] /\ activating' = [activating EXCEPT ![b] = Nobody]
        /\ UNCHANGED <<session, owner, ownerOf, connected, cutShort>> /\ UNCHANGED mcpDict
        /\ shutdown' = shutdown \cup {q}
    BY <1>2 DEF AbortEnds, Holding
  <2>2. control[b] = q /\ shutdown' \subseteq Requests /\ cutShort' \subseteq Objects
    BY <1>0, <2>1 DEF SessionsInv, HoldersWait, SessionTypes
  <2>3. /\ SessionsInv' /\ SessionTypes'
        /\ \A u \in Requests : request'[u].pc = "use" => request'[u] = request[u]
    BY <2>1, <2>2, LetGoFacts
  <2> QED  BY <2>1, <2>3, LetGoRoutes
<1>3. CASE CancelRequest(q)
  <2>1. /\ request[q].pc \in Stages \ {"idle", "reload", "replacing", "done"} /\ Goes(q, "done")
        /\ UNCHANGED <<owner, ownerOf, connected>> /\ UNCHANGED mcpDict
    BY <1>3 DEF CancelRequest
  <2>2. CASE Waiting(q)
    <3>1. UNCHANGED <<shutdown, control, activating, cutShort, session>>
      BY <1>3, <2>2 DEF CancelRequest
    <3>2. "done" \in Stages
      BY DEF Stages
    <3>3. /\ request' \in [Requests -> Requested] /\ request'[q].pc = "done"
          /\ request'[q].object = request[q].object
          /\ \A u \in Requests \ {q} : request'[u] = request[u]
      BY <1>0, <2>1, <3>2, GoesFacts
    <3>4. UNCHANGED mcpSessions
      BY <2>1, <3>1 DEF mcpSessions
    <3>5. request[q].pc \notin Holding /\ request'[q].pc \notin Holding \cup {"idle"}
      BY <2>2, <3>3 DEF Waiting, Holding
    <3>6. SessionsInv'
      BY <1>0, <3>3, <3>4, <3>5, MovesKeep
    <3>7. SessionTypes'
      BY <1>0, <2>1, <3>1, <3>3 DEF SessionTypes
    <3>8. \A u \in Requests : request'[u].pc = "use" => request'[u] = request[u]
      BY <3>3
    <3> QED  BY <2>1, <3>1, <3>6, <3>7, <3>8, LetGoRoutes
  <2>3. CASE ~Waiting(q)
    <3>1. /\ shutdown' = shutdown \cup {control[b]} /\ cutShort' = cutShort \cup {b}
          /\ control' = [control EXCEPT ![b] = Nobody] /\ activating' = [activating EXCEPT ![b] = Nobody]
          /\ session' \in {session, [session EXCEPT ![b] = Nobody]}
      BY <1>3, <2>3 DEF CancelRequest
    <3>2. request[q].pc \in {"connect", "abort", "deactivating"} /\ request[q].pc \in Holding
      BY <2>1, <2>3 DEF Waiting, Stages, Holding
    <3>3. control[b] \in Requests /\ b \in Objects
      BY <1>0, <3>2 DEF SessionsInv, HoldersWait, Holding
    <3>4. shutdown' \subseteq Requests /\ cutShort' \subseteq Objects /\ b \in cutShort'
          /\ shutdown \subseteq shutdown' /\ cutShort \subseteq cutShort'
      BY <1>0, <3>1, <3>3 DEF SessionTypes
    <3>5. /\ SessionsInv' /\ SessionTypes'
          /\ \A u \in Requests : request'[u].pc = "use" => request'[u] = request[u]
      BY <2>1, <3>1, <3>2, <3>4, LetGoFacts
    <3> QED  BY <2>1, <3>4, <3>5, LetGoRoutes
  <2> QED  BY <2>2, <2>3
<1> QED  BY <1>1, <1>2, <1>3

\* A reload visits a name.
LEMMA VisitRoutes ==
    ASSUME RouterInv, NEW q \in Requests, NEW n \in Names, Visit(q, n)
    PROVE  RouterInv'
<1>0. /\ SessionTypes /\ DictTypes /\ SessionsInv /\ UsedAreCurrent /\ McpTypeOK
      /\ Nobody \notin Requests
  BY TypesSplit, McpRouterAssumption DEF RouterInv
<1>1. /\ request[q].pc = "reload"
      /\ UNCHANGED <<session, control, activating, owner, ownerOf, shutdown, connected, cutShort>>
      /\ UNCHANGED mcpSessions
  BY DEF Visit, mcpSessions
<1>2. CASE /\ n \in Registered => seen[q][n] # backends[n] /\ session[Object(n)] = Nobody
           /\ Goes(q, After(q, n)) /\ Puts(q, n)
  <2>1. After(q, n) \in {"done", "reload"} /\ After(q, n) \in Stages
    BY DEF After, Stages
  <2>2. /\ request' \in [Requests -> Requested] /\ request'[q].pc = After(q, n)
        /\ request'[q].object = request[q].object
        /\ \A u \in Requests \ {q} : request'[u] = request[u]
    BY <1>0, <1>2, <2>1, GoesFacts
  <2>3. /\ request[q].pc \notin Holding /\ request'[q].pc \notin Holding \cup {"idle"}
        /\ request'[q].pc \notin {"use", "deactivate", "replace"}
    BY <1>1, <2>1, <2>2 DEF Holding
  <2>4. SessionsInv'
    BY <1>0, <1>1, <2>2, <2>3, MovesKeep
  <2>5. SessionTypes'
    BY <1>0, <1>1, <2>2 DEF SessionTypes
  <2>6. \A u \in Requests : request'[u].pc = "use" => request'[u] = request[u]
    BY <2>2, <2>3
  <2>7. ASSUME n \in Registered, NEW o \in Requests, Open(o), ownerOf[o] = Object(n)
        PROVE  Object(n) \in cutShort' \cup dropped'
    <3>0. Object(n) \in Objects /\ session[Object(n)] = Nobody
      BY <1>0, <1>2, <2>7, ObjectFacts
    <3>1. CASE Object(n) \notin cutShort
      <4>1. owner[o] = "connecting" /\ request[o].pc = "connect"
        BY <1>0, <2>7, <3>0, <3>1 DEF SessionsInv, OwnersAreKnown, Open, Alive
      <4>2. activating[Object(n)] = o /\ o # q
        BY <1>0, <1>1, <2>7, <4>1 DEF SessionsInv, HoldersWait, LocksAreHeld, Holding
      <4> QED  BY <1>0, <1>2, <2>7, <4>2 DEF Puts
    <3> QED  BY <1>1, <3>1
  <2>8. \/ n \notin Registered
        \/ \A o \in Requests : Open(o) /\ ownerOf[o] = Object(n) => Object(n) \in cutShort' \cup dropped'
    BY <2>7
  <2> QED  BY <1>1, <1>2, <2>4, <2>5, <2>6, <2>8, PutsRoute
<1>3. CASE left' = [left EXCEPT ![q] = @ \ {n}] /\ UNCHANGED <<request, backends, seen, file, dropped>>
  <2>1. SessionTypes' /\ DictTypes'
    BY <1>0, <1>1, <1>3 DEF SessionTypes, DictTypes
  <2>2. SessionsInv'
    BY <1>0, <1>1, <1>3 DEF SessionsInv, LocksAreHeld, HoldersWait, OwnersAreNew, OwnersAreKnown, Alive
  <2>3. UsedAreCurrent'
    BY <1>0, <1>1, <1>3 DEF UsedAreCurrent, Current, Open
  <2> QED  BY <2>1, <2>2, <2>3 DEF RouterInv, McpTypeOK, SessionTypes, DictTypes, Requested
<1> QED  BY <1>2, <1>3 DEF Visit

\* A backend with a session is deactivated before it is replaced, now or when
\* its lock is free.
LEMMA UnseatRoutes ==
    ASSUME RouterInv, NEW q \in Requests, \E n \in Names : Unseat(q, n) \/ (UnseatLater(q) /\ n = request[q].object[1])
    PROVE  RouterInv'
<1> PICK n \in Names : Unseat(q, n) \/ (UnseatLater(q) /\ n = request[q].object[1])
  OBVIOUS
<1>0. McpTypeOK
  BY DEF RouterInv
<1>1. ASSUME NEW b \in Objects, NEW gone \in {"done", "reload"}, request[q].pc \in {"reload", "replace"},
             Signal(q, b, gone, "replacing"),
             b[1] = n, b = Object(n) \/ (request[q].object = b /\ request[q].object # Object(n)),
             IF control[b] = Nobody THEN Puts(q, n) ELSE UNCHANGED mcpDict
      PROVE  RouterInv'
  <2>1. CASE control[b] = Nobody
    <3>1. Puts(q, n)
      BY <1>1, <2>1
    <3>2. /\ SessionsInv' /\ SessionTypes' /\ shutdown \subseteq shutdown'
          /\ UNCHANGED <<owner, ownerOf, cutShort>>
          /\ \A u \in Requests : request'[u].pc = "use" => request'[u] = request[u]
      BY <1>1, SignalFacts
    <3>3. \/ n \notin Registered
          \/ \A o \in Requests : Open(o) /\ ownerOf[o] = Object(n) => Object(n) \in cutShort' \cup dropped'
      <4>1. CASE b = Object(n)
        <5>1. \A o \in Requests : Open(o) /\ ownerOf[o] = b => b \in cutShort
          BY <2>1, NobodyOpen
        <5> QED  BY <3>2, <4>1, <5>1
      <4>2. CASE request[q].object = b /\ request[q].object # Object(n)
        BY <1>1, <3>1, <4>2 DEF Puts
      <4> QED  BY <1>1, <4>1, <4>2
    <3> QED  BY <3>1, <3>2, <3>3, PutsRoute
  <2>2. CASE control[b] # Nobody
    BY <1>1, <2>2, SignalRoutes
  <2> QED  BY <2>1, <2>2
<1>2. CASE Unseat(q, n)
  <2>1. n \in Registered /\ request[q].pc = "reload"
    BY <1>2 DEF Unseat
  <2>2. Object(n) \in Objects /\ Object(n)[1] = n
    BY <1>0, <2>1, ObjectFacts
  <2>3. CASE Queues(q, "replace", Object(n))
    BY <2>1, <2>2, <2>3, QueuesRoute
  <2>4. CASE /\ Signal(q, Object(n), "reload", "replacing")
             /\ IF control[Object(n)] = Nobody THEN Puts(q, n) ELSE UNCHANGED mcpDict
    BY <1>1, <2>1, <2>2, <2>4
  <2> QED  BY <1>2, <2>3, <2>4 DEF Unseat
<1>3. CASE UnseatLater(q) /\ n = request[q].object[1]
  <2>1. request[q].pc = "replace" /\ request[q].object \in Objects
    BY <1>3 DEF UnseatLater, RouterInv, SessionsInv, HoldersWait
  <2>2. /\ Signal(q, request[q].object, After(q, n), "replacing") /\ After(q, n) \in {"done", "reload"}
        /\ IF control[request[q].object] = Nobody THEN Puts(q, n) ELSE UNCHANGED mcpDict
    BY <1>3 DEF UnseatLater, After
  <2> QED  BY <1>1, <1>3, <2>1, <2>2
<1> QED  BY <1>2, <1>3

\* The owner of a backend that is replaced has ended, or the wait is cancelled.
LEMMA ReplacedRoutes ==
    ASSUME RouterInv, NEW q \in Requests, Replaced(q) \/ CancelReload(q)
    PROVE  RouterInv'
<1> DEFINE b == request[q].object
           n == b[1]
<1>0. SessionTypes /\ DictTypes /\ SessionsInv /\ UsedAreCurrent /\ McpTypeOK
  BY TypesSplit DEF RouterInv
<1>1. /\ request[q].pc = "replacing" /\ request[q].pc \in Holding
      /\ Goes(q, After(q, n)) /\ After(q, n) \in {"done", "reload"} /\ Released(b) /\ Puts(q, n)
      /\ UNCHANGED <<owner, ownerOf, shutdown, connected>>
      /\ \/ Replaced(q) /\ owner[control[b]] = "done" /\ cutShort' = cutShort
         \/ CancelReload(q) /\ cutShort' = cutShort \cup {b}
  BY DEF Replaced, CancelReload, Deactivated, Holding, After
<1>2. b \in Objects /\ control[b] \in Requests
  BY <1>0, <1>1 DEF SessionsInv, HoldersWait, Holding
<1>3. n \in Names
  BY <1>2 DEF Objects
<1>4. /\ control' = [control EXCEPT ![b] = Nobody] /\ activating' = [activating EXCEPT ![b] = Nobody]
      /\ session' = [session EXCEPT ![b] = Nobody] /\ shutdown' \subseteq Requests
      /\ cutShort \subseteq cutShort' /\ cutShort' \subseteq Objects
      /\ shutdown \subseteq shutdown'
      /\ b \in cutShort' \/ owner[control[b]] = "done"
  BY <1>0, <1>1, <1>2 DEF Released, SessionTypes
<1>5. /\ SessionsInv' /\ SessionTypes'
      /\ \A u \in Requests : request'[u].pc = "use" => request'[u] = request[u]
  BY <1>1, <1>2, <1>4, LetGoFacts
<1>6. \/ n \notin Registered
      \/ \A o \in Requests : Open(o) /\ ownerOf[o] = Object(n) => Object(n) \in cutShort' \cup dropped'
  <2>1. CASE b = Object(n)
    <3> SUFFICES ASSUME NEW o \in Requests, Open(o), ownerOf[o] = b, b \notin cutShort' PROVE FALSE
      BY <2>1
    <3>1. control[b] = o
      BY <1>0, <1>4 DEF SessionsInv, OwnersAreKnown, Open, Alive
    <3> QED  BY <1>4, <3>1 DEF Open
  <2>2. CASE b # Object(n)
    BY <1>1, <2>2 DEF Puts
  <2> QED  BY <2>1, <2>2
<1> HIDE DEF b, n
<1> QED  BY <1>1, <1>3, <1>4, <1>5, <1>6, PutsRoute

\* The remaining steps of a request: a reload begins and ends.
LEMMA ReloadRoutes ==
    ASSUME RouterInv, NEW q \in Requests, Reload(q) \/ ReloadEnds(q)
    PROVE  RouterInv'
<1> DEFINE pc == IF Reload(q) THEN "reload" ELSE "done"
<1>0. SessionTypes /\ DictTypes /\ SessionsInv /\ UsedAreCurrent /\ McpTypeOK
  BY TypesSplit DEF RouterInv
<1>1. /\ request[q].pc \in {"idle", "reload"} /\ Goes(q, pc) /\ pc \in {"reload", "done"}
      /\ UNCHANGED <<session, control, activating, owner, ownerOf, shutdown, connected, cutShort>>
      /\ UNCHANGED mcpSessions /\ UNCHANGED <<backends, file, dropped>>
  BY DEF Reload, ReloadEnds, mcpSessions
<1>2. left' \in [Requests -> SUBSET Names] /\ seen' \in [Requests -> [Names -> Versions \cup {Nobody}]]
  BY <1>0 DEF Reload, ReloadEnds, DictTypes, Registered
<1> HIDE DEF pc
<1>3. pc \in Stages
  BY <1>1 DEF Stages
<1>4. /\ request' \in [Requests -> Requested] /\ request'[q].pc = pc
      /\ request'[q].object = request[q].object
      /\ \A u \in Requests \ {q} : request'[u] = request[u]
  BY <1>0, <1>1, <1>3, GoesFacts
<1>5. request[q].pc \notin Holding /\ request'[q].pc \notin Holding \cup {"idle"}
  BY <1>1, <1>4 DEF Holding
<1>6. SessionsInv'
  BY <1>0, <1>1, <1>4, <1>5, MovesKeep
<1>7. SessionTypes' /\ DictTypes'
  BY <1>0, <1>1, <1>2, <1>4 DEF SessionTypes, DictTypes
<1>8. \A u \in Requests : request'[u].pc = "use" =>
          request[u].pc = "use" /\ request'[u].object = request[u].object
  BY <1>1, <1>4
<1>9. \A u \in Requests : owner'[u] \in {"connecting", "live"} /\ u \notin shutdown' =>
          Open(u) /\ u \notin shutdown /\ ownerOf'[u] = ownerOf[u]
  BY <1>1 DEF Open
<1>10. UsedAreCurrent'
  BY <1>0, <1>1, <1>8, <1>9, UsedStays
<1> QED  BY <1>6, <1>7, <1>10 DEF RouterInv, McpTypeOK, SessionTypes, DictTypes, Requested

\* The file is edited, and the client leaves.
LEMMA OutsideRoutes ==
    ASSUME RouterInv, (\E n \in Names : EditFile(n)) \/ Disconnect
    PROVE  RouterInv'
<1>0. SessionTypes /\ DictTypes /\ SessionsInv /\ UsedAreCurrent
  BY TypesSplit
<1>1. /\ UNCHANGED <<backends, session, control, activating, owner, ownerOf, shutdown, request,
                     left, seen, cutShort, dropped>>
      /\ connected' \in BOOLEAN
  BY <1>0 DEF EditFile, Disconnect, SessionTypes
<1>2. file' \in [Names -> Versions \cup {Nobody}]
  <2>1. CASE Disconnect
    BY <1>0, <2>1 DEF Disconnect, DictTypes
  <2>2. ASSUME NEW n \in Names, EditFile(n)
        PROVE  file' \in [Names -> Versions \cup {Nobody}]
    <3>1. PICK v \in 1..MaxReloads : file' \in {[file EXCEPT ![n] = v], [file EXCEPT ![n] = Nobody]}
      BY <2>2 DEF EditFile
    <3>2. v \in Versions
      BY McpRouterAssumption DEF Versions
    <3> QED  BY <1>0, <3>1, <3>2 DEF DictTypes
  <2> QED  BY <2>1, <2>2
<1>3. SessionsInv'
  BY <1>0, <1>1 DEF SessionsInv, LocksAreHeld, HoldersWait, OwnersAreNew, OwnersAreKnown, Alive
<1>4. SessionTypes' /\ DictTypes'
  BY <1>0, <1>1, <1>2 DEF SessionTypes, DictTypes
<1>5. UsedAreCurrent'
  BY <1>0, <1>1 DEF UsedAreCurrent, Current, Open
<1> QED  BY <1>3, <1>4, <1>5 DEF RouterInv, McpTypeOK, SessionTypes, DictTypes, Requested

\* The handler of the connection deactivates what is left.
LEMMA CleanRoutes ==
    ASSUME RouterInv, NEW n \in Names, CleanBegins(n) \/ CleanEnds(n)
    PROVE  RouterInv'
<1> DEFINE b == Object(n)
<1>0. /\ SessionTypes /\ DictTypes /\ SessionsInv /\ UsedAreCurrent /\ McpTypeOK
      /\ Nobody \notin Requests /\ Client \notin Requests /\ Client # Nobody
  BY TypesSplit, McpRouterAssumption DEF RouterInv
<1>1. b \in Objects
  BY <1>0, ObjectFacts DEF CleanBegins, CleanEnds
<1>2. CASE CleanBegins(n)
  <2>1. /\ control[b] \in Requests /\ activating[b] = Nobody
        /\ activating' = [activating EXCEPT ![b] = Client] /\ shutdown' = shutdown \cup {control[b]}
        /\ UNCHANGED <<backends, session, control, owner, ownerOf, request, left, seen, file,
                       connected, cutShort, dropped>>
    BY <1>0, <1>1, <1>2 DEF CleanBegins, SessionTypes
  <2> HIDE DEF b
  <2>2. SessionTypes' /\ DictTypes'
    BY <1>0, <1>1, <2>1 DEF SessionTypes, DictTypes
  <2>3. /\ activating'[b] = Client /\ \A d \in Objects \ {b} : activating'[d] = activating[d]
        /\ \A q \in Requests : request[q].pc \in Holding => request[q].object \in Objects \ {b}
    BY <1>0, <1>1, <2>1 DEF SessionTypes, SessionsInv, LocksAreHeld, HoldersWait
  <2>4. LocksAreHeld'
    BY <1>0, <1>1, <2>1, <2>3 DEF SessionsInv, LocksAreHeld
  <2>5. HoldersWait'
    BY <1>0, <1>1, <2>1, <2>3 DEF SessionsInv, HoldersWait
  <2>6. OwnersAreNew' /\ OwnersAreKnown'
    BY <1>0, <2>1 DEF SessionsInv, OwnersAreNew, OwnersAreKnown, Alive
  <2>7. UsedAreCurrent'
    BY <1>0, <2>1 DEF UsedAreCurrent, Current, Open
  <2> QED  BY <2>2, <2>4, <2>5, <2>6, <2>7 DEF RouterInv, SessionsInv, McpTypeOK, SessionTypes,
             DictTypes, Requested
<1>3. CASE CleanEnds(n)
  <2>1. /\ activating[b] = Client /\ owner[control[b]] = "done" /\ Released(b)
        /\ UNCHANGED <<backends, owner, ownerOf, shutdown, request, left, seen, file, connected,
                       cutShort, dropped>>
        /\ UNCHANGED mcpDict
    BY <1>3 DEF CleanEnds, Deactivated, mcpDict
  <2> HIDE DEF b
  <2>2. control[b] \in Requests
    BY <1>0, <1>1, <2>1 DEF SessionsInv, HoldersWait
  <2>3. /\ control' = [control EXCEPT ![b] = Nobody] /\ activating' = [activating EXCEPT ![b] = Nobody]
        /\ session' = [session EXCEPT ![b] = Nobody]
    BY <2>1 DEF Released
  <2>4. /\ request' \in [Requests -> Requested]
        /\ \A u \in Requests : IF activating[b] = u THEN request'[u].pc \in {"done", "reload"}
                               ELSE request'[u] = request[u]
    BY <1>0, <2>1 DEF SessionTypes
  <2>5. SessionsInv'
    BY <1>0, <1>1, <2>1, <2>2, <2>3, <2>4, FreeKeeps
  <2>6. SessionTypes'
    BY <1>0, <1>1, <2>1, <2>3 DEF SessionTypes
  <2>7. \A u \in Requests : request'[u].pc = "use" => request'[u] = request[u]
    BY <2>1
  <2> QED  BY <2>1, <2>5, <2>6, <2>7, LetGoRoutes
<1> QED  BY <1>2, <1>3

\* The invariant holds of the state a connection begins in.
LEMMA RouterStarts ==
    ASSUME McpInit PROVE RouterInv
<1>0. /\ Nobody \notin Requests /\ Client \notin Requests /\ Client # Nobody /\ 0 \in Versions
      /\ "idle" \in Stages
  BY McpRouterAssumption DEF Versions, Stages
<1>1. /\ \A q \in Requests : request[q].pc = "idle" /\ request[q].object = NoObject /\ owner[q] = "none"
      /\ \A b \in Objects : session[b] = Nobody /\ control[b] = Nobody /\ activating[b] = Nobody
  BY DEF McpInit
<1>2. McpTypeOK
  <2>1. request \in [Requests -> Requested]
    BY <1>0 DEF McpInit, Requested
  <2>2. file \in [Names -> Versions \cup {Nobody}]
    BY <1>0 DEF McpInit
  <2>3. seen \in [Requests -> [Names -> Versions \cup {Nobody}]]
    BY <2>2 DEF McpInit
  <2> QED  BY <2>1, <2>2, <2>3 DEF McpTypeOK, McpInit, Requested
<1>3. SessionsInv
  BY <1>0, <1>1 DEF SessionsInv, LocksAreHeld, HoldersWait, OwnersAreNew, OwnersAreKnown, Alive, Holding
<1>4. UsedAreCurrent
  BY <1>1 DEF UsedAreCurrent, Open
<1> QED  BY <1>2, <1>3, <1>4 DEF RouterInv

\* The invariant is what the router promises.
LEMMA RouterInvKeeps ==
    ASSUME RouterInv PROVE RouterKept
<1>0. /\ Nobody \notin Requests /\ Nobody \notin Versions
      /\ McpTypeOK /\ SessionsInv /\ UsedAreCurrent /\ SessionTypes /\ DictTypes
  BY McpRouterAssumption, TypesSplit DEF RouterInv, Versions
<1>1. OneOwner
  <2> SUFFICES ASSUME NEW o \in Requests, NEW p \in Requests, o # p, ownerOf[o] = ownerOf[p],
                      ownerOf[o] \notin cutShort, Alive(o), Alive(p)
               PROVE  FALSE
    BY DEF OneOwner, Alive
  <2> QED  BY <1>0 DEF SessionsInv, OwnersAreKnown
<1>2. SessionsAreReachable
  <2> SUFFICES ASSUME NEW o \in Requests, owner[o] = "live", o \notin shutdown,
                      ownerOf[o] \notin cutShort \cup dropped
               PROVE  /\ session[ownerOf[o]] = o /\ control[ownerOf[o]] = o
                      /\ backends[ownerOf[o][1]] = ownerOf[o][2]
    BY DEF SessionsAreReachable
  <2>1. Current(ownerOf[o])
    BY <1>0 DEF UsedAreCurrent, Open
  <2> QED  BY <1>0, <2>1 DEF SessionsInv, OwnersAreKnown, Alive, Current
<1>3. NothingLeftOpen
  <2> SUFFICES ASSUME Cleaned, NEW o \in Requests, Open(o), o \notin shutdown,
                      ownerOf[o] \notin cutShort \cup dropped
               PROVE  FALSE
    BY DEF NothingLeftOpen
  <2>1. ownerOf[o] \in Objects /\ Current(ownerOf[o])
    BY <1>0 DEF SessionsInv, OwnersAreNew, UsedAreCurrent, Open
  <2>2. /\ ownerOf[o][1] \in Names /\ ownerOf[o][2] \in Versions
        /\ ownerOf[o] = <<ownerOf[o][1], ownerOf[o][2]>>
    BY <2>1 DEF Objects
  <2>3. ownerOf[o][1] \in Registered /\ Object(ownerOf[o][1]) = ownerOf[o]
    BY <1>0, <2>1, <2>2 DEF Registered, Object, Current
  <2>4. owner[o] = "connecting" => request[o].pc = "connect"
    BY <1>0 DEF SessionsInv, OwnersAreKnown, Alive, Open
  <2>5. owner[o] = "live"
    BY <2>4 DEF Cleaned, Served, Open
  <2>6. session[ownerOf[o]] = o /\ control[ownerOf[o]] = o
    BY <1>0, <2>5 DEF SessionsInv, OwnersAreKnown, Alive
  <2> QED  BY <1>0, <2>3, <2>6 DEF Cleaned
<1> QED  BY <1>0, <1>1, <1>2, <1>3 DEF RouterKept

\* Every step keeps it.
LEMMA RouterSteps ==
    ASSUME RouterInv, [McpNext]_mcpVars PROVE RouterInv'
<1>1. CASE UNCHANGED mcpVars
  <2>1. UNCHANGED <<backends, session, control, activating, owner, ownerOf, shutdown, request,
                    left, seen, file, connected, cutShort, dropped>>
    BY <1>1 DEF mcpVars
  <2>2. McpTypeOK'
    BY <2>1 DEF RouterInv, McpTypeOK
  <2>3. SessionsInv'
    BY <2>1 DEF RouterInv, SessionsInv, LocksAreHeld, HoldersWait, OwnersAreNew, OwnersAreKnown, Alive
  <2>4. UsedAreCurrent'
    BY <2>1 DEF RouterInv, UsedAreCurrent, Current, Open
  <2> QED  BY <2>2, <2>3, <2>4 DEF RouterInv
<1>2. ASSUME NEW q \in Requests,
             \/ Connected(q) \/ HandshakeFails(q) \/ Closes(q) \/ OwnerForgets(q) \/ OwnerEnds(q)
      PROVE  RouterInv'
  BY <1>2, OwnerKeeps, EndKeeps
<1>3. ASSUME NEW q \in Requests, UseLater(q) \/ DeactivateLater(q) PROVE RouterInv'
  BY <1>3, LaterRoutes
<1>4. ASSUME NEW q \in Requests, DeactivateEnds(q) \/ AbortEnds(q) \/ CancelRequest(q) PROVE RouterInv'
  BY <1>4, EndsRoute
<1>5. ASSUME NEW q \in Requests, Reload(q) \/ ReloadEnds(q) PROVE RouterInv'
  BY <1>5, ReloadRoutes
<1>6. ASSUME NEW q \in Requests, UnseatLater(q) PROVE RouterInv'
  <2>1. request[q].object[1] \in Names
    BY <1>6 DEF UnseatLater, RouterInv, SessionsInv, HoldersWait, Objects
  <2> QED  BY <1>6, <2>1, UnseatRoutes
<1>7. ASSUME NEW q \in Requests, Replaced(q) \/ CancelReload(q) PROVE RouterInv'
  BY <1>7, ReplacedRoutes
<1>8. ASSUME NEW q \in Requests, NEW n \in Names, Use(q, n) \/ Deactivate(q, n) PROVE RouterInv'
  BY <1>8, UseRoutes
<1>9. ASSUME NEW q \in Requests, NEW n \in Names, Visit(q, n) PROVE RouterInv'
  BY <1>9, VisitRoutes
<1>10. ASSUME NEW q \in Requests, NEW n \in Names, Unseat(q, n) PROVE RouterInv'
  BY <1>10, UnseatRoutes
<1>11. ASSUME NEW n \in Names, CleanBegins(n) \/ CleanEnds(n) PROVE RouterInv'
  BY <1>11, CleanRoutes
<1>12. ASSUME (\E n \in Names : EditFile(n)) \/ Disconnect PROVE RouterInv'
  BY <1>12, OutsideRoutes
<1> QED  BY <1>1, <1>2, <1>3, <1>4, <1>5, <1>6, <1>7, <1>8, <1>9, <1>10, <1>11, <1>12 DEF McpNext

\* In every connection of the MCP router, whatever its requests, names and
\* reloads: a backend has one owner task at a time, a session that nobody told
\* to close can be closed, and none stays open when the handler has ended,
\* unless a cancellation or an overlapping reload lost it.
THEOREM RouterIsKept == McpInit /\ [][McpNext]_mcpVars => []RouterKept
<1>1. McpInit => RouterInv
  BY RouterStarts
<1>2. RouterInv /\ [McpNext]_mcpVars => RouterInv'
  BY RouterSteps
<1>3. RouterInv => RouterKept
  BY RouterInvKeeps
<1> QED  BY <1>1, <1>2, <1>3, PTL

-----------------------------------------------------------------------------
(* The index queue of Graphify.                                            *)

\* The queue names each project once, and the set beside it the same ones.
QueueIsASet == QueuedProjects = queuePaths /\ IsInjective(indexQueue) /\ current \notin queuePaths

\* The worker has a project while it prepares and extracts it, and only then.
WorkersProject == IF stage \in {"setup", "extract"} THEN current \in Projects ELSE current = NoProject

\* The extractions of a project that still run: at most one for each time the
\* worker was lost, and that of the worker.
Attempt(x) == IF stage = "extract" /\ current = x /\ budget >= MinBudget THEN 1 ELSE 0
ExtractionsCounted ==
    \A x \in Projects : Attempt(x) <= extracting[x] /\ extracting[x] <= lives + Attempt(x)

\* A project that is queued, or taken and not yet extracted, is not called
\* "indexing", and the registry loaded before an extraction calls no other so.
QueuedIsNotIndexing ==
    AutoIndex => \A x \in Projects :
        /\ registry[x] = "indexing" => x \notin queuePaths /\ ~(stage = "setup" /\ x = current)
        /\ stage = "extract" /\ copy[x] = "indexing" => x = current

\* What that registry calls queued still is.
CopyIsReal ==
    stage = "extract" => \A x \in Projects :
        copy[x] = "queued" => x \in queuePaths \cup {current} \cup abandoned

IndexInv ==
    /\ IndexTypeOK /\ QueueIsASet /\ WorkersProject /\ ExtractionsCounted
    /\ QueuedIsNotIndexing /\ CopyIsReal /\ IndexingIsReal /\ QueuedIsReal

\* What joining two sequences does to the set of their elements.
LEMMA JoinedRange ==
    ASSUME NEW S, NEW s \in Seq(S), NEW u \in Seq(S)
    PROVE  s \o u \in Seq(S) /\ Range(s \o u) = Range(s) \cup Range(u)
<1>1. /\ s \o u \in Seq(S) /\ Len(s \o u) = Len(s) + Len(u)
      /\ \A i \in 1..(Len(s) + Len(u)) : (s \o u)[i] = IF i <= Len(s) THEN s[i] ELSE u[i - Len(s)]
  BY ConcatProperties
<1>2. /\ Len(s) \in Nat /\ Len(u) \in Nat /\ DOMAIN s = 1..Len(s) /\ DOMAIN u = 1..Len(u)
      /\ DOMAIN (s \o u) = 1..(Len(s) + Len(u))
  BY <1>1, LenProperties
<1>3. ASSUME NEW x \in Range(s \o u) PROVE x \in Range(s) \cup Range(u)
  <2>1. PICK i \in 1..(Len(s) + Len(u)) : x = (s \o u)[i]
    BY <1>2, <1>3 DEF Range
  <2>2. CASE i <= Len(s)
    <3>1. i \in DOMAIN s /\ x = s[i]
      BY <1>1, <1>2, <2>1, <2>2
    <3> QED  BY <3>1 DEF Range
  <2>3. CASE ~(i <= Len(s))
    <3>1. i - Len(s) \in DOMAIN u /\ x = u[i - Len(s)]
      BY <1>1, <1>2, <2>1, <2>3
    <3> QED  BY <3>1 DEF Range
  <2> QED  BY <2>2, <2>3
<1>4. ASSUME NEW x \in Range(s) PROVE x \in Range(s \o u)
  <2>1. PICK i \in 1..Len(s) : x = s[i]
    BY <1>2, <1>4 DEF Range
  <2>2. i \in DOMAIN (s \o u) /\ (s \o u)[i] = x
    BY <1>1, <1>2, <2>1
  <2> QED  BY <2>2 DEF Range
<1>5. ASSUME NEW x \in Range(u) PROVE x \in Range(s \o u)
  <2>1. PICK i \in 1..Len(u) : x = u[i]
    BY <1>2, <1>5 DEF Range
  <2>2. i + Len(s) \in DOMAIN (s \o u) /\ (s \o u)[i + Len(s)] = u[(i + Len(s)) - Len(s)]
    BY <1>1, <1>2, <2>1
  <2>3. (i + Len(s)) - Len(s) = i
    BY <1>2, <2>1
  <2> QED  BY <2>1, <2>2, <2>3 DEF Range
<1> QED  BY <1>1, <1>3, <1>4, <1>5

\* Two sequences without repetitions that share no element join into another.
LEMMA JoinedInjective ==
    ASSUME NEW S, NEW s \in Seq(S), NEW u \in Seq(S), IsInjective(s), IsInjective(u),
           Range(s) \cap Range(u) = {}
    PROVE  IsInjective(s \o u)
<1>1. /\ s \o u \in Seq(S) /\ Len(s \o u) = Len(s) + Len(u)
      /\ \A i \in 1..(Len(s) + Len(u)) : (s \o u)[i] = IF i <= Len(s) THEN s[i] ELSE u[i - Len(s)]
  BY ConcatProperties
<1>2. /\ Len(s) \in Nat /\ Len(u) \in Nat /\ DOMAIN s = 1..Len(s) /\ DOMAIN u = 1..Len(u)
      /\ DOMAIN (s \o u) = 1..(Len(s) + Len(u))
  BY <1>1, LenProperties
<1>3. \A i \in 1..Len(s), j \in 1..Len(u) : s[i] # u[j]
  BY <1>2 DEF Range
<1>4. /\ \A i, j \in 1..Len(s) : s[i] = s[j] => i = j
      /\ \A i, j \in 1..Len(u) : u[i] = u[j] => i = j
  BY <1>2 DEF IsInjective
<1> SUFFICES ASSUME NEW i \in 1..(Len(s) + Len(u)), NEW j \in 1..(Len(s) + Len(u)),
                    (s \o u)[i] = (s \o u)[j]
             PROVE  i = j
  BY <1>2 DEF IsInjective
<1>5. CASE i <= Len(s) /\ j <= Len(s)
  BY <1>1, <1>2, <1>4, <1>5
<1>6. CASE i > Len(s) /\ j > Len(s)
  <2>1. i - Len(s) \in 1..Len(u) /\ j - Len(s) \in 1..Len(u) /\ u[i - Len(s)] = u[j - Len(s)]
    BY <1>1, <1>2, <1>6
  <2>2. i - Len(s) = j - Len(s)
    BY <1>4, <2>1
  <2> QED  BY <1>2, <2>2
<1>7. CASE i <= Len(s) /\ j > Len(s)
  <2>1. i \in 1..Len(s) /\ j - Len(s) \in 1..Len(u) /\ s[i] = u[j - Len(s)]
    BY <1>1, <1>2, <1>7
  <2> QED  BY <1>3, <2>1
<1>8. CASE i > Len(s) /\ j <= Len(s)
  <2>1. j \in 1..Len(s) /\ i - Len(s) \in 1..Len(u) /\ s[j] = u[i - Len(s)]
    BY <1>1, <1>2, <1>8
  <2> QED  BY <1>3, <2>1
<1> QED  BY <1>2, <1>5, <1>6, <1>7, <1>8

\* The head of such a sequence is not in its tail.
LEMMA TakenFacts ==
    ASSUME NEW S, NEW s \in Seq(S), s # <<>>, IsInjective(s)
    PROVE  /\ Tail(s) \in Seq(S) /\ IsInjective(Tail(s)) /\ Head(s) \in S
           /\ Head(s) \in Range(s) /\ Range(Tail(s)) = Range(s) \ {Head(s)}
<1>1. /\ Head(s) \in S /\ Tail(s) \in Seq(S) /\ Len(Tail(s)) = Len(s) - 1
      /\ \A i \in 1..Len(Tail(s)) : Tail(s)[i] = s[i + 1]
  BY HeadTailProperties
<1>2. /\ Len(s) \in Nat \ {0} /\ DOMAIN s = 1..Len(s) /\ DOMAIN Tail(s) = 1..(Len(s) - 1)
      /\ Head(s) = s[1]
  BY <1>1, LenProperties, EmptySeq
<1>3. \A i, j \in 1..Len(s) : s[i] = s[j] => i = j
  BY <1>2 DEF IsInjective
<1>4. IsInjective(Tail(s))
  <2> SUFFICES ASSUME NEW i \in 1..(Len(s) - 1), NEW j \in 1..(Len(s) - 1), Tail(s)[i] = Tail(s)[j]
               PROVE  i = j
    BY <1>2 DEF IsInjective
  <2>1. i + 1 \in 1..Len(s) /\ j + 1 \in 1..Len(s) /\ s[i + 1] = s[j + 1]
    BY <1>1, <1>2
  <2>2. i + 1 = j + 1
    BY <1>3, <2>1
  <2> QED  BY <2>2
<1>5. Head(s) \in Range(s)
  BY <1>2 DEF Range
<1>6. ASSUME NEW x \in Range(Tail(s)) PROVE x \in Range(s) \ {Head(s)}
  <2>1. PICK i \in 1..(Len(s) - 1) : x = Tail(s)[i]
    BY <1>2, <1>6 DEF Range
  <2>2. i + 1 \in 1..Len(s) /\ x = s[i + 1] /\ i + 1 # 1 /\ 1 \in 1..Len(s)
    BY <1>1, <1>2, <2>1
  <2>3. x # s[1]
    BY <1>3, <2>2
  <2> QED  BY <1>2, <2>2, <2>3 DEF Range
<1>7. ASSUME NEW x \in Range(s) \ {Head(s)} PROVE x \in Range(Tail(s))
  <2>1. PICK i \in 1..Len(s) : x = s[i]
    BY <1>2, <1>7 DEF Range
  <2>2. i # 1
    BY <1>2, <1>7, <2>1
  <2>3. i - 1 \in 1..(Len(s) - 1) /\ Tail(s)[i - 1] = s[(i - 1) + 1] /\ (i - 1) + 1 = i
    BY <1>1, <1>2, <2>1, <2>2
  <2> QED  BY <1>2, <2>1, <2>3 DEF Range
<1> QED  BY <1>1, <1>4, <1>5, <1>6, <1>7

\* Such a sequence is as long as the set of its elements is large.
LEMMA CountedQueue ==
    ASSUME NEW S, NEW s \in Seq(S), IsInjective(s)
    PROVE  Cardinality(Range(s)) = Len(s)
<1>1. Len(s) \in Nat /\ DOMAIN s = 1..Len(s) /\ s \in [1..Len(s) -> S]
  BY LenProperties
<1>2. s \in [1..Len(s) -> Range(s)]
  BY <1>1 DEF Range
<1>3. s \in Bijection(1..Len(s), Range(s))
  BY <1>1, <1>2 DEF Bijection, Injection, Surjection, Range
<1>4. ExistsBijection(1..Len(s), Range(s))
  BY <1>3 DEF ExistsBijection
<1> QED  BY <1>1, <1>4, FS_CountingElements

\* As many different members as a finite set has are all of them.
LEMMA AllOfThem ==
    ASSUME NEW S, IsFiniteSet(S), NEW s \in [1..Cardinality(S) -> S], IsInjective(s)
    PROVE  s \in Seq(S) /\ Range(s) = S /\ Len(s) = Cardinality(S)
<1>1. Cardinality(S) \in Nat
  BY FS_CardinalityType
<1>2. s \in Seq(S)
  BY <1>1, SeqDef
<1>3. Cardinality(1..Cardinality(S)) = Cardinality(S)
  BY <1>1, FS_Interval
<1>4. s \in Injection(1..Cardinality(S), S)
  BY DEF Injection
<1>5. s \in Surjection(1..Cardinality(S), S)
  BY <1>3, <1>4, FS_Injection
<1>6. Range(s) = S
  BY <1>5 DEF Surjection, Range
<1>7. Len(s) = Cardinality(S)
  BY <1>1, <1>2, LenProperties
<1> QED  BY <1>2, <1>6, <1>7

\* Projects that join the queue are called "queued", and no longer otherwise.
LEMMA EnqueuedKeeps ==
    ASSUME IndexInv, NEW s \in Seq(Projects), IsInjective(s), Enqueued(s),
           UNCHANGED <<copy, current, budget, extracting, lives, edits>>,
           \/ stage' = stage
           \/ /\ stage = "none" /\ stage' = "loop"
              /\ AutoIndex => \A x \in Projects :
                     registry[x] = "indexing" => x \in Range(s) \cup queuePaths \cup {current}
    PROVE  IndexInv'
<1>0. /\ IndexTypeOK /\ QueueIsASet /\ WorkersProject /\ ExtractionsCounted
      /\ QueuedIsNotIndexing /\ CopyIsReal /\ IndexingIsReal /\ QueuedIsReal
  BY DEF IndexInv
<1>1. /\ Len(s) \in Nat /\ DOMAIN s = 1..Len(s) /\ \A i \in 1..Len(s) : s[i] \in Projects
  BY LenProperties, ElementOfSeq
<1>2. /\ Range(s) \subseteq Projects /\ Range(s) \cap (queuePaths \cup {current}) = {}
  BY <1>1 DEF Enqueued, Range
<1>3. /\ indexQueue \in Seq(Projects) /\ indexQueue' = indexQueue \o s
      /\ queuePaths' = queuePaths \cup Range(s) /\ abandoned' = abandoned \ Range(s)
      /\ registry' = [x \in Projects |-> IF x \in Range(s) THEN "queued" ELSE registry[x]]
      /\ wake' \in BOOLEAN
  BY <1>0 DEF IndexTypeOK, Enqueued
<1>4. \A x \in Projects : registry'[x] = IF x \in Range(s) THEN "queued" ELSE registry[x]
  BY <1>3
<1>5. registry' \in [Projects -> Statuses]
  BY <1>0, <1>3 DEF IndexTypeOK, Statuses
<1>6. indexQueue' \in Seq(Projects) /\ Range(indexQueue') = Range(indexQueue) \cup Range(s)
  BY <1>3, JoinedRange
<1>7. IsInjective(indexQueue')
  <2>1. Range(indexQueue) \cap Range(s) = {} /\ IsInjective(indexQueue)
    BY <1>0, <1>2 DEF QueueIsASet, QueuedProjects
  <2> QED  BY <1>3, <2>1, JoinedInjective
<1>8. stage' \in {"none", "loop", "wait", "setup", "extract", "cancelled"}
  BY <1>0 DEF IndexTypeOK
<1>9. IndexTypeOK'
  BY <1>0, <1>2, <1>3, <1>5, <1>6, <1>8 DEF IndexTypeOK
<1>10. QueueIsASet'
  BY <1>0, <1>2, <1>3, <1>6, <1>7 DEF QueueIsASet, QueuedProjects
<1>11. WorkersProject'
  BY <1>0 DEF WorkersProject
<1>12. ExtractionsCounted'
  BY <1>0 DEF ExtractionsCounted, Attempt
<1>13. QueuedIsNotIndexing'
  <2>1. ASSUME AutoIndex, NEW x \in Projects, registry'[x] = "indexing"
        PROVE  x \notin queuePaths' /\ ~(stage' = "setup" /\ x = current')
    BY <1>0, <1>3, <1>4, <2>1 DEF QueuedIsNotIndexing
  <2>2. ASSUME AutoIndex, NEW x \in Projects, stage' = "extract", copy'[x] = "indexing"
        PROVE  x = current'
    BY <1>0, <2>2 DEF QueuedIsNotIndexing
  <2> QED  BY <2>1, <2>2 DEF QueuedIsNotIndexing
<1>14. CopyIsReal'
  BY <1>0, <1>3 DEF CopyIsReal
<1>15. IndexingIsReal'
  <2> SUFFICES ASSUME NEW x \in Projects, AutoIndex, registry'[x] = "indexing",
                      stage' \notin {"none", "cancelled"}
               PROVE  current' = x
    BY DEF IndexingIsReal
  <2>1. registry[x] = "indexing" /\ x \notin Range(s)
    BY <1>4
  <2>2. x \notin queuePaths
    BY <1>0, <2>1 DEF QueuedIsNotIndexing
  <2> QED  BY <1>0, <2>1, <2>2 DEF IndexingIsReal
<1>16. QueuedIsReal'
  BY <1>0, <1>3, <1>4 DEF QueuedIsReal
<1> QED  BY <1>9, <1>10, <1>11, <1>12, <1>13, <1>14, <1>15, <1>16 DEF IndexInv

\* The routes and the watcher change the file and the queue.
LEMMA RoutesKeep ==
    ASSUME IndexInv, NEW x \in Projects, AddProject(x) \/ RemoveProject(x) \/ IndexProject(x)
    PROVE  IndexInv'
<1>0. /\ IndexTypeOK /\ QueueIsASet /\ WorkersProject /\ ExtractionsCounted
      /\ QueuedIsNotIndexing /\ CopyIsReal /\ IndexingIsReal /\ QueuedIsReal
  BY DEF IndexInv
<1>1. CASE AddProject(x) \/ RemoveProject(x)
  <2>1. /\ edits' = edits + 1 /\ edits < MaxEdits
        /\ UNCHANGED <<copy, indexQueue, queuePaths, current, stage, wake, budget, extracting,
                       abandoned, lives>>
        /\ registry' = [registry EXCEPT ![x] = registry'[x]]
        /\ registry'[x] \in Statuses \ {"indexing", "queued"} \/ registry'[x] = registry[x]
    BY <1>0, <1>1 DEF AddProject, RemoveProject, IndexTypeOK, Statuses
  <2>2. /\ registry' \in [Projects -> Statuses]
        /\ \A y \in Projects : registry'[y] \in {"indexing", "queued"} => registry'[y] = registry[y]
    BY <1>0, <2>1 DEF IndexTypeOK
  <2>3. edits' \in 0..MaxEdits
    BY <1>0, <2>1, GraphifyIndexAssumption DEF IndexTypeOK
  <2>4. IndexTypeOK'
    BY <1>0, <2>1, <2>2, <2>3 DEF IndexTypeOK
  <2>5. QueueIsASet' /\ WorkersProject' /\ ExtractionsCounted' /\ CopyIsReal'
    BY <1>0, <2>1 DEF QueueIsASet, QueuedProjects, WorkersProject, ExtractionsCounted, Attempt, CopyIsReal
  <2>6. QueuedIsNotIndexing'
    BY <1>0, <2>1, <2>2 DEF QueuedIsNotIndexing
  <2>7. IndexingIsReal' /\ QueuedIsReal'
    BY <1>0, <2>1, <2>2 DEF IndexingIsReal, QueuedIsReal
  <2> QED  BY <2>4, <2>5, <2>6, <2>7 DEF IndexInv
<1>2. CASE IndexProject(x)
  <2>1. <<x>> \in Seq(Projects) /\ IsInjective(<<x>>)
    BY DEF IsInjective
  <2>2. Enqueued(<<x>>) /\ UNCHANGED <<copy, current, budget, extracting, lives, edits>>
    BY <1>2 DEF IndexProject
  <2>3. stage' = stage
    BY <1>2 DEF IndexProject
  <2> QED  BY <2>1, <2>2, <2>3, EnqueuedKeeps
<1> QED  BY <1>1, <1>2

\* The start of the manager queues what an earlier life left unfinished.
LEMMA StartKeeps ==
    ASSUME IndexInv, StartWorker
    PROVE  IndexInv'
<1>0. /\ stage' = IF stage = "none" THEN "loop" ELSE stage
      /\ UNCHANGED <<copy, current, budget, extracting, lives, edits>>
      /\ Unfinished \subseteq Projects
  BY DEF StartWorker, Unfinished
<1>1. CASE AutoIndex
  <2>1. PICK s \in [1..Cardinality(Unfinished) -> Unfinished] : IsInjective(s) /\ Enqueued(s)
    BY <1>1 DEF StartWorker
  <2>2. IsFiniteSet(Unfinished)
    BY <1>0, GraphifyIndexAssumption, FS_Subset
  <2>3. s \in Seq(Unfinished) /\ Range(s) = Unfinished
    BY <2>1, <2>2, AllOfThem
  <2>4. s \in Seq(Projects)
    BY <1>0, <2>3, SeqMonotonic
  <2>5. \A x \in Projects : registry[x] = "indexing" => x \in Unfinished \cup queuePaths \cup {current}
    BY DEF Unfinished
  <2> QED  BY <1>0, <2>1, <2>3, <2>4, <2>5, EnqueuedKeeps
<1>2. CASE ~AutoIndex
  <2>1. Enqueued(<<>>) /\ <<>> \in Seq(Projects) /\ IsInjective(<<>>)
    BY <1>2 DEF StartWorker, IsInjective
  <2> QED  BY <1>0, <1>2, <2>1, EnqueuedKeeps
<1> QED  BY <1>1, <1>2

\* The worker is lost to a stop or a crash, and the queue with it.
LEMMA StopsKeep ==
    ASSUME IndexInv, CancelWorker \/ Drained \/ CrashIndex
    PROVE  IndexInv'
<1>0. /\ IndexTypeOK /\ QueueIsASet /\ WorkersProject /\ ExtractionsCounted
      /\ QueuedIsNotIndexing /\ CopyIsReal /\ IndexingIsReal /\ QueuedIsReal
      /\ NoProject \notin Projects /\ MaxLives \in Nat
      /\ lives \in 0..MaxLives /\ current \in Projects \cup {NoProject}
  BY GraphifyIndexAssumption DEF IndexInv, IndexTypeOK
<1>1. /\ stage' \in {"none", "cancelled"} /\ current' = NoProject
      /\ UNCHANGED <<registry, copy, budget, extracting, edits>>
      /\ wake' \in BOOLEAN
      /\ \/ indexQueue' = indexQueue /\ queuePaths' = queuePaths
         \/ indexQueue' = <<>> /\ queuePaths' = {}
  BY <1>0 DEF CancelWorker, Drained, CrashIndex, IndexTypeOK
<1>2. /\ lives' \in 0..MaxLives
      /\ lives' = lives + 1 \/ (lives' = lives /\ stage = "cancelled")
  BY <1>0 DEF CancelWorker, Drained, CrashIndex
<1>3. /\ abandoned' \subseteq Projects /\ abandoned \subseteq abandoned'
      /\ current \in Projects => current \in abandoned'
      /\ queuePaths \subseteq queuePaths' \cup abandoned'
  <2>1. current \in Projects => stage \notin {"none", "cancelled", "loop", "wait"}
    BY <1>0 DEF WorkersProject
  <2>2. QueuedProjects = queuePaths /\ queuePaths \subseteq Projects /\ abandoned \subseteq Projects
    BY <1>0 DEF QueueIsASet, IndexTypeOK
  <2> QED  BY <1>0, <2>1, <2>2 DEF CancelWorker, Drained, CrashIndex
<1>4. IndexTypeOK'
  <2>0. <<>> \in Seq(Projects) /\ indexQueue \in Seq(Projects)
    BY <1>0, EmptySeq DEF IndexTypeOK
  <2>1. indexQueue' \in Seq(Projects) /\ queuePaths' \subseteq Projects
    BY <1>0, <1>1, <2>0 DEF IndexTypeOK
  <2>2. stage' \in {"none", "loop", "wait", "setup", "extract", "cancelled"}
    BY <1>1
  <2>3. /\ registry' \in [Projects -> Statuses] /\ copy' \in [Projects -> Statuses]
        /\ extracting' \in [Projects -> 0..(MaxLives + 1)]
        /\ budget' \in 0..TokenBudget /\ edits' \in 0..MaxEdits
    BY <1>0, <1>1 DEF IndexTypeOK
  <2> QED  BY <1>1, <1>2, <1>3, <2>1, <2>2, <2>3 DEF IndexTypeOK
<1>5. QueueIsASet'
  <2>1. NoProject \notin queuePaths
    BY <1>0 DEF IndexTypeOK
  <2>2. CASE indexQueue' = <<>> /\ queuePaths' = {}
    BY <1>1, <2>2 DEF QueueIsASet, QueuedProjects, Range, IsInjective
  <2>3. CASE indexQueue' = indexQueue /\ queuePaths' = queuePaths
    BY <1>0, <1>1, <2>1, <2>3 DEF QueueIsASet, QueuedProjects
  <2> QED  BY <1>1, <2>2, <2>3
<1>6. WorkersProject'
  BY <1>1 DEF WorkersProject
<1>7. ExtractionsCounted'
  <2>0. \A x : Attempt(x)' = 0
    BY <1>1 DEF Attempt
  <2>4. extracting' = extracting
    BY <1>1
  <2> SUFFICES ASSUME NEW x \in Projects PROVE 0 <= extracting[x] /\ extracting[x] <= lives'
    <3>1. lives' \in Nat
      BY <1>0, <1>2
    <3> QED  BY <2>0, <2>4, <3>1 DEF ExtractionsCounted
  <2>1. Attempt(x) \in {0, 1} /\ (stage = "cancelled" => Attempt(x) = 0)
    BY DEF Attempt
  <2>2. Attempt(x) <= extracting[x] /\ extracting[x] <= lives + Attempt(x)
        /\ extracting[x] \in 0..(MaxLives + 1)
    BY <1>0 DEF ExtractionsCounted, IndexTypeOK
  <2> QED  BY <1>0, <1>2, <2>1, <2>2
<1>8. QueuedIsNotIndexing'
  BY <1>0, <1>1 DEF QueuedIsNotIndexing
<1>9. CopyIsReal' /\ IndexingIsReal'
  BY <1>1 DEF CopyIsReal, IndexingIsReal
<1>10. QueuedIsReal'
  BY <1>0, <1>1, <1>3 DEF QueuedIsReal
<1> QED  BY <1>4, <1>5, <1>6, <1>7, <1>8, <1>9, <1>10 DEF IndexInv

\* The worker waits, is woken, and makes a further attempt.
LEMMA RestsKeep ==
    ASSUME IndexInv, Sleep \/ Awake \/ ExtractAgain
    PROVE  IndexInv'
<1>0. /\ IndexTypeOK /\ QueueIsASet /\ WorkersProject /\ ExtractionsCounted
      /\ QueuedIsNotIndexing /\ CopyIsReal /\ IndexingIsReal /\ QueuedIsReal
      /\ TokenBudget \in Nat /\ MinBudget \in Nat \ {0} /\ budget \in 0..TokenBudget
  BY GraphifyIndexAssumption DEF IndexInv, IndexTypeOK
<1>1. /\ UNCHANGED <<registry, copy, indexQueue, queuePaths, current, extracting, abandoned, lives, edits>>
      /\ wake' \in BOOLEAN
      /\ \/ {stage, stage'} \subseteq {"loop", "wait"} /\ budget' = budget
         \/ stage = "extract" /\ stage' = stage /\ budget \div 2 >= MinBudget /\ budget' = budget \div 2
  BY <1>0 DEF Sleep, Awake, ExtractAgain, IndexTypeOK
<1>2. /\ budget' \in 0..TokenBudget
      /\ stage' = "extract" => budget >= MinBudget /\ budget' >= MinBudget
  BY <1>0, <1>1
<1>3. stage' \in {"none", "loop", "wait", "setup", "extract", "cancelled"}
  BY <1>1
<1>4. IndexTypeOK' /\ QueueIsASet'
  BY <1>0, <1>1, <1>2, <1>3 DEF IndexTypeOK, QueueIsASet, QueuedProjects
<1>5. WorkersProject' /\ CopyIsReal' /\ IndexingIsReal' /\ QueuedIsReal' /\ QueuedIsNotIndexing'
  BY <1>0, <1>1 DEF WorkersProject, CopyIsReal, IndexingIsReal, QueuedIsReal, QueuedIsNotIndexing
<1>6. ExtractionsCounted'
  <2>1. \A x \in Projects : Attempt(x)' = Attempt(x)
    BY <1>1, <1>2 DEF Attempt
  <2> QED  BY <1>0, <1>1, <2>1 DEF ExtractionsCounted
<1> QED  BY <1>4, <1>5, <1>6 DEF IndexInv

\* The worker takes the next project of the queue.
LEMMA TakeKeeps ==
    ASSUME IndexInv, TakeProject
    PROVE  IndexInv'
<1>0. /\ IndexTypeOK /\ QueueIsASet /\ WorkersProject /\ ExtractionsCounted
      /\ QueuedIsNotIndexing /\ CopyIsReal /\ IndexingIsReal /\ QueuedIsReal
      /\ NoProject \notin Projects
  BY GraphifyIndexAssumption DEF IndexInv
<1>1. /\ stage = "loop" /\ indexQueue # <<>> /\ stage' = "setup" /\ wake' = FALSE
      /\ current' = Head(indexQueue) /\ indexQueue' = Tail(indexQueue)
      /\ queuePaths' = queuePaths \ {current'}
      /\ UNCHANGED <<registry, copy, budget, extracting, abandoned, lives, edits>>
      /\ indexQueue \in Seq(Projects) /\ IsInjective(indexQueue) /\ current = NoProject
  BY <1>0 DEF TakeProject, IndexTypeOK, QueueIsASet, WorkersProject
<1>2. /\ indexQueue' \in Seq(Projects) /\ IsInjective(indexQueue') /\ current' \in Projects
      /\ current' \in Range(indexQueue) /\ Range(indexQueue') = Range(indexQueue) \ {current'}
  BY <1>1, TakenFacts
<1>3. current' \in queuePaths
  BY <1>0, <1>2 DEF QueueIsASet, QueuedProjects
<1>4. IndexTypeOK'
  BY <1>0, <1>1, <1>2 DEF IndexTypeOK
<1>5. QueueIsASet' /\ WorkersProject'
  BY <1>0, <1>1, <1>2 DEF QueueIsASet, QueuedProjects, WorkersProject
<1>6. ExtractionsCounted'
  BY <1>0, <1>1 DEF ExtractionsCounted, Attempt
<1>7. QueuedIsNotIndexing' /\ CopyIsReal'
  BY <1>0, <1>1, <1>3 DEF QueuedIsNotIndexing, CopyIsReal
<1>8. IndexingIsReal'
  BY <1>0, <1>1 DEF IndexingIsReal
<1>9. QueuedIsReal'
  BY <1>0, <1>1 DEF QueuedIsReal
<1> QED  BY <1>4, <1>5, <1>6, <1>7, <1>8, <1>9 DEF IndexInv

\* The worker gives a project up before its extraction starts.
LEMMA GivesUpKeeps ==
    ASSUME IndexInv, \/ SetupFails \/ Refused
                     \/ stage = "setup" /\ registry[current] = "absent" /\ Extract
    PROVE  IndexInv'
<1>0. /\ IndexTypeOK /\ QueueIsASet /\ WorkersProject /\ ExtractionsCounted
      /\ QueuedIsNotIndexing /\ CopyIsReal /\ IndexingIsReal /\ QueuedIsReal
      /\ NoProject \notin Projects
  BY GraphifyIndexAssumption DEF IndexInv
<1>1. /\ stage = "setup" /\ stage' = "loop" /\ current' = NoProject /\ current \in Projects
      /\ UNCHANGED <<copy, indexQueue, queuePaths, wake, budget, extracting, lives, edits>>
  BY <1>0 DEF SetupFails, Refused, Extract, TurnsToNext, WorkersProject
<1>2. /\ registry' \in [Projects -> Statuses] /\ abandoned \subseteq abandoned' /\ abandoned' \subseteq Projects
      /\ \A x \in Projects \ {current} : registry'[x] = registry[x]
      /\ registry'[current] \in {registry[current], "error"}
      /\ registry'[current] = "queued" => current \in abandoned'
  BY <1>0, <1>1 DEF SetupFails, Refused, Extract, IndexTypeOK, Statuses
<1>3. IndexTypeOK'
  BY <1>0, <1>1, <1>2 DEF IndexTypeOK
<1>4. QueueIsASet' /\ WorkersProject' /\ CopyIsReal'
  BY <1>0, <1>1 DEF QueueIsASet, QueuedProjects, WorkersProject, CopyIsReal, IndexTypeOK
<1>5. ExtractionsCounted'
  BY <1>0, <1>1 DEF ExtractionsCounted, Attempt
<1>6. \A x \in Projects : AutoIndex => registry'[x] # "indexing"
  <2> SUFFICES ASSUME NEW x \in Projects, AutoIndex, registry'[x] = "indexing" PROVE FALSE
    OBVIOUS
  <2>1. registry[x] = "indexing"
    BY <1>2
  <2>2. current = x
    BY <1>0, <1>1, <2>1 DEF IndexingIsReal
  <2> QED  BY <1>0, <1>1, <2>1, <2>2 DEF QueuedIsNotIndexing
<1>7. QueuedIsNotIndexing' /\ IndexingIsReal'
  BY <1>1, <1>6 DEF QueuedIsNotIndexing, IndexingIsReal
<1>8. QueuedIsReal'
  BY <1>0, <1>1, <1>2 DEF QueuedIsReal
<1> QED  BY <1>3, <1>4, <1>5, <1>7, <1>8 DEF IndexInv

\* An extraction starts, with a copy of the registry.
LEMMA ExtractKeeps ==
    ASSUME IndexInv, Extract, registry[current] # "absent"
    PROVE  IndexInv'
<1>0. /\ IndexTypeOK /\ QueueIsASet /\ WorkersProject /\ ExtractionsCounted
      /\ QueuedIsNotIndexing /\ CopyIsReal /\ IndexingIsReal /\ QueuedIsReal
      /\ NoProject \notin Projects /\ MaxLives \in Nat /\ lives \in 0..MaxLives
      /\ TokenBudget \in Nat /\ MinBudget \in Nat \ {0}
  BY GraphifyIndexAssumption DEF IndexInv, IndexTypeOK
<1>1. /\ stage = "setup" /\ stage' = "extract" /\ current' = current /\ current \in Projects
      /\ copy' = [registry EXCEPT ![current] = "indexing"] /\ registry' = copy'
      /\ budget' = TokenBudget
      /\ extracting' = IF TokenBudget < MinBudget THEN extracting
                       ELSE [extracting EXCEPT ![current] = @ + 1]
      /\ UNCHANGED <<indexQueue, queuePaths, wake, abandoned, lives, edits>>
  BY <1>0 DEF Extract, WorkersProject
<1>2. /\ registry' \in [Projects -> Statuses] /\ registry'[current] = "indexing"
      /\ \A x \in Projects \ {current} : registry'[x] = registry[x]
  BY <1>0, <1>1 DEF IndexTypeOK, Statuses
<1>3. \A x \in Projects : extracting[x] \in 0..(MaxLives + 1) /\ extracting[x] <= lives
  BY <1>0, <1>1 DEF ExtractionsCounted, Attempt, IndexTypeOK
<1>4. /\ \A x \in Projects : /\ Attempt(x)' <= extracting'[x]
                             /\ extracting'[x] <= lives + Attempt(x)'
      /\ extracting' \in [Projects -> 0..(MaxLives + 1)]
  <2>0. extracting \in [Projects -> 0..(MaxLives + 1)]
    BY <1>0 DEF IndexTypeOK
  <2>1. CASE TokenBudget < MinBudget
    <3>1. extracting' = extracting /\ \A x : Attempt(x)' = 0
      BY <1>0, <1>1, <2>1 DEF Attempt
    <3> QED  BY <1>0, <1>3, <2>0, <3>1
  <2>2. CASE ~(TokenBudget < MinBudget)
    <3>1. \A x : Attempt(x)' = IF x = current THEN 1 ELSE 0
      BY <1>0, <1>1, <2>2 DEF Attempt
    <3>2. extracting[current] + 1 \in 0..(MaxLives + 1) /\ extracting[current] + 1 <= lives + 1
      BY <1>0, <1>1, <1>3
    <3>3. extracting' = [extracting EXCEPT ![current] = extracting[current] + 1]
      BY <1>1, <2>2
    <3>4. /\ extracting' \in [Projects -> 0..(MaxLives + 1)]
          /\ extracting'[current] = extracting[current] + 1
          /\ \A x \in Projects \ {current} : extracting'[x] = extracting[x]
      BY <1>1, <2>0, <3>2, <3>3
    <3> QED  BY <1>0, <1>1, <1>3, <3>1, <3>4
  <2> QED  BY <2>1, <2>2
<1>5. IndexTypeOK'
  <2>1. budget' \in 0..TokenBudget
    BY <1>0, <1>1
  <2> QED  BY <1>0, <1>1, <1>2, <1>4, <2>1 DEF IndexTypeOK
<1>6. QueueIsASet' /\ WorkersProject'
  BY <1>0, <1>1 DEF QueueIsASet, QueuedProjects, WorkersProject
<1>7. ExtractionsCounted'
  BY <1>1, <1>4 DEF ExtractionsCounted
<1>8. QueuedIsNotIndexing' /\ IndexingIsReal'
  <2>1. \A x \in Projects : AutoIndex /\ registry'[x] = "indexing" => x = current
    BY <1>0, <1>1, <1>2 DEF IndexingIsReal
  <2>2. current \notin queuePaths
    BY <1>0 DEF QueueIsASet
  <2> QED  BY <1>1, <2>1, <2>2 DEF QueuedIsNotIndexing, IndexingIsReal
<1>9. QueuedIsReal' /\ CopyIsReal'
  <2>1. \A x \in Projects : registry'[x] = "queued" => x \in queuePaths \cup {current} \cup abandoned
    BY <1>0, <1>1, <1>2 DEF QueuedIsReal
  <2> QED  BY <1>1, <2>1 DEF QueuedIsReal, CopyIsReal
<1> QED  BY <1>5, <1>6, <1>7, <1>8, <1>9 DEF IndexInv

\* It ends, and the copy is saved with its result.
LEMMA ExtractedKeeps ==
    ASSUME IndexInv, NEW ok \in BOOLEAN, Extracted(ok)
    PROVE  IndexInv'
<1>0. /\ IndexTypeOK /\ QueueIsASet /\ WorkersProject /\ ExtractionsCounted
      /\ QueuedIsNotIndexing /\ CopyIsReal /\ IndexingIsReal /\ QueuedIsReal
      /\ NoProject \notin Projects /\ MaxLives \in Nat /\ lives \in 0..MaxLives
      /\ MinBudget \in Nat \ {0} /\ budget \in Nat
  BY GraphifyIndexAssumption DEF IndexInv, IndexTypeOK
<1>1. /\ stage = "extract" /\ stage' = "loop" /\ current' = NoProject /\ current \in Projects
      /\ registry' = [copy EXCEPT ![current] = IF ok THEN "ready" ELSE "error"]
      /\ extracting' = [extracting EXCEPT ![current] = IF budget < MinBudget THEN @ ELSE @ - 1]
      /\ UNCHANGED <<copy, indexQueue, queuePaths, wake, budget, abandoned, lives, edits>>
  BY <1>0 DEF Extracted, TurnsToNext, WorkersProject
<1>2. /\ registry' \in [Projects -> Statuses] /\ registry'[current] \in {"ready", "error"}
      /\ \A x \in Projects \ {current} : registry'[x] = copy[x]
  BY <1>0, <1>1 DEF IndexTypeOK, Statuses
<1>3. /\ extracting' \in [Projects -> 0..(MaxLives + 1)]
      /\ \A x \in Projects : 0 <= extracting'[x] /\ extracting'[x] <= lives
  <2>0. extracting \in [Projects -> 0..(MaxLives + 1)]
    BY <1>0 DEF IndexTypeOK
  <2>1. \A x \in Projects : Attempt(x) <= extracting[x] /\ extracting[x] <= lives + Attempt(x)
    BY <1>0 DEF ExtractionsCounted
  <2>2. /\ \A x \in Projects \ {current} : Attempt(x) = 0
        /\ Attempt(current) = IF budget < MinBudget THEN 0 ELSE 1
    BY <1>0, <1>1 DEF Attempt
  <2> DEFINE rest == IF budget < MinBudget THEN extracting[current] ELSE extracting[current] - 1
  <2>3. extracting[current] \in 0..(MaxLives + 1)
        /\ Attempt(current) <= extracting[current] /\ extracting[current] <= lives + Attempt(current)
    BY <1>1, <2>0, <2>1
  <2>4. rest \in 0..(MaxLives + 1) /\ 0 <= rest /\ rest <= lives
    BY <1>0, <2>2, <2>3
  <2>5. extracting' = [extracting EXCEPT ![current] = rest]
    BY <1>1
  <2> HIDE DEF rest
  <2>6. /\ extracting' \in [Projects -> 0..(MaxLives + 1)] /\ extracting'[current] = rest
        /\ \A x \in Projects \ {current} : extracting'[x] = extracting[x]
    BY <1>1, <2>0, <2>4, <2>5
  <2>7. \A x \in Projects \ {current} : 0 <= extracting[x] /\ extracting[x] <= lives
    <3> SUFFICES ASSUME NEW x \in Projects \ {current} PROVE 0 <= extracting[x] /\ extracting[x] <= lives
      OBVIOUS
    <3>1. extracting[x] \in 0..(MaxLives + 1) /\ Attempt(x) = 0 /\ extracting[x] <= lives + Attempt(x)
      BY <2>0, <2>1, <2>2
    <3> QED  BY <1>0, <3>1
  <2> QED  BY <2>4, <2>6, <2>7
<1>4. IndexTypeOK'
  BY <1>0, <1>1, <1>2, <1>3 DEF IndexTypeOK
<1>5. QueueIsASet' /\ WorkersProject' /\ CopyIsReal'
  BY <1>0, <1>1 DEF QueueIsASet, QueuedProjects, WorkersProject, CopyIsReal, IndexTypeOK
<1>6. ExtractionsCounted'
  <2>1. \A x : Attempt(x)' = 0
    BY <1>1 DEF Attempt
  <2>2. lives' = lives /\ lives \in Nat
    BY <1>0, <1>1
  <2> QED  BY <1>3, <2>1, <2>2 DEF ExtractionsCounted
<1>7. \A x \in Projects : AutoIndex => registry'[x] # "indexing"
  BY <1>0, <1>1, <1>2 DEF QueuedIsNotIndexing
<1>8. QueuedIsNotIndexing' /\ IndexingIsReal'
  BY <1>1, <1>7 DEF QueuedIsNotIndexing, IndexingIsReal
<1>9. QueuedIsReal'
  BY <1>0, <1>1, <1>2 DEF QueuedIsReal, CopyIsReal
<1> QED  BY <1>4, <1>5, <1>6, <1>8, <1>9 DEF IndexInv

\* An extraction that nobody waits for ends.
LEMMA OrphanKeeps ==
    ASSUME IndexInv, NEW x \in Projects, OrphanEnds(x)
    PROVE  IndexInv'
<1>0. /\ IndexTypeOK /\ QueueIsASet /\ WorkersProject /\ ExtractionsCounted
      /\ QueuedIsNotIndexing /\ CopyIsReal /\ IndexingIsReal /\ QueuedIsReal
      /\ MaxLives \in Nat /\ lives \in 0..MaxLives
      /\ extracting \in [Projects -> 0..(MaxLives + 1)]
  BY GraphifyIndexAssumption DEF IndexInv, IndexTypeOK
<1>1. /\ extracting[x] > IF stage = "extract" /\ current = x THEN 1 ELSE 0
      /\ extracting' = [extracting EXCEPT ![x] = extracting[x] - 1]
      /\ UNCHANGED <<registry, copy, indexQueue, queuePaths, current, stage, wake, budget,
                     abandoned, lives, edits>>
  BY DEF OrphanEnds
<1>2. Attempt(x) \in {0, 1} /\ extracting[x] > Attempt(x) /\ extracting[x] <= lives + Attempt(x)
      /\ extracting[x] \in 0..(MaxLives + 1)
  BY <1>0, <1>1 DEF Attempt, ExtractionsCounted
<1>3. /\ extracting[x] - 1 \in 0..(MaxLives + 1)
      /\ Attempt(x) <= extracting[x] - 1 /\ extracting[x] - 1 <= lives + Attempt(x)
  BY <1>0, <1>2
<1>4. /\ extracting' \in [Projects -> 0..(MaxLives + 1)] /\ extracting'[x] = extracting[x] - 1
      /\ \A y \in Projects \ {x} : extracting'[y] = extracting[y]
  BY <1>0, <1>1, <1>3
<1>5. IndexTypeOK'
  BY <1>0, <1>1, <1>4 DEF IndexTypeOK
<1>6. ExtractionsCounted'
  <2>1. \A y : Attempt(y)' = Attempt(y)
    BY <1>1 DEF Attempt
  <2>2. \A y \in Projects : Attempt(y) <= extracting'[y] /\ extracting'[y] <= lives + Attempt(y)
    BY <1>0, <1>3, <1>4 DEF ExtractionsCounted
  <2> QED  BY <1>1, <2>1, <2>2 DEF ExtractionsCounted
<1>7. /\ QueueIsASet' /\ WorkersProject' /\ QueuedIsNotIndexing' /\ CopyIsReal'
      /\ IndexingIsReal' /\ QueuedIsReal'
  BY <1>0, <1>1 DEF QueueIsASet, QueuedProjects, WorkersProject, QueuedIsNotIndexing, CopyIsReal,
     IndexingIsReal, QueuedIsReal
<1> QED  BY <1>5, <1>6, <1>7 DEF IndexInv

\* The invariant holds of the state the server starts in.
LEMMA IndexStarts ==
    ASSUME IndexInit PROVE IndexInv
<1>1. /\ registry = NoCopy /\ copy = NoCopy /\ indexQueue = <<>> /\ queuePaths = {} /\ current = NoProject
      /\ stage = "none" /\ wake = FALSE /\ budget = 0
      /\ extracting = [x \in Projects |-> 0] /\ abandoned = {} /\ lives = 0 /\ edits = 0
      /\ NoProject \notin Projects /\ TokenBudget \in Nat /\ MaxLives \in Nat /\ MaxEdits \in Nat
  BY GraphifyIndexAssumption DEF IndexInit
<1>2. NoCopy \in [Projects -> Statuses] /\ \A x \in Projects : NoCopy[x] = "absent"
  BY DEF NoCopy, Statuses
<1>3. IndexTypeOK
  <2>1. indexQueue \in Seq(Projects)
    BY <1>1, EmptySeq
  <2>2. extracting \in [Projects -> 0..(MaxLives + 1)]
    BY <1>1
  <2>3. registry \in [Projects -> Statuses] /\ copy \in [Projects -> Statuses]
    BY <1>1, <1>2
  <2>4. budget \in 0..TokenBudget /\ lives \in 0..MaxLives /\ edits \in 0..MaxEdits
    BY <1>1
  <2>5. queuePaths \subseteq Projects /\ abandoned \subseteq Projects /\ current \in Projects \cup {NoProject}
        /\ stage \in {"none", "loop", "wait", "setup", "extract", "cancelled"} /\ wake \in BOOLEAN
    BY <1>1
  <2> QED  BY <2>1, <2>2, <2>3, <2>4, <2>5 DEF IndexTypeOK
<1>4. QueueIsASet
  BY <1>1 DEF QueueIsASet, QueuedProjects, Range, IsInjective
<1>5. ExtractionsCounted
  BY <1>1 DEF ExtractionsCounted, Attempt
<1>6. WorkersProject /\ QueuedIsNotIndexing /\ CopyIsReal /\ IndexingIsReal /\ QueuedIsReal
  BY <1>1, <1>2 DEF WorkersProject, QueuedIsNotIndexing, CopyIsReal, IndexingIsReal, QueuedIsReal
<1> QED  BY <1>3, <1>4, <1>5, <1>6 DEF IndexInv

\* A step that changes nothing of the index keeps it.
LEMMA IndexStays ==
    ASSUME IndexInv, UNCHANGED idxVars PROVE IndexInv'
<1>1. UNCHANGED <<registry, copy, indexQueue, queuePaths, current, stage, wake, budget,
                  extracting, abandoned, lives, edits>>
  BY DEF idxVars
<1>2. IndexTypeOK' /\ QueueIsASet' /\ WorkersProject'
  BY <1>1 DEF IndexInv, IndexTypeOK, QueueIsASet, QueuedProjects, WorkersProject
<1>3. ExtractionsCounted'
  BY <1>1 DEF IndexInv, ExtractionsCounted, Attempt
<1>4. QueuedIsNotIndexing' /\ CopyIsReal' /\ IndexingIsReal' /\ QueuedIsReal'
  BY <1>1 DEF IndexInv, QueuedIsNotIndexing, CopyIsReal, IndexingIsReal, QueuedIsReal
<1> QED  BY <1>2, <1>3, <1>4 DEF IndexInv

\* For every finite set of projects, every token budget, and any number of
\* stops, crashes and edits: the queue and the set beside it agree, a project
\* the file calls "indexing" is the one the worker has, and one it calls
\* "queued" is queued, being indexed, or was given up.
THEOREM IndexIsKept == IndexInit /\ [][IndexNext]_idxVars => []IndexKept
<1>1. IndexInit => IndexInv
  BY IndexStarts
<1>2. IndexInv /\ [IndexNext]_idxVars => IndexInv'
  <2> SUFFICES ASSUME IndexInv, [IndexNext]_idxVars PROVE IndexInv'
    OBVIOUS
  <2>1. CASE UNCHANGED idxVars
    BY <2>1, IndexStays
  <2>2. ASSUME NEW x \in Projects, AddProject(x) \/ RemoveProject(x) \/ IndexProject(x) PROVE IndexInv'
    BY <2>2, RoutesKeep
  <2>3. ASSUME NEW x \in Projects, OrphanEnds(x) PROVE IndexInv'
    BY <2>3, OrphanKeeps
  <2>4. CASE StartWorker
    BY <2>4, StartKeeps
  <2>5. CASE CancelWorker \/ Drained \/ CrashIndex
    BY <2>5, StopsKeep
  <2>6. CASE Sleep \/ Awake \/ ExtractAgain
    BY <2>6, RestsKeep
  <2>7. CASE TakeProject
    BY <2>7, TakeKeeps
  <2>8. CASE SetupFails \/ Refused
    BY <2>8, GivesUpKeeps
  <2>9. CASE Extract
    <3>1. stage = "setup"
      BY <2>9 DEF Extract
    <3>2. CASE registry[current] = "absent"
      BY <2>9, <3>1, <3>2, GivesUpKeeps
    <3>3. CASE registry[current] # "absent"
      BY <2>9, <3>3, ExtractKeeps
    <3> QED  BY <3>2, <3>3
  <2>10. ASSUME NEW ok \in BOOLEAN, Extracted(ok) PROVE IndexInv'
    BY <2>10, ExtractedKeeps
  <2> QED  BY <2>1, <2>2, <2>3, <2>4, <2>5, <2>6, <2>7, <2>8, <2>9, <2>10 DEF IndexNext, WorkerStep
<1>3. IndexInv => IndexKept
  <2> SUFFICES ASSUME IndexInv PROVE QueueAgrees
    BY DEF IndexInv, IndexKept
  <2>1. indexQueue \in Seq(Projects) /\ IsInjective(indexQueue) /\ Range(indexQueue) = queuePaths
    BY DEF IndexInv, IndexTypeOK, QueueIsASet, QueuedProjects
  <2>2. Cardinality(Range(indexQueue)) = Len(indexQueue)
    BY <2>1, CountedQueue
  <2> QED  BY <2>1, <2>2 DEF IndexInv, QueueAgrees, QueueIsASet
<1> QED  BY <1>1, <1>2, <1>3, PTL


-----------------------------------------------------------------------------
(* The Graphify server.                                                    *)

\* Calls that come one after another: one is under way at a time, none of them
\* starts a child beside another, and a child that runs is held and owned.
OneCallAtATime ==
    \A c, d \in Calls :
        call[c] \notin {"idle", "done"} /\ call[d] \notin {"idle", "done"} => c = d
ChildIsHeld == \A c \in Calls : Running(c) => process = c /\ owns
StartsAlone == \A c, d \in Calls : call[c] \in {"probe", "spawn"} => ~Running(d)

\* A server the manager owns, or is about to take the entry of, and that of
\* another instance wanted the port at once.
OwnedIsRaced ==
    sibling = "up" =>
        /\ owns => raced
        /\ \A c \in Calls : call[c] = "ending" /\ victim[c].owned => raced

ServerInv ==
    /\ ServerTypeOK /\ OwnedIsRaced
    /\ overlapped \/ (OneCallAtATime /\ ChildIsHeld /\ StartsAlone)

\* What a step of the server does to an entry.
EntryKept == sibling = "up" /\ sibling' = "up" /\ entry /\ ~entry' => raced

\* At the start no call is under way.
LEMMA ServerStarts == ServerInit => ServerInv
<1> SUFFICES ASSUME ServerInit PROVE ServerInv
  OBVIOUS
<1>1. ServerTypeOK
  BY DEF ServerInit, ServerTypeOK
<1>2. OwnedIsRaced
  BY DEF ServerInit, OwnedIsRaced
<1>3. OneCallAtATime /\ ChildIsHeld /\ StartsAlone
  BY DEF ServerInit, OneCallAtATime, ChildIsHeld, StartsAlone, Running
<1> QED  BY <1>1, <1>2, <1>3 DEF ServerInv

\* Where a call stands after a step of its own.
LEMMA CallMoves ==
    ASSUME ServerTypeOK, NEW c \in Calls, NEW pc, At(c, pc)
    PROVE  call'[c] = pc /\ \A d \in Calls : d # c => call'[d] = call[d]
  BY DEF ServerTypeOK, At

\* A call that begins is the only one, unless it overlaps.
LEMMA BeginsAlone ==
    ASSUME ServerInv, NEW c \in Calls, NEW pc, At(c, pc),
           overlapped' = (overlapped \/ UnderWay), ~overlapped'
    PROVE  ~overlapped /\ OneCallAtATime' /\ \A d \in Calls : d # c => call'[d] \in {"idle", "done"}
  BY CallMoves DEF ServerInv, UnderWay, OneCallAtATime

\* So is one that goes on.
LEMMA GoesOnAlone ==
    ASSUME ServerInv, ~overlapped, NEW c \in Calls, call[c] \notin {"idle", "done"}, NEW pc, At(c, pc)
    PROVE  OneCallAtATime' /\ \A d \in Calls : d # c => call'[d] \in {"idle", "done"}
  BY CallMoves DEF ServerInv, OneCallAtATime

\* A start that goes on has found no child that runs.
LEMMA StartServerKeeps == ASSUME ServerInv, NEW c \in Calls, StartServer(c) PROVE ServerInv'
<1>1. /\ At(c, IF IsRunning THEN "done" ELSE "probe") /\ overlapped' = (overlapped \/ UnderWay)
      /\ UNCHANGED <<wants, victim, child, process, owns, adopted, sibling, entry, raced>>
  BY DEF StartServer
<1>2. ServerTypeOK'
  BY <1>1 DEF ServerInv, ServerTypeOK, At
<1>3. OwnedIsRaced'
  BY <1>1, CallMoves DEF ServerInv, OwnedIsRaced
<1>4. ASSUME ~overlapped' PROVE OneCallAtATime' /\ ChildIsHeld' /\ StartsAlone'
  <2>1. ~overlapped /\ OneCallAtATime' /\ \A d \in Calls : d # c => call'[d] \in {"idle", "done"}
    BY <1>1, <1>4, BeginsAlone
  <2>2. ChildIsHeld /\ ChildIsHeld'
    BY <1>1, <2>1 DEF ServerInv, ChildIsHeld, Running
  <2>3. ASSUME call'[c] = "probe", NEW d \in Calls PROVE ~Running(d)'
    BY <1>1, <2>2, <2>3, CallMoves, GraphifyServerAssumption DEF ServerInv, IsRunning, ChildIsHeld, Running
  <2>4. call'[c] \in {"done", "probe"}
    BY <1>1, CallMoves DEF ServerInv
  <2> QED  BY <2>1, <2>2, <2>3, <2>4 DEF StartsAlone
<1> QED  BY <1>2, <1>3, <1>4 DEF ServerInv

\* The server a start adopts is not its own.
LEMMA AdoptKeeps == ASSUME ServerInv, NEW c \in Calls, Adopt(c) PROVE ServerInv'
<1>1. /\ call[c] = "probe" /\ At(c, "done") /\ adopted' = TRUE /\ owns' = FALSE /\ entry' = TRUE
      /\ UNCHANGED <<wants, victim, child, process, sibling, overlapped, raced>>
  BY DEF Adopt
<1>2. ServerTypeOK'
  BY <1>1 DEF ServerInv, ServerTypeOK, At
<1>3. OwnedIsRaced'
  BY <1>1, CallMoves DEF ServerInv, OwnedIsRaced
<1>4. ASSUME ~overlapped' PROVE OneCallAtATime' /\ ChildIsHeld' /\ StartsAlone'
  <2>1. ~overlapped /\ OneCallAtATime'
    BY <1>1, <1>4, GoesOnAlone
  <2>2. \A d \in Calls : ~Running(d)'
    BY <1>1, <2>1 DEF ServerInv, StartsAlone, Running
  <2> QED  BY <2>1, <2>2 DEF ChildIsHeld, StartsAlone
<1> QED  BY <1>2, <1>3, <1>4 DEF ServerInv

\* A start that only moves on, or ends.
LEMMA StartMovesOn ==
    ASSUME ServerInv, NEW c \in Calls, ProbeFails(c) \/ StartGivenUp(c) \/ Ready(c) \/ NeverReady(c)
    PROVE  ServerInv'
<1>1. PICK pc \in {"spawn", "done", "drain"} : At(c, pc) /\ (pc = "spawn" => call[c] = "probe")
  BY DEF ProbeFails, StartGivenUp, Ready, NeverReady
<1>2. /\ call[c] \in {"probe", "spawn", "ready"} /\ entry' \in {entry, TRUE}
      /\ wants' \in {wants, [wants EXCEPT ![c] = "fail"]}
      /\ UNCHANGED <<victim, child, process, owns, adopted, sibling, overlapped, raced>>
  BY DEF ProbeFails, StartGivenUp, Ready, NeverReady
<1>3. ServerTypeOK'
  BY <1>1, <1>2 DEF ServerInv, ServerTypeOK, At
<1>4. OwnedIsRaced'
  BY <1>1, <1>2, CallMoves DEF ServerInv, OwnedIsRaced
<1>5. ASSUME ~overlapped' PROVE OneCallAtATime' /\ ChildIsHeld' /\ StartsAlone'
  <2>1. ~overlapped /\ OneCallAtATime'
    BY <1>1, <1>2, <1>5, GoesOnAlone
  <2>2. ChildIsHeld'
    BY <1>2, <2>1 DEF ServerInv, ChildIsHeld, Running
  <2>3. StartsAlone'
    BY <1>1, <1>2, <2>1, CallMoves DEF ServerInv, StartsAlone, Running
  <2> QED  BY <2>1, <2>2, <2>3
<1> QED  BY <1>3, <1>4, <1>5 DEF ServerInv

\* A start spawns a child where none runs, and holds it.
LEMMA SpawnKeeps == ASSUME ServerInv, NEW c \in Calls, SpawnServer(c) PROVE ServerInv'
<1>1. /\ call[c] = "spawn" /\ At(c, "ready") /\ child' = [child EXCEPT ![c] = "starting"]
      /\ process' = c /\ owns' = TRUE /\ adopted' = FALSE /\ raced' = (raced \/ sibling = "up")
      /\ UNCHANGED <<wants, victim, sibling, entry, overlapped>>
  BY DEF SpawnServer
<1>2. ServerTypeOK'
  BY <1>1 DEF ServerInv, ServerTypeOK, At
<1>3. OwnedIsRaced'
  BY <1>1, CallMoves DEF ServerInv, OwnedIsRaced
<1>4. ASSUME ~overlapped' PROVE OneCallAtATime' /\ ChildIsHeld' /\ StartsAlone'
  <2>1. ~overlapped /\ OneCallAtATime' /\ \A d \in Calls : d # c => call'[d] \in {"idle", "done"}
    BY <1>1, <1>4, GoesOnAlone
  <2>2. \A d \in Calls : d # c => ~Running(d)'
    BY <1>1, <2>1 DEF ServerInv, ServerTypeOK, StartsAlone, Running
  <2>3. call'[c] = "ready"
    BY <1>1, CallMoves DEF ServerInv
  <2> QED  BY <1>1, <2>1, <2>2, <2>3 DEF ChildIsHeld, StartsAlone
<1> QED  BY <1>2, <1>3, <1>4 DEF ServerInv

\* A stop begins by draining, and changes nothing yet.
LEMMA StopKeeps == ASSUME ServerInv, NEW c \in Calls, StopServer(c) PROVE ServerInv'
<1>1. /\ At(c, "drain") /\ overlapped' = (overlapped \/ UnderWay)
      /\ \E w \in {"stop", "restart"} : wants' = [wants EXCEPT ![c] = w]
      /\ UNCHANGED <<victim, child, process, owns, adopted, sibling, entry, raced>>
  BY DEF StopServer
<1>2. ServerTypeOK'
  BY <1>1 DEF ServerInv, ServerTypeOK, At
<1>3. OwnedIsRaced'
  BY <1>1, CallMoves DEF ServerInv, OwnedIsRaced
<1>4. ASSUME ~overlapped' PROVE OneCallAtATime' /\ ChildIsHeld' /\ StartsAlone'
  <2>1. ~overlapped /\ OneCallAtATime' /\ \A d \in Calls : d # c => call'[d] \in {"idle", "done"}
    BY <1>1, <1>4, BeginsAlone
  <2>2. ChildIsHeld'
    BY <1>1, <2>1 DEF ServerInv, ChildIsHeld, Running
  <2>3. call'[c] = "drain"
    BY <1>1, CallMoves DEF ServerInv
  <2> QED  BY <2>1, <2>2, <2>3 DEF StartsAlone
<1> QED  BY <1>2, <1>3, <1>4 DEF ServerInv

\* A stop that lets go terminates the child it owns.
LEMMA LetGoKeeps == ASSUME ServerInv, NEW c \in Calls, LetGo(c) PROVE ServerInv'
<1>1. /\ call[c] = "drain" /\ At(c, "ending")
      /\ victim' = [victim EXCEPT ![c] = [process |-> process, owned |-> owns]]
      /\ process' = NoCall /\ adopted' = FALSE /\ owns' = FALSE
      /\ UNCHANGED <<wants, sibling, entry, overlapped, raced>>
  BY DEF LetGo
<1>2. child' = IF owns /\ process # NoCall
                THEN [child EXCEPT ![process] =
                          IF child[process] \in {"starting", "up"} THEN "ending" ELSE child[process]]
                ELSE child
  BY DEF LetGo
<1>3. ServerTypeOK'
  <2>1. child' \in [Calls -> {"none", "starting", "up", "ending", "dead"}]
    BY <1>2 DEF ServerInv, ServerTypeOK
  <2>2. victim' \in [Calls -> [process : Calls \cup {NoCall}, owned : BOOLEAN]]
    BY <1>1 DEF ServerInv, ServerTypeOK
  <2> QED  BY <1>1, <2>1, <2>2 DEF ServerInv, ServerTypeOK, At
<1>4. OwnedIsRaced'
  <2> SUFFICES ASSUME sibling = "up", NEW d \in Calls, call'[d] = "ending", victim'[d].owned
               PROVE  raced
    BY <1>1 DEF OwnedIsRaced
  <2>1. CASE d = c
    BY <1>1, <2>1 DEF ServerInv, ServerTypeOK, OwnedIsRaced
  <2>2. CASE d # c
    BY <1>1, <2>2, CallMoves DEF ServerInv, ServerTypeOK, OwnedIsRaced
  <2> QED  BY <2>1, <2>2
<1>5. ASSUME ~overlapped' PROVE OneCallAtATime' /\ ChildIsHeld' /\ StartsAlone'
  <2>1. ~overlapped /\ OneCallAtATime'
    BY <1>1, <1>5, GoesOnAlone
  <2>2. \A d \in Calls : ~Running(d)'
    BY <1>2, <2>1, GraphifyServerAssumption DEF ServerInv, ServerTypeOK, ChildIsHeld, Running
  <2> QED  BY <2>1, <2>2 DEF ChildIsHeld, StartsAlone
<1> QED  BY <1>3, <1>4, <1>5 DEF ServerInv

\* A stop removes the entry of a server it owned, which only a race makes that of another.
LEMMA StopEndsKeeps == ASSUME ServerInv, NEW c \in Calls, StopEnds(c) PROVE ServerInv' /\ EntryKept
<1>1. /\ call[c] = "ending" /\ entry' = (entry /\ ~victim[c].owned)
      /\ UNCHANGED <<wants, victim, child, process, owns, adopted, sibling, overlapped, raced>>
  BY DEF StopEnds
<1>2. PICK pc \in {"probe", "done"} : At(c, pc) /\ (pc = "probe" => ~IsRunning)
  BY DEF StopEnds
<1>3. ServerTypeOK'
  <2>1. victim[c].owned \in BOOLEAN
    BY DEF ServerInv, ServerTypeOK
  <2>2. entry' \in BOOLEAN
    BY <1>1, <2>1 DEF ServerInv, ServerTypeOK
  <2> QED  BY <1>1, <1>2, <2>2 DEF ServerInv, ServerTypeOK, At
<1>4. OwnedIsRaced'
  BY <1>1, <1>2, CallMoves DEF ServerInv, OwnedIsRaced
<1>5. ASSUME ~overlapped' PROVE OneCallAtATime' /\ ChildIsHeld' /\ StartsAlone'
  <2>1. ~overlapped /\ OneCallAtATime' /\ \A d \in Calls : d # c => call'[d] \in {"idle", "done"}
    BY <1>1, <1>2, <1>5, GoesOnAlone
  <2>2. ChildIsHeld /\ ChildIsHeld'
    BY <1>1, <2>1 DEF ServerInv, ChildIsHeld, Running
  <2>3. call'[c] = pc
    BY <1>2, CallMoves DEF ServerInv
  <2>4. ASSUME pc = "probe", NEW d \in Calls PROVE ~Running(d)'
    BY <1>1, <1>2, <2>2, <2>4, GraphifyServerAssumption DEF IsRunning, ChildIsHeld, Running
  <2> QED  BY <2>1, <2>2, <2>3, <2>4 DEF StartsAlone
<1>6. EntryKept
  BY <1>1 DEF ServerInv, OwnedIsRaced, EntryKept
<1> QED  BY <1>3, <1>4, <1>5, <1>6 DEF ServerInv

\* A child that listens or ends runs no more than before.
LEMMA ChildrenKeep == ASSUME ServerInv, NEW c \in Calls, ChildListens(c) \/ ChildEnds(c) PROVE ServerInv'
<1>1. UNCHANGED <<call, wants, victim, process, owns, adopted, sibling, entry, overlapped, raced>>
  BY DEF ChildListens, ChildEnds
<1>2. PICK st \in {"up", "dead"} :
        child' = [child EXCEPT ![c] = st] /\ (st = "up" => child[c] = "starting")
  BY DEF ChildListens, ChildEnds
<1>3. ServerTypeOK'
  BY <1>1, <1>2 DEF ServerInv, ServerTypeOK
<1>4. OwnedIsRaced'
  BY <1>1 DEF ServerInv, OwnedIsRaced
<1>5. \A d \in Calls : Running(d)' => Running(d)
  BY <1>2 DEF ServerInv, ServerTypeOK, Running
<1>6. ASSUME ~overlapped' PROVE OneCallAtATime' /\ ChildIsHeld' /\ StartsAlone'
  BY <1>1, <1>5, <1>6 DEF ServerInv, OneCallAtATime, ChildIsHeld, StartsAlone
<1> QED  BY <1>3, <1>4, <1>6 DEF ServerInv

\* A server of another instance that starts beside an owned child is in a race with it.
LEMMA SiblingKeeps == ASSUME ServerInv, SiblingStarts \/ SiblingStops PROVE ServerInv'
<1>1. /\ UNCHANGED <<call, wants, victim, child, process, owns, adopted, overlapped>>
      /\ entry' \in BOOLEAN /\ sibling' \in {"up", "gone"}
  BY DEF SiblingStarts, SiblingStops
<1>2. \/ sibling' = "gone" /\ raced' = raced
      \/ raced' = (raced \/ owns \/ \E c \in Calls : call[c] = "ending" /\ victim[c].owned)
  BY DEF SiblingStarts, SiblingStops
<1>3. raced' \in BOOLEAN
  BY <1>2 DEF ServerInv, ServerTypeOK
<1>4. ServerTypeOK'
  BY <1>1, <1>3 DEF ServerInv, ServerTypeOK
<1>5. OwnedIsRaced'
  BY <1>1, <1>2 DEF ServerInv, OwnedIsRaced
<1>6. ASSUME ~overlapped' PROVE OneCallAtATime' /\ ChildIsHeld' /\ StartsAlone'
  BY <1>1, <1>6 DEF ServerInv, OneCallAtATime, ChildIsHeld, StartsAlone, Running
<1> QED  BY <1>4, <1>5, <1>6 DEF ServerInv

\* Every other step leaves the entry, or writes it, or goes with the server of
\* the other instance.
LEMMA ServerSteps == ServerInv /\ [ServerNext]_srvVars => ServerInv' /\ EntryKept
<1> SUFFICES ASSUME ServerInv, [ServerNext]_srvVars PROVE ServerInv' /\ EntryKept
  OBVIOUS
<1>1. CASE UNCHANGED srvVars
  BY <1>1 DEF srvVars, ServerInv, ServerTypeOK, OwnedIsRaced, OneCallAtATime, ChildIsHeld, StartsAlone,
              Running, EntryKept
<1>2. ASSUME NEW c \in Calls, StartServer(c) \/ StopServer(c) PROVE ServerInv' /\ EntryKept
  BY <1>2, StartServerKeeps, StopKeeps DEF StartServer, StopServer, EntryKept
<1>3. ASSUME NEW c \in Calls, Adopt(c) \/ SpawnServer(c) PROVE ServerInv' /\ EntryKept
  <2>1. entry' = TRUE \/ entry' = entry
    BY <1>3 DEF Adopt, SpawnServer
  <2>2. EntryKept
    BY <2>1 DEF EntryKept
  <2> QED  BY <1>3, <2>2, AdoptKeeps, SpawnKeeps
<1>4. ASSUME NEW c \in Calls, ProbeFails(c) \/ StartGivenUp(c) \/ Ready(c) \/ NeverReady(c)
      PROVE  ServerInv' /\ EntryKept
  <2>1. entry' = TRUE \/ entry' = entry
    BY <1>4 DEF ProbeFails, StartGivenUp, Ready, NeverReady
  <2>2. EntryKept
    BY <2>1 DEF EntryKept
  <2>3. ServerInv'
    BY <1>4, StartMovesOn
  <2> QED  BY <2>2, <2>3
<1>5. ASSUME NEW c \in Calls, LetGo(c) PROVE ServerInv' /\ EntryKept
  BY <1>5, LetGoKeeps DEF LetGo, EntryKept
<1>6. ASSUME NEW c \in Calls, ChildListens(c) \/ ChildEnds(c) PROVE ServerInv' /\ EntryKept
  BY <1>6, ChildrenKeep DEF ChildListens, ChildEnds, EntryKept
<1>7. CASE SiblingStarts \/ SiblingStops
  BY <1>7, SiblingKeeps DEF SiblingStarts, SiblingStops, EntryKept
<1> QED  BY <1>1, <1>2, <1>3, <1>4, <1>5, <1>6, <1>7, StopEndsKeeps DEF ServerNext

\* Whatever calls, children and other instances do: calls that come one after
\* another lose no child, and no entry goes but in a race for the port.
THEOREM ServerIsKept == ServerInit /\ [][ServerNext]_srvVars => ServerKept
<1>1. ServerInv /\ [ServerNext]_srvVars => ServerInv'
  BY ServerSteps
<1>2. ServerInv => ServerTypeOK /\ NoChildLeaked
  BY DEF ServerInv, NoChildLeaked, ChildIsHeld
<1>3. ServerInv /\ [ServerNext]_srvVars
        => [sibling = "up" /\ sibling' = "up" /\ entry /\ ~entry' => raced]_srvVars
  BY ServerSteps DEF EntryKept
<1> QED  BY ServerStarts, <1>1, <1>2, <1>3, PTL DEF ServerKept, SiblingKeepsEntry

-----------------------------------------------------------------------------
(* The Freebuff instance.                                                  *)

\* Calls that come one after another: the last one is alone, and a start finds
\* no process.
FbAlone == \A c \in FbCalls : fbCall[c] \notin {"idle", "done"} => c = fbLast
FbStarting == \A c \in FbCalls : fbCall[c] \in {"setup", "rm", "run", "spawn"} => source = {}
FbHeld == \A c \in source : fbProcess = c /\ method = "source"

\* What a call found the method to be it still is, and its process the one that
\* is held.
FbMethods ==
    \A c \in FbCalls :
        /\ fbCall[c] \in {"rm", "run", "find", "stop"} => method = "docker"
        /\ fbCall[c] = "spawn" => method = "source"
        /\ fbCall[c] = "look" => method # "source"
        /\ fbCall[c] = "term" => method = "source" /\ target[c] = fbProcess

\* A container that runs was run by docker, or is that of an earlier life.
FbOurs == containerUp => method = "docker" \/ container = Old

Calm == FbAlone /\ FbStarting /\ FbHeld /\ FbMethods /\ FbOurs

\* A call that only stops never starts.
StopsOnly ==
    \A c \in FbCalls :
        fbWants[c] = "stop" => fbCall[c] \in {"look", "find", "stop", "term", "done"}

FbInv == FreebuffTypeOK /\ StopsOnly /\ (~Disturbed => Calm) /\ StopLeavesNothing

\* At the start no process runs, and a container only from an earlier life.
LEMMA FbStarts == FreebuffInit => FbInv
<1> SUFFICES ASSUME FreebuffInit PROVE FbInv
  OBVIOUS
<1>1. FreebuffTypeOK
  BY FreebuffAssumption DEF FreebuffInit, FreebuffTypeOK, Containers
<1>2. StopsOnly /\ StopLeavesNothing
  BY DEF FreebuffInit, StopsOnly, StopLeavesNothing
<1>3. Calm
  BY FreebuffAssumption DEF FreebuffInit, Calm, FbAlone, FbStarting, FbHeld, FbMethods, FbOurs
<1> QED  BY <1>1, <1>2, <1>3 DEF FbInv

\* Where a call stands after a step of its own.
LEMMA FbMoves ==
    ASSUME FreebuffTypeOK, NEW c \in FbCalls, NEW pc, FbAt(c, pc)
    PROVE  fbCall'[c] = pc /\ \A d \in FbCalls : d # c => fbCall'[d] = fbCall[d]
  BY DEF FreebuffTypeOK, FbAt

Places == {"idle", "setup", "rm", "run", "spawn", "ready", "look", "find", "stop", "term", "status", "done"}

\* The places a call may move to.
LEMMA FbPlaced ==
    ASSUME FreebuffTypeOK, NEW c \in FbCalls, NEW pc \in Places, FbAt(c, pc)
    PROVE  fbCall' \in [FbCalls -> Places]
  BY DEF FreebuffTypeOK, FbAt, Places

\* Where a start may go.
LEMMA PreparesTo ==
    ASSUME FreebuffTypeOK, NEW c \in FbCalls, Prepares(c)
    PROVE  \E pc \in {"setup", "rm", "spawn", "done"} :
              /\ FbAt(c, pc)
              /\ pc = "rm" => method = "docker"
              /\ pc = "spawn" => method = "source"
  BY DEF Prepares, Configured, FreebuffTypeOK

\* The same for a call that finds nothing running.
LEMMA BeginsTo ==
    ASSUME FreebuffTypeOK, NEW c \in FbCalls, Begins(c)
    PROVE  \E pc \in {"setup", "rm", "spawn", "done"} :
              /\ FbAt(c, pc)
              /\ pc = "rm" => method = "docker"
              /\ pc = "spawn" => method = "source"
              /\ pc # "done" => ~FbRunning
  BY PreparesTo DEF Begins

\* Where a stop goes.
LEMMA StopsTo ==
    ASSUME FreebuffTypeOK, NEW c \in FbCalls, Stops(c)
    PROVE  \E pc \in {"look", "find", "stop", "term", "done"} :
              /\ FbAt(c, pc)
              /\ pc = "look" => method = "none"
              /\ pc \in {"find", "stop"} => method = "docker"
              /\ pc = "term" => method = "source" /\ target' = [target EXCEPT ![c] = fbProcess]
              /\ pc = "done" => method = "source" /\ fbProcess \notin source
              /\ target' \in [FbCalls -> Containers \cup {None}]
              /\ \A d \in FbCalls : d # c => target'[d] = target[d]
<1>1. fbProcess \in Containers \cup {None} /\ containerId \in Containers \cup {None}
  BY DEF FreebuffTypeOK, Containers
<1>2. FbAt(c, StopAt) /\ StopAt \in {"look", "find", "stop", "term", "done"}
  BY DEF Stops, StopAt
<1>3. target' = [target EXCEPT ![c] = IF StopAt = "stop" THEN containerId
                                       ELSE IF StopAt = "term" THEN fbProcess ELSE None]
  BY DEF Stops
<1>4. /\ target' \in [FbCalls -> Containers \cup {None}]
      /\ \A d \in FbCalls : d # c => target'[d] = target[d]
  BY <1>1, <1>3 DEF FreebuffTypeOK
<1>5. StopAt = "term" => target' = [target EXCEPT ![c] = fbProcess]
  BY <1>3
<1>6. /\ StopAt = "look" => method = "none"
      /\ StopAt \in {"find", "stop"} => method = "docker"
      /\ StopAt = "term" => method = "source"
      /\ StopAt = "done" => method = "source" /\ fbProcess \notin source
  BY DEF StopAt, FreebuffTypeOK
<1> QED  BY <1>2, <1>4, <1>5, <1>6

\* A process that does not run, of a manager that is not disturbed, is none.
LEMMA NoneRuns ==
    ASSUME FbHeld, FreebuffTypeOK, fbProcess \notin source \/ method # "source"
    PROVE  source = {}
  BY DEF FbHeld

\* A call of the page is the only one, unless it comes while another is under way.
LEMMA FbCalledAlone ==
    ASSUME FbInv, NEW c \in FbCalls, Called(c), NEW pc, FbAt(c, pc), ~Disturbed',
           UNCHANGED methodChanged
    PROVE  Calm /\ FbAlone' /\ \A d \in FbCalls : d # c => fbCall'[d] \in {"idle", "done"}
<1>1. ~Disturbed /\ ~FbUnderWay /\ fbLast' = c
  BY DEF Called, Disturbed
<1>2. \A d \in FbCalls : d # c => fbCall'[d] \in {"idle", "done"}
  BY <1>1, FbMoves DEF FbInv, FbUnderWay
<1> QED  BY <1>1, <1>2 DEF FbInv, FbAlone

\* So is one that goes on.
LEMMA FbGoesOn ==
    ASSUME FbInv, NEW c \in FbCalls, fbCall[c] \notin {"idle", "done"}, NEW pc, FbAt(c, pc),
           ~Disturbed', UNCHANGED <<calledAtOnce, fbLast>>, methodChanged => methodChanged'
    PROVE  /\ ~Disturbed /\ Calm /\ FbAlone' /\ fbLast = c
           /\ \A d \in FbCalls : d # c => fbCall'[d] \in {"idle", "done"}
<1>1. ~Disturbed /\ Calm
  BY DEF FbInv, Disturbed
<1>2. fbLast = c
  BY <1>1 DEF Calm, FbAlone
<1>3. \A d \in FbCalls : d # c => fbCall'[d] \in {"idle", "done"}
  BY <1>1, <1>2, FbMoves DEF FbInv, Calm, FbAlone
<1> QED  BY <1>1, <1>2, <1>3 DEF FbAlone

\* For the others, FbStarting and FbMethods say nothing.
LEMMA FbOne ==
    ASSUME NEW c \in FbCalls, \A d \in FbCalls : d # c => fbCall'[d] \in {"idle", "done"},
           fbCall'[c] \in {"setup", "rm", "run", "spawn"} => source' = {},
           fbCall'[c] \in {"rm", "run", "find", "stop"} => method' = "docker",
           fbCall'[c] = "spawn" => method' = "source",
           fbCall'[c] = "look" => method' # "source",
           fbCall'[c] = "term" => method' = "source" /\ target'[c] = fbProcess'
    PROVE  FbStarting' /\ FbMethods'
<1>1. FbStarting'
  BY DEF FbStarting
<1>2. FbMethods'
  BY DEF FbMethods
<1> QED  BY <1>1, <1>2

\* What StopLeavesNothing says of the call that moves is enough.
LEMMA StopLeavesFor ==
    ASSUME NEW c \in FbCalls, fbLast' = c,
           fbCall'[c] = "done" /\ fbWants'[c] = "stop" /\ ~Disturbed' /\ ~dockerFailed'
               => source' = {} /\ (containerUp' => method' = "source" /\ container' = Old)
    PROVE  StopLeavesNothing'
  BY DEF StopLeavesNothing

\* A start goes on where nothing runs.
LEMMA FbStartKeeps == ASSUME FbInv, NEW c \in FbCalls, FbStart(c) PROVE FbInv'
<1>1. /\ Called(c) /\ fbWants' = [fbWants EXCEPT ![c] = "start"] /\ Begins(c)
      /\ UNCHANGED <<target, dockerFailed, method, binaryReady, containerId, fbProcess, methodChanged,
                     container, containerUp, source>>
  BY DEF FbStart, Memory, Instance
<1>2. FreebuffTypeOK
  BY DEF FbInv
<1>3. PICK pc \in {"setup", "rm", "spawn", "done"} :
              /\ FbAt(c, pc)
              /\ pc = "rm" => method = "docker"
              /\ pc = "spawn" => method = "source"
              /\ pc # "done" => ~FbRunning
  BY <1>1, <1>2, BeginsTo
<1>4. fbCall'[c] = pc /\ \A d \in FbCalls : d # c => fbCall'[d] = fbCall[d]
  BY <1>2, <1>3, FbMoves
<1>5. fbLast' = c /\ calledAtOnce' \in BOOLEAN
  BY <1>1, <1>2 DEF Called, FreebuffTypeOK
<1>6. FreebuffTypeOK'
  <2>1. fbCall' \in [FbCalls -> Places]
    BY <1>2, <1>3, FbPlaced DEF Places
  <2> QED  BY <1>1, <1>2, <1>5, <2>1 DEF FreebuffTypeOK, Places
<1>7. fbWants'[c] = "start" /\ \A d \in FbCalls : d # c => fbWants'[d] = fbWants[d]
  BY <1>1, <1>2 DEF FreebuffTypeOK
<1>8. StopsOnly'
  BY <1>4, <1>7 DEF FbInv, StopsOnly
<1>9. StopLeavesNothing'
  BY <1>5, <1>7, StopLeavesFor
<1>10. ASSUME ~Disturbed' PROVE Calm'
  <2>1. Calm /\ FbAlone' /\ \A d \in FbCalls : d # c => fbCall'[d] \in {"idle", "done"}
    BY <1>1, <1>3, <1>10, FbCalledAlone
  <2>2. FbHeld' /\ FbOurs'
    BY <1>1, <2>1 DEF Calm, FbHeld, FbOurs
  <2>3. pc # "done" => source = {}
    BY <1>2, <1>3, <2>1, NoneRuns DEF FbRunning, Calm, FbHeld
  <2>4. FbStarting' /\ FbMethods'
    BY <1>1, <1>3, <1>4, <2>1, <2>3, FbOne
  <2> QED  BY <2>1, <2>2, <2>4 DEF Calm
<1> QED  BY <1>6, <1>8, <1>9, <1>10 DEF FbInv

\* A stop that ends at once had nothing to stop.
LEMMA FbStopKeeps == ASSUME FbInv, NEW c \in FbCalls, FbStop(c) PROVE FbInv'
<1>1. /\ Called(c) /\ Stops(c)
      /\ UNCHANGED <<dockerFailed, method, binaryReady, containerId, fbProcess, methodChanged,
                     container, containerUp, source>>
  BY DEF FbStop, Memory, Instance
<1>2. FreebuffTypeOK
  BY DEF FbInv
<1>3. PICK pc \in {"look", "find", "stop", "term", "done"} :
              /\ FbAt(c, pc)
              /\ pc = "look" => method = "none"
              /\ pc \in {"find", "stop"} => method = "docker"
              /\ pc = "term" => method = "source" /\ target' = [target EXCEPT ![c] = fbProcess]
              /\ pc = "done" => method = "source" /\ fbProcess \notin source
              /\ target' \in [FbCalls -> Containers \cup {None}]
              /\ \A d \in FbCalls : d # c => target'[d] = target[d]
  BY <1>1, <1>2, StopsTo
<1>4. fbCall'[c] = pc /\ \A d \in FbCalls : d # c => fbCall'[d] = fbCall[d]
  BY <1>2, <1>3, FbMoves
<1>5. fbLast' = c /\ calledAtOnce' \in BOOLEAN
  BY <1>1, <1>2 DEF Called, FreebuffTypeOK
<1>6. PICK w \in {"stop", "restart"} : fbWants' = [fbWants EXCEPT ![c] = w]
  BY DEF FbStop
<1>7. FreebuffTypeOK'
  <2>1. fbCall' \in [FbCalls -> Places]
    BY <1>2, <1>3, FbPlaced DEF Places
  <2> QED  BY <1>1, <1>2, <1>3, <1>5, <1>6, <2>1 DEF FreebuffTypeOK, Places
<1>8. \A d \in FbCalls : d # c => fbWants'[d] = fbWants[d]
  BY <1>2, <1>6 DEF FreebuffTypeOK
<1>9. StopsOnly'
  BY <1>4, <1>8 DEF FbInv, StopsOnly
<1>10. ASSUME ~Disturbed' PROVE Calm' /\ (pc = "done" => source' = {} /\ (containerUp' => container' = Old))
  <2>1. Calm /\ FbAlone' /\ \A d \in FbCalls : d # c => fbCall'[d] \in {"idle", "done"}
    BY <1>1, <1>3, <1>10, FbCalledAlone
  <2>2. FbHeld' /\ FbOurs'
    BY <1>1, <2>1 DEF Calm, FbHeld, FbOurs
  <2>3. pc = "done" => source' = {} /\ (containerUp' => container' = Old)
    BY <1>1, <1>2, <1>3, <2>1, <2>2, NoneRuns DEF Calm, FbOurs
  <2>4. pc = "term" => target'[c] = fbProcess
    BY <1>2, <1>3 DEF FreebuffTypeOK
  <2>5. FbStarting' /\ FbMethods'
    BY <1>1, <1>3, <1>4, <2>1, <2>4, FbOne
  <2> QED  BY <2>1, <2>2, <2>3, <2>5 DEF Calm
<1>11. StopLeavesNothing'
  BY <1>1, <1>3, <1>4, <1>5, <1>10, StopLeavesFor
<1> QED  BY <1>7, <1>9, <1>10, <1>11 DEF FbInv

\* A call under way that is no stop keeps what a stop promises.
LEMMA NotAStop ==
    ASSUME FbInv, NEW c \in FbCalls, fbCall[c] \notin {"idle", "done"}, NEW pc, FbAt(c, pc),
           fbWants'[c] # "stop", UNCHANGED <<calledAtOnce, fbLast>>, methodChanged => methodChanged'
    PROVE  StopLeavesNothing'
<1> SUFFICES ASSUME ~Disturbed' PROVE StopLeavesNothing'
  BY DEF StopLeavesNothing
<1>1. fbLast = c
  BY FbGoesOn
<1> QED  BY <1>1, StopLeavesFor

\* A set-up chooses the method before anything runs by it.
LEMMA SetupKeeps == ASSUME FbInv, NEW c \in FbCalls, Setup(c) PROVE FbInv'
<1>1. /\ fbCall[c] = "setup" /\ fbWants[c] # "stop"
      /\ UNCHANGED <<target, containerId, fbProcess, dockerFailed, fbWants, fbLast, calledAtOnce,
                     container, containerUp, source>>
  BY DEF Setup, Purpose, Instance, FbInv, StopsOnly
<1>2. FreebuffTypeOK
  BY DEF FbInv
<1>3. PICK pc \in {"rm", "spawn", "done"} :
        /\ FbAt(c, pc) /\ binaryReady' \in BOOLEAN /\ method' \in {"docker", "source", method}
        /\ pc = "rm" => method' = "docker"
        /\ pc = "spawn" => method' = "source"
        /\ methodChanged' = (methodChanged \/ {method, method'} = {"docker", "source"})
  <2>1. CASE \E m \in {"docker", "source"} : SetMethod(m) /\ Configured(c, m) /\ binaryReady' = TRUE
    BY <2>1 DEF SetMethod, Configured
  <2>2. CASE FbAt(c, "done") /\ binaryReady' = FALSE /\ UNCHANGED <<method, methodChanged>>
    <3>1. {method, method'} # {"docker", "source"}
      BY <2>2
    <3>2. methodChanged' = (methodChanged \/ {method, method'} = {"docker", "source"})
      BY <1>2, <2>2, <3>1 DEF FreebuffTypeOK
    <3> QED  BY <2>2, <3>2
  <2> QED  BY <2>1, <2>2 DEF Setup
<1>4. fbCall'[c] = pc /\ \A d \in FbCalls : d # c => fbCall'[d] = fbCall[d]
  BY <1>2, <1>3, FbMoves
<1>5. FreebuffTypeOK'
  <2>1. fbCall' \in [FbCalls -> Places]
    BY <1>2, <1>3, FbPlaced DEF Places
  <2>2. methodChanged' \in BOOLEAN /\ method' \in {"none", "docker", "source"}
    BY <1>2, <1>3 DEF FreebuffTypeOK
  <2> QED  BY <1>1, <1>2, <1>3, <2>1, <2>2 DEF FreebuffTypeOK, Places
<1>6. StopsOnly'
  BY <1>1, <1>4 DEF FbInv, StopsOnly
<1>7. StopLeavesNothing'
  BY <1>1, <1>3, NotAStop
<1>8. ASSUME ~Disturbed' PROVE Calm'
  <2>1. /\ Calm /\ FbAlone' /\ \A d \in FbCalls : d # c => fbCall'[d] \in {"idle", "done"}
    BY <1>1, <1>3, <1>8, FbGoesOn
  <2>2. source = {} /\ source' = {}
    BY <1>1, <2>1 DEF Calm, FbStarting
  <2>3. method = "docker" => method' = "docker"
    BY <1>3, <1>8 DEF Disturbed
  <2>4. FbHeld' /\ FbOurs'
    BY <1>1, <2>1, <2>2, <2>3 DEF Calm, FbHeld, FbOurs
  <2>5. FbStarting' /\ FbMethods'
    BY <1>3, <1>4, <2>1, <2>2, FbOne
  <2> QED  BY <2>1, <2>4, <2>5 DEF Calm
<1> QED  BY <1>5, <1>6, <1>7, <1>8 DEF FbInv

\* Removing a stale container comes before a container is run.
LEMMA RemoveKeeps == ASSUME FbInv, NEW c \in FbCalls, RemoveStale(c) PROVE FbInv'
<1>1. /\ fbCall[c] = "rm" /\ FbAt(c, "run") /\ fbWants[c] # "stop"
      /\ UNCHANGED <<target, source, method, binaryReady, containerId, fbProcess, methodChanged,
                     fbWants, fbLast, calledAtOnce>>
  BY DEF RemoveStale, Memory, Purpose, FbInv, StopsOnly
<1>2. \/ container' = None /\ containerUp' = FALSE /\ dockerFailed' = dockerFailed
      \/ dockerFailed' = TRUE /\ container' = container /\ containerUp' = containerUp
  BY DEF RemoveStale
<1>3. FreebuffTypeOK
  BY DEF FbInv
<1>4. fbCall'[c] = "run" /\ \A d \in FbCalls : d # c => fbCall'[d] = fbCall[d]
  BY <1>1, <1>3, FbMoves
<1>5. FreebuffTypeOK'
  <2>1. fbCall' \in [FbCalls -> Places]
    BY <1>1, <1>3, FbPlaced DEF Places
  <2>2. CASE container' = None /\ containerUp' = FALSE /\ dockerFailed' = dockerFailed
    BY <1>1, <1>3, <2>1, <2>2 DEF FreebuffTypeOK, Places
  <2>3. CASE dockerFailed' = TRUE /\ container' = container /\ containerUp' = containerUp
    BY <1>1, <1>3, <2>1, <2>3 DEF FreebuffTypeOK, Places
  <2> QED  BY <1>2, <2>2, <2>3
<1>6. StopsOnly'
  BY <1>1, <1>4 DEF FbInv, StopsOnly
<1>7. StopLeavesNothing'
  BY <1>1, NotAStop
<1>8. ASSUME ~Disturbed' PROVE Calm'
  <2>1. /\ Calm /\ FbAlone' /\ \A d \in FbCalls : d # c => fbCall'[d] \in {"idle", "done"}
    BY <1>1, <1>8, FbGoesOn
  <2>2. source = {} /\ method = "docker"
    BY <1>1, <2>1 DEF Calm, FbStarting, FbMethods
  <2>3. FbHeld' /\ FbOurs'
    BY <1>1, <2>2 DEF FbHeld, FbOurs
  <2>4. FbStarting' /\ FbMethods'
    BY <1>1, <1>4, <2>1, <2>2, FbOne
  <2> QED  BY <2>1, <2>3, <2>4 DEF Calm
<1> QED  BY <1>5, <1>6, <1>7, <1>8 DEF FbInv

\* docker run makes the container the call's own, or fails.
LEMMA RunKeeps == ASSUME FbInv, NEW c \in FbCalls, Run(c) PROVE FbInv'
<1>1. /\ fbCall[c] = "run" /\ fbWants[c] # "stop"
      /\ UNCHANGED <<target, source, method, binaryReady, fbProcess, methodChanged,
                     fbWants, fbLast, calledAtOnce>>
  BY DEF Run, Purpose, FbInv, StopsOnly
<1>2. FreebuffTypeOK
  BY DEF FbInv
<1>3. PICK pc \in {"ready", "done"} :
        /\ FbAt(c, pc) /\ containerId' \in {c, containerId} /\ dockerFailed' \in BOOLEAN
        /\ container' \in {c, container} /\ containerUp' \in BOOLEAN
        /\ containerUp' => container' # None
  <2>1. CASE /\ container = None /\ container' = c /\ containerUp' = TRUE
             /\ containerId' = c /\ FbAt(c, "ready") /\ UNCHANGED dockerFailed
    BY <1>2, <2>1, FreebuffAssumption DEF FreebuffTypeOK
  <2>2. CASE /\ container' = IF container = None THEN c ELSE container
             /\ FbAt(c, "done") /\ dockerFailed' = TRUE /\ UNCHANGED <<containerUp, containerId>>
    BY <1>2, <2>2, FreebuffAssumption DEF FreebuffTypeOK
  <2> QED  BY <2>1, <2>2 DEF Run
<1>4. fbCall'[c] = pc /\ \A d \in FbCalls : d # c => fbCall'[d] = fbCall[d]
  BY <1>2, <1>3, FbMoves
<1>5. FreebuffTypeOK'
  <2>1. fbCall' \in [FbCalls -> Places]
    BY <1>2, <1>3, FbPlaced DEF Places
  <2>2. containerId' \in Containers \cup {None} /\ container' \in Containers \cup {None}
    BY <1>2, <1>3 DEF FreebuffTypeOK, Containers
  <2>3. (containerUp' => container' # None) /\ containerUp' \in BOOLEAN /\ dockerFailed' \in BOOLEAN
    BY <1>3
  <2> QED  BY <1>1, <1>2, <2>1, <2>2, <2>3 DEF FreebuffTypeOK, Places
<1>6. StopsOnly'
  BY <1>1, <1>4 DEF FbInv, StopsOnly
<1>7. StopLeavesNothing'
  BY <1>1, <1>3, NotAStop
<1>8. ASSUME ~Disturbed' PROVE Calm'
  <2>1. /\ Calm /\ FbAlone' /\ \A d \in FbCalls : d # c => fbCall'[d] \in {"idle", "done"}
    BY <1>1, <1>3, <1>8, FbGoesOn
  <2>2. source = {} /\ method = "docker"
    BY <1>1, <2>1 DEF Calm, FbStarting, FbMethods
  <2>3. FbHeld' /\ FbOurs'
    BY <1>1, <2>2 DEF FbHeld, FbOurs
  <2>4. FbStarting' /\ FbMethods'
    BY <1>1, <1>4, <2>1, <2>2, FbOne
  <2> QED  BY <2>1, <2>3, <2>4 DEF Calm
<1> QED  BY <1>5, <1>6, <1>7, <1>8 DEF FbInv

\* The process that is spawned is the only one, and is held.
LEMMA SpawnProcessKeeps == ASSUME FbInv, NEW c \in FbCalls, Spawn(c) PROVE FbInv'
<1>1. /\ fbCall[c] = "spawn" /\ FbAt(c, "ready") /\ fbWants[c] # "stop"
      /\ fbProcess' = c /\ source' = source \cup {c}
      /\ UNCHANGED <<target, method, binaryReady, containerId, methodChanged, container,
                     containerUp, dockerFailed, fbWants, fbLast, calledAtOnce>>
  BY DEF Spawn, Purpose, FbInv, StopsOnly
<1>2. FreebuffTypeOK
  BY DEF FbInv
<1>3. fbCall'[c] = "ready" /\ \A d \in FbCalls : d # c => fbCall'[d] = fbCall[d]
  BY <1>1, <1>2, FbMoves
<1>4. FreebuffTypeOK'
  <2>1. fbCall' \in [FbCalls -> Places]
    BY <1>1, <1>2, FbPlaced DEF Places
  <2> QED  BY <1>1, <1>2, <2>1 DEF FreebuffTypeOK, Places
<1>5. StopsOnly'
  BY <1>1, <1>3 DEF FbInv, StopsOnly
<1>6. StopLeavesNothing'
  BY <1>1, NotAStop
<1>7. ASSUME ~Disturbed' PROVE Calm'
  <2>1. /\ Calm /\ FbAlone' /\ \A d \in FbCalls : d # c => fbCall'[d] \in {"idle", "done"}
    BY <1>1, <1>7, FbGoesOn
  <2>2. source = {} /\ method = "source"
    BY <1>1, <2>1 DEF Calm, FbStarting, FbMethods
  <2>3. FbHeld' /\ FbOurs'
    BY <1>1, <2>1, <2>2 DEF Calm, FbHeld, FbOurs
  <2>4. FbStarting' /\ FbMethods'
    BY <1>3, <2>1, FbOne
  <2> QED  BY <2>1, <2>3, <2>4 DEF Calm
<1> QED  BY <1>4, <1>5, <1>6, <1>7 DEF FbInv

\* A start that fails, or becomes healthy, leaves what it holds.
LEMMA SpawnFailsKeeps == ASSUME FbInv, NEW c \in FbCalls, SpawnFails(c) PROVE FbInv'
<1>1. /\ fbCall[c] \in {"spawn", "ready"} /\ FbAt(c, "done") /\ fbWants[c] # "stop"
      /\ UNCHANGED <<target, dockerFailed, method, binaryReady, containerId, fbProcess, methodChanged,
                     fbWants, fbLast, calledAtOnce, container, containerUp, source>>
  BY DEF SpawnFails, Memory, Purpose, Instance, FbInv, StopsOnly
<1>2. FreebuffTypeOK
  BY DEF FbInv
<1>3. fbCall'[c] = "done" /\ \A d \in FbCalls : d # c => fbCall'[d] = fbCall[d]
  BY <1>1, <1>2, FbMoves
<1>4. FreebuffTypeOK'
  <2>1. fbCall' \in [FbCalls -> Places]
    BY <1>1, <1>2, FbPlaced DEF Places
  <2> QED  BY <1>1, <1>2, <2>1 DEF FreebuffTypeOK, Places
<1>5. StopsOnly'
  BY <1>1, <1>3 DEF FbInv, StopsOnly
<1>6. StopLeavesNothing'
  BY <1>1, NotAStop
<1>7. ASSUME ~Disturbed' PROVE Calm'
  <2>1. /\ Calm /\ FbAlone' /\ \A d \in FbCalls : d # c => fbCall'[d] \in {"idle", "done"}
    BY <1>1, <1>7, FbGoesOn
  <2>2. FbHeld' /\ FbOurs'
    BY <1>1, <2>1 DEF Calm, FbHeld, FbOurs
  <2>3. FbStarting' /\ FbMethods'
    BY <1>3, <2>1, FbOne
  <2> QED  BY <2>1, <2>2, <2>3 DEF Calm
<1> QED  BY <1>4, <1>5, <1>6, <1>7 DEF FbInv

\* A start that never became healthy stops what it has started.
LEMMA FbReadyKeeps == ASSUME FbInv, NEW c \in FbCalls, FbReady(c) PROVE FbInv'
<1>1. /\ fbCall[c] = "ready" /\ fbWants[c] # "stop"
      /\ UNCHANGED <<fbLast, calledAtOnce, dockerFailed, method, binaryReady, containerId, fbProcess,
                     methodChanged, container, containerUp, source>>
  BY DEF FbReady, Memory, Instance, FbInv, StopsOnly
<1>2. FreebuffTypeOK
  BY DEF FbInv
<1>3. CASE FbAt(c, "done") /\ UNCHANGED <<fbWants, target>>
  <2>1. SpawnFails(c)
    BY <1>1, <1>3 DEF SpawnFails, Memory, Purpose, Instance
  <2> QED  BY <2>1, SpawnFailsKeeps
<1>4. CASE Stops(c) /\ fbWants' = [fbWants EXCEPT ![c] = "fail"]
  <2>1. PICK pc \in {"look", "find", "stop", "term", "done"} :
              /\ FbAt(c, pc)
              /\ pc = "look" => method = "none"
              /\ pc \in {"find", "stop"} => method = "docker"
              /\ pc = "term" => method = "source" /\ target' = [target EXCEPT ![c] = fbProcess]
              /\ pc = "done" => method = "source" /\ fbProcess \notin source
              /\ target' \in [FbCalls -> Containers \cup {None}]
              /\ \A d \in FbCalls : d # c => target'[d] = target[d]
    BY <1>2, <1>4, StopsTo
  <2>2. fbCall'[c] = pc /\ \A d \in FbCalls : d # c => fbCall'[d] = fbCall[d]
    BY <1>2, <2>1, FbMoves
  <2>3. fbWants'[c] = "fail" /\ \A d \in FbCalls : d # c => fbWants'[d] = fbWants[d]
    BY <1>2, <1>4 DEF FreebuffTypeOK
  <2>4. FreebuffTypeOK'
    <3>1. fbCall' \in [FbCalls -> Places]
      BY <1>2, <2>1, FbPlaced DEF Places
    <3>2. fbWants' \in [FbCalls -> {"start", "stop", "restart", "fail"}]
      BY <1>2, <1>4 DEF FreebuffTypeOK
    <3> QED  BY <1>1, <1>2, <2>1, <3>1, <3>2 DEF FreebuffTypeOK, Places
  <2>5. StopsOnly'
    BY <2>2, <2>3 DEF FbInv, StopsOnly
  <2>6. StopLeavesNothing'
    BY <1>1, <2>1, <2>3, NotAStop
  <2>7. ASSUME ~Disturbed' PROVE Calm'
    <3>1. /\ Calm /\ FbAlone' /\ \A d \in FbCalls : d # c => fbCall'[d] \in {"idle", "done"}
      BY <1>1, <2>1, <2>7, FbGoesOn
    <3>2. FbHeld' /\ FbOurs'
      BY <1>1, <3>1 DEF Calm, FbHeld, FbOurs
    <3>3. pc = "term" => target'[c] = fbProcess
      BY <1>2, <2>1 DEF FreebuffTypeOK
    <3>4. FbStarting' /\ FbMethods'
      BY <1>1, <2>1, <2>2, <3>1, <3>3, FbOne
    <3> QED  BY <3>1, <3>2, <3>4 DEF Calm
  <2> QED  BY <2>4, <2>5, <2>6, <2>7 DEF FbInv
<1> QED  BY <1>3, <1>4 DEF FbReady

\* What a stop that found nothing goes on with, or one that let go.
LEMMA StoppedTo ==
    ASSUME FbInv, NEW c \in FbCalls, Stopped(c)
    PROVE  \E pc \in {"setup", "rm", "spawn", "done"} :
              /\ FbAt(c, pc)
              /\ pc = "rm" => method = "docker"
              /\ pc = "spawn" => method = "source"
              /\ pc # "done" => ~FbRunning /\ fbWants[c] # "stop"
<1>1. CASE fbWants[c] = "restart"
  BY <1>1, BeginsTo DEF Stopped, FbInv
<1>2. CASE fbWants[c] # "restart"
  BY <1>2 DEF Stopped
<1> QED  BY <1>1, <1>2

\* The same for a stop that let go of an instance, unless the other kind runs.
LEMMA EndedTo ==
    ASSUME FbInv, NEW c \in FbCalls, NEW other, Ended(c, other)
    PROVE  \E pc \in {"setup", "rm", "spawn", "done"} :
              /\ FbAt(c, pc)
              /\ pc = "rm" => method = "docker"
              /\ pc = "spawn" => method = "source"
              /\ pc # "done" => ~other /\ fbWants[c] # "stop"
<1>1. CASE fbWants[c] = "restart" /\ ~other
  BY <1>1, PreparesTo DEF Ended, FbInv
<1>2. CASE ~(fbWants[c] = "restart" /\ ~other)
  BY <1>2 DEF Ended
<1> QED  BY <1>1, <1>2

\* Both when nothing runs: a start may follow.
LEMMA GoesOnEmpty ==
    ASSUME FbInv, NEW c \in FbCalls, fbCall[c] \notin {"idle", "done"},
           NEW pc \in {"setup", "rm", "spawn", "done"}, FbAt(c, pc),
           pc = "rm" => method' = "docker", pc = "spawn" => method' = "source",
           pc # "done" => fbWants[c] # "stop",
           UNCHANGED <<fbWants, fbLast, calledAtOnce>>, methodChanged => methodChanged',
           FreebuffTypeOK',
           ~Disturbed' => source' = {} /\ FbOurs',
           ~Disturbed' /\ ~dockerFailed' /\ fbWants[c] = "stop"
               => (containerUp' => method' = "source" /\ container' = Old)
    PROVE  FbInv'
<1>1. fbCall'[c] = pc /\ \A d \in FbCalls : d # c => fbCall'[d] = fbCall[d]
  BY FbMoves DEF FbInv
<1>2. StopsOnly'
  BY <1>1 DEF FbInv, StopsOnly
<1>3. ASSUME ~Disturbed' PROVE Calm' /\ fbLast' = c
  <2>1. /\ Calm /\ FbAlone' /\ fbLast = c /\ \A d \in FbCalls : d # c => fbCall'[d] \in {"idle", "done"}
    BY <1>3, FbGoesOn
  <2>2. FbHeld' /\ FbOurs'
    BY <1>3 DEF FbHeld
  <2>3. FbStarting' /\ FbMethods'
    BY <1>1, <1>3, <2>1, FbOne
  <2> QED  BY <2>1, <2>2, <2>3 DEF Calm
<1>4. StopLeavesNothing'
  <2> SUFFICES ASSUME ~Disturbed' PROVE StopLeavesNothing'
    BY DEF StopLeavesNothing
  <2> QED  BY <1>3, StopLeavesFor
<1> QED  BY <1>2, <1>3, <1>4 DEF FbInv

\* A manager that knows of nothing stops the container it finds up.
LEMMA LookKeeps == ASSUME FbInv, NEW c \in FbCalls, Look(c) PROVE FbInv'
<1>1. /\ fbCall[c] = "look"
      /\ UNCHANGED <<binaryReady, fbProcess, dockerFailed, fbWants, fbLast, calledAtOnce,
                     container, containerUp, source>>
  BY DEF Look, Purpose, Instance
<1>2. FreebuffTypeOK
  BY DEF FbInv
<1>3. CASE containerUp
  <2>1. /\ FbAt(c, "stop") /\ containerId' = container /\ method' = "docker"
        /\ target' = [target EXCEPT ![c] = container]
        /\ methodChanged' = (methodChanged \/ {method, "docker"} = {"docker", "source"})
    BY <1>3 DEF Look, SetMethod
  <2>2. fbCall'[c] = "stop" /\ \A d \in FbCalls : d # c => fbCall'[d] = fbCall[d]
    BY <1>2, <2>1, FbMoves
  <2>3. FreebuffTypeOK'
    <3>1. fbCall' \in [FbCalls -> Places]
      BY <1>2, <2>1, FbPlaced DEF Places
    <3>2. methodChanged' \in BOOLEAN
      BY <1>2, <2>1 DEF FreebuffTypeOK
    <3> QED  BY <1>1, <1>2, <2>1, <3>1, <3>2 DEF FreebuffTypeOK, Places
  <2>4. StopsOnly'
    BY <1>1, <2>2 DEF FbInv, StopsOnly
  <2>5. ASSUME ~Disturbed' PROVE Calm' /\ fbLast' = c
    <3>1. /\ Calm /\ FbAlone' /\ fbLast = c
          /\ \A d \in FbCalls : d # c => fbCall'[d] \in {"idle", "done"}
      BY <1>1, <2>1, <2>5, FbGoesOn
    <3>2. source = {}
      BY <1>1, <3>1 DEF Calm, FbMethods, FbHeld
    <3>3. FbHeld' /\ FbOurs'
      BY <1>1, <2>1, <3>2 DEF FbHeld, FbOurs
    <3>4. FbStarting' /\ FbMethods'
      BY <2>1, <2>2, <3>1, FbOne
    <3> QED  BY <1>1, <3>1, <3>3, <3>4 DEF Calm
  <2>6. StopLeavesNothing'
    <3> SUFFICES ASSUME ~Disturbed' PROVE StopLeavesNothing'
      BY DEF StopLeavesNothing
    <3> QED  BY <2>2, <2>5, StopLeavesFor
  <2> QED  BY <2>3, <2>4, <2>5, <2>6 DEF FbInv
<1>4. CASE ~containerUp
  <2>1. Stopped(c) /\ UNCHANGED <<method, methodChanged, containerId, target>>
    BY <1>4 DEF Look
  <2>2. PICK pc \in {"setup", "rm", "spawn", "done"} :
              /\ FbAt(c, pc)
              /\ pc = "rm" => method = "docker"
              /\ pc = "spawn" => method = "source"
              /\ pc # "done" => ~FbRunning /\ fbWants[c] # "stop"
    BY <2>1, StoppedTo
  <2>3. FreebuffTypeOK'
    <3>1. fbCall' \in [FbCalls -> Places]
      BY <1>2, <2>2, FbPlaced DEF Places
    <3> QED  BY <1>1, <1>2, <2>1, <3>1 DEF FreebuffTypeOK, Places
  <2>4. ASSUME ~Disturbed' PROVE source' = {} /\ FbOurs'
    <3>1. Calm
      BY <1>1, <2>1, <2>4 DEF FbInv, Disturbed
    <3> QED  BY <1>1, <1>4, <3>1 DEF Calm, FbMethods, FbHeld, FbOurs
  <2> QED  BY <1>1, <1>4, <2>1, <2>2, <2>3, <2>4, GoesOnEmpty
<1> QED  BY <1>3, <1>4

\* A manager without an id stops the container of the name.
LEMMA FindKeeps == ASSUME FbInv, NEW c \in FbCalls, Find(c) PROVE FbInv'
<1>1. /\ fbCall[c] = "find"
      /\ UNCHANGED <<dockerFailed, method, binaryReady, containerId, fbProcess, methodChanged,
                     fbWants, fbLast, calledAtOnce, container, containerUp, source>>
  BY DEF Find, Memory, Purpose, Instance
<1>2. FreebuffTypeOK
  BY DEF FbInv
<1>3. CASE container # None
  <2>1. FbAt(c, "stop") /\ target' = [target EXCEPT ![c] = container]
    BY <1>3 DEF Find
  <2>2. fbCall'[c] = "stop" /\ \A d \in FbCalls : d # c => fbCall'[d] = fbCall[d]
    BY <1>2, <2>1, FbMoves
  <2>3. FreebuffTypeOK'
    <3>1. fbCall' \in [FbCalls -> Places]
      BY <1>2, <2>1, FbPlaced DEF Places
    <3> QED  BY <1>1, <1>2, <2>1, <3>1 DEF FreebuffTypeOK, Places
  <2>4. StopsOnly'
    BY <1>1, <2>2 DEF FbInv, StopsOnly
  <2>5. ASSUME ~Disturbed' PROVE Calm' /\ fbLast' = c
    <3>1. /\ Calm /\ FbAlone' /\ fbLast = c
          /\ \A d \in FbCalls : d # c => fbCall'[d] \in {"idle", "done"}
      BY <1>1, <2>1, <2>5, FbGoesOn
    <3>2. method = "docker" /\ source = {}
      BY <1>1, <3>1 DEF Calm, FbMethods, FbHeld
    <3>3. FbHeld' /\ FbOurs'
      BY <1>1, <3>2 DEF FbHeld, FbOurs
    <3>4. FbStarting' /\ FbMethods'
      BY <1>1, <2>2, <3>1, <3>2, FbOne
    <3> QED  BY <1>1, <3>1, <3>3, <3>4 DEF Calm
  <2>6. StopLeavesNothing'
    <3> SUFFICES ASSUME ~Disturbed' PROVE StopLeavesNothing'
      BY DEF StopLeavesNothing
    <3> QED  BY <2>2, <2>5, StopLeavesFor
  <2> QED  BY <2>3, <2>4, <2>5, <2>6 DEF FbInv
<1>4. CASE container = None
  <2>1. Stopped(c) /\ UNCHANGED target
    BY <1>4 DEF Find
  <2>2. PICK pc \in {"setup", "rm", "spawn", "done"} :
              /\ FbAt(c, pc)
              /\ pc = "rm" => method = "docker"
              /\ pc = "spawn" => method = "source"
              /\ pc # "done" => ~FbRunning /\ fbWants[c] # "stop"
    BY <2>1, StoppedTo
  <2>3. ~containerUp
    BY <1>2, <1>4 DEF FreebuffTypeOK
  <2>4. FreebuffTypeOK'
    <3>1. fbCall' \in [FbCalls -> Places]
      BY <1>2, <2>2, FbPlaced DEF Places
    <3> QED  BY <1>1, <1>2, <2>1, <3>1 DEF FreebuffTypeOK, Places
  <2>5. ASSUME ~Disturbed' PROVE source' = {} /\ FbOurs'
    <3>1. Calm
      BY <1>1, <2>5 DEF FbInv, Disturbed
    <3> QED  BY <1>1, <3>1 DEF Calm, FbMethods, FbHeld, FbOurs
  <2> QED  BY <1>1, <2>2, <2>3, <2>4, <2>5, GoesOnEmpty
<1> QED  BY <1>3, <1>4

\* After docker stop no container runs, or a docker command failed.
LEMMA StopContainerKeeps == ASSUME FbInv, NEW c \in FbCalls, StopContainer(c) PROVE FbInv'
<1>1. /\ fbCall[c] = "stop" /\ containerId' = None
      /\ Ended(c, method = "source" /\ fbProcess \in source)
      /\ UNCHANGED <<target, method, binaryReady, fbProcess, methodChanged, source,
                     fbWants, fbLast, calledAtOnce>>
  BY DEF StopContainer, Purpose
<1>2. \/ container' = None /\ containerUp' = FALSE /\ dockerFailed' = dockerFailed
      \/ dockerFailed' = TRUE /\ container' = container /\ containerUp' = containerUp
  BY DEF StopContainer
<1>3. FreebuffTypeOK
  BY DEF FbInv
<1>4. PICK pc \in {"setup", "rm", "spawn", "done"} :
              /\ FbAt(c, pc)
              /\ pc = "rm" => method = "docker"
              /\ pc = "spawn" => method = "source"
              /\ pc # "done" => fbWants[c] # "stop"
  BY <1>1, EndedTo
<1>5. FreebuffTypeOK'
  <2>1. fbCall' \in [FbCalls -> Places]
    BY <1>3, <1>4, FbPlaced DEF Places
  <2>2. CASE container' = None /\ containerUp' = FALSE /\ dockerFailed' = dockerFailed
    BY <1>1, <1>3, <2>1, <2>2 DEF FreebuffTypeOK, Places
  <2>3. CASE dockerFailed' = TRUE /\ container' = container /\ containerUp' = containerUp
    BY <1>1, <1>3, <2>1, <2>3 DEF FreebuffTypeOK, Places
  <2> QED  BY <1>2, <2>2, <2>3
<1>6. ASSUME ~Disturbed' PROVE source' = {} /\ FbOurs'
  <2>1. Calm
    BY <1>1, <1>6 DEF FbInv, Disturbed
  <2>2. method = "docker" /\ source = {}
    BY <1>1, <2>1 DEF Calm, FbMethods, FbHeld
  <2> QED  BY <1>1, <2>2 DEF FbOurs
<1>7. ~dockerFailed' => ~containerUp'
  BY <1>2
<1> QED  BY <1>1, <1>4, <1>5, <1>6, <1>7, GoesOnEmpty

\* The process a stop terminates is the only one.
LEMMA TerminateKeeps == ASSUME FbInv, NEW c \in FbCalls, Terminate(c) PROVE FbInv'
<1>1. /\ fbCall[c] = "term" /\ source' = source \ {target[c]} /\ fbProcess' = None
      /\ Ended(c, method = "docker" /\ containerId # None)
      /\ UNCHANGED <<target, method, binaryReady, containerId, methodChanged, container,
                     containerUp, dockerFailed, fbWants, fbLast, calledAtOnce>>
  BY DEF Terminate, Purpose
<1>2. FreebuffTypeOK
  BY DEF FbInv
<1>3. PICK pc \in {"setup", "rm", "spawn", "done"} :
              /\ FbAt(c, pc)
              /\ pc = "rm" => method = "docker"
              /\ pc = "spawn" => method = "source"
              /\ pc # "done" => fbWants[c] # "stop"
  BY <1>1, EndedTo
<1>4. FreebuffTypeOK'
  <2>1. fbCall' \in [FbCalls -> Places]
    BY <1>2, <1>3, FbPlaced DEF Places
  <2> QED  BY <1>1, <1>2, <2>1 DEF FreebuffTypeOK, Places
<1>5. ASSUME ~Disturbed'
      PROVE  source' = {} /\ FbOurs' /\ (containerUp' => method' = "source" /\ container' = Old)
  <2>1. Calm
    BY <1>1, <1>5 DEF FbInv, Disturbed
  <2>2. method = "source" /\ target[c] = fbProcess
    BY <1>1, <2>1 DEF Calm, FbMethods
  <2>3. source \subseteq {fbProcess}
    BY <2>1 DEF Calm, FbHeld
  <2> QED  BY <1>1, <2>1, <2>2, <2>3 DEF Calm, FbOurs
<1> QED  BY <1>1, <1>3, <1>4, <1>5, GoesOnEmpty

\* A look at the status takes docker for the method: an instance from source is then disturbed.
LEMMA StatusKeeps == ASSUME FbInv, Status PROVE FbInv'
<1>1. /\ containerId' = (IF containerUp THEN container ELSE containerId) /\ method' = "docker"
      /\ methodChanged' = (methodChanged \/ {method, "docker"} = {"docker", "source"})
      /\ UNCHANGED <<fbCall, target, binaryReady, fbProcess, dockerFailed, fbWants, fbLast,
                     calledAtOnce, container, containerUp, source>>
  BY DEF Status, SetMethod, Purpose, Instance
<1>2. FreebuffTypeOK
  BY DEF FbInv
<1>3. FreebuffTypeOK'
  <2>1. methodChanged' \in BOOLEAN
    BY <1>1, <1>2 DEF FreebuffTypeOK
  <2> QED  BY <1>1, <1>2, <2>1 DEF FreebuffTypeOK
<1>4. StopsOnly'
  BY <1>1 DEF FbInv, StopsOnly
<1>5. ASSUME ~Disturbed' PROVE Calm /\ method # "source"
  BY <1>1, <1>5 DEF FbInv, Disturbed
<1>6. ASSUME ~Disturbed' PROVE Calm'
  <2>1. FbAlone' /\ FbStarting' /\ FbOurs'
    BY <1>1, <1>5, <1>6 DEF Calm, FbAlone, FbStarting, FbOurs
  <2>2. FbHeld'
    BY <1>1, <1>5, <1>6 DEF Calm, FbHeld
  <2>3. FbMethods'
    BY <1>1, <1>5, <1>6 DEF Calm, FbMethods
  <2> QED  BY <2>1, <2>2, <2>3 DEF Calm
<1>7. StopLeavesNothing'
  <2> SUFFICES ASSUME ~Disturbed' PROVE StopLeavesNothing'
    BY DEF StopLeavesNothing
  <2>1. ~Disturbed
    BY <1>1 DEF Disturbed
  <2> QED  BY <1>1, <1>5, <2>1 DEF FbInv, StopLeavesNothing
<1> QED  BY <1>3, <1>4, <1>6, <1>7 DEF FbInv

\* An instance that ends by itself leaves less to stop.
LEMMA DiesKeeps == ASSUME FbInv, InstanceDies PROVE FbInv'
<1>1. UNCHANGED <<fbCall, target, container, dockerFailed, method, binaryReady, containerId, fbProcess,
                  methodChanged, fbWants, fbLast, calledAtOnce>>
  BY DEF InstanceDies, Memory, Purpose
<1>2. source' \subseteq source /\ (containerUp' => containerUp) /\ containerUp' \in BOOLEAN
  <2>1. CASE containerUp /\ containerUp' = FALSE /\ UNCHANGED source
    BY <2>1
  <2>2. CASE (\E c \in source : source' = source \ {c}) /\ UNCHANGED containerUp
    BY <2>2 DEF FbInv, FreebuffTypeOK
  <2> QED  BY <2>1, <2>2 DEF InstanceDies
<1>3. FreebuffTypeOK'
  BY <1>1, <1>2 DEF FbInv, FreebuffTypeOK
<1>4. StopsOnly'
  BY <1>1 DEF FbInv, StopsOnly
<1>5. Disturbed' = Disturbed
  BY <1>1 DEF Disturbed
<1>6. ASSUME Calm PROVE Calm'
  <2>1. FbAlone' /\ FbMethods' /\ FbOurs'
    BY <1>1, <1>2, <1>6 DEF Calm, FbAlone, FbMethods, FbOurs
  <2>2. FbStarting' /\ FbHeld'
    BY <1>1, <1>2, <1>6 DEF Calm, FbStarting, FbHeld
  <2> QED  BY <2>1, <2>2 DEF Calm
<1>7. StopLeavesNothing'
  BY <1>1, <1>2, <1>5 DEF FbInv, StopLeavesNothing
<1> QED  BY <1>3, <1>4, <1>5, <1>6, <1>7 DEF FbInv

\* A step that changes nothing keeps the invariant.
LEMMA FbRests == ASSUME FbInv, UNCHANGED fbVars PROVE FbInv'
<1>1. FreebuffTypeOK' /\ StopsOnly' /\ Disturbed' = Disturbed
  BY DEF FbInv, fbVars, FreebuffTypeOK, StopsOnly, Disturbed
<1>2. Calm => Calm'
  BY DEF fbVars, Calm, FbAlone, FbStarting, FbHeld, FbMethods, FbOurs
<1>3. StopLeavesNothing'
  BY <1>1 DEF FbInv, fbVars, StopLeavesNothing
<1> QED  BY <1>1, <1>2, <1>3 DEF FbInv

\* Whatever calls, looks at the status, docker and the processes do: calls that
\* come one after another hold the process that runs, and a stop leaves none.
THEOREM FreebuffIsKept == FreebuffInit /\ [][FreebuffNext]_fbVars => []FreebuffKept
<1>1. FbInv /\ [FreebuffNext]_fbVars => FbInv'
  BY FbRests, FbStartKeeps, FbStopKeeps, SetupKeeps, RemoveKeeps, RunKeeps, SpawnProcessKeeps,
     SpawnFailsKeeps, FbReadyKeeps, LookKeeps, FindKeeps, StopContainerKeeps, TerminateKeeps,
     StatusKeeps, DiesKeeps DEF FreebuffNext
<1>2. FbInv => FreebuffKept
  <2> SUFFICES ASSUME FbInv PROVE FreebuffKept
    OBVIOUS
  <2>1. SourceIsHeld
    BY DEF FbInv, Calm, FbHeld, SourceIsHeld
  <2> QED  BY <2>1 DEF FbInv, FreebuffKept
<1> QED  BY FbStarts, <1>1, <1>2, PTL
=============================================================================
