-------------------------- MODULE FreebuffManager ---------------------------
(***************************************************************************)
(* The Freebuff2API instance (providers/freebuff/manager.py,               *)
(* binary_manager.py): a Docker container of a fixed name, or a process    *)
(* built from source, started, stopped and looked at by overlapping calls  *)
(* of the admin page.  A container or a process is named after the call    *)
(* that ran it; Old is the container an earlier life of the server left.   *)
(* Credentials, configuration, ports and model lists are left out.         *)
(***************************************************************************)
EXTENDS Naturals

CONSTANTS FbCalls, Old, None

ASSUME FreebuffAssumption == Old \notin FbCalls /\ None \notin FbCalls /\ Old # None

VARIABLES
    fbCall,      \* where each call stands
    fbWants,     \* what it was made for
    target,      \* the container or process a stop waits for
    method,      \* _method
    binaryReady, \* _binary_ready
    containerId, \* _docker_container_id
    fbProcess,   \* _process
    container,   \* the container of that name
    containerUp, \* it runs
    source,      \* the processes that run
    fbLast,        \* history: the last call that began
    calledAtOnce,  \* history: a call began while another was under way
    methodChanged, \* history: the method changed from one to the other
    dockerFailed   \* history: a docker command failed

fbVars == <<fbCall, fbWants, target, method, binaryReady, containerId, fbProcess,
            container, containerUp, source, fbLast, calledAtOnce, methodChanged, dockerFailed>>

Containers == FbCalls \cup {Old}

FreebuffTypeOK ==
    /\ fbCall \in [FbCalls -> {"idle", "setup", "rm", "run", "spawn", "ready", "look",
                               "find", "stop", "term", "status", "done"}]
    /\ fbWants \in [FbCalls -> {"start", "stop", "restart", "fail"}]
    /\ target \in [FbCalls -> Containers \cup {None}]
    /\ method \in {"none", "docker", "source"} /\ binaryReady \in BOOLEAN
    /\ containerId \in Containers \cup {None} /\ fbProcess \in FbCalls \cup {None}
    /\ container \in Containers \cup {None} /\ containerUp \in BOOLEAN
    /\ (containerUp => container # None) /\ source \subseteq FbCalls
    /\ fbLast \in FbCalls \cup {None} /\ calledAtOnce \in BOOLEAN /\ methodChanged \in BOOLEAN /\ dockerFailed \in BOOLEAN

FreebuffInit ==
    /\ fbCall = [c \in FbCalls |-> "idle"] /\ fbWants = [c \in FbCalls |-> "start"]
    /\ target = [c \in FbCalls |-> None] /\ method = "none" /\ binaryReady = FALSE
    /\ containerId = None /\ fbProcess = None
    /\ container \in {None, Old} /\ containerUp \in {FALSE, container = Old} /\ source = {}
    /\ fbLast = None /\ calledAtOnce = FALSE /\ methodChanged = FALSE /\ dockerFailed = FALSE

FbAt(c, pc) == fbCall' = [fbCall EXCEPT ![c] = pc]
FbUnderWay == \E c \in FbCalls : fbCall[c] \notin {"idle", "done"}
Instance == UNCHANGED <<container, containerUp, source>>
Memory == UNCHANGED <<method, binaryReady, containerId, fbProcess, methodChanged>>
Purpose == UNCHANGED <<fbWants, fbLast, calledAtOnce>>

\* A call of the admin page.
Called(c) ==
    /\ fbCall[c] = "idle" /\ fbLast' = c
    /\ calledAtOnce' = (calledAtOnce \/ FbUnderWay)

SetMethod(m) ==
    /\ method' = m
    /\ methodChanged' = (methodChanged \/ {method, m} = {"docker", "source"})

-----------------------------------------------------------------------------
(* start() and setup().                                                    *)

FbRunning == IF method = "docker" THEN containerId # None ELSE fbProcess \in source

\* Where a start goes once the configuration is written, or cannot be.
Configured(c, m) == FbAt(c, IF m = "docker" THEN "rm" ELSE "spawn") \/ FbAt(c, "done")

\* The binary is looked for only once in the life of the manager.
Prepares(c) ==
    IF binaryReady /\ method # "none" THEN Configured(c, method) ELSE FbAt(c, "setup")

Begins(c) == IF FbRunning THEN FbAt(c, "done") ELSE Prepares(c)

FbStart(c) ==
    /\ Called(c) /\ fbWants' = [fbWants EXCEPT ![c] = "start"] /\ Begins(c)
    /\ UNCHANGED <<target, dockerFailed>> /\ Memory /\ Instance

\* ensure_binary(): docker if it works, or else the binary, or else nothing.
Setup(c) ==
    /\ fbCall[c] = "setup"
    /\ \/ \E m \in {"docker", "source"} :
              SetMethod(m) /\ Configured(c, m) /\ binaryReady' = TRUE
       \/ FbAt(c, "done") /\ binaryReady' = FALSE /\ UNCHANGED <<method, methodChanged>>
    /\ UNCHANGED <<target, containerId, fbProcess, dockerFailed>> /\ Purpose /\ Instance

\* docker rm -f of the name, whatever runs under it.
RemoveStale(c) ==
    /\ fbCall[c] = "rm" /\ FbAt(c, "run")
    /\ \/ container' = None /\ containerUp' = FALSE /\ UNCHANGED dockerFailed
       \/ dockerFailed' = TRUE /\ UNCHANGED <<container, containerUp>>
    /\ UNCHANGED <<target, source>> /\ Memory /\ Purpose

\* docker run fails when the name is taken, or for another reason, which may
\* leave a container that does not run.
Run(c) ==
    /\ fbCall[c] = "run"
    /\ \/ /\ container = None /\ container' = c /\ containerUp' = TRUE
          /\ containerId' = c /\ FbAt(c, "ready") /\ UNCHANGED dockerFailed
       \/ /\ container' = IF container = None THEN c ELSE container
          /\ FbAt(c, "done") /\ dockerFailed' = TRUE /\ UNCHANGED <<containerUp, containerId>>
    /\ UNCHANGED <<target, method, binaryReady, fbProcess, methodChanged, source>> /\ Purpose

Spawn(c) ==
    /\ fbCall[c] = "spawn" /\ FbAt(c, "ready")
    /\ fbProcess' = c /\ source' = source \cup {c}
    /\ UNCHANGED <<target, method, binaryReady, containerId, methodChanged, container,
                   containerUp, dockerFailed>>
    /\ Purpose

SpawnFails(c) ==
    /\ fbCall[c] \in {"spawn", "ready"} /\ FbAt(c, "done")
    /\ UNCHANGED <<target, dockerFailed>> /\ Memory /\ Purpose /\ Instance

-----------------------------------------------------------------------------
(* stop() and restart().                                                   *)

\* Mutant: a manager that has started nothing stops nothing.
StopAtFresh ==
    IF method = "docker" THEN IF containerId # None THEN "stop" ELSE "find"
    ELSE IF fbProcess \in source THEN "term" ELSE "done"

\* Where a stop goes: it looks for a container when it does not know what the
\* method is, or the id of the container.
StopAt ==
    IF method = "none" THEN "look"
    ELSE IF method = "docker" THEN IF containerId # None THEN "stop" ELSE "find"
    ELSE IF fbProcess \in source THEN "term" ELSE "done"

Stops(c) ==
    /\ FbAt(c, StopAt)
    /\ target' = [target EXCEPT ![c] = IF StopAt = "stop" THEN containerId
                                       ELSE IF StopAt = "term" THEN fbProcess ELSE None]

FbStop(c) ==
    /\ Called(c) /\ Stops(c)
    /\ \E w \in {"stop", "restart"} : fbWants' = [fbWants EXCEPT ![c] = w]
    /\ UNCHANGED dockerFailed /\ Memory /\ Instance

\* The health check succeeds, or times out and the instance is stopped.
FbReady(c) ==
    /\ fbCall[c] = "ready"
    /\ \/ FbAt(c, "done") /\ UNCHANGED <<fbWants, target>>
       \/ Stops(c) /\ fbWants' = [fbWants EXCEPT ![c] = "fail"]
    /\ UNCHANGED <<fbLast, calledAtOnce, dockerFailed>> /\ Memory /\ Instance

\* What follows a stop that found nothing, or that let go of an instance.
Stopped(c) == IF fbWants[c] = "restart" THEN Begins(c) ELSE FbAt(c, "done")
Ended(c, other) ==
    IF fbWants[c] = "restart" /\ ~other THEN Prepares(c) ELSE FbAt(c, "done")

\* check_container_running() of a manager that has started nothing yet.
Look(c) ==
    /\ fbCall[c] = "look"
    /\ IF containerUp
       THEN /\ SetMethod("docker") /\ containerId' = container /\ FbAt(c, "stop")
            /\ target' = [target EXCEPT ![c] = container]
       ELSE Stopped(c) /\ UNCHANGED <<method, methodChanged, containerId, target>>
    /\ UNCHANGED <<binaryReady, fbProcess, dockerFailed>> /\ Purpose /\ Instance

\* The container of the name, be it up or not, for a manager without an id.
Find(c) ==
    /\ fbCall[c] = "find"
    /\ IF container # None
       THEN FbAt(c, "stop") /\ target' = [target EXCEPT ![c] = container]
       ELSE Stopped(c) /\ UNCHANGED target
    /\ UNCHANGED dockerFailed /\ Memory /\ Purpose /\ Instance

\* docker stop and docker rm of the id; the id is forgotten even if they fail.
StopContainer(c) ==
    /\ fbCall[c] = "stop" /\ containerId' = None
    /\ \/ /\ container = target[c] /\ container' = None /\ containerUp' = FALSE
          /\ UNCHANGED dockerFailed
       \/ dockerFailed' = TRUE /\ UNCHANGED <<container, containerUp>>
    /\ Ended(c, method = "source" /\ fbProcess \in source)
    /\ UNCHANGED <<target, method, binaryReady, fbProcess, methodChanged, source>> /\ Purpose

\* The process has ended, by itself or killed.
Terminate(c) ==
    /\ fbCall[c] = "term" /\ source' = source \ {target[c]} /\ fbProcess' = None
    /\ Ended(c, method = "docker" /\ containerId # None)
    /\ UNCHANGED <<target, method, binaryReady, containerId, methodChanged, container,
                   containerUp, dockerFailed>>
    /\ Purpose

-----------------------------------------------------------------------------
(* The status page, and instances that end by themselves.                  *)

\* check_actual_status(): a container of the name makes docker the method.
Status ==
    /\ container # None /\ SetMethod("docker")
    /\ containerId' = IF containerUp THEN container ELSE containerId
    /\ UNCHANGED <<fbCall, target, binaryReady, fbProcess, dockerFailed>>
    /\ Purpose /\ Instance

InstanceDies ==
    /\ \/ containerUp /\ containerUp' = FALSE /\ UNCHANGED source
       \/ \E c \in source : source' = source \ {c} /\ UNCHANGED containerUp
    /\ UNCHANGED <<fbCall, target, container, dockerFailed>> /\ Memory /\ Purpose

FreebuffNext ==
    \/ \E c \in FbCalls :
           \/ FbStart(c) \/ Setup(c) \/ RemoveStale(c) \/ Run(c) \/ Spawn(c) \/ SpawnFails(c)
           \/ FbReady(c) \/ FbStop(c) \/ Look(c) \/ Find(c) \/ StopContainer(c) \/ Terminate(c)
    \/ Status \/ InstanceDies

-----------------------------------------------------------------------------
(* Properties.                                                             *)

Disturbed == calledAtOnce \/ methodChanged

\* As long as calls come one after another, a process that runs is the one the
\* manager holds and would stop: unless a container of the name, found by the
\* status page, made it take the container for its instance.
SourceIsHeld ==
    \A c \in source : (fbProcess = c /\ method = "source") \/ Disturbed

\* After a stop nothing runs, if docker did as it was told: not even the
\* container an earlier life of the server left, unless the binary was chosen.
StopLeavesNothing ==
    \A c \in FbCalls :
        (fbLast = c /\ fbCall[c] = "done" /\ fbWants[c] = "stop" /\ ~Disturbed /\ ~dockerFailed)
            => source = {} /\ (containerUp => method = "source" /\ container = Old)

\* What the manager of the Freebuff instance keeps of processes and containers.
FreebuffKept == FreebuffTypeOK /\ SourceIsHeld /\ StopLeavesNothing
=============================================================================
