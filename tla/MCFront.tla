------------------------------ MODULE MCFront -------------------------------
(***************************************************************************)
(* What faces the user, for TLC: one of the transcript of a turn, the      *)
(* reading of a client's output, the life of the server, the messaging     *)
(* platforms and the status messages of a queue is run at a time.          *)
(***************************************************************************)
EXTENDS Transcript, ClientEvents, ServerLife, Platforms, QueuePositions

CONSTANTS a, b, tsk, list, one, m1, m2, r1, r2, r3

VARIABLE subject

vars == <<subject, textVars, clientVars, serverVars, platformVars, queueVars>>

MCTaskIds == {<<a>>, <<a, b>>}
MCToolIds == {<<tsk, list>>}
MCParents == r1 :> NoReply @@ r2 :> r1 @@ r3 :> r2
MCTaskLike == {<<tsk, list>>, <<tsk, one>>}

Init ==
    /\ subject \in {"transcript", "client", "server", "platform", "queue"}
    /\ TextInit /\ ClientInit /\ ServerInit /\ PlatformInit /\ QueueInit
    /\ subject # "transcript" => omit = "nothing"
    /\ subject # "client" => client = "claude" /\ ~reply
    /\ subject # "server" => entry = "serve" /\ watch = "editor" /\ file = NoFile
    /\ subject # "platform" => platform = "discord" /\ scene = "connecting"

Next ==
    \/ subject = "transcript" /\ TextNext /\ UNCHANGED <<subject, clientVars, serverVars, platformVars, queueVars>>
    \/ subject = "client" /\ ClientNext /\ UNCHANGED <<subject, textVars, serverVars, platformVars, queueVars>>
    \/ subject = "server" /\ ServerNext /\ UNCHANGED <<subject, textVars, clientVars, platformVars, queueVars>>
    \/ subject = "platform" /\ PlatformNext /\ UNCHANGED <<subject, textVars, clientVars, serverVars, queueVars>>
    \/ subject = "queue" /\ QueueNext /\ UNCHANGED <<subject, textVars, clientVars, serverVars, platformVars>>

Spec == Init /\ [][Next]_vars
=============================================================================
