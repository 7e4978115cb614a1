----------------------------- MODULE MCServices -----------------------------
(***************************************************************************)
(* The services beside the proxy, for TLC: they share no state and do not  *)
(* call each other while they work, so that their union is checked.  A     *)
(* behaviour is one of one service, chosen at the start, and the others    *)
(* stay as they were.                                                      *)
(***************************************************************************)
EXTENDS McpRouter, GraphifyIndex, GraphifyServer, FreebuffManager

CONSTANTS backend, q1, q2, q3, p, q, c1, c2, c3, f1, f2

VARIABLE subject

vars == <<subject, mcpVars, idxVars, srvVars, fbVars>>

Init ==
    /\ subject \in {"router", "index", "server", "freebuff"}
    /\ McpInit /\ IndexInit /\ ServerInit /\ FreebuffInit
    /\ subject # "freebuff" => container = None

Next ==
    /\ UNCHANGED subject
    /\ \/ subject = "router" /\ McpNext /\ UNCHANGED <<idxVars, srvVars, fbVars>>
       \/ subject = "index" /\ IndexNext /\ UNCHANGED <<mcpVars, srvVars, fbVars>>
       \/ subject = "server" /\ ServerNext /\ UNCHANGED <<mcpVars, idxVars, fbVars>>
       \/ subject = "freebuff" /\ FreebuffNext /\ UNCHANGED <<mcpVars, idxVars, srvVars>>

\* The index worker is a task of the event loop, and runs when it can.
IndexFairness ==
    WF_vars(subject = "index" /\ (WorkerStep \/ Drained)
            /\ UNCHANGED <<subject, mcpVars, srvVars, fbVars>>)

Spec == Init /\ [][Next]_vars /\ IndexFairness
=============================================================================
