------------------------------ MODULE MCAdmin -------------------------------
(***************************************************************************)
(* What the admin page and the modules change, for TLC.  The parts share   *)
(* no state, so that their union is checked: a behaviour is one of one     *)
(* part, chosen at the start, and the others stay as they were.            *)
(***************************************************************************)
EXTENDS ProviderRegistry, ModuleLoader, AdminSettings, McpSettings

CONSTANTS k, m, r1, r2, r3, page, a, b

VARIABLE subject

vars == <<subject, regVars, modVars, cfgVars, mcVars>>

Init ==
    /\ subject \in {"registry", "modules", "settings", "mcp"}
    /\ RegInit /\ ModuleInit /\ CfgInit /\ McInit
    /\ subject # "settings" => repo = <<>> /\ managed = <<>> /\ outer = <<>>
    /\ subject # "mcp" => ofModules = <<>>

Next ==
    /\ UNCHANGED subject
    /\ \/ subject = "registry" /\ RegNext /\ UNCHANGED <<modVars, cfgVars, mcVars>>
       \/ subject = "modules" /\ ModuleNext /\ UNCHANGED <<regVars, cfgVars, mcVars>>
       \/ subject = "settings" /\ CfgNext /\ UNCHANGED <<regVars, modVars, mcVars>>
       \/ subject = "mcp" /\ McNext /\ UNCHANGED <<regVars, modVars, cfgVars>>

Spec == Init /\ [][Next]_vars
=============================================================================
