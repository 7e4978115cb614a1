---------------------------- MODULE McpSettings -----------------------------
(***************************************************************************)
(* The file of the MCP router as the admin page edits it                   *)
(* (api/mcp_config.py, the MCP and SFTP routes of api/admin_routes.py):    *)
(* two tables of servers, local and shared, whose secrets a page is shown  *)
(* as a mask and sends back as a mask, tables imported from a remote       *)
(* host, and servers that modules declare, which a page is shown among     *)
(* the local ones.  A server stands for its one secret, in its             *)
(* environment or its headers.                                             *)
(***************************************************************************)
EXTENDS Naturals, Functions

CONSTANTS Names, Secrets, Blank, Masked, Pages

ASSUME McpAssumption == Blank \notin Secrets /\ Masked \notin Secrets \cup {Blank}

McpLists == {"servers", "shared_servers"}
Stored == Secrets \cup {Blank, Masked}
McpTables == UNION {[ns -> Stored] : ns \in SUBSET Names}
Remotes == UNION {[ns -> Secrets \cup {Blank}] : ns \in SUBSET Names}

VARIABLES
    mcpFile,   \* the two tables of the file
    ofModules, \* the servers that modules declare
    shown,     \* what each page was shown, or <<>> before it is opened
    given,     \* history: the secret last given for each server of a table
    blanked    \* history: the servers whose mask was sent when the file had none

mcVars == <<mcpFile, ofModules, shown, given, blanked>>

McTypeOK ==
    /\ mcpFile \in [McpLists -> McpTables] /\ ofModules \in McpTables
    /\ shown \in [Pages -> {<<>>} \cup [McpLists -> McpTables]]
    /\ given \in [McpLists -> McpTables] /\ blanked \subseteq McpLists \X Names

McInit ==
    /\ mcpFile = [l \in McpLists |-> <<>>]
    /\ ofModules \in UNION {[ns -> Secrets] : ns \in SUBSET Names}
    /\ shown = [p \in Pages |-> <<>>]
    /\ given = [l \in McpLists |-> <<>>] /\ blanked = {}

\* _mask_server_dict()
MaskServers(table) == [n \in DOMAIN table |-> IF table[n] = Blank THEN Blank ELSE Masked]

\* One table over another.
Merged(t, u) == [n \in DOMAIN t \cup DOMAIN u |-> IF n \in DOMAIN t THEN t[n] ELSE u[n]]

\* get_mcp_config(): the servers of modules are shown with the local ones,
\* which win.
Open(p) ==
    /\ shown' = [shown EXCEPT ![p] =
           [l \in McpLists |-> MaskServers(
               IF l = "servers" THEN Merged(mcpFile[l], ofModules) ELSE mcpFile[l])]]
    /\ UNCHANGED <<mcpFile, ofModules, given, blanked>>

\* What a page sends for a table: some of the servers it was shown, as they
\* were shown or under another secret, and new ones, also under a new name with
\* the mask of the old one.
Sent(table) ==
    {new \in McpTables :
        \A n \in DOMAIN new :
            new[n] = Masked => Masked \in Range(table) /\ (n \in DOMAIN table => table[n] = Masked)}

\* Mutant: both tables are resolved against the local one.
ResolvedLocally(l, new) ==
    [n \in DOMAIN new |->
        IF new[n] # Masked THEN new[n]
        ELSE IF n \in DOMAIN mcpFile["servers"] THEN mcpFile["servers"][n] ELSE Blank]

\* _resolve_masked_envs(): the mask stands for the secret in the file, by name.
Resolved(l, new) ==
    [n \in DOMAIN new |->
        IF new[n] # Masked THEN new[n]
        ELSE IF n \in DOMAIN mcpFile[l] THEN mcpFile[l][n] ELSE Blank]

\* apply_mcp_config() of one page, whatever was written since it was opened.
ApplyPage(p) ==
    /\ shown[p] # <<>>
    /\ \E a \in Sent(shown[p]["servers"]), b \in Sent(shown[p]["shared_servers"]) :
           LET new == [l \in McpLists |-> IF l = "servers" THEN a ELSE b] IN
           /\ mcpFile' = [l \in McpLists |-> Resolved(l, new[l])]
           /\ given' = [l \in McpLists |-> [n \in DOMAIN new[l] |->
                  IF new[l][n] # Masked THEN new[l][n]
                  ELSE IF n \in DOMAIN given[l] THEN given[l][n] ELSE Blank]]
           /\ blanked' =
                  {x \in McpLists \X Names :
                      /\ x[2] \in DOMAIN new[x[1]] /\ new[x[1]][x[2]] = Masked
                      /\ x \in blanked \/ x[2] \notin DOMAIN mcpFile[x[1]]}
    /\ UNCHANGED <<ofModules, shown>>

\* sftp_import(): merged, the servers that are there already win.
Import ==
    /\ \E remote \in Remotes, mode \in {"merge", "replace"} :
           LET kept == IF mode = "merge" THEN DOMAIN mcpFile["shared_servers"] ELSE {}
               With(table) == Merged(Restrict(table, kept), remote)
           IN /\ mcpFile' = [mcpFile EXCEPT !["shared_servers"] = With(@)]
              /\ given' = [given EXCEPT !["shared_servers"] = With(@)]
              /\ blanked' = blanked \ ({"shared_servers"} \X (Names \ kept))
    /\ UNCHANGED <<ofModules, shown>>

McNext == Import \/ \E p \in Pages : Open(p) \/ ApplyPage(p)

-----------------------------------------------------------------------------
(* Properties.                                                             *)

\* The mask that hides a secret is never written in its place.
McMaskNeverStored == \A l \in McpLists : Masked \notin Range(mcpFile[l])

\* A server keeps the secret last given for it, through any number of pages,
\* imports and masks: unless its mask was sent when the file did not have it,
\* as it is for a server that was renamed, removed meanwhile, or declared by a
\* module.
SecretsAreGiven ==
    \A l \in McpLists : \A n \in DOMAIN mcpFile[l] :
        mcpFile[l][n] = given[l][n] \/ <<l, n>> \in blanked

\* What the MCP configuration keeps of the secrets it was given.
McpKept == McTypeOK /\ McMaskNeverStored /\ SecretsAreGiven
=============================================================================
