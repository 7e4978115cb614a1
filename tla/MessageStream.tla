--------------------------- MODULE MessageStream ----------------------------
(***************************************************************************)
(* What every provider transport promises the client of a stream: one      *)
(* message that is begun, grows by blocks that are opened once and closed  *)
(* once, and is ended with every block closed and one block at least, or   *)
(* none where the transport lets an answer be bare.  The client, or the    *)
(* server that serves it, may go away before that.                         *)
(***************************************************************************)
EXTENDS Integers

VARIABLES phase,     \* "open", "ended" or "gone"
          started,   \* blocks begun so far
          open,      \* blocks begun and not closed, with their kinds
          bare       \* may the message end without a block?

vars == <<phase, started, open>>

Begin == phase = "open" /\ started = {} /\ open = {}

\* What is added are new blocks; an old block may be closed, never reopened.
Grows ==
    /\ phase = "open" /\ started \subseteq started'
    /\ \A b \in open' : b \in open \/ b[1] \in started' \ started

Extend  == Grows /\ phase' = "open"
End     == Grows /\ phase' = "ended" /\ open' = {} /\ (started' # {} \/ bare')
Abandon == phase = "open" /\ phase' = "gone" /\ UNCHANGED <<started, open>>

Next == Extend \/ End \/ Abandon

Spec == Begin /\ [][Next]_vars

\* No message stays open for ever.
FairSpec == Spec /\ <>(phase # "open")
=============================================================================
