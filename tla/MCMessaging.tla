---------------------------- MODULE MCMessaging -----------------------------
(***************************************************************************)
(* Around the trees of the messaging bridge, for TLC: the queue of what it *)
(* sends, with two edits of a message and one of another; the client CLIs  *)
(* of a turn and two replies to it; and the logs of two chats, which are   *)
(* cleared.                                                                *)
(* They share no state; a behaviour is one of one of them, and the others  *)
(* stay as they were.                                                      *)
(***************************************************************************)
EXTENDS MessagingLimiter, CliSessions, ChatLog, TLC

CONSTANTS m1, m2, a, b, c, tree, here, there

VARIABLE subject

vars == <<subject, outboxVars, cliVars, chatLogVars>>

Init == /\ subject \in {"outbox", "cli", "chat"}
        /\ OutboxInit /\ CliInit /\ LogInit

Next ==
    /\ UNCHANGED subject
    /\ \/ subject = "outbox" /\ OutboxNext /\ UNCHANGED <<cliVars, chatLogVars>>
       \/ subject = "cli" /\ CliNext /\ UNCHANGED <<outboxVars, chatLogVars>>
       \/ subject = "chat" /\ ChatLogNext /\ UNCHANGED <<outboxVars, cliVars>>

Spec == Init /\ [][Next]_vars

Doubling == [n \in 0..MaxRetries |-> 2^n]
ThreeCalls == <<m1, m1, m2>>
ReplyTo == [t \in Turns |-> IF t = a THEN None ELSE a]
OneTree == [t \in Turns |-> tree]
TwoChats == <<here, here, here, there>>
Replies == Permutations({b, c})
=============================================================================
