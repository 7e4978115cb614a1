------------------------------ MODULE ChatLog -------------------------------
(***************************************************************************)
(* What the bot knows of the messages of its chats: the message log of the *)
(* session store, one list a chat (record_message_id of                    *)
(* messaging/session.py), which may be capped, and the trees; and the      *)
(* /clear that deletes what is known of its chat, chunk by chunk, before   *)
(* it empties the logs and the trees of every chat                         *)
(* (messaging/commands.py), while messages go on coming.  Ids grow within  *)
(* a chat, and no two chats share one, as on Discord.                      *)
(***************************************************************************)
EXTENDS Naturals, Sequences, FiniteSets, SequencesExt

CONSTANTS MaxMessages, \* bound on the messages of all chats
          Chats, ChatOf, \* the chats, and the chat of an id
          MaxClears,   \* bound on the /clear commands among them
          Cap,         \* message_log_cap, or 0 for none
          ChunkSize    \* the messages deleted by one call

ASSUME ChatLogAssumption ==
    /\ MaxMessages \in Nat /\ MaxClears \in Nat /\ Cap \in Nat /\ ChunkSize \in Nat \ {0}
    /\ ChatOf \in [1..MaxMessages -> Chats]

VARIABLES
    what,      \* a message: a prompt, a command, a /clear, or an answer of the bot
    at,        \* where its handler is
    answerTo,  \* the message an answer is for
    inChat,    \* the messages that the chats show
    log,       \* SessionStore._message_log, by chat
    logIds,    \* SessionStore._message_log_ids, by chat
    treeIds,   \* the messages of the nodes of the trees, of all chats
    todo,      \* what a /clear has still to delete
    lost       \* history: messages recorded while a /clear deleted others of
               \* their chat, dropped by the cap while no tree had them, not
               \* deletable, or forgotten by the /clear of another chat

chatLogVars == <<what, at, answerTo, inChat, log, logIds, treeIds, todo, lost>>

MessageIds == 1..MaxMessages
OfChat(S, ch) == {m \in S : ChatOf[m] = ch}
IsNewId(n) == /\ what[n] = "none"
              /\ \A o \in OfChat(MessageIds, ChatOf[n]) : o < n => what[o] # "none"
Deleting == {c \in MessageIds : at[c] = "deleting"}

LogTypeOK ==
    /\ what \in [MessageIds -> {"none", "prompt", "command", "clear", "answer"}]
    /\ at \in [MessageIds -> {"none", "sent", "asked", "shown", "stopping", "deleting", "done"}]
    /\ answerTo \in [MessageIds -> 0..MaxMessages] /\ todo \in [MessageIds -> SUBSET MessageIds]
    /\ inChat \subseteq MessageIds /\ log \in [Chats -> Seq(MessageIds)]
    /\ logIds \in [Chats -> SUBSET MessageIds] /\ treeIds \subseteq MessageIds

LogInit ==
    /\ what = [m \in MessageIds |-> "none"] /\ at = what
    /\ answerTo = [m \in MessageIds |-> 0] /\ todo = [m \in MessageIds |-> {}]
    /\ inChat = {} /\ treeIds = {} /\ lost = {}
    /\ log = [ch \in Chats |-> <<>>] /\ logIds = [ch \in Chats |-> {}]

\* What a /clear of a chat would find of it.
Findable(ch) == logIds[ch] \cup OfChat(treeIds, ch)

\* record_message_id(), and the nodes that join a tree with it.
Record(m, attached) ==
    LET ch == ChatOf[m]
        all == IF m \in logIds[ch] THEN log[ch] ELSE Append(log[ch], m)
        excess == IF Cap > 0 /\ Len(all) > Cap THEN Len(all) - Cap ELSE 0
        kept == SubSeq(all, excess + 1, Len(all))
    IN /\ log' = [log EXCEPT ![ch] = kept] /\ logIds' = [logIds EXCEPT ![ch] = ToSet(kept)]
       /\ treeIds' = treeIds \cup attached
       /\ lost' = (lost \ attached) \cup ((inChat \cap ToSet(SubSeq(all, 1, excess))) \ treeIds')
                  \cup (IF OfChat(Deleting, ch) = {} THEN {} ELSE inChat \cap ({m} \cup attached))

-----------------------------------------------------------------------------
(* Messages and answers.                                                   *)

UserSends(n, k) ==
    /\ IsNewId(n)
    /\ k = "clear" => Cardinality({m \in MessageIds : what[m] = "clear"}) < MaxClears
    /\ what' = [what EXCEPT ![n] = k] /\ at' = [at EXCEPT ![n] = "sent"]
    /\ inChat' = inChat \cup {n}
    /\ UNCHANGED <<answerTo, log, logIds, treeIds, todo, lost>>

\* The handler gets a message, and records it before anything else.
Delivered(m) ==
    /\ at[m] = "sent" /\ what[m] # "answer" /\ Record(m, {})
    /\ at' = [at EXCEPT ![m] = IF what[m] = "clear" THEN "stopping" ELSE "asked"]
    /\ UNCHANGED <<what, answerTo, inChat, todo>>

\* The status message of a prompt, or the answer to a command, is in the chat
\* before the bot learns its id.
AnswerSent(m, n) ==
    /\ at[m] = "asked" /\ IsNewId(n) /\ ChatOf[n] = ChatOf[m]
    /\ what' = [what EXCEPT ![n] = "answer"] /\ answerTo' = [answerTo EXCEPT ![n] = m]
    /\ at' = [at EXCEPT ![m] = "shown", ![n] = "sent"] /\ inChat' = inChat \cup {n}
    /\ UNCHANGED <<log, logIds, treeIds, todo, lost>>

AnswerFails(m) ==
    /\ at[m] = "asked" /\ at' = [at EXCEPT ![m] = "done"]
    /\ UNCHANGED <<what, answerTo, inChat, log, logIds, treeIds, todo, lost>>

\* The answer is recorded, and a prompt joins a tree with its status message.
AnswerRecorded(n) ==
    LET m == answerTo[n] IN
    /\ at[n] = "sent" /\ what[n] = "answer"
    /\ Record(n, IF what[m] = "prompt" THEN {m, n} ELSE {})
    /\ at' = [at EXCEPT ![m] = "done", ![n] = "done"]
    /\ UNCHANGED <<what, answerTo, inChat, todo>>

-----------------------------------------------------------------------------
(* A /clear of a chat, once everything is stopped.                         *)

\* Mutant: only the log is asked.
CollectLogged(c) ==
    /\ at[c] = "stopping" /\ at' = [at EXCEPT ![c] = "deleting"]
    /\ todo' = [todo EXCEPT ![c] = logIds[ChatOf[c]] \cup {c}]
    /\ UNCHANGED <<what, answerTo, inChat, log, logIds, treeIds, lost>>

CollectIds(c) ==
    /\ at[c] = "stopping" /\ at' = [at EXCEPT ![c] = "deleting"]
    /\ todo' = [todo EXCEPT ![c] = ToSet(log[ChatOf[c]]) \cup OfChat(treeIds, ChatOf[c]) \cup {c}]
    /\ UNCHANGED <<what, answerTo, inChat, log, logIds, treeIds, lost>>

\* The newest messages first.
Chunk(c) == {m \in todo[c] : Cardinality({o \in todo[c] : o > m}) < ChunkSize}

\* The platform deletes what it can of a chunk; a call that raises, though it
\* may have deleted some, ends the deletions.
DeleteChunk(c) ==
    /\ at[c] = "deleting" /\ todo[c] # {}
    /\ \E gone \in SUBSET Chunk(c), over \in {Chunk(c), todo[c]} :
           /\ inChat' = inChat \ gone
           /\ lost' = (lost \ gone) \cup ((inChat \cap over) \ gone)
           /\ todo' = [todo EXCEPT ![c] = @ \ over]
    /\ UNCHANGED <<what, at, answerTo, log, logIds, treeIds>>

\* The store is cleared, and the trees are replaced, of every chat: what another
\* chat shows is forgotten with it, unless a /clear of that chat is at it.
ClearEnds(c) ==
    /\ at[c] = "deleting" /\ todo[c] = {} /\ at' = [at EXCEPT ![c] = "done"]
    /\ log' = [ch \in Chats |-> <<>>] /\ logIds' = [ch \in Chats |-> {}] /\ treeIds' = {}
    /\ lost' = lost \cup {m \in inChat :
                             /\ ChatOf[m] # ChatOf[c] /\ m \in Findable(ChatOf[m])
                             /\ \A d \in Deleting : m \notin todo[d]}
    /\ UNCHANGED <<what, answerTo, inChat, todo>>

ChatLogNext ==
    \E m \in MessageIds :
        \/ \E k \in {"prompt", "command", "clear"} : UserSends(m, k)
        \/ \E n \in MessageIds : AnswerSent(m, n)
        \/ Delivered(m) \/ AnswerFails(m) \/ AnswerRecorded(m)
        \/ CollectIds(m) \/ DeleteChunk(m) \/ ClearEnds(m)

-----------------------------------------------------------------------------
(* Properties.                                                             *)

\* The log and its ids agree, holding messages of the chat alone, none twice, and
\* the cap holds.
LogAgrees ==
    \A ch \in Chats :
        /\ logIds[ch] = ToSet(log[ch]) /\ logIds[ch] = OfChat(logIds[ch], ch)
        /\ \A i, j \in DOMAIN log[ch] : log[ch][i] = log[ch][j] => i = j
        /\ Cap > 0 => Len(log[ch]) <= Cap

\* A message the bot has handled or sent and a chat still shows is one that a /clear
\* of the chat would delete, or is deleting: unless it was recorded while another
\* /clear deleted messages of the chat, dropped by the cap before a tree had it,
\* could not be deleted, or was there when a /clear of another chat emptied the
\* logs and the trees of all.
KnownOrGone ==
    \A m \in inChat \ lost :
        at[m] # "sent" => m \in Findable(ChatOf[m]) \/ \E c \in Deleting : m \in todo[c]

\* The invariant of the logs of the chats.
ChatLogKept == LogTypeOK /\ LogAgrees /\ KnownOrGone
=============================================================================
