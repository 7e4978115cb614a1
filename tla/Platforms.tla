----------------------------- MODULE Platforms ------------------------------
(***************************************************************************)
(* The messaging platforms: how they connect, how one call of Telegram's   *)
(* API is retried, and how a message or a voice note becomes a turn        *)
(* (messaging/platforms/telegram.py and discord.py, messaging/voice.py),   *)
(* while the user clears messages (messaging/commands.py).  A voice note   *)
(* is registered as pending, under its own id and its status message's,    *)
(* for as long as it is transcribed, so that a reply of /clear to either   *)
(* can cancel it.                                                          *)
(*                                                                         *)
(* The scenes do not share state: a behaviour is of one of them.           *)
(***************************************************************************)
EXTENDS Naturals, FiniteSets

CONSTANTS Messages,   \* messages and voice notes of the chat
          MaxCommands \* bound on the commands of the user

ASSUME PlatformAssumption == IsFiniteSet(Messages) /\ MaxCommands \in Nat

Attempts == 3       \* max_retries of _with_retry() and of start()

VARIABLES
    platform,   \* Telegram or Discord
    scene,      \* connecting, a call, or a chat
    \* Connecting.
    link,       \* the connection
    tries,      \* of start(), or of _with_retry()
    limiter,    \* is the limiter there?
    \* A call.
    call,       \* where _with_retry() is
    markdown,   \* is a parse mode still asked for?
    calls,      \* history: the calls made
    arrived,    \* history: how often the call took effect
    \* A chat.
    kind,       \* what a message is
    mine,       \* the messages that a user who is allowed sent
    fate,       \* what became of a message
    note,       \* its status message
    pendingVoice, \* PendingVoiceRegistry
    clearing,   \* notes whose cancellation has yet to delete their messages
    cancelled,  \* history: notes the user was told are cancelled
    commands    \* history: the commands of the user

chatVars == <<kind, mine, fate, note, pendingVoice, clearing, cancelled, commands>>
callVars == <<call, markdown, calls, arrived>>
platformVars == <<platform, scene, link, tries, limiter, callVars, chatVars>>

PlatformInit ==
    /\ platform \in {"telegram", "discord"} /\ scene \in {"connecting", "call", "chat"}
    /\ platform = "discord" => scene # "call"
    /\ link = "off" /\ tries = 0 /\ limiter = FALSE
    /\ call = "trying" /\ markdown \in BOOLEAN /\ calls = 0 /\ arrived = 0
    /\ kind \in [Messages -> {"text", "voice"}] /\ mine \in SUBSET Messages
    /\ (scene # "chat" => mine = {} /\ kind = [m \in Messages |-> "text"])
    /\ (scene # "call" => markdown = FALSE)
    /\ fate = [m \in Messages |-> "none"] /\ note = [m \in Messages |-> "none"]
    /\ pendingVoice = {} /\ clearing = {} /\ cancelled = {} /\ commands = 0

-----------------------------------------------------------------------------
(* Connecting: start() and stop().                                         *)

Connecting == scene = "connecting" /\ UNCHANGED <<platform, scene, callVars, chatVars>>

StartPlatform ==
    /\ Connecting /\ link = "off" /\ link' = "trying" /\ UNCHANGED tries
    /\ limiter' = (platform = "discord")
\* Telegram tries three times; Discord waits for on_ready() for half a minute.
Connects ==
    /\ Connecting /\ link = "trying"
    /\ link' = (IF platform = "telegram" THEN "polling" ELSE "on") /\ UNCHANGED <<tries, limiter>>
ConnectFails ==
    /\ Connecting /\ link = "trying" /\ UNCHANGED limiter
    /\ IF platform = "telegram" /\ tries < Attempts - 1
       THEN tries' = tries + 1 /\ UNCHANGED link
       ELSE link' = "failed" /\ UNCHANGED tries
\* Telegram gets its limiter, whose messages it sends without one until then.
GetLimiter ==
    /\ Connecting /\ link = "polling" /\ link' = "on" /\ limiter' = TRUE /\ UNCHANGED tries
\* on_ready() after start() has given up.
ConnectsLate ==
    /\ Connecting /\ platform = "discord" /\ link = "failed" /\ link' = "late" /\ UNCHANGED <<tries, limiter>>
StopPlatform ==
    /\ Connecting /\ link \in {"on", "late", "failed"} /\ link' = "stopped" /\ UNCHANGED <<tries, limiter>>

-----------------------------------------------------------------------------
(* One call of the API: _with_retry().                                     *)

Calling == scene = "call" /\ call \in {"trying", "last"} /\ UNCHANGED <<platform, scene, link, limiter, chatVars>>

Counted(effect) == calls' = calls + 1 /\ arrived' = arrived + effect

CallAnswers == Calling /\ Counted(1) /\ call' = "answered" /\ UNCHANGED <<tries, markdown>>
\* The call that follows a RetryAfter or a parse error is not tried again.
LastCallFails == Calling /\ call = "last" /\ Counted(0) /\ call' = "raised" /\ UNCHANGED <<tries, markdown>>
\* A timeout or network error; a call that timed out may have taken effect.
NetworkFails ==
    /\ Calling /\ call = "trying" /\ (Counted(0) \/ Counted(1)) /\ UNCHANGED markdown
    /\ IF tries < Attempts - 1 THEN tries' = tries + 1 /\ UNCHANGED call
       ELSE call' = "raised" /\ UNCHANGED tries
\* "not modified", "not found", ...: nothing is left to do.
NothingToDo == Calling /\ call = "trying" /\ Counted(0) /\ call' = "none" /\ UNCHANGED <<tries, markdown>>
RetryAfter == Calling /\ call = "trying" /\ Counted(0) /\ call' = "last" /\ UNCHANGED <<tries, markdown>>
\* An error that is no network error.
Refused ==
    /\ Calling /\ call = "trying" /\ Counted(0) /\ UNCHANGED tries
    /\ \/ markdown /\ call' = "last" /\ markdown' = FALSE
       \/ call' = "raised" /\ UNCHANGED markdown

-----------------------------------------------------------------------------
(* A chat.                                                                 *)

ChatFrame == UNCHANGED <<platform, scene, link, tries, limiter, callVars, kind, mine>>
KeysOf(m) == {<<m, "own">>, <<m, "status">>}

\* _on_telegram_message(), _on_telegram_voice(), _on_discord_message(): whoever is not
\* allowed is ignored.  The status message of a note is sent before anything else.
Arrives(m) ==
    /\ scene = "chat" /\ ChatFrame /\ fate[m] = "none" /\ UNCHANGED <<note, pendingVoice, clearing, cancelled, commands>>
    /\ fate' = [fate EXCEPT ![m] = IF m \notin mine THEN "ignored"
                                     ELSE IF kind[m] = "voice" THEN "asking" ELSE "handling"]
\* Voice notes are turned off.
VoiceIsOff(m) ==
    /\ scene = "chat" /\ ChatFrame /\ fate[m] = "none" /\ kind[m] = "voice"
    /\ fate' = [fate EXCEPT ![m] = "refused"] /\ UNCHANGED <<note, pendingVoice, clearing, cancelled, commands>>

StatusSent(m) ==
    /\ fate[m] = "asking" /\ ChatFrame /\ UNCHANGED <<clearing, cancelled, commands>>
    /\ fate' = [fate EXCEPT ![m] = "transcribing"] /\ note' = [note EXCEPT ![m] = "shown"]
    /\ pendingVoice' = pendingVoice \cup KeysOf(m)
\* The exception is the caller's: the user is told nothing.
StatusFails(m) ==
    /\ fate[m] = "asking" /\ ChatFrame /\ fate' = [fate EXCEPT ![m] = "lost"]
    /\ UNCHANGED <<note, pendingVoice, clearing, cancelled, commands>>

\* Mutant: whether the note was cancelled meanwhile is not looked at.
TranscribedAnyway(m) ==
    /\ fate[m] = "transcribing" /\ ChatFrame /\ UNCHANGED <<clearing, cancelled, commands, note>>
    /\ fate' = [fate EXCEPT ![m] = "handling"] /\ pendingVoice' = pendingVoice \ KeysOf(m)

\* The transcription is there: is the note still pending?
Transcribed(m) ==
    /\ fate[m] = "transcribing" /\ ChatFrame /\ UNCHANGED <<clearing, cancelled, commands>>
    /\ IF <<m, "own">> \in pendingVoice
       THEN fate' = [fate EXCEPT ![m] = "handling"] /\ pendingVoice' = pendingVoice \ KeysOf(m) /\ UNCHANGED note
       ELSE fate' = [fate EXCEPT ![m] = "dropped"] /\ note' = [note EXCEPT ![m] = "deleted"]
            /\ UNCHANGED pendingVoice
\* The download or the transcription fails: the user is told, the note stays registered.
TranscriptionFails(m) ==
    /\ fate[m] = "transcribing" /\ ChatFrame /\ fate' = [fate EXCEPT ![m] = "failed"]
    /\ UNCHANGED <<note, pendingVoice, clearing, cancelled, commands>>

\* handle_message() shows the status of the turn, and adds it to the trees.
Handled(m) ==
    /\ fate[m] = "handling" /\ ChatFrame /\ UNCHANGED <<pendingVoice, clearing, cancelled, commands>>
    /\ fate' = [fate EXCEPT ![m] = "turn"]
    /\ note' = [note EXCEPT ![m] = IF @ = "none" THEN "shown" ELSE @]
HandlingFails(m) ==
    /\ fate[m] = "handling" /\ ChatFrame /\ fate' = [fate EXCEPT ![m] = "failed"]
    /\ UNCHANGED <<note, pendingVoice, clearing, cancelled, commands>>

\* A reply of /clear to a message or its status message: a turn is cleared, or else a
\* pending note cancelled, or there is nothing to clear.
ClearReply(m, key) ==
    /\ scene = "chat" /\ ChatFrame /\ commands < MaxCommands /\ commands' = commands + 1
    /\ IF key = "own" THEN fate[m] # "none" ELSE note[m] = "shown"
    /\ \/ /\ fate[m] = "turn" /\ fate' = [fate EXCEPT ![m] = "cleared"]
          /\ note' = [note EXCEPT ![m] = "deleted"] /\ UNCHANGED <<pendingVoice, clearing, cancelled>>
       \/ /\ fate[m] # "turn" /\ <<m, key>> \in pendingVoice /\ pendingVoice' = pendingVoice \ KeysOf(m)
          /\ clearing' = clearing \cup {m} /\ UNCHANGED <<fate, note, cancelled>>
       \/ /\ fate[m] # "turn" /\ <<m, key>> \notin pendingVoice
          /\ UNCHANGED <<fate, note, pendingVoice, clearing, cancelled>>
\* Its messages are deleted, and the user is told.
CancelTold(m) ==
    /\ m \in clearing /\ ChatFrame /\ clearing' = clearing \ {m} /\ cancelled' = cancelled \cup {m}
    /\ note' = [note EXCEPT ![m] = "deleted"] /\ UNCHANGED <<fate, pendingVoice, commands>>
\* A /clear of its own takes the turns, and leaves the pending notes alone.
ClearChat ==
    /\ scene = "chat" /\ ChatFrame /\ commands < MaxCommands /\ commands' = commands + 1
    /\ fate' = [m \in Messages |-> IF fate[m] = "turn" THEN "cleared" ELSE fate[m]]
    /\ note' = [m \in Messages |-> IF fate[m] = "turn" THEN "deleted" ELSE note[m]]
    /\ UNCHANGED <<pendingVoice, clearing, cancelled>>

PlatformNext ==
    \/ StartPlatform \/ Connects \/ ConnectFails \/ GetLimiter \/ ConnectsLate \/ StopPlatform
    \/ CallAnswers \/ LastCallFails \/ NetworkFails \/ NothingToDo \/ RetryAfter \/ Refused
    \/ ClearChat
    \/ \E m \in Messages :
         \/ Arrives(m) \/ VoiceIsOff(m) \/ StatusSent(m) \/ StatusFails(m)
         \/ Transcribed(m) \/ TranscriptionFails(m) \/ Handled(m) \/ HandlingFails(m)
         \/ CancelTold(m) \/ \E key \in {"own", "status"} : ClearReply(m, key)

-----------------------------------------------------------------------------
(* Properties.                                                             *)

PlatformTypeOK ==
    /\ tries \in 0..Attempts - 1 /\ pendingVoice \subseteq UNION {KeysOf(m) : m \in Messages}
    /\ clearing \subseteq Messages /\ cancelled \subseteq Messages
    /\ note \in [Messages -> {"none", "shown", "deleted"}]

\* A note that the user cancelled never becomes a turn, and none is dropped that the
\* user did not cancel.
CancelHolds ==
    /\ \A m \in cancelled \cup clearing : fate[m] \in {"transcribing", "dropped", "failed"}
    /\ \A m \in Messages : fate[m] = "dropped" => m \in cancelled \cup clearing

\* Either of its messages cancels a note, for as long as it is transcribed.
EitherCancels ==
    \A m \in Messages :
        /\ <<m, "own">> \in pendingVoice <=> <<m, "status">> \in pendingVoice
        /\ KeysOf(m) \subseteq pendingVoice => fate[m] \in {"transcribing", "failed"}
        /\ fate[m] = "transcribing" /\ m \notin cancelled \cup clearing => KeysOf(m) \subseteq pendingVoice

\* A cancelled note's status message is gone when it is told.
CancelledIsGone == \A m \in cancelled : note[m] = "deleted"

\* A call is made at most four times, an answer means that it took effect, and a
\* platform that is up has a limiter.
CallsEnd ==
    /\ calls <= Attempts + 1 /\ (call = "answered" => arrived > 0)
    /\ (link = "on" => limiter)

\* The invariant of the platforms.
PlatformsHold == PlatformTypeOK /\ CancelHolds /\ EitherCancels /\ CancelledIsGone /\ CallsEnd
=============================================================================
