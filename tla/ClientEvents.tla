---------------------------- MODULE ClientEvents ----------------------------
(***************************************************************************)
(* What a turn hears of the client CLI it started: the process's output,   *)
(* read in chunks that end anywhere and cut into lines                     *)
(* (cli/session.py, start_task), and each line made into events by the     *)
(* adapter of the client (cli/adapters/claude.py, cli/adapters/codex.py).  *)
(* Claude Code tells each message once; Codex tells an item of a response  *)
(* as deltas, when it is done, and again when the response is complete,    *)
(* and the adapter has to tell it once.                                    *)
(*                                                                         *)
(* A line is two halves and a newline.  The lines that Codex writes carry  *)
(* the index of an item and its id; whether they carry the id of their     *)
(* response is chosen at the start.                                        *)
(***************************************************************************)
EXTENDS Naturals, Sequences, FiniteSets

CONSTANTS MaxLines,  \* bound on the lines that the client writes
          MaxPipe    \* bound on the lines that wait to be read

ASSUME ClientEventsAssumption == MaxLines \in Nat /\ MaxPipe \in Nat

VARIABLES
    client,     \* the client
    reply,      \* does the turn answer another, whose session it forks?
    argv,       \* what the process was started with
    named,      \* do lines carry the id of their response?
    pipe,       \* stdout, unread
    buffer,     \* what is read and no line yet
    parse,      \* CliParseState, with what the turn has been told
    phase,      \* start_task()
    stderr,     \* did the process write to it?
    wrote,      \* history: the lines written
    read,       \* history: the lines parsed
    responses,  \* history: the items of each response, of which the last one is under way
    cut         \* history: a response ended without saying so

clientVars == <<client, reply, argv, named, pipe, buffer, parse, phase, stderr, wrote, read,
                responses, cut>>

Newline == [type |-> "newline"]
NoArgs == [started |-> FALSE, resume |-> FALSE]
NoParse == [session |-> FALSE, seen |-> {}, scope |-> <<>>, next |-> 0, told |-> <<>>]

ClientInit ==
    /\ client \in {"claude", "codex"} /\ reply \in BOOLEAN
    /\ named \in (IF client = "codex" THEN BOOLEAN ELSE {TRUE})
    /\ argv = NoArgs /\ pipe = <<>> /\ buffer = <<>> /\ parse = NoParse /\ phase = "idle" /\ stderr = FALSE
    /\ wrote = <<>> /\ read = <<>> /\ responses = <<<<>>>> /\ cut = FALSE

-----------------------------------------------------------------------------
(* What a line says.  An item is known by its response and its place there.*)

Line(type, r, i) == [type |-> type, r |-> r, i |-> i]
Items(r) == responses[r]
Tells(st, e) == [st EXCEPT !.told = Append(@, e)]

\* _response_scope(): the scope of the response under way, or a new one.
InScope(st, r) ==
    IF st.scope # <<>> THEN st
    ELSE [st EXCEPT !.scope = IF named THEN <<"response", r>> ELSE <<"implicit", st.next>>,
                    !.next = IF named THEN @ ELSE @ + 1]
Finished(st) == [st EXCEPT !.scope = <<>>]

\* _response_item_key(): a message is known by its place, a call by its id.
Key(st, r, i) ==
    IF Items(r)[i].type = "message" THEN <<"message", st.scope, i>> ELSE <<"call", r, i>>

\* _mark_response_item_unseen() and the item's event
ToldItem(st, r, i) ==
    LET key == Key(st, r, i)
    IN  IF key \in st.seen THEN st ELSE Tells([st EXCEPT !.seen = @ \cup {key}], Line("whole", r, i))

\* Mutant: a message that is streamed is not marked.
DeltaUnmarked(st, r, i) == Tells(InScope(st, r), Line("delta", r, i))

\* response.output_text.delta, which marks its message.
Delta(st, r, i) ==
    LET in == InScope(st, r)
    IN  Tells([in EXCEPT !.seen = @ \cup {<<"message", in.scope, i>>}], Line("delta", r, i))

\* response.completed tells the items that were not told, and ends the scope.
CompletedItems(st, r) ==
    LET after[i \in 0..Len(Items(r))] == IF i = 0 THEN InScope(st, r) ELSE ToldItem(after[i - 1], r, i)
    IN  Finished(after[Len(Items(r))])

\* parse_stdout_line(), of Codex.
CodexLine(st, e) ==
    CASE e.type = "delta"     -> Delta(st, e.r, e.i)
      [] e.type = "done"      -> ToldItem(InScope(st, e.r), e.r, e.i)
      [] e.type = "completed" -> CompletedItems(st, e.r)
      [] e.type = "failed"    -> Tells(Finished(st), e)
      [] OTHER                -> Tells(st, e)

\* extract_session_id(): the first line with a session id tells it first.
NamesSession(e) == e.type = "session"
ParseLine(st, e) ==
    LET first == IF NamesSession(e) /\ ~st.session
                 THEN Tells([st EXCEPT !.session = TRUE], Line("session_info", 0, 0)) ELSE st
    IN  IF client = "codex" THEN CodexLine(first, e) ELSE Tells(first, e)

-----------------------------------------------------------------------------
(* start_task()                                                            *)

\* _task_command(): Codex can resume a session or start one, not fork one, and
\* starts one instead.
ClaudeArgs(session) == [started |-> TRUE, resume |-> session]
CodexArgs(session, fork) == [started |-> TRUE, resume |-> session /\ ~fork]
Launch ==
    /\ phase = "idle" /\ phase' = "reading"
    /\ argv' = IF client = "claude" THEN ClaudeArgs(reply) ELSE CodexArgs(reply, reply)
    /\ UNCHANGED <<client, reply, named, pipe, buffer, parse, stderr, wrote, read, responses, cut>>

\* create_subprocess_exec() fails, or gives no stdout.
LaunchFails ==
    /\ phase = "idle" /\ phase' = "ended" /\ parse' \in {parse, Tells(parse, Line("exit", 0, 1))}
    /\ UNCHANGED <<client, reply, argv, named, pipe, buffer, stderr, wrote, read, responses, cut>>

\* The loop of start_task() over the chunks of stdout, which end anywhere.  What is
\* read waits in the buffer until it has a line.
HasLine == \E n \in 1..Len(buffer) : buffer[n] = Newline
Read ==
    /\ phase \in {"reading", "exited"} /\ ~HasLine
    /\ \E k \in 1..Len(pipe) :
          buffer' = buffer \o SubSeq(pipe, 1, k) /\ pipe' = SubSeq(pipe, k + 1, Len(pipe))
    /\ UNCHANGED <<client, reply, argv, named, parse, phase, stderr, wrote, read, responses, cut>>

\* _handle_line_gen(); a line that does not parse is raw.
Whole(line) == Len(line) = 2 /\ line[1].line = line[2].line
Event(line) == IF Whole(line) THEN line[1].line ELSE Line("raw", 0, 0)

\* The first line of the buffer; the client writes no empty ones.
TakeLine ==
    /\ phase \in {"reading", "exited"}
    /\ \E n \in 1..Len(buffer) :
          /\ buffer[n] = Newline /\ \A i \in 1..(n - 1) : buffer[i] # Newline
          /\ LET e == Event(SubSeq(buffer, 1, n - 1)) IN parse' = ParseLine(parse, e) /\ read' = Append(read, e)
          /\ buffer' = SubSeq(buffer, n + 1, Len(buffer))
    /\ UNCHANGED <<client, reply, argv, named, pipe, phase, stderr, wrote, responses, cut>>

\* The end of stdout, of stderr (drained beside it), and of the process: a last line
\* without newline counts, what stderr had is an error, and the exit comes last.
Exit(code) ==
    /\ phase = "exited" /\ pipe = <<>> /\ ~HasLine /\ phase' = "ended" /\ buffer' = <<>>
    /\ LET said == IF buffer = <<>> THEN parse ELSE ParseLine(parse, Event(buffer))
       IN  parse' = Tells(IF stderr THEN Tells(said, Line("error", 0, 0)) ELSE said, Line("exit", 0, code))
    /\ read' = IF buffer = <<>> THEN read ELSE Append(read, Event(buffer))
    /\ UNCHANGED <<client, reply, argv, named, pipe, stderr, wrote, responses, cut>>

\* The turn is cancelled: stop() kills the process, and nothing more is told.
Cancel ==
    /\ phase \in {"reading", "exited"} /\ phase' = "stopped"
    /\ UNCHANGED <<client, reply, argv, named, pipe, buffer, parse, stderr, wrote, read, responses, cut>>

-----------------------------------------------------------------------------
(* The client.                                                             *)

Last1 == Len(responses)
Newest == Items(Last1)[Len(Items(Last1))]
Writes(e, newline) ==
    /\ phase = "reading" /\ Len(wrote) < MaxLines /\ Len(pipe) < 3 * MaxPipe
    /\ pipe' = pipe \o <<[type |-> "half", line |-> e], [type |-> "half", line |-> e]>>
                    \o (IF newline THEN <<Newline>> ELSE <<>>)
    /\ wrote' = Append(wrote, e)
    /\ UNCHANGED <<client, reply, argv, named, buffer, parse, stderr, read>>

\* An item starts, streamed or not, and goes on.
WriteDelta ==
    /\ client = "codex" /\ UNCHANGED <<phase, cut>>
    /\ \/ /\ responses' = [responses EXCEPT ![Last1] = Append(@, [type |-> "message", streamed |-> TRUE, done |-> FALSE])]
          /\ Writes(Line("delta", Last1, Len(Items(Last1)) + 1), TRUE)
       \/ /\ Items(Last1) # <<>> /\ Newest.streamed /\ ~Newest.done /\ UNCHANGED responses
          /\ Writes(Line("delta", Last1, Len(Items(Last1))), TRUE)
WriteDone ==
    /\ client = "codex" /\ UNCHANGED <<phase, cut>>
    /\ \/ /\ Items(Last1) # <<>> /\ Newest.streamed /\ ~Newest.done
          /\ responses' = [responses EXCEPT ![Last1][Len(Items(Last1))].done = TRUE]
          /\ Writes(Line("done", Last1, Len(Items(Last1))), TRUE)
       \/ \E type \in {"message", "call"} :
             /\ responses' = [responses EXCEPT ![Last1] = Append(@, [type |-> type, streamed |-> FALSE, done |-> TRUE])]
             /\ Writes(Line("done", Last1, Len(Items(Last1)) + 1), TRUE)
WriteEnd(how) ==
    /\ client = "codex" /\ Items(Last1) # <<>> /\ UNCHANGED phase /\ UNCHANGED cut
    /\ responses' = Append(responses, <<>>) /\ Writes(Line(how, Last1, 0), TRUE)
CutResponse ==
    /\ client = "codex" /\ phase = "reading" /\ Items(Last1) # <<>> /\ ~cut /\ cut' = TRUE
    /\ responses' = Append(responses, <<>>)
    /\ UNCHANGED <<client, reply, argv, named, pipe, buffer, parse, phase, stderr, wrote, read>>
WriteOther(type, newline) ==
    /\ Writes(Line(type, 0, Len(wrote)), newline) /\ UNCHANGED <<responses, cut>>
    /\ phase' = IF newline THEN phase ELSE "exited"
ExitProcess ==
    /\ phase = "reading" /\ phase' = "exited" /\ stderr' \in BOOLEAN
    /\ UNCHANGED <<client, reply, argv, named, pipe, buffer, parse, wrote, read, responses, cut>>

ClientNext ==
    \/ Launch \/ LaunchFails \/ Read \/ TakeLine \/ Cancel \/ \E code \in {0, 1} : Exit(code)
    \/ WriteDelta \/ WriteDone \/ CutResponse \/ ExitProcess
    \/ \E how \in {"completed", "failed"} : WriteEnd(how)
    \/ \E type \in {"session", "thinking", "message"}, newline \in BOOLEAN : WriteOther(type, newline)

-----------------------------------------------------------------------------
(* Properties.                                                             *)

ClientTypeOK ==
    /\ phase \in {"idle", "reading", "exited", "ended", "stopped"} /\ Len(wrote) \in 0..MaxLines
    /\ parse.session \in BOOLEAN

Told(type, r, i) == Cardinality({k \in 1..Len(parse.told) : parse.told[k] = Line(type, r, i)})
Wrote(type, r, i) == Cardinality({k \in 1..Len(read) : read[k] = Line(type, r, i)})

\* However the output is chunked, the lines that are parsed are those that were
\* written, in their order, and all of them once the process has ended.
LinesAsWritten ==
    /\ Len(read) <= Len(wrote) /\ \A k \in 1..Len(read) : read[k] = wrote[k]
    /\ (phase = "ended" /\ argv.started => read = wrote)

\* Of a response that is complete, each item is told once: as the deltas that were
\* streamed, or else whole; of another one, at most once.
ItemsToldOnce ==
    client = "codex" /\ ~cut =>
      \A r \in 1..Len(responses) : \A i \in 1..Len(responses[r]) :
         LET over == \E k \in 1..Len(read) : read[k] = Line("completed", r, 0)
         IN  /\ Told("delta", r, i) = Wrote("delta", r, i)
             /\ Told("whole", r, i) \in
                   IF Wrote("delta", r, i) > 0 THEN {0} ELSE IF over THEN {1} ELSE {0, 1}

\* The session is told once and before anything that follows it, and the exit last.
SessionFirstExitLast ==
    /\ Told("session_info", 0, 0) <= 1
    /\ \A k \in 1..Len(parse.told) : parse.told[k].type = "exit" => k = Len(parse.told) /\ phase = "ended"

\* The invariant of the client's events.
ClientIsHeard == ClientTypeOK /\ LinesAsWritten /\ ItemsToldOnce /\ SessionFirstExitLast
=============================================================================
