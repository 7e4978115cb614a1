----------------------------- MODULE Transcript -----------------------------
(***************************************************************************)
(* What the chat shows of one turn: the events of the CLI                  *)
(* (messaging/event_parser.py), the transcript that is built from them     *)
(* (messaging/transcript.py), and the edits of the turn's status message   *)
(* (messaging/ui_updates.py, node_event_pipeline.py, and the turn in       *)
(* handler.py).                                                            *)
(*                                                                         *)
(* Content comes in numbered pieces, in blocks that are streamed under an  *)
(* index or in whole messages.  Some layers leave out the start of every   *)
(* streamed block, or its stop; some leave out the ids of Task calls.  A   *)
(* result comes in a message of its own, when no block is being streamed.  *)
(* An id is a sequence, so that one may be a prefix of another.  Sizes are *)
(* counted in pieces and headings.                                         *)
(***************************************************************************)
EXTENDS Integers, Sequences, FiniteSets, FiniteSetsExt, SequencesExt

CONSTANTS Symbols,    \* what ids are made of
          Slots,      \* indices of streamed blocks
          TaskIds,    \* ids of calls of the Task tool
          ToolIds,    \* ids of calls of other tools, none a prefix of a Task's
          TaskLike,   \* the ids that contain "task"
          MaxEvents,  \* bound on the pieces and calls of a turn
          LimitChars,  \* get_limit_chars()
          TailMax,    \* the tails of a text and of a thought that are shown
          MinTail     \* the least tail of a segment worth showing

ASSUME TranscriptAssumption ==
    /\ Slots \subseteq Nat /\ MaxEvents \in Nat /\ {LimitChars, TailMax, MinTail} \subseteq Nat \ {0}
    /\ TaskIds \cup ToolIds \cup TaskLike \subseteq Seq(Symbols) \ {<<>>} /\ "__task" \notin Symbols
    /\ \A a \in TaskIds, b \in ToolIds : ~IsPrefix(a, b) /\ ~IsPrefix(b, a)

VARIABLES
    omit,       \* what this CLI leaves out: "start", "stop" or nothing
    segments,   \* TranscriptBuffer._segments
    open,       \* _open_text_by_index and _open_thinking_by_index, by segment
    openTools,  \* indices of _open_tools_by_index
    stack,      \* _subagent_stack, and the segment of each
    toolIds,    \* ids in _tool_name_by_id that are not a Task's
    last,       \* _last_displayed_text of the editor
    stale,      \* its edit failed, and the platform shows something older
    status,     \* the status of the last update
    turn,       \* "reading", or how it ended
    block,      \* history: the block that is being streamed
    tasks,      \* history: the Tasks that have no result yet, in order
    nested,     \* history: results of Tasks have come in the order of nesting, under ids
                \* that match no other Task's
    made,       \* history: pieces, calls and block starts so far
    visible     \* history: pieces said outside of any Task

textVars == <<omit, segments, open, openTools, stack, toolIds, last, stale, status, turn, block,
              tasks, nested, made, visible>>

NoBlock == [kind |-> "none", index |-> -1]
NothingShown == [marker |-> FALSE, body |-> <<>>, status |-> "none"]
Content == {"text", "thinking"}

TextInit ==
    /\ omit \in {"start", "stop", "nothing"}
    /\ segments = <<>> /\ open = [k \in Content |-> [i \in Slots |-> 0]] /\ openTools = {} /\ stack = <<>>
    /\ toolIds = {} /\ last = NothingShown /\ stale = FALSE /\ status = "none" /\ turn = "reading"
    /\ block = NoBlock /\ tasks = <<>> /\ nested = TRUE /\ made = 0 /\ visible = {}

-----------------------------------------------------------------------------
(* render(): the tail of the transcript that fits.                         *)

\* Segment.render(): texts and thoughts show their tails, and a Task its last call.
Rendered(s) ==
    IF s.kind \in Content THEN [s EXCEPT !.parts = SubSeq(@, Len(@) - Min({TailMax, Len(@)}) + 1, Len(@))]
    ELSE IF s.kind = "subagent" /\ s.parts # <<>> THEN [s EXCEPT !.parts = <<Last(@)>>]
    ELSE s
Heading(kind) == IF kind = "text" THEN 0 ELSE 1
Size(s) == Len(s.parts) + Heading(s.kind)
SizeOf(parts) ==
    LET f[i \in 0..Len(parts)] == IF i = 0 THEN 0 ELSE f[i - 1] + Size(parts[i])
    IN  f[Len(parts)]

\* What is rendered as nothing is left out.
Filled(segs) ==
    LET f[i \in 0..Len(segs)] ==
            IF i = 0 THEN <<>>
            ELSE IF Size(Rendered(segs[i])) > 0 THEN Append(f[i - 1], Rendered(segs[i])) ELSE f[i - 1]
    IN  f[Len(segs)]
StatusSize(st) == IF st = "none" THEN 0 ELSE 1
MarkerSize == 1

\* The newest segments that fit with the marker, or else the tail of the newest.
Truncated(parts, st) ==
    LET room == LimitChars - MarkerSize - StatusSize(st)
        cuts == {k \in 1..Len(parts) : SizeOf(SubSeq(parts, k, Len(parts))) <= room}
        newest == Last(parts)
    IN  IF cuts # {} THEN [marker |-> TRUE, body |-> SubSeq(parts, Min(cuts), Len(parts)), status |-> st]
        ELSE IF room > MinTail
        THEN [marker |-> TRUE, status |-> st,
              body |-> <<[kind |-> "text", parts |-> SubSeq(newest.parts, Len(newest.parts) - room + 2, Len(newest.parts))]>>]
        ELSE [marker |-> MarkerSize + StatusSize(st) <= LimitChars, body |-> <<>>, status |-> st]

Render(segs, st) ==
    LET parts == Filled(segs)
    IN  IF SizeOf(parts) + StatusSize(st) <= LimitChars THEN [marker |-> FALSE, body |-> parts, status |-> st]
        ELSE IF parts = <<>> THEN [NothingShown EXCEPT !.status = st]
        ELSE Truncated(parts, st)

-----------------------------------------------------------------------------
(* ThrottledTranscriptEditor.update(): at most one edit a second, unless   *)
(* it is forced; a failed edit is only logged.                             *)

ShowsUpdate(segs, st, force) ==
    \/ ~force /\ UNCHANGED <<last, stale>>
    \/ LET display == Render(segs, st)
       IN  IF display \in {NothingShown, last} THEN UNCHANGED <<last, stale>>
           ELSE last' = display /\ stale' \in BOOLEAN

-----------------------------------------------------------------------------
(* TranscriptBuffer.apply()                                                *)

InSubagent == stack # <<>>
Segment(kind, parts) == [kind |-> kind, parts |-> parts]

\* block_stop: a tool's, a thought's or a text's, the first of them at the index.
CloseAt(index) ==
    IF index \in openTools THEN openTools' = openTools \ {index} /\ UNCHANGED open
    ELSE /\ UNCHANGED openTools
         /\ LET kind == IF open["thinking"][index] # 0 THEN "thinking" ELSE "text"
            IN  open' = [open EXCEPT ![kind][index] = 0]

\* thinking_start and text_start close what is left open at the index.
StartContent(kind, index) ==
    IF InSubagent THEN UNCHANGED <<segments, open, openTools>>
    ELSE /\ segments' = Append(segments, Segment(kind, <<>>))
         /\ openTools' = openTools \ {index}
         /\ LET other == IF kind = "text" THEN "thinking" ELSE "text"
                closes == IF index \in openTools THEN "none"
                          ELSE IF open["thinking"][index] # 0 THEN "thinking" ELSE "text"
            IN  open' = [open EXCEPT ![kind][index] = Len(segments) + 1,
                                     ![other][index] = IF closes = other THEN 0 ELSE @]

\* A delta goes to the open segment of its index, and else to a new one, as a
\* chunk always does.
AddContent(kind, index, n) ==
    LET s == IF index = -1 THEN 0 ELSE open[kind][index] IN
    IF InSubagent THEN UNCHANGED <<segments, open>>
    ELSE /\ segments' = IF s = 0 THEN Append(segments, Segment(kind, <<n>>))
                        ELSE [segments EXCEPT ![s].parts = Append(@, n)]
         /\ open' = IF s # 0 \/ index = -1 THEN open ELSE [open EXCEPT ![kind][index] = Len(segments) + 1]

\* _subagent_push(): an id that is left out is made up from the depth.
Pushed(id) == Append(stack, [id |-> IF id = <<>> THEN <<"__task", Len(stack) + 1>> ELSE id, seg |-> Len(segments) + 1])

\* tool_use_start and tool_use: a Task opens a segment of its own, a call within
\* one is counted there.
AddCall(task, id, n) ==
    IF task THEN segments' = Append(segments, Segment("subagent", <<>>)) /\ stack' = Pushed(id)
    ELSE /\ UNCHANGED stack
         /\ segments' = IF InSubagent THEN [segments EXCEPT ![Last(stack).seg].parts = Append(@, n)]
                        ELSE Append(segments, Segment("tool", <<n>>))

\* _ids_roughly_match()
Matches(a, b) == a # <<>> /\ b # <<>> /\ (IsPrefix(a, b) \/ IsPrefix(b, a))
IsSynthetic(id) == id[1] = "__task"

\* Mutant: any result whose id contains "task" ends a Task of a made-up id.
PoppedByLooks(id) ==
    LET hits == {i \in 1..Len(stack) : Matches(stack[i].id, id)}
    IN  IF stack = <<>> THEN stack
        ELSE IF hits # {} THEN SubSeq(stack, 1, Max(hits) - 1)
        ELSE IF IsSynthetic(Last(stack).id) /\ (id = <<>> \/ id \in TaskLike)
        THEN Front(stack)
        ELSE stack

\* _subagent_pop(), and what reconciles a made-up id with the id of a result.
Popped(id) ==
    LET hits == {i \in 1..Len(stack) : Matches(stack[i].id, id)}
    IN  IF stack = <<>> THEN stack
        ELSE IF hits # {} THEN SubSeq(stack, 1, Max(hits) - 1)
        ELSE IF IsSynthetic(Last(stack).id) /\ (id = <<>> \/ (id \notin toolIds /\ id \in TaskLike))
        THEN Front(stack)
        ELSE stack

-----------------------------------------------------------------------------
(* The events of the CLI, each applied and shown: process_parsed_cli_event *)
(* with the status that the event calls for.                               *)

Between == block = NoBlock \/ omit = "stop"
More == turn = "reading" /\ made < MaxEvents
Makes == made' = made + 1
Shown(st, force) == ShowsUpdate(segments', st, force) /\ status' = st
Working == UNCHANGED segments /\ Shown("tools", FALSE)

\* A piece of a block, which starts it if the CLI leaves starts out, or of a whole
\* message.
Says(kind, index) ==
    /\ More /\ Makes /\ AddContent(kind, index, made + 1) /\ Shown(kind, FALSE)
    /\ visible' = IF tasks = <<>> THEN visible \cup {made + 1} ELSE visible
    /\ UNCHANGED <<omit, openTools, stack, toolIds, turn, tasks, nested>>
Piece(kind, index) ==
    /\ block = [kind |-> kind, index |-> index] \/ (omit = "start" /\ block = NoBlock)
    /\ Says(kind, index) /\ block' = [kind |-> kind, index |-> index]
InMessage(kind) == Between /\ Says(kind, -1) /\ block' = NoBlock

BlockStart(kind, index) ==
    /\ More /\ omit # "start" /\ Between
    /\ Makes /\ StartContent(kind, index) /\ Shown(kind, FALSE) /\ block' = [kind |-> kind, index |-> index]
    /\ UNCHANGED <<omit, stack, toolIds, turn, tasks, nested, visible>>

BlockStop ==
    /\ turn = "reading" /\ omit # "stop" /\ block # NoBlock
    /\ CloseAt(block.index) /\ block' = NoBlock
    /\ ShowsUpdate(segments, status, TRUE)
    /\ UNCHANGED <<omit, segments, stack, toolIds, status, turn, tasks, nested, made, visible>>

\* A call, whole or as a block; the ids of Tasks may be left out.
Called(task, id) ==
    /\ More /\ Makes /\ Between
    /\ AddCall(task, id, made + 1) /\ Shown(IF task THEN "subagent" ELSE "tools", FALSE)
    /\ toolIds' = IF ~task /\ id # <<>> THEN toolIds \cup {id} ELSE toolIds
    /\ tasks' = IF task THEN Append(tasks, id) ELSE tasks
    /\ UNCHANGED <<omit, turn, nested, visible>>
Call(task, id) == Called(task, id) /\ UNCHANGED <<open, openTools>> /\ block' = NoBlock
CallBlock(task, id, index) ==
    /\ omit # "start" /\ Called(task, id)
    /\ IF index \notin openTools
       THEN /\ LET kind == IF open["thinking"][index] # 0 THEN "thinking" ELSE "text"
               IN  open' = [open EXCEPT ![kind][index] = 0]
            /\ openTools' = IF task THEN openTools ELSE openTools \cup {index}
       ELSE openTools' = (IF task THEN openTools \ {index} ELSE openTools) /\ UNCHANGED open
    /\ block' = [kind |-> "call", index |-> index]

\* The result of the i-th Task that has none, under its id or one that extends it;
\* if the id was left out, the result has none, or one that contains "task".
TaskResult(i, id) ==
    /\ turn = "reading" /\ Between /\ block' = NoBlock
    /\ IF tasks[i] = <<>> THEN id = <<>> \/ id \in TaskLike \ (toolIds \cup TaskIds) ELSE IsPrefix(tasks[i], id)
    /\ stack' = Popped(id) /\ tasks' = RemoveAt(tasks, i)
    /\ nested' = (nested /\ i = Len(tasks) /\ (tasks[i] # <<>> \/ \A j \in 1..Len(tasks) : ~Matches(tasks[j], id)))
    /\ Working /\ UNCHANGED <<omit, open, openTools, toolIds, turn, made, visible>>
ToolResult(id) ==
    /\ turn = "reading" /\ Between /\ block' = NoBlock /\ id \in toolIds /\ stack' = Popped(id) /\ Working
    /\ UNCHANGED <<omit, open, openTools, toolIds, turn, tasks, nested, made, visible>>

\* An error of the stream is told and shown at once, and so is one of the CLI, that
\* exits with another code than 0: its end follows all the same.
ShowsError(n) == segments' = Append(segments, Segment("error", <<n>>)) /\ ShowsUpdate(segments', "error", TRUE)
ErrorEvent ==
    /\ More /\ Makes /\ ShowsError(made + 1)
    /\ UNCHANGED <<omit, open, openTools, stack, toolIds, status, turn, block, tasks, nested, visible>>
ExitFails ==
    /\ turn = "reading" /\ turn' = "failing" /\ ShowsError(0)
    /\ UNCHANGED <<omit, open, openTools, stack, toolIds, status, block, tasks, nested, made, visible>>

\* The end of the turn: an exit, a cancellation by /stop or another one, a failure
\* of the turn, and no room for a session.
Ends(how, parts) ==
    /\ turn \in {"reading", "failing"} /\ turn' = how /\ segments' = segments \o parts
    /\ ShowsUpdate(segments', how, TRUE)
    /\ UNCHANGED <<omit, open, openTools, stack, toolIds, status, block, tasks, nested, made, visible>>
Complete == Ends("complete", IF segments = <<>> THEN <<Segment("text", <<0>>)>> ELSE <<>>)
StopEnds == Ends("stopped", <<>>)
CancelEnds == Ends("cancelled", <<Segment("error", <<0>>)>>)
TurnFails == Ends("failed", <<Segment("error", <<0>>)>>)
NoSession == segments = <<>> /\ Ends("limit", <<Segment("error", <<0>>)>>)

TextNext ==
    \/ \E kind \in Content : InMessage(kind) \/ \E i \in Slots : Piece(kind, i) \/ BlockStart(kind, i)
    \/ BlockStop
    \/ \E task \in BOOLEAN : \E id \in (IF task THEN {<<>>} \cup TaskIds ELSE ToolIds) :
          (task => id = <<>> \/ \A i \in 1..Len(tasks) : tasks[i] # id)
          /\ (Call(task, id) \/ \E i \in Slots : CallBlock(task, id, i))
    \/ \E i \in 1..Len(tasks) : \E id \in {<<>>} \cup TaskIds \cup TaskLike : TaskResult(i, id)
    \/ \E id \in ToolIds : ToolResult(id)
    \/ ErrorEvent \/ Complete \/ ExitFails \/ StopEnds \/ CancelEnds \/ TurnFails \/ NoSession

-----------------------------------------------------------------------------
(* Properties.                                                             *)

TextTypeOK ==
    /\ made \in 0..MaxEvents /\ visible \subseteq 1..made /\ openTools \subseteq Slots
    /\ \A k \in Content, i \in Slots : open[k][i] \in 0..Len(segments)
    /\ \A i \in 1..Len(stack) : segments[stack[i].seg].kind = "subagent"

\* As long as Tasks are answered in the order of their nesting, the transcript has
\* what was said outside of them, each piece once and in order, and nothing of
\* what was said inside.
Texts == {i \in 1..Len(segments) : segments[i].kind \in Content}
SaysWhatIsMain ==
    nested =>
        /\ (UNION {Range(segments[i].parts) : i \in Texts}) \ {0} = visible
        /\ \A i \in Texts : \A p, q \in 1..Len(segments[i].parts) :
              p < q => segments[i].parts[p] < segments[i].parts[q]
        /\ \A i, j \in Texts : i < j =>
              \A m \in Range(segments[i].parts), n \in Range(segments[j].parts) : m < n

\* When every Task has been answered, in whatever order, none is open; only one
\* whose id was left out, or extends another's, may stay so, if it was not answered
\* in order.
TasksClose ==
    tasks = <<>> =>
        \A i \in 1..Len(stack) :
           ~nested /\ (IsSynthetic(stack[i].id) \/ \E id \in TaskIds \ {stack[i].id} : IsPrefix(id, stack[i].id))

\* What is shown fits, and ends with what is newest if the tail of it fits.
FitsAndFresh ==
    LET d == Render(segments, status)
        parts == Filled(segments)
    IN  /\ (IF d.marker THEN MarkerSize ELSE 0) + SizeOf(d.body) + StatusSize(d.status) <= LimitChars
        /\ parts # <<>> /\ LimitChars - MarkerSize - StatusSize(status) > MinTail =>
              d.body # <<>> /\ (Last(parts).parts # <<>> => Last(Last(d.body).parts) = Last(Last(parts).parts))

\* The last edit of a turn shows its end, with all that fits of the transcript.
EndIsShown == turn \notin {"reading", "failing"} => last = Render(segments, turn)

\* The invariant of the transcript.
TranscriptKept == TextTypeOK /\ SaysWhatIsMain /\ TasksClose /\ FitsAndFresh /\ EndIsShown
=============================================================================
