-------------------------- MODULE ResponsesStream ---------------------------
(***************************************************************************)
(* The translation of an Anthropic event stream into the events of the     *)
(* Responses API (core/openai_responses/stream_state.py).  Content blocks  *)
(* are known by their index, output items by the slot that is reserved     *)
(* for them when they start; an item is committed to its slot when its     *)
(* block ends, and the last event carries all the committed items.         *)
(*                                                                         *)
(* The stream is any sequence of events: blocks may overlap, reuse an      *)
(* index, come without one, or be left open.  Text is a sequence of        *)
(* pieces, numbered as they come.  What a client makes of the events is    *)
(* kept beside the assembler's own state.                                  *)
(***************************************************************************)
EXTENDS Integers, Sequences

CONSTANTS Indices,    \* the indices of content blocks
          NoIndex,    \* an event without an index
          Tools,      \* the tools of the request, in order: kind, namespace and name
          MaxChunks,  \* bound on the pieces of the stream
          MaxSlots    \* bound on its blocks

ASSUME ResponsesStreamAssumption ==
    /\ Indices \subseteq Nat /\ NoIndex \notin Indices /\ MaxChunks \in Nat /\ MaxSlots \in Nat
    /\ Tools \in Seq([kind : {"function", "custom"}, namespace : STRING, name : STRING])

VARIABLES
    slots,     \* _output_slots: what each item was committed as, or Uncommitted
    active,    \* _active_blocks, with the slot and the parts of each
    fallback,  \* _fallback_text_index
    usage,     \* _input_tokens and _output_tokens
    started, terminal,
    final,     \* final_response
    pieces,    \* history: pieces of the stream so far
    told       \* history: the client's copy of each item, from the events

respVars == <<slots, active, fallback, usage, started, terminal, final, pieces, told>>

Uncommitted == [type |-> "none", of |-> <<>>, parts |-> <<>>]
NoResponse == [status |-> "none", output |-> <<>>]

RespInit ==
    /\ slots = <<>> /\ active = {} /\ fallback = -1 /\ usage = 0 /\ started = FALSE
    /\ terminal = FALSE /\ final = NoResponse /\ pieces = 0 /\ told = <<>>

-----------------------------------------------------------------------------
(* Blocks and items.                                                       *)

\* responses_tool_name_to_anthropic_name(), short of the hash of a long name, and
\* responses_tool_identity_from_anthropic_name(): the first tool of that name, or
\* a function of it.
WireName(tool) == IF tool.namespace = "" THEN <<tool.name>> ELSE <<tool.namespace, tool.name>>
Identity(name) ==
    LET known == {i \in 1..Len(Tools) : WireName(Tools[i]) = name}
    IN  IF known = {} THEN [kind |-> "function", namespace |-> "", name |-> name[Len(name)]]
        ELSE Tools[CHOOSE i \in known : \A j \in known : i <= j]

At(index) == {b \in active : b.index = index}

\* message_item(), _reasoning_output_item() and _tool_item() of a block: opaque
\* thinking is the item itself, and text that comes for it does not show in it.
Committed(b) == [type |-> b.type, of |-> b.of, parts |-> IF b.type = "encrypted" THEN <<>> ELSE b.parts]

\* _complete_block(): text has been told as it came, the arguments of a call have not.
CompletedItem(b) ==
    [told[b.slot] EXCEPT !.parts = IF b.type \in {"function", "custom"} THEN b.parts ELSE @, !.done = @ + 1]

\* The blocks of B end, the others stay, and a new one (if there is one) starts
\* in the next slot.
Change(B, new) ==
    LET slotOf == [i \in 1..Len(slots) |-> IF \E b \in B : b.slot = i THEN Committed(CHOOSE b \in B : b.slot = i) ELSE slots[i]]
        toldOf == [i \in 1..Len(told) |-> IF \E b \in B : b.slot = i THEN CompletedItem(CHOOSE b \in B : b.slot = i) ELSE told[i]]
        copy == [i \in 1..Len(new) |->
                    [type |-> new[i].type, of |-> new[i].of, done |-> 0,
                     parts |-> IF new[i].type \in {"function", "custom"} THEN <<>> ELSE new[i].parts]]
    IN  /\ slots' = slotOf \o [i \in 1..Len(new) |-> Uncommitted]
        /\ told' = toldOf \o copy
        /\ active' = (active \ B) \cup {new[i] : i \in 1..Len(new)}

Block(index, type, of, parts) ==
    [index |-> index, slot |-> Len(slots) + 1, type |-> type, of |-> of, parts |-> parts]

\* _safe_index(): a text without an index has one that no block can have.
SafeIndex(index) == IF index = NoIndex THEN fallback ELSE index
Falls(index) == fallback' = IF index = NoIndex THEN fallback - 1 ELSE fallback

\* _start_text_block(), _start_reasoning_block() and _start_tool_block(): a block
\* of the same index ends first.
Starts(block) == Change(At(block.index), <<block>>)

\* _emit_text_delta() and _emit_reasoning_delta()
Grows(b, n) ==
    /\ active' = (active \ {b}) \cup {[b EXCEPT !.parts = Append(@, n)]}
    /\ told' = IF b.type \in {"function", "custom"} THEN told ELSE [told EXCEPT ![b.slot].parts = Append(@, n)]
    /\ UNCHANGED slots

Event == ~terminal /\ started' = TRUE
Running == UNCHANGED <<usage, terminal, final>>
\* A delta or the start of a block may bring a piece of content, or none.
Chunk == {<<>>} \cup (IF pieces < MaxChunks THEN {<<pieces + 1>>} ELSE {})
Brings(p) == pieces' = pieces + Len(p)

-----------------------------------------------------------------------------
(* process_anthropic_event(), for each kind of event.                      *)

StartText(index, p) ==
    /\ Event /\ Len(slots) < MaxSlots /\ Starts(Block(SafeIndex(index), "text", <<>>, p))
    /\ Falls(index) /\ Brings(p) /\ Running

\* Without an index, a block of another kind is passed over.
StartThinking(index, p) ==
    /\ Event /\ Len(slots) < MaxSlots /\ index # NoIndex /\ Starts(Block(index, "reasoning", <<>>, p))
    /\ Brings(p) /\ UNCHANGED fallback /\ Running

StartRedacted(index) ==
    /\ Event /\ Len(slots) < MaxSlots /\ index # NoIndex /\ Starts(Block(index, "encrypted", <<>>, <<>>))
    /\ UNCHANGED <<fallback, pieces>> /\ Running

StartTool(index, name, p) ==
    /\ Event /\ Len(slots) < MaxSlots /\ index # NoIndex
    /\ Starts(Block(index, Identity(name).kind, <<Identity(name).namespace, Identity(name).name>>, p))
    /\ Brings(p) /\ UNCHANGED fallback /\ Running

\* A delta for which there is no block of its kind starts one.
TextDelta(index, p) ==
    /\ Event /\ Falls(index) /\ Brings(p) /\ Running
    /\ \/ \E b \in At(SafeIndex(index)) :
              b.type = "text" /\ IF p = <<>> THEN UNCHANGED <<slots, active, told>> ELSE Grows(b, p[1])
       \/ /\ \A b \in At(SafeIndex(index)) : b.type # "text"
          /\ Len(slots) < MaxSlots /\ Starts(Block(SafeIndex(index), "text", <<>>, p))

ThinkingDelta(index, p) ==
    /\ Event /\ index # NoIndex /\ Brings(p) /\ UNCHANGED fallback /\ Running
    /\ \/ \E b \in At(index) :
              b.type \in {"reasoning", "encrypted"} /\ IF p = <<>> THEN UNCHANGED <<slots, active, told>> ELSE Grows(b, p[1])
       \/ /\ \A b \in At(index) : b.type \notin {"reasoning", "encrypted"}
          /\ Len(slots) < MaxSlots /\ Starts(Block(index, "reasoning", <<>>, p))

InputDelta(index, p) ==
    /\ Event /\ p # <<>> /\ Brings(p) /\ UNCHANGED fallback /\ Running
    /\ \E b \in At(index) : b.type \in {"function", "custom"} /\ Grows(b, p[1])

StopBlock(index) ==
    /\ Event /\ Change(At(index), <<>>) /\ UNCHANGED <<fallback, pieces>> /\ Running

UsageDelta ==
    /\ Event /\ usage = 0 /\ usage' = 1
    /\ UNCHANGED <<slots, active, fallback, terminal, final, pieces, told>>

\* _output(): the items of the slots, without those that have none.
Output(list) ==
    LET items[i \in 0..Len(list)] ==
            IF i = 0 THEN <<>>
            ELSE IF list[i] = Uncommitted THEN items[i - 1] ELSE Append(items[i - 1], list[i])
    IN  items[Len(list)]

\* Mutant: open blocks are forgotten, not ended.
EndsHere(status) ==
    /\ Change({}, <<>>) /\ terminal' = TRUE
    /\ final' = [status |-> status, output |-> Output(slots')]

\* complete_response() and fail_response(): the open blocks end, in the order of
\* their slots, and the response is told with the items there are.
Ends(status) ==
    /\ Change(active, <<>>) /\ terminal' = TRUE
    /\ final' = [status |-> status, output |-> Output(slots')]

\* The stop of the message, its error, and the end of the stream without either.
EndResponse(status) ==
    /\ Event /\ Ends(status) /\ UNCHANGED <<fallback, usage, pieces>>

RespNext ==
    \/ \E index \in Indices \cup {NoIndex}, p \in Chunk :
          StartText(index, p) \/ StartThinking(index, p) \/ TextDelta(index, p) \/ ThinkingDelta(index, p)
    \/ \E index \in Indices, p \in Chunk :
          InputDelta(index, p) \/ \E name \in {WireName(Tools[i]) : i \in 1..Len(Tools)} \cup {<<"unknown">>} :
                                      StartTool(index, name, p)
    \/ \E index \in Indices : StartRedacted(index) \/ StopBlock(index)
    \/ UsageDelta
    \/ \E status \in {"completed", "failed"} : EndResponse(status)

-----------------------------------------------------------------------------
(* Properties.                                                             *)

RespTypeOK ==
    /\ Len(slots) \in 0..MaxSlots /\ Len(told) = Len(slots) /\ pieces \in 0..MaxChunks
    /\ \A b \in active : b.slot \in 1..Len(slots) /\ b.index \in Indices \cup (fallback..-1)
    /\ \A b, c \in active : (b.index = c.index \/ b.slot = c.slot) => b = c

\* An item that is not done has an open block, and one that is done has none; its
\* parts are all that the client was told of, and it is done once.
ItemsAgree ==
    \A i \in 1..Len(slots) :
       LET open == {b \in active : b.slot = i}
       IN  /\ told[i].done = IF open = {} THEN 1 ELSE 0
           /\ slots[i] = Uncommitted <=> open # {}
           /\ open = {} => slots[i] = Committed(told[i])

\* The last event holds the items that the client has assembled, all of them and
\* in their order, and nothing that came was lost or told twice.
FinalIsTold ==
    terminal =>
      /\ final.output = [i \in 1..Len(told) |-> Committed(told[i])]
      /\ \A n \in 1..pieces :
            \E i \in 1..Len(told) : \E j \in 1..Len(told[i].parts) :
               /\ told[i].parts[j] = n
               /\ \A k \in 1..Len(told) : \A l \in 1..Len(told[k].parts) :
                     told[k].parts[l] = n => k = i /\ l = j

\* A call that the model makes of a tool comes back under the tool's own name.
CallsKeepNames ==
    \A i \in 1..Len(told) :
       told[i].type = "custom" =>
          \E k \in 1..Len(Tools) : Tools[k].kind = "custom" /\ told[i].of = <<Tools[k].namespace, Tools[k].name>>

\* The invariant of the stream.
ClientHasResponse == RespTypeOK /\ ItemsAgree /\ FinalIsTold /\ CallsKeepNames
=============================================================================
