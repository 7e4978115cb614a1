-------------------------- MODULE AnthropicMessage --------------------------
(***************************************************************************)
(* What a client makes of one Anthropic message stream: which content      *)
(* blocks it has seen, which of them are open, and whether an event broke  *)
(* the contract that core/anthropic/stream_contracts.py states.  A view is *)
(* a record, and each event of the protocol an operator from the view      *)
(* before it to the view after it.  Contents of text and thinking blocks   *)
(* are left out.                                                           *)
(***************************************************************************)
EXTENDS Integers

Kinds == {"text", "thinking", "tool_use"}

View == [phase   : {"new", "open", "ended"},
         started : SUBSET Nat,             \* blocks seen so far
         open    : SUBSET (Nat \X Kinds),  \* blocks not stopped yet
         fault   : BOOLEAN]                \* has the contract been broken?

NewView == [phase |-> "new", started |-> {}, open |-> {}, fault |-> FALSE]

MessageStart(v) ==
    [v EXCEPT !.phase = "open", !.fault = @ \/ v.phase # "new"]

BlockStart(v, i, k) ==
    [v EXCEPT !.started = @ \cup {i}, !.open = @ \cup {<<i, k>>},
              !.fault = @ \/ v.phase # "open" \/ i \in v.started]

\* One delta to each block of B, all of kind k.
BlockDeltas(v, B, k) ==
    [v EXCEPT !.fault = @ \/ \E i \in B : v.phase # "open" \/ <<i, k>> \notin v.open]
BlockDelta(v, i, k) == BlockDeltas(v, {i}, k)

\* One stop to each block of B.
BlockStops(v, B) ==
    [v EXCEPT !.open = {b \in @ : b[1] \notin B},
              !.fault = \/ @
                        \/ \E i \in B : \/ v.phase # "open"
                                        \/ \A k \in Kinds : <<i, k>> \notin v.open]
BlockStop(v, i) == BlockStops(v, {i})

\* message_delta may come anywhere before message_stop.
MessageDelta(v) == [v EXCEPT !.fault = @ \/ v.phase # "open"]

MessageStop(v) ==
    [v EXCEPT !.phase = "ended",
              !.fault = @ \/ v.phase # "open" \/ v.open # {} \/ v.started = {}]
=============================================================================
