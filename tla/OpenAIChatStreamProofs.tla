----------------------- MODULE OpenAIChatStreamProofs -----------------------
(***************************************************************************)
(* What OpenAIChatStream keeps for every set of calls, every number of     *)
(* retries and every bound.                                                *)
(*                                                                         *)
(* A builder is Good when its own books agree with the view it has given   *)
(* of the message.  Every operator of SSEBuilder and of the assembler maps *)
(* a Good builder to a Good one whose view is Later: more blocks begun,    *)
(* none reopened.  Each action then changes the client's view to a Later   *)
(* one, or ends the message.                                               *)
(***************************************************************************)
EXTENDS OpenAIChatStream, TLAPS

Good(s) == s \in Builder /\ WellFormed(s)

Later(v, w) ==
    /\ v.started \subseteq w.started
    /\ \A b \in w.open : b \in v.open \/ b[1] \in w.started \ v.started

\* s ends the message by the contract.
Done(s) ==
    /\ s \in Builder /\ Lawful(s.view, "ended")
    /\ s.view.open = {} /\ s.view.started # {}

\* r differs from s in no name and no block of a call.
SameNames(s, r) ==
    \A t \in Calls : r.call[t].name = s.call[t].name /\ r.call[t].block = s.call[t].block

-----------------------------------------------------------------------------
(* The order of views.                                                     *)

LEMMA LaterIsReflexive == ASSUME NEW v PROVE Later(v, v)
  BY DEF Later

LEMMA LaterIsTransitive ==
  ASSUME NEW v, NEW w, NEW x, Later(v, w), Later(w, x)
  PROVE  Later(v, x)
  BY DEF Later

-----------------------------------------------------------------------------
(* Events.                                                                 *)

LEMMA BlockStartView ==
  ASSUME NEW v \in View, NEW i \in Nat, NEW k \in Kinds,
         Lawful(v, "open"), i \notin v.started
  PROVE  LET w == BlockStart(v, i, k) IN
         /\ w \in View /\ Lawful(w, "open")
         /\ w.started = v.started \cup {i} /\ w.open = v.open \cup {<<i, k>>}
  <1> DEFINE w == BlockStart(v, i, k)
  <1>1. /\ w.started = v.started \cup {i} /\ w.open = v.open \cup {<<i, k>>}
        /\ w.phase = v.phase /\ w.fault = (v.fault \/ v.phase # "open" \/ i \in v.started)
    BY DEF BlockStart, View
  <1>2. w.fault = FALSE
    BY <1>1 DEF Lawful
  <1>3. w.open \in SUBSET (Nat \X Kinds) /\ w.started \in SUBSET Nat
    BY <1>1 DEF View
  <1>4. w = [v EXCEPT !.started = w.started, !.open = w.open, !.fault = FALSE]
    BY <1>1, <1>2, Zenon DEF BlockStart
  <1>5. \A S \in SUBSET Nat, O \in SUBSET (Nat \X Kinds) :
           [v EXCEPT !.started = S, !.open = O, !.fault = FALSE] \in View
    BY DEF View
  <1>6. w \in View
    BY <1>3, <1>4, <1>5, Zenon
  <1> QED
    BY <1>1, <1>2, <1>6 DEF Lawful

LEMMA BlockDeltasView ==
  ASSUME NEW v \in View, NEW B, NEW k,
         Lawful(v, "open"), \A i \in B : <<i, k>> \in v.open
  PROVE  LET w == BlockDeltas(v, B, k) IN
         /\ w \in View /\ Lawful(w, "open")
         /\ w.started = v.started /\ w.open = v.open
  BY DEF BlockDeltas, View, Lawful

LEMMA BlockDeltaView ==
  ASSUME NEW v \in View, NEW i, NEW k,
         Lawful(v, "open"), <<i, k>> \in v.open
  PROVE  LET w == BlockDelta(v, i, k) IN
         /\ w \in View /\ Lawful(w, "open")
         /\ w.started = v.started /\ w.open = v.open
  BY BlockDeltasView DEF BlockDelta

LEMMA BlockStopsView ==
  ASSUME NEW v \in View, NEW B, Lawful(v, "open"),
         \A i \in B : \E k \in Kinds : <<i, k>> \in v.open
  PROVE  LET w == BlockStops(v, B) IN
         /\ w \in View /\ Lawful(w, "open")
         /\ w.started = v.started /\ w.open = {b \in v.open : b[1] \notin B}
  BY DEF BlockStops, View, Lawful

LEMMA BlockStopView ==
  ASSUME NEW v \in View, NEW i, NEW k \in Kinds, Lawful(v, "open"), <<i, k>> \in v.open
  PROVE  LET w == BlockStop(v, i) IN
         /\ w \in View /\ Lawful(w, "open")
         /\ w.started = v.started /\ w.open = {b \in v.open : b[1] # i}
  BY BlockStopsView DEF BlockStop

-----------------------------------------------------------------------------
(* SSEBuilder.                                                             *)

\* What does not touch the blocks keeps the builder Good.
LEMMA SameBlocks ==
  ASSUME NEW s, Good(s), NEW r \in Builder,
         r.next = s.next, r.text = s.text, r.textOpen = s.textOpen,
         r.thinking = s.thinking, r.thinkingOpen = s.thinkingOpen,
         \A t \in Calls : r.call[t].block = s.call[t].block,
         r.view.started = s.view.started, r.view.open = s.view.open,
         r.view.phase = s.view.phase, ~r.view.fault
  PROVE  Good(r) /\ Later(s.view, r.view) /\ Started(r) = Started(s)
  <1>1. Started(r) = Started(s)
    BY DEF Started
  <1>2. Numbered(r)
    BY DEF Good, WellFormed, Numbered
  <1>3. Tracked(r)
    BY <1>1 DEF Good, WellFormed, Tracked, Started
  <1>4. Lawful(r.view, "open")
    BY DEF Good, WellFormed, Lawful
  <1> QED
    BY <1>1, <1>2, <1>3, <1>4 DEF Good, WellFormed, Later

LEMMA StopTextGood ==
  ASSUME NEW s, Good(s)
  PROVE  /\ Good(StopText(s)) /\ Later(s.view, StopText(s).view)
         /\ ~StopText(s).textOpen /\ StopText(s).call = s.call
         /\ StopText(s).view.started = s.view.started
         /\ StopText(s).thinkingOpen = s.thinkingOpen
  <1>1. CASE ~s.textOpen
    BY <1>1, LaterIsReflexive DEF StopText
  <1>2. CASE s.textOpen
    <2> DEFINE r == StopText(s)
    <2>1. r = [s EXCEPT !.textOpen = FALSE, !.view = BlockStop(s.view, s.text)]
      BY <1>2 DEF StopText
    <2>2. /\ r.next = s.next /\ r.text = s.text /\ r.textOpen = FALSE
          /\ r.thinking = s.thinking /\ r.thinkingOpen = s.thinkingOpen
          /\ r.call = s.call /\ r.view = BlockStop(s.view, s.text)
      BY <2>1 DEF Good, Builder
    <2>3. <<s.text, "text">> \in s.view.open
      BY <1>2 DEF Good, WellFormed, Tracked
    <2>4. /\ r.view.started = s.view.started
          /\ r.view.open = {b \in s.view.open : b[1] # s.text}
          /\ r.view.phase = "open" /\ ~r.view.fault
          /\ r.view \in View
      BY <2>2, <2>3 DEF BlockStop, BlockStops, View, Good, Builder, WellFormed, Lawful, Kinds
    <2>5. r \in Builder
      BY <2>1, <2>2, <2>4 DEF Good, Builder
    <2>6. Started(r) = Started(s)
      BY <2>2 DEF Started
    <2>7. Numbered(r)
      BY <2>2, <2>4 DEF Good, WellFormed, Numbered
    <2>8. Tracked(r)
      <3>1. \A k \in {"thinking", "tool_use"} : \A i :
               <<i, k>> \in s.view.open => <<i, k>> \in r.view.open
        BY <2>3, <2>4 DEF Good, WellFormed, Numbered
      <3>2. r.thinkingOpen => <<r.thinking, "thinking">> \in r.view.open
        BY <2>2, <3>1 DEF Good, WellFormed, Tracked
      <3>3. \A t \in Started(r) : <<r.call[t].block, "tool_use">> \in r.view.open
        BY <2>2, <2>6, <3>1 DEF Good, WellFormed, Tracked
      <3>4. \A t, u \in Started(r) : r.call[t].block = r.call[u].block => t = u
        BY <2>2, <2>6 DEF Good, WellFormed, Tracked
      <3>5. \A b \in r.view.open :
               \/ r.thinkingOpen /\ b[1] = r.thinking /\ b[2] = "thinking"
               \/ \E t \in Started(r) : b[1] = r.call[t].block /\ b[2] = "tool_use"
        BY <2>2, <2>4, <2>6 DEF Good, WellFormed, Tracked
      <3> QED
        BY <2>2, <3>2, <3>3, <3>4, <3>5 DEF Tracked
    <2> QED
      BY <2>2, <2>4, <2>5, <2>7, <2>8 DEF Good, WellFormed, Lawful, Later
  <1> QED
    BY <1>1, <1>2

LEMMA StopThinkingGood ==
  ASSUME NEW s, Good(s)
  PROVE  /\ Good(StopThinking(s)) /\ Later(s.view, StopThinking(s).view)
         /\ ~StopThinking(s).thinkingOpen /\ StopThinking(s).call = s.call
         /\ StopThinking(s).view.started = s.view.started
         /\ StopThinking(s).textOpen = s.textOpen
  <1>1. CASE ~s.thinkingOpen
    BY <1>1, LaterIsReflexive DEF StopThinking
  <1>2. CASE s.thinkingOpen
    <2> DEFINE r == StopThinking(s)
    <2>1. r = [s EXCEPT !.thinkingOpen = FALSE, !.view = BlockStop(s.view, s.thinking)]
      BY <1>2 DEF StopThinking
    <2>2. /\ r.next = s.next /\ r.thinking = s.thinking /\ r.thinkingOpen = FALSE
          /\ r.text = s.text /\ r.textOpen = s.textOpen
          /\ r.call = s.call /\ r.view = BlockStop(s.view, s.thinking)
      BY <2>1 DEF Good, Builder
    <2>3. <<s.thinking, "thinking">> \in s.view.open
      BY <1>2 DEF Good, WellFormed, Tracked
    <2>4. /\ r.view.started = s.view.started
          /\ r.view.open = {b \in s.view.open : b[1] # s.thinking}
          /\ r.view.phase = "open" /\ ~r.view.fault
          /\ r.view \in View
      BY <2>2, <2>3 DEF BlockStop, BlockStops, View, Good, Builder, WellFormed, Lawful, Kinds
    <2>5. r \in Builder
      BY <2>1, <2>2, <2>4 DEF Good, Builder
    <2>6. Started(r) = Started(s)
      BY <2>2 DEF Started
    <2>7. Numbered(r)
      BY <2>2, <2>4 DEF Good, WellFormed, Numbered
    <2>8. Tracked(r)
      <3>1. \A k \in {"text", "tool_use"} : \A i :
               <<i, k>> \in s.view.open => <<i, k>> \in r.view.open
        BY <2>3, <2>4 DEF Good, WellFormed, Numbered
      <3>2. r.textOpen => <<r.text, "text">> \in r.view.open
        BY <2>2, <3>1 DEF Good, WellFormed, Tracked
      <3>3. \A t \in Started(r) : <<r.call[t].block, "tool_use">> \in r.view.open
        BY <2>2, <2>6, <3>1 DEF Good, WellFormed, Tracked
      <3>4. \A t, u \in Started(r) : r.call[t].block = r.call[u].block => t = u
        BY <2>2, <2>6 DEF Good, WellFormed, Tracked
      <3>5. \A b \in r.view.open :
               \/ r.textOpen /\ b[1] = r.text /\ b[2] = "text"
               \/ \E t \in Started(r) : b[1] = r.call[t].block /\ b[2] = "tool_use"
        BY <2>2, <2>4, <2>6 DEF Good, WellFormed, Tracked
      <3> QED
        BY <2>2, <3>2, <3>3, <3>4, <3>5 DEF Tracked
    <2> QED
      BY <2>2, <2>4, <2>5, <2>7, <2>8 DEF Good, WellFormed, Lawful, Later
  <1> QED
    BY <1>1, <1>2

LEMMA CloseContentGood ==
  ASSUME NEW s, Good(s)
  PROVE  LET c == CloseContentBlocks(s) IN
         /\ Good(c) /\ Later(s.view, c.view)
         /\ ~c.textOpen /\ ~c.thinkingOpen /\ c.call = s.call
         /\ c.view.started = s.view.started
  BY StopThinkingGood, StopTextGood, LaterIsTransitive DEF CloseContentBlocks

\* A block that is begun takes the next index, which no other block has.
LEMMA NextIsFresh ==
  ASSUME NEW s, Good(s)
  PROVE  /\ s.next \in Nat /\ s.next \notin s.view.started /\ s.next # NoBlock
         /\ \A b \in s.view.open : b[1] # s.next
  BY DEF Good, Builder, WellFormed, Numbered, View, NoBlock

LEMMA StartTextGood ==
  ASSUME NEW s, Good(s)
  PROVE  /\ Good(StartText(s)) /\ Later(s.view, StartText(s).view)
         /\ StartText(s).textOpen /\ StartText(s).call = s.call
  <1>1. CASE s.textOpen
    BY <1>1, LaterIsReflexive DEF StartText
  <1>2. CASE ~s.textOpen
    <2> DEFINE r == StartText(s)
    <2>0. /\ s.next \in Nat /\ s.next \notin s.view.started
          /\ \A b \in s.view.open : b[1] # s.next
      BY NextIsFresh
    <2>1. r = [s EXCEPT !.next = s.next + 1, !.text = s.next, !.textOpen = TRUE,
                        !.view = BlockStart(s.view, s.next, "text")]
      BY <1>2 DEF StartText
    <2>2. /\ r.next = s.next + 1 /\ r.text = s.next /\ r.textOpen = TRUE
          /\ r.thinking = s.thinking /\ r.thinkingOpen = s.thinkingOpen
          /\ r.call = s.call /\ r.view = BlockStart(s.view, s.next, "text")
      BY <2>1 DEF Good, Builder
    <2>3. /\ r.view.started = s.view.started \cup {s.next}
          /\ r.view.open = s.view.open \cup {<<s.next, "text">>}
          /\ r.view \in View /\ Lawful(r.view, "open")
      BY <2>0, <2>2, BlockStartView DEF Good, Builder, WellFormed, Kinds
    <2>4. r \in Builder
      <3>1. s.next + 1 \in Nat
        BY <2>0
      <3>2. \A n, m \in Nat, w \in View :
               [s EXCEPT !.next = n, !.text = m, !.textOpen = TRUE, !.view = w] \in Builder
        BY DEF Good, Builder
      <3>3. \A w \in View :
               [s EXCEPT !.next = s.next + 1, !.text = s.next, !.textOpen = TRUE, !.view = w]
                  \in Builder
        BY <2>0, <3>1, <3>2
      <3>4. BlockStart(s.view, s.next, "text") \in View
        BY <2>2, <2>3
      <3> QED
        BY <2>1, <3>3, <3>4
    <2>5. Started(r) = Started(s)
      BY <2>2 DEF Started
    <2>6. Numbered(r)
      <3>1. \A i \in r.view.started : i < r.next
        BY <2>0, <2>2, <2>3 DEF Good, WellFormed, Numbered, Builder, View
      <3>2. {r.text, r.thinking} \subseteq r.view.started \cup {NoBlock}
        BY <2>2, <2>3 DEF Good, WellFormed, Numbered
      <3>3. \A b \in r.view.open : b[1] \in r.view.started
        BY <2>3 DEF Good, WellFormed, Numbered
      <3>4. \A b, c \in r.view.open : b[1] = c[1] => b[2] = c[2]
        BY <2>0, <2>3 DEF Good, WellFormed, Numbered
      <3> QED
        BY <3>1, <3>2, <3>3, <3>4 DEF Numbered
    <2>7. Tracked(r)
      <3>1. \A t \in Started(r) : <<r.call[t].block, "tool_use">> \in r.view.open
        BY <2>2, <2>3, <2>5 DEF Good, WellFormed, Tracked
      <3>2. r.thinkingOpen => <<r.thinking, "thinking">> \in r.view.open
        BY <2>2, <2>3 DEF Good, WellFormed, Tracked
      <3>3. \A t, u \in Started(r) : r.call[t].block = r.call[u].block => t = u
        BY <2>2, <2>5 DEF Good, WellFormed, Tracked
      <3>4. \A b \in s.view.open :
               \/ s.thinkingOpen /\ b[1] = s.thinking /\ b[2] = "thinking"
               \/ \E t \in Started(s) : b[1] = s.call[t].block /\ b[2] = "tool_use"
        BY <1>2 DEF Good, WellFormed, Tracked
      <3>5. \A b \in r.view.open :
               \/ r.textOpen /\ b[1] = r.text /\ b[2] = "text"
               \/ r.thinkingOpen /\ b[1] = r.thinking /\ b[2] = "thinking"
               \/ \E t \in Started(r) : b[1] = r.call[t].block /\ b[2] = "tool_use"
        BY <2>2, <2>3, <2>5, <3>4
      <3> QED
        BY <2>2, <2>3, <3>1, <3>2, <3>3, <3>5 DEF Tracked
    <2> QED
      BY <2>0, <2>2, <2>3, <2>4, <2>6, <2>7 DEF Good, WellFormed, Lawful, Later
  <1> QED
    BY <1>1, <1>2

LEMMA StartThinkingGood ==
  ASSUME NEW s, Good(s)
  PROVE  /\ Good(StartThinking(s)) /\ Later(s.view, StartThinking(s).view)
         /\ StartThinking(s).thinkingOpen /\ StartThinking(s).call = s.call
  <1>1. CASE s.thinkingOpen
    BY <1>1, LaterIsReflexive DEF StartThinking
  <1>2. CASE ~s.thinkingOpen
    <2> DEFINE r == StartThinking(s)
    <2>0. /\ s.next \in Nat /\ s.next \notin s.view.started
          /\ \A b \in s.view.open : b[1] # s.next
      BY NextIsFresh
    <2>1. r = [s EXCEPT !.next = s.next + 1, !.thinking = s.next, !.thinkingOpen = TRUE,
                        !.view = BlockStart(s.view, s.next, "thinking")]
      BY <1>2 DEF StartThinking
    <2>2. /\ r.next = s.next + 1 /\ r.thinking = s.next /\ r.thinkingOpen = TRUE
          /\ r.text = s.text /\ r.textOpen = s.textOpen
          /\ r.call = s.call /\ r.view = BlockStart(s.view, s.next, "thinking")
      BY <2>1 DEF Good, Builder
    <2>3. /\ r.view.started = s.view.started \cup {s.next}
          /\ r.view.open = s.view.open \cup {<<s.next, "thinking">>}
          /\ r.view \in View /\ Lawful(r.view, "open")
      BY <2>0, <2>2, BlockStartView DEF Good, Builder, WellFormed, Kinds
    <2>4. r \in Builder
      <3>1. s.next + 1 \in Nat
        BY <2>0
      <3>2. \A n, m \in Nat, w \in View :
               [s EXCEPT !.next = n, !.thinking = m, !.thinkingOpen = TRUE, !.view = w] \in Builder
        BY DEF Good, Builder
      <3>3. \A w \in View :
               [s EXCEPT !.next = s.next + 1, !.thinking = s.next, !.thinkingOpen = TRUE, !.view = w]
                  \in Builder
        BY <2>0, <3>1, <3>2
      <3>4. BlockStart(s.view, s.next, "thinking") \in View
        BY <2>2, <2>3
      <3> QED
        BY <2>1, <3>3, <3>4
    <2>5. Started(r) = Started(s)
      BY <2>2 DEF Started
    <2>6. Numbered(r)
      <3>1. \A i \in r.view.started : i < r.next
        BY <2>0, <2>2, <2>3 DEF Good, WellFormed, Numbered, Builder, View
      <3>2. {r.thinking, r.text} \subseteq r.view.started \cup {NoBlock}
        BY <2>2, <2>3 DEF Good, WellFormed, Numbered
      <3>3. \A b \in r.view.open : b[1] \in r.view.started
        BY <2>3 DEF Good, WellFormed, Numbered
      <3>4. \A b, c \in r.view.open : b[1] = c[1] => b[2] = c[2]
        BY <2>0, <2>3 DEF Good, WellFormed, Numbered
      <3> QED
        BY <3>1, <3>2, <3>3, <3>4 DEF Numbered
    <2>7. Tracked(r)
      <3>1. \A t \in Started(r) : <<r.call[t].block, "tool_use">> \in r.view.open
        BY <2>2, <2>3, <2>5 DEF Good, WellFormed, Tracked
      <3>2. r.textOpen => <<r.text, "text">> \in r.view.open
        BY <2>2, <2>3 DEF Good, WellFormed, Tracked
      <3>3. \A t, u \in Started(r) : r.call[t].block = r.call[u].block => t = u
        BY <2>2, <2>5 DEF Good, WellFormed, Tracked
      <3>4. \A b \in s.view.open :
               \/ s.textOpen /\ b[1] = s.text /\ b[2] = "text"
               \/ \E t \in Started(s) : b[1] = s.call[t].block /\ b[2] = "tool_use"
        BY <1>2 DEF Good, WellFormed, Tracked
      <3>5. \A b \in r.view.open :
               \/ r.thinkingOpen /\ b[1] = r.thinking /\ b[2] = "thinking"
               \/ r.textOpen /\ b[1] = r.text /\ b[2] = "text"
               \/ \E t \in Started(r) : b[1] = r.call[t].block /\ b[2] = "tool_use"
        BY <2>2, <2>3, <2>5, <3>4
      <3> QED
        BY <2>2, <2>3, <3>1, <3>2, <3>3, <3>5 DEF Tracked
    <2> QED
      BY <2>0, <2>2, <2>3, <2>4, <2>6, <2>7 DEF Good, WellFormed, Lawful, Later
  <1> QED
    BY <1>1, <1>2

-----------------------------------------------------------------------------
(* Deltas, and blocks begun and ended.                                     *)

\* A delta to an open block, of its kind.
LEMMA DeltaGood ==
  ASSUME NEW s, Good(s), NEW i, NEW k, <<i, k>> \in s.view.open
  PROVE  LET r == [s EXCEPT !.view = BlockDelta(s.view, i, k)] IN
         /\ Good(r) /\ Later(s.view, r.view)
         /\ r.call = s.call /\ r.view.started = s.view.started
  <1> DEFINE r == [s EXCEPT !.view = BlockDelta(s.view, i, k)]
  <1>1. /\ r.next = s.next /\ r.text = s.text /\ r.textOpen = s.textOpen
        /\ r.thinking = s.thinking /\ r.thinkingOpen = s.thinkingOpen
        /\ r.call = s.call /\ r.view = BlockDelta(s.view, i, k)
    BY DEF Good, Builder
  <1>2. /\ r.view \in View /\ Lawful(r.view, "open")
        /\ r.view.started = s.view.started /\ r.view.open = s.view.open
    BY <1>1, BlockDeltaView DEF Good, Builder, WellFormed
  <1>3. r \in Builder
    BY <1>1, <1>2 DEF Good, Builder
  <1> HIDE DEF r
  <1>4. s.view.phase = "open" /\ r.view.phase = "open" /\ ~r.view.fault
    BY <1>2 DEF Good, WellFormed, Lawful
  <1>5. Good(r) /\ Later(s.view, r.view)
    BY <1>1, <1>2, <1>3, <1>4, SameBlocks
  <1> QED
    BY <1>1, <1>2, <1>5 DEF r

\* ensure_text_block, and a delta of text.
LEMMA TextGood ==
  ASSUME NEW s, Good(s)
  PROVE  /\ Good(Text(s)) /\ Later(s.view, Text(s).view)
         /\ Text(s).call = s.call /\ Text(s).view.started # {}
  <1> DEFINE e == StartText(StopThinking(s))
  <1>1. Good(e) /\ Later(s.view, e.view) /\ e.textOpen /\ e.call = s.call
    BY StopThinkingGood, StartTextGood, LaterIsTransitive
  <1>2. Text(s) = [e EXCEPT !.view = BlockDelta(e.view, e.text, "text")]
    BY DEF Text
  <1> HIDE DEF e
  <1>3. <<e.text, "text">> \in e.view.open
    BY <1>1 DEF Good, WellFormed, Tracked
  <1>4. e.view.started # {}
    BY <1>1, <1>3 DEF Good, WellFormed, Numbered
  <1> QED
    BY <1>1, <1>2, <1>3, <1>4, DeltaGood, LaterIsTransitive

\* ensure_thinking_block, and a delta of thinking.
LEMMA ThinkingGood ==
  ASSUME NEW s, Good(s)
  PROVE  /\ Good(Thinking(s)) /\ Later(s.view, Thinking(s).view)
         /\ Thinking(s).call = s.call /\ Thinking(s).view.started # {}
  <1> DEFINE e == StartThinking(StopText(s))
  <1>1. Good(e) /\ Later(s.view, e.view) /\ e.thinkingOpen /\ e.call = s.call
    BY StopTextGood, StartThinkingGood, LaterIsTransitive
  <1>2. Thinking(s) = [e EXCEPT !.view = BlockDelta(e.view, e.thinking, "thinking")]
    BY DEF Thinking
  <1> HIDE DEF e
  <1>3. <<e.thinking, "thinking">> \in e.view.open
    BY <1>1 DEF Good, WellFormed, Tracked
  <1>4. e.view.started # {}
    BY <1>1, <1>3 DEF Good, WellFormed, Numbered
  <1> QED
    BY <1>1, <1>2, <1>3, <1>4, DeltaGood, LaterIsTransitive

\* A block begun, filled and ended at once leaves the others as they were.
LEMMA WholeBlockGood ==
  ASSUME NEW s, Good(s), NEW k \in Kinds
  PROVE  LET r == WholeBlock(s, k) IN
         /\ Good(r) /\ Later(s.view, r.view)
         /\ r.call = s.call /\ r.view.started # {} /\ r.view.open = s.view.open
  <1> DEFINE r == WholeBlock(s, k)
             v1 == BlockStart(s.view, s.next, k)
             v2 == BlockDelta(v1, s.next, k)
             v3 == BlockStop(v2, s.next)
  <1>0. /\ s.next \in Nat /\ s.next \notin s.view.started
        /\ \A b \in s.view.open : b[1] # s.next
    BY NextIsFresh
  <1>1. /\ v1 \in View /\ Lawful(v1, "open") /\ v1.started = s.view.started \cup {s.next}
        /\ v1.open = s.view.open \cup {<<s.next, k>>}
    BY <1>0, BlockStartView DEF Good, Builder, WellFormed
  <1> HIDE DEF v1
  <1>2. /\ v2 \in View /\ Lawful(v2, "open") /\ v2.started = v1.started /\ v2.open = v1.open
    BY <1>1, BlockDeltaView
  <1> HIDE DEF v2
  <1>3. /\ v3 \in View /\ Lawful(v3, "open") /\ v3.started = s.view.started \cup {s.next}
        /\ v3.open = {b \in s.view.open \cup {<<s.next, k>>} : b[1] # s.next}
    <2>1. <<s.next, k>> \in v2.open
      BY <1>1, <1>2
    <2>2. /\ v3 \in View /\ Lawful(v3, "open") /\ v3.started = v2.started
          /\ v3.open = {b \in v2.open : b[1] # s.next}
      BY <1>2, <2>1, BlockStopView
    <2> QED
      BY <1>1, <1>2, <2>2
  <1> HIDE DEF v3
  <1>4. v3.open = s.view.open
    BY <1>0, <1>3
  <1>5. r = [s EXCEPT !.next = s.next + 1, !.view = v3]
    BY DEF WholeBlock, v1, v2, v3
  <1>6. /\ r.next = s.next + 1 /\ r.text = s.text /\ r.textOpen = s.textOpen
        /\ r.thinking = s.thinking /\ r.thinkingOpen = s.thinkingOpen
        /\ r.call = s.call /\ r.view = v3
    BY <1>5 DEF Good, Builder
  <1>7. r \in Builder
    <2>1. s.next + 1 \in Nat
      BY <1>0
    <2> QED
      BY <1>3, <1>5, <2>1 DEF Good, Builder
  <1> HIDE DEF r
  <1>8. Numbered(r)
    <2>1. \A i \in r.view.started : i < r.next
      BY <1>0, <1>3, <1>6 DEF Good, WellFormed, Numbered, Builder, View
    <2> QED
      BY <1>3, <1>4, <1>6, <2>1 DEF Good, WellFormed, Numbered
  <1>9. Tracked(r)
    BY <1>4, <1>6 DEF Good, WellFormed, Tracked, Started
  <1> QED
    BY <1>3, <1>4, <1>6, <1>7, <1>8, <1>9 DEF Good, WellFormed, Later, r

LEMMA HeuristicToolGood ==
  ASSUME NEW s, Good(s)
  PROVE  LET r == HeuristicTool(s) IN
         /\ Good(r) /\ Later(s.view, r.view) /\ r.call = s.call /\ r.view.started # {}
  BY CloseContentGood, WholeBlockGood, LaterIsTransitive DEF HeuristicTool, Kinds

\* The block of a tool call that has none.
LEMMA StartToolGood ==
  ASSUME NEW s, Good(s), NEW t \in Calls, s.call[t].block = NoBlock
  PROVE  LET r == StartTool(s, t) IN
         /\ Good(r) /\ Later(s.view, r.view) /\ t \in Started(r)
         /\ r.call = [s.call EXCEPT ![t] = [s.call[t] EXCEPT !.block = s.next]]
  <1> DEFINE r == StartTool(s, t)
             c == [s.call[t] EXCEPT !.block = s.next]
             v == BlockStart(s.view, s.next, "tool_use")
  <1>0. /\ s.next \in Nat /\ s.next # NoBlock /\ s.next \notin s.view.started
        /\ \A b \in s.view.open : b[1] # s.next
    BY NextIsFresh
  <1>1. c \in ToolCallState /\ c.block = s.next
    BY <1>0 DEF Good, Builder, ToolCallState
  <1>2. /\ v \in View /\ Lawful(v, "open") /\ v.started = s.view.started \cup {s.next}
        /\ v.open = s.view.open \cup {<<s.next, "tool_use">>}
    BY <1>0, BlockStartView DEF Good, Builder, WellFormed, Kinds
  <1>3. r = [s EXCEPT !.next = s.next + 1, !.call = [s.call EXCEPT ![t] = c], !.view = v]
    BY DEF StartTool
  <1>4. [s.call EXCEPT ![t] = c] \in [Calls -> ToolCallState]
    BY <1>1 DEF Good, Builder
  <1> HIDE DEF v, c
  <1>5. /\ r.next = s.next + 1 /\ r.text = s.text /\ r.textOpen = s.textOpen
        /\ r.thinking = s.thinking /\ r.thinkingOpen = s.thinkingOpen
        /\ r.call = [s.call EXCEPT ![t] = c] /\ r.view = v
    BY <1>3 DEF Good, Builder
  <1>6. r \in Builder
    <2>1. s.next + 1 \in Nat
      BY <1>0
    <2> QED
      BY <1>2, <1>3, <1>4, <2>1 DEF Good, Builder
  <1> HIDE DEF r
  <1>7. /\ r.call[t] = c /\ r.call[t].block = s.next
        /\ \A u \in Calls \ {t} : r.call[u] = s.call[u]
    BY <1>1, <1>5 DEF Good, Builder
  <1>8. Started(r) = Started(s) \cup {t} /\ t \notin Started(s)
    BY <1>0, <1>7 DEF Started
  <1>9. Numbered(r)
    <2>1. \A i \in r.view.started : i < r.next
      BY <1>0, <1>2, <1>5 DEF Good, WellFormed, Numbered, Builder, View
    <2>2. {r.text, r.thinking} \subseteq r.view.started \cup {NoBlock}
      BY <1>2, <1>5 DEF Good, WellFormed, Numbered
    <2>3. \A b \in r.view.open : b[1] \in r.view.started
      BY <1>2, <1>5 DEF Good, WellFormed, Numbered
    <2>4. \A b, d \in r.view.open : b[1] = d[1] => b[2] = d[2]
      BY <1>0, <1>2, <1>5 DEF Good, WellFormed, Numbered
    <2> QED
      BY <2>1, <2>2, <2>3, <2>4 DEF Numbered
  <1>10. Tracked(r)
    <2>1. \A u \in Started(s) : r.call[u].block = s.call[u].block
      BY <1>7, <1>8 DEF Started
    <2>2. \A u \in Started(r) : <<r.call[u].block, "tool_use">> \in r.view.open
      BY <1>2, <1>5, <1>7, <1>8, <2>1 DEF Good, WellFormed, Tracked
    <2>3. \A u \in Started(s) : s.call[u].block # s.next
      BY <1>0 DEF Good, WellFormed, Tracked
    <2>4. \A u, w \in Started(r) : r.call[u].block = r.call[w].block => u = w
      BY <1>7, <1>8, <2>1, <2>3 DEF Good, WellFormed, Tracked
    <2>5. \A b \in r.view.open :
             \/ r.textOpen /\ b[1] = r.text /\ b[2] = "text"
             \/ r.thinkingOpen /\ b[1] = r.thinking /\ b[2] = "thinking"
             \/ \E u \in Started(r) : b[1] = r.call[u].block /\ b[2] = "tool_use"
      BY <1>2, <1>5, <1>7, <1>8, <2>1 DEF Good, WellFormed, Tracked
    <2> QED
      BY <1>2, <1>5, <2>2, <2>4, <2>5 DEF Good, WellFormed, Tracked
  <1> QED
    BY <1>2, <1>5, <1>6, <1>7, <1>8, <1>9, <1>10, <1>0 DEF Good, WellFormed, Later, c, r

-----------------------------------------------------------------------------
(* The tool-call assembler.                                                *)

\* Calls may change in all but their blocks, and deltas be sent meanwhile.
LEMMA CallsGood ==
  ASSUME NEW s, Good(s), NEW f \in [Calls -> ToolCallState],
         \A t \in Calls : f[t].block = s.call[t].block,
         NEW w \in View, Lawful(w, "open"),
         w.started = s.view.started, w.open = s.view.open
  PROVE  LET r == [s EXCEPT !.call = f, !.view = w] IN
         /\ Good(r) /\ Later(s.view, r.view) /\ Started(r) = Started(s)
         /\ r.call = f /\ r.view = w
  <1> DEFINE r == [s EXCEPT !.call = f, !.view = w]
  <1>1. /\ r.next = s.next /\ r.text = s.text /\ r.textOpen = s.textOpen
        /\ r.thinking = s.thinking /\ r.thinkingOpen = s.thinkingOpen
        /\ r.call = f /\ r.view = w /\ r \in Builder
    BY DEF Good, Builder
  <1> HIDE DEF r
  <1>2. s.view.phase = w.phase /\ ~w.fault
    BY DEF Good, WellFormed, Lawful
  <1>3. Good(r) /\ Later(s.view, r.view) /\ Started(r) = Started(s)
    BY <1>1, <1>2, SameBlocks
  <1> QED
    BY <1>1, <1>3 DEF r

LEMMA OneCallGood ==
  ASSUME NEW s, Good(s), NEW t \in Calls,
         NEW c \in ToolCallState, c.block = s.call[t].block
  PROVE  LET r == [s EXCEPT !.call[t] = c] IN
         /\ Good(r) /\ Later(s.view, r.view) /\ Started(r) = Started(s)
         /\ r.call = [s.call EXCEPT ![t] = c] /\ r.view = s.view
  <1> DEFINE f == [s.call EXCEPT ![t] = c]
             r == [s EXCEPT !.call = f]
  <1>1. /\ f \in [Calls -> ToolCallState] /\ f[t] = c
        /\ \A u \in Calls : f[u].block = s.call[u].block
    BY DEF Good, Builder
  <1> HIDE DEF f
  <1>2. /\ r.next = s.next /\ r.text = s.text /\ r.textOpen = s.textOpen
        /\ r.thinking = s.thinking /\ r.thinkingOpen = s.thinkingOpen
        /\ r.call = f /\ r.view = s.view /\ r \in Builder
    BY <1>1 DEF Good, Builder
  <1>3. r = [s EXCEPT !.call[t] = c]
    BY DEF f
  <1> HIDE DEF r
  <1>4. ~s.view.fault
    BY DEF Good, WellFormed, Lawful
  <1>5. Good(r) /\ Later(s.view, r.view) /\ Started(r) = Started(s)
    BY <1>1, <1>2, <1>4, SameBlocks
  <1> QED
    BY <1>1, <1>2, <1>3, <1>5 DEF f

LEMMA NamedGood ==
  ASSUME NEW s, Good(s), NEW t \in Calls, NEW n \in {"none", "part", "whole"}
  PROVE  LET r == [s EXCEPT !.call[t].name = n] IN
         /\ Good(r) /\ Later(s.view, r.view) /\ Started(r) = Started(s)
         /\ r.call = [s.call EXCEPT ![t] = [s.call[t] EXCEPT !.name = n]] /\ r.view = s.view
  <1> DEFINE c == [s.call[t] EXCEPT !.name = n]
  <1>1. c \in ToolCallState /\ c.block = s.call[t].block
    BY DEF Good, Builder, ToolCallState
  <1>2. [s EXCEPT !.call[t].name = n] = [s EXCEPT !.call[t] = c]
    OBVIOUS
  <1> HIDE DEF c
  <1> QED
    BY <1>1, <1>2, OneCallGood DEF c

LEMMA EarlyGood ==
  ASSUME NEW s, Good(s), NEW t \in Calls, NEW j \in Json
  PROVE  LET r == [s EXCEPT !.call[t].early = j] IN
         /\ Good(r) /\ Later(s.view, r.view) /\ Started(r) = Started(s)
         /\ SameNames(s, r) /\ r.view = s.view
  <1> DEFINE c == [s.call[t] EXCEPT !.early = j]
  <1>1. c \in ToolCallState /\ c.block = s.call[t].block /\ c.name = s.call[t].name
    BY DEF Good, Builder, ToolCallState
  <1>2. [s EXCEPT !.call[t].early = j] = [s EXCEPT !.call[t] = c]
    OBVIOUS
  <1> HIDE DEF c
  <1> QED
    BY <1>1, <1>2, OneCallGood DEF SameNames, Good, Builder

LEMMA HeldGood ==
  ASSUME NEW s, Good(s), NEW t \in Calls, NEW h \in {"none", "part", "broken"}
  PROVE  LET r == [s EXCEPT !.call[t].held = h] IN
         /\ Good(r) /\ Later(s.view, r.view) /\ Started(r) = Started(s)
         /\ SameNames(s, r)
  <1> DEFINE c == [s.call[t] EXCEPT !.held = h]
  <1>1. c \in ToolCallState /\ c.block = s.call[t].block /\ c.name = s.call[t].name
    BY DEF Good, Builder, ToolCallState
  <1>2. [s EXCEPT !.call[t].held = h] = [s EXCEPT !.call[t] = c]
    OBVIOUS
  <1> HIDE DEF c
  <1> QED
    BY <1>1, <1>2, OneCallGood DEF SameNames, Good, Builder

LEMMA EmitJsonGood ==
  ASSUME NEW s, Good(s), NEW t \in Started(s), NEW j \in Json
  PROVE  LET r == EmitJson(s, t, j) IN
         /\ Good(r) /\ Later(s.view, r.view) /\ Started(r) = Started(s)
         /\ SameNames(s, r)
  <1> DEFINE c == [s.call[t] EXCEPT !.json = j, !.held = "none"]
             f == [s.call EXCEPT ![t] = c]
             w == BlockDelta(s.view, s.call[t].block, "tool_use")
  <1>0. t \in Calls /\ <<s.call[t].block, "tool_use">> \in s.view.open
    BY DEF Good, WellFormed, Tracked, Started
  <1>1. c \in ToolCallState /\ c.block = s.call[t].block /\ c.name = s.call[t].name
    BY <1>0 DEF Good, Builder, ToolCallState
  <1>2. /\ w \in View /\ Lawful(w, "open")
        /\ w.started = s.view.started /\ w.open = s.view.open
    BY <1>0, BlockDeltaView DEF Good, Builder, WellFormed
  <1>3. EmitJson(s, t, j) = [s EXCEPT !.call = f, !.view = w]
    BY <1>0 DEF EmitJson, Good, Builder
  <1> HIDE DEF c, w
  <1>4. /\ f \in [Calls -> ToolCallState]
        /\ \A u \in Calls : f[u].block = s.call[u].block /\ f[u].name = s.call[u].name
    BY <1>0, <1>1 DEF Good, Builder
  <1> HIDE DEF f
  <1> DEFINE r == [s EXCEPT !.call = f, !.view = w]
  <1>5. Good(r) /\ Later(s.view, r.view) /\ Started(r) = Started(s)
    BY <1>2, <1>4, CallsGood
  <1>6. r.call = f
    BY DEF Good, Builder
  <1> QED
    BY <1>3, <1>4, <1>5, <1>6 DEF SameNames

\* Whatever a piece of a begun call's arguments causes.
LEMMA AssembledGood ==
  ASSUME NEW s, Good(s), NEW t \in Started(s), NEW A \in SUBSET Json,
         NEW r \in Emitted(s, t, A) \cup Withheld(s, t, A)
  PROVE  Good(r) /\ Later(s.view, r.view) /\ SameNames(s, r)
  <1>1. CASE r \in Emitted(s, t, A)
    <2>1. \E j \in Json : r = EmitJson(s, t, j)
      BY <1>1 DEF Emitted
    <2> QED
      BY <2>1, EmitJsonGood
  <1>2. CASE r \in Withheld(s, t, A)
    <2>1. r = s \/ \E h \in {"part", "broken"} : r = [s EXCEPT !.call[t].held = h]
      BY <1>2 DEF Withheld
    <2>2. t \in Calls
      BY DEF Started
    <2>3. CASE r = s
      BY <2>3, LaterIsReflexive DEF SameNames
    <2>4. CASE r # s
      <3>1. PICK h \in {"part", "broken"} : r = [s EXCEPT !.call[t].held = h]
        BY <2>1, <2>4
      <3> QED
        BY <2>2, <3>1, HeldGood
    <2> QED
      BY <2>3, <2>4
  <1> QED
    BY <1>1, <1>2

\* The blocks of begun calls take deltas of input.
LEMMA CallDeltasView ==
  ASSUME NEW s, Good(s), NEW T \in SUBSET Started(s)
  PROVE  LET w == BlockDeltas(s.view, {s.call[t].block : t \in T}, "tool_use") IN
         /\ w \in View /\ Lawful(w, "open")
         /\ w.started = s.view.started /\ w.open = s.view.open
  <1>1. \A i \in {s.call[t].block : t \in T} : <<i, "tool_use">> \in s.view.open
    BY DEF Good, WellFormed, Tracked
  <1>2. s.view \in View /\ Lawful(s.view, "open")
    BY DEF Good, Builder, WellFormed
  <1> QED
    BY <1>1, <1>2, BlockDeltasView

LEMMA FlushHeldGood ==
  ASSUME NEW s, Good(s), NEW e \in {"whole", "broken"}
  PROVE  LET r == FlushHeld(s, e) IN
         /\ Good(r) /\ Later(s.view, r.view) /\ Started(r) = Started(s)
         /\ \A t \in Started(r) : r.call[t].held = "none"
  <1> DEFINE H == {t \in Started(s) : s.call[t].held # "none"}
             f == [t \in Calls |->
                      IF t \notin H THEN s.call[t]
                      ELSE [s.call[t] EXCEPT
                               !.held = "none",
                               !.json = IF t \in TaskCalls THEN e ELSE s.call[t].held]]
             w == BlockDeltas(s.view, {s.call[t].block : t \in H}, "tool_use")
  <1>1. FlushHeld(s, e) = [s EXCEPT !.call = f, !.view = w]
    BY DEF FlushHeld
  <1>2. H \subseteq Started(s)
    OBVIOUS
  <1>3. /\ w \in View /\ Lawful(w, "open")
        /\ w.started = s.view.started /\ w.open = s.view.open
    BY <1>2, CallDeltasView
  <1> HIDE DEF w
  <1>4. ASSUME NEW t \in Calls
        PROVE  /\ f[t] \in ToolCallState /\ f[t].block = s.call[t].block
               /\ t \in Started(s) => f[t].held = "none"
    BY DEF Good, Builder, ToolCallState, Json
  <1>5. /\ f \in [Calls -> ToolCallState]
        /\ \A t \in Calls : f[t].block = s.call[t].block
    BY <1>4
  <1> HIDE DEF f
  <1> DEFINE r == [s EXCEPT !.call = f, !.view = w]
  <1>6. Good(r) /\ Later(s.view, r.view) /\ Started(r) = Started(s)
    BY <1>3, <1>5, CallsGood
  <1>7. r.call = f
    BY DEF Good, Builder
  <1> HIDE DEF r
  <1>8. \A t \in Started(r) : r.call[t].held = "none"
    BY <1>4, <1>6, <1>7 DEF Started
  <1> QED
    BY <1>1, <1>6, <1>8 DEF r

LEMMA RepairGood ==
  ASSUME NEW s, Good(s)
  PROVE  LET r == Repair(s) IN
         /\ Good(r) /\ Later(s.view, r.view) /\ Started(r) = Started(s)
         /\ \A t \in Started(r) : r.call[t].json = "whole"
  <1> DEFINE f == [t \in Calls |-> IF t \in Incomplete(s)
                                   THEN [s.call[t] EXCEPT !.json = "whole"] ELSE s.call[t]]
             w == BlockDeltas(s.view, {s.call[t].block : t \in Incomplete(s)}, "tool_use")
  <1>1. Repair(s) = [s EXCEPT !.call = f, !.view = w]
    BY DEF Repair
  <1>2. Incomplete(s) \subseteq Started(s)
    BY DEF Incomplete
  <1>3. /\ w \in View /\ Lawful(w, "open")
        /\ w.started = s.view.started /\ w.open = s.view.open
    BY <1>2, CallDeltasView
  <1> HIDE DEF w
  <1>4. ASSUME NEW t \in Calls
        PROVE  /\ f[t] \in ToolCallState /\ f[t].block = s.call[t].block
               /\ t \in Started(s) => f[t].json = "whole"
    BY DEF Good, Builder, ToolCallState, Json, Incomplete
  <1>5. /\ f \in [Calls -> ToolCallState]
        /\ \A t \in Calls : f[t].block = s.call[t].block
    BY <1>4
  <1> HIDE DEF f
  <1> DEFINE r == [s EXCEPT !.call = f, !.view = w]
  <1>6. Good(r) /\ Later(s.view, r.view) /\ Started(r) = Started(s)
    BY <1>3, <1>5, CallsGood
  <1>7. r.call = f
    BY DEF Good, Builder
  <1> HIDE DEF r
  <1>8. \A t \in Started(r) : r.call[t].json = "whole"
    BY <1>4, <1>6, <1>7 DEF Started
  <1> QED
    BY <1>1, <1>6, <1>8 DEF r

-----------------------------------------------------------------------------
(* The end of the message.                                                 *)

\* All that was begun is closed: what is open belongs to the text, to the
\* thinking or to a call.
LEMMA CloseAllView ==
  ASSUME NEW s, Good(s)
  PROVE  LET r == CloseAllBlocks(s) IN
         /\ r \in Builder /\ Lawful(r.view, "open") /\ r.view.open = {}
         /\ r.view.started = s.view.started /\ r.call = s.call
         /\ Started(s) = {} => Good(r)
  <1> DEFINE c == CloseContentBlocks(s)
             B == {c.call[t].block : t \in Started(c)}
             w == BlockStops(c.view, B)
             r == [c EXCEPT !.view = w]
  <1>1. /\ Good(c) /\ ~c.textOpen /\ ~c.thinkingOpen /\ c.call = s.call
        /\ c.view.started = s.view.started
    BY CloseContentGood
  <1>2. CloseAllBlocks(s) = r
    BY DEF CloseAllBlocks
  <1> HIDE DEF c
  <1>3. \A i \in B : <<i, "tool_use">> \in c.view.open
    BY <1>1 DEF Good, WellFormed, Tracked
  <1>4. \A b \in c.view.open : b[1] \in B
    BY <1>1 DEF Good, WellFormed, Tracked
  <1> HIDE DEF B
  <1>5. \A i \in B : \E k \in Kinds : <<i, k>> \in c.view.open
    BY <1>3 DEF Kinds
  <1>6. /\ w \in View /\ Lawful(w, "open") /\ w.started = c.view.started
        /\ w.open = {b \in c.view.open : b[1] \notin B}
    BY <1>1, <1>5, BlockStopsView DEF Good, Builder, WellFormed
  <1> HIDE DEF w
  <1>7. w.open = {}
    BY <1>4, <1>6
  <1>8. /\ r \in Builder /\ r.view = w /\ r.call = c.call /\ r.next = c.next
        /\ r.text = c.text /\ r.thinking = c.thinking
        /\ r.textOpen = c.textOpen /\ r.thinkingOpen = c.thinkingOpen
    BY <1>1, <1>6 DEF Good, Builder
  <1> HIDE DEF r
  <1>9. Numbered(r)
    BY <1>1, <1>6, <1>7, <1>8 DEF Good, WellFormed, Numbered
  <1>10. Started(s) = {} => Tracked(r)
    BY <1>1, <1>6, <1>7, <1>8 DEF Tracked, Started
  <1> QED
    BY <1>1, <1>2, <1>6, <1>7, <1>8, <1>9, <1>10 DEF Good, WellFormed

LEMMA EndMessageDone ==
  ASSUME NEW r \in Builder, Lawful(r.view, "open"), r.view.open = {}, r.view.started # {}
  PROVE  LET d == EndMessage(r) IN
         Done(d) /\ d.call = r.call /\ d.view.started = r.view.started
  <1> DEFINE w == MessageStop(MessageDelta(r.view))
             d == [r EXCEPT !.view = w]
  <1>1. /\ MessageDelta(r.view).started = r.view.started
        /\ MessageDelta(r.view).open = r.view.open
        /\ MessageDelta(r.view).phase = "open" /\ ~MessageDelta(r.view).fault
        /\ MessageDelta(r.view) \in View
    BY DEF MessageDelta, View, Builder, Lawful
  <1>2. /\ w \in View /\ w.started = r.view.started /\ w.open = r.view.open
        /\ Lawful(w, "ended")
    BY <1>1 DEF MessageStop, View, Lawful
  <1>3. EndMessage(r) = d
    BY DEF EndMessage
  <1> HIDE DEF w
  <1> QED
    BY <1>2, <1>3 DEF Done, Builder

LEMMA ClosedMessage ==
  ASSUME NEW s, Good(s), s.view.started # {}
  PROVE  LET d == EndMessage(CloseAllBlocks(s)) IN
         Done(d) /\ Later(s.view, d.view) /\ d.call = s.call
  <1> DEFINE r == CloseAllBlocks(s)
             d == EndMessage(r)
  <1>1. /\ r \in Builder /\ Lawful(r.view, "open") /\ r.view.open = {}
        /\ r.view.started = s.view.started /\ r.call = s.call
    BY CloseAllView
  <1> HIDE DEF r
  <1>2. Done(d) /\ d.call = r.call /\ d.view.started = r.view.started
    BY <1>1, EndMessageDone
  <1> HIDE DEF d
  <1>3. Later(s.view, d.view)
    BY <1>1, <1>2 DEF Done, Later
  <1> QED
    BY <1>1, <1>2, <1>3 DEF d, r

\* A begun block of a call counts as a block that the client has seen.
LEMMA StartedSeen ==
  ASSUME NEW s, Good(s), Started(s) # {}
  PROVE  s.view.started # {}
  BY DEF Good, WellFormed, Tracked, Numbered

LEMMA ErrorTailDone ==
  ASSUME NEW s, Good(s)
  PROVE  Done(ErrorTail(s)) /\ Later(s.view, ErrorTail(s).view)
  <1> DEFINE c == CloseAllBlocks(s)
  <1>1. /\ c \in Builder /\ Lawful(c.view, "open") /\ c.view.open = {}
        /\ c.view.started = s.view.started /\ c.call = s.call
        /\ Started(s) = {} => Good(c)
    BY CloseAllView
  <1>2. ErrorTail(s) = EndMessage(IF Started(c) # {} THEN c ELSE WholeBlock(c, "text"))
    BY DEF ErrorTail
  <1> HIDE DEF c
  <1>3. Started(c) = Started(s)
    BY <1>1 DEF Started
  <1>4. CASE Started(c) # {}
    <2>1. c.view.started # {}
      BY <1>1, <1>3, <1>4, StartedSeen
    <2>2. Done(EndMessage(c)) /\ EndMessage(c).view.started = c.view.started
      BY <1>1, <2>1, EndMessageDone
    <2>3. ErrorTail(s) = EndMessage(c)
      BY <1>2, <1>4
    <2> QED
      BY <1>1, <2>2, <2>3 DEF Done, Later
  <1>5. CASE Started(c) = {}
    <2> DEFINE b == WholeBlock(c, "text")
    <2>1. /\ Good(b) /\ Later(c.view, b.view)
          /\ b.view.started # {} /\ b.view.open = {}
      BY <1>1, <1>3, <1>5, WholeBlockGood DEF Kinds
    <2>2. ErrorTail(s) = EndMessage(b)
      BY <1>2, <1>5
    <2> HIDE DEF b
    <2>3. Done(EndMessage(b)) /\ EndMessage(b).view.started = b.view.started
      BY <2>1, EndMessageDone DEF Good, WellFormed
    <2> QED
      BY <1>1, <2>1, <2>2, <2>3 DEF Done, Later
  <1> QED
    BY <1>4, <1>5

\* A builder that starts afresh for a client that has seen message_start.
LEMMA NewBuilderGood ==
  LET s == NewBuilder(MessageStart(NewView)) IN
  /\ Good(s) /\ s.view = MessageStart(NewView) /\ ~HasOutput(s)
  /\ s.view.started = {} /\ s.view.open = {}
  <1> DEFINE v == MessageStart(NewView)
             s == NewBuilder(v)
  <1>1. v \in View /\ Lawful(v, "open") /\ v.started = {} /\ v.open = {}
    BY DEF MessageStart, NewView, View, Lawful
  <1> HIDE DEF v
  <1>2. NewCall \in ToolCallState /\ NewCall.block = NoBlock
    BY DEF NewCall, ToolCallState, Json
  <1>3. s \in Builder
    BY <1>1, <1>2 DEF NewBuilder, Builder
  <1>4. /\ s.view = v /\ s.text = NoBlock /\ s.thinking = NoBlock
        /\ ~s.textOpen /\ ~s.thinkingOpen /\ \A t \in Calls : s.call[t] = NewCall
    BY DEF NewBuilder
  <1> HIDE DEF s
  <1>5. Started(s) = {}
    BY <1>2, <1>4 DEF Started
  <1>6. Numbered(s) /\ Tracked(s) /\ ~HasOutput(s)
    BY <1>1, <1>4, <1>5 DEF Numbered, Tracked, HasOutput
  <1> QED
    BY <1>1, <1>3, <1>4, <1>6 DEF Good, WellFormed, s, v

LEMMA LaterThanStart ==
  ASSUME NEW s \in Builder, Numbered(s)
  PROVE  Later(MessageStart(NewView), s.view)
  <1>1. MessageStart(NewView).started = {}
    BY DEF MessageStart, NewView
  <1> QED
    BY <1>1 DEF Later, Numbered

LEMMA OutputSeen ==
  ASSUME NEW s, Good(s), HasOutput(s)
  PROVE  s.view.started # {}
  BY StartedSeen DEF HasOutput, Good, WellFormed, Numbered

-----------------------------------------------------------------------------
(* Steps.                                                                  *)

\* A step of the message that the client sees.
Sees == [Message!Next]_(Message!vars)

Step == Inv' /\ Sees /\ (retries' # retries => client' = MessageStart(NewView))

\* While the stream is active the client is behind the builder or level with it.
LEMMA ClientBehind ==
  ASSUME Inv, phase \in Active
  PROVE  /\ Good(sse) /\ Named(sse) /\ Lawful(client, "open") /\ client \in View
         /\ MessagePhase = "open"
         /\ committed => client = sse.view
         /\ ~committed => client = MessageStart(NewView)
         /\ \A s \in Builder : Numbered(s) /\ Later(sse.view, s.view) => Later(client, s.view)
         /\ \A d : Done(d) /\ Later(sse.view, d.view) => Later(client, d.view)
  <1>1. /\ Good(sse) /\ Named(sse) /\ client \in View
        /\ committed => client = sse.view
        /\ ~committed => client = MessageStart(NewView)
    BY DEF Inv, Good, TypeOK
  <1>2. Lawful(client, "open")
    BY <1>1, NewBuilderGood DEF Good, WellFormed
  <1>3. MessagePhase = "open"
    BY <1>2 DEF MessagePhase, Lawful, Active
  <1>4. ASSUME NEW s \in Builder, Numbered(s), Later(sse.view, s.view)
        PROVE  Later(client, s.view)
    BY <1>1, <1>4, LaterThanStart
  <1>5. ASSUME NEW d, Done(d), Later(sse.view, d.view)
        PROVE  Later(client, d.view)
    BY <1>1, <1>5, NewBuilderGood DEF Done, Later
  <1> QED
    BY <1>1, <1>2, <1>3, <1>4, <1>5

LEMMA ChunkStep ==
  ASSUME Inv, NEW s, Good(s), Named(s), Later(sse.view, s.view), Chunk(s)
  PROVE  Step
  <1>1. /\ phase = "streaming" /\ phase' = "streaming" /\ sse' = s
        /\ retries' = retries /\ finish' = finish
        /\ \/ committed' = TRUE /\ client' = s.view
           \/ committed = FALSE /\ committed' = FALSE /\ client' = client
    BY DEF Chunk, Push, Inv, TypeOK
  <1>2. /\ Later(client, s.view) /\ MessagePhase = "open"
        /\ ~committed => client = MessageStart(NewView)
        /\ client \in View /\ Lawful(client, "open")
    BY <1>1, ClientBehind DEF Good, WellFormed, Active
  <1>3. Lawful(s.view, "open") /\ s.view \in View /\ s \in Builder
    BY DEF Good, WellFormed, Builder
  <1>4. MessagePhase' = "open"
    BY <1>1, <1>2, <1>3 DEF MessagePhase, Lawful
  <1>5. Sees
    <2>1. CASE client' = client
      BY <1>2, <1>4, <2>1 DEF Sees, Message!vars
    <2>2. CASE client' = s.view
      BY <1>2, <1>4, <2>2 DEF Sees, Message!Next, Message!Extend, Message!Grows, Later
    <2> QED
      BY <1>1, <2>1, <2>2
  <1>6. TypeOK'
    BY <1>1, <1>2, <1>3 DEF Inv, TypeOK, Active
  <1>7. Inv'
    BY <1>1, <1>2, <1>6 DEF Inv, Good, Active, Ended
  <1> QED
    BY <1>1, <1>5, <1>7 DEF Step

\* The builder changes, its view does not.
LEMMA QuietStep ==
  ASSUME Inv, NEW s, Good(s), Named(s), s.view = sse.view, phase = "streaming",
         sse' = s, UNCHANGED <<phase, client, committed, retries, finish>>
  PROVE  Step
  <1>1. TypeOK'
    BY DEF Inv, TypeOK, Good
  <1>2. Inv'
    BY <1>1 DEF Inv, Good, Active, Ended
  <1>3. Sees
    BY DEF Sees, Message!vars, MessagePhase
  <1> QED
    BY <1>2, <1>3 DEF Step

LEMMA BufferStep ==
  ASSUME Inv, NEW s, Good(s), Named(s), Later(sse.view, s.view), Buffer(s)
  PROVE  Step
  BY ChunkStep, QuietStep DEF Buffer

LEMMA FinishStep ==
  ASSUME Inv, phase \in Active, NEW d, Done(d), Later(client, d.view),
         NEW how \in Ended \ {"gone"}, Finish(d, how)
  PROVE  Step
  <1>1. /\ phase' = how /\ sse' = d /\ client' = d.view /\ committed' = TRUE
        /\ retries' = retries /\ finish' = finish
    BY DEF Finish
  <1>2. MessagePhase = "open"
    BY ClientBehind
  <1>3. /\ d \in Builder /\ d.view \in View /\ Lawful(d.view, "ended")
        /\ d.view.open = {} /\ d.view.started # {}
    BY DEF Done, Builder
  <1>4. MessagePhase' = "ended"
    BY <1>1, <1>3 DEF MessagePhase, Lawful
  <1>5. Sees
    BY <1>1, <1>2, <1>3, <1>4 DEF Sees, Message!Next, Message!End, Message!Grows, Later
  <1>6. TypeOK'
    BY <1>1, <1>3 DEF Inv, TypeOK
  <1>7. Inv'
    BY <1>1, <1>3, <1>6 DEF Inv, Active, Ended
  <1> QED
    BY <1>1, <1>5, <1>7 DEF Step

LEMMA FinalErrorStep ==
  ASSUME Inv, phase \in Active, NEW s, Good(s), Later(sse.view, s.view), FinalError(s)
  PROVE  Step
  <1> DEFINE r == IF committed \/ s.view # client THEN s ELSE NewBuilder(client)
  <1>1. Good(r) /\ Later(client, r.view)
    <2>1. CASE r = s
      BY <2>1, ClientBehind DEF Good, WellFormed
    <2>2. CASE r # s
      BY <2>2, ClientBehind, NewBuilderGood, LaterIsReflexive
    <2> QED
      BY <2>1, <2>2
  <1>2. Finish(ErrorTail(r), "failed")
    BY DEF FinalError
  <1> HIDE DEF r
  <1>3. Done(ErrorTail(r)) /\ Later(client, ErrorTail(r).view)
    BY <1>1, ErrorTailDone, LaterIsTransitive
  <1>4. "failed" \in Ended \ {"gone"}
    BY DEF Ended
  <1> QED
    BY <1>2, <1>3, <1>4, FinishStep

LEMMA RetryStep ==
  ASSUME Inv, phase = "streaming", NEW s, MayRetryEarly(s), RetryEarly
  PROVE  Step
  <1>1. /\ phase' = "opening" /\ sse' = NewBuilder(client) /\ retries' = retries + 1
        /\ finish' = FALSE /\ client' = client /\ committed' = committed
        /\ committed = FALSE /\ retries < EarlyRetries /\ retries \in 0..EarlyRetries
    BY DEF RetryEarly, MayRetryEarly, Inv, TypeOK
  <1>2. client = MessageStart(NewView) /\ client \in View /\ MessagePhase = "open"
    BY <1>1, ClientBehind DEF Active
  <1>3. Good(sse') /\ sse'.view = client /\ Named(sse')
    BY <1>1, <1>2, NewBuilderGood DEF Named, NewBuilder, NewCall
  <1>4. retries' \in 0..EarlyRetries
    BY <1>1, StreamAssumption
  <1>5. TypeOK'
    BY <1>1, <1>2, <1>3, <1>4 DEF TypeOK, Good, Active
  <1>6. Inv'
    BY <1>1, <1>2, <1>3, <1>5 DEF Inv, Good, Active, Ended
  <1>7. Sees
    BY <1>1 DEF Sees, Message!vars, MessagePhase
  <1> QED
    BY <1>1, <1>2, <1>6, <1>7 DEF Step

LEMMA FailStep ==
  ASSUME Inv, phase = "streaming", NEW s, Good(s), Later(sse.view, s.view),
         NEW retryable \in BOOLEAN, retryable = TRUE => s = sse, Fail(s, retryable)
  PROVE  Step
  <1>0. phase \in Active
    BY DEF Active
  <1>1. CASE MayRetryEarly(s) /\ RetryEarly
    BY <1>1, RetryStep
  <1>2. CASE FinalError(s)
    BY <1>0, <1>2, FinalErrorStep
  <1>3. CASE /\ retryable = TRUE /\ HasOutput(s) /\ phase' = "recovering" /\ sse' = s
             /\ UNCHANGED <<client, committed, retries, finish>>
    <2>1. sse' = sse
      BY <1>3
    <2>2. TypeOK'
      BY <1>3, <2>1 DEF Inv, TypeOK, Active
    <2>3. Inv'
      BY <1>3, <2>1, <2>2 DEF Inv, Active, Ended
    <2>4. Sees
      BY <1>3 DEF Sees, Message!vars, MessagePhase
    <2> QED
      BY <1>3, <2>3, <2>4 DEF Step
  <1> QED
    BY <1>1, <1>2, <1>3 DEF Fail

-----------------------------------------------------------------------------
(* Actions.                                                                *)

LEMMA InitInv == Init => Inv
  <1> SUFFICES ASSUME Init PROVE Inv
    OBVIOUS
  <1>1. /\ Good(sse) /\ sse.view = client /\ client = MessageStart(NewView)
        /\ Named(sse)
    BY NewBuilderGood DEF Init, Named, NewBuilder, NewCall
  <1>2. TypeOK
    <2>1. sse \in Builder /\ client \in View
      BY <1>1 DEF Good, Builder
    <2>2. 0 \in 0..EarlyRetries
      BY StreamAssumption
    <2> QED
      BY <2>1, <2>2 DEF Init, TypeOK, Active
  <1> QED
    BY <1>1, <1>2 DEF Init, Inv, Good, Active, Ended

LEMMA OpenStep == ASSUME Inv, Open PROVE Step
  <1>1. phase = "opening" /\ phase' = "streaming"
        /\ UNCHANGED <<sse, client, committed, retries, finish>>
    BY DEF Open
  <1>2. Inv'
    BY <1>1 DEF Inv, TypeOK, Active, Ended
  <1>3. Sees
    BY <1>1 DEF Sees, Message!vars, MessagePhase
  <1> QED
    BY <1>1, <1>2, <1>3 DEF Step

LEMMA FinishReasonStep == ASSUME Inv, FinishReason PROVE Step
  <1>1. phase = "streaming" /\ finish' = TRUE
        /\ UNCHANGED <<phase, sse, client, committed, retries>>
    BY DEF FinishReason
  <1>2. Inv'
    BY <1>1 DEF Inv, TypeOK, Active, Ended
  <1>3. Sees
    BY <1>1 DEF Sees, Message!vars, MessagePhase
  <1> QED
    BY <1>1, <1>2, <1>3 DEF Step

LEMMA DisconnectStep == ASSUME Inv, Disconnect PROVE Step
  <1>1. phase \in Active /\ phase' = "gone"
        /\ UNCHANGED <<sse, client, committed, retries, finish>>
    BY DEF Disconnect
  <1>2. Lawful(client, "open") /\ MessagePhase = "open"
    BY <1>1, ClientBehind
  <1>3. MessagePhase' = "gone"
    BY <1>1, <1>2 DEF MessagePhase, Lawful
  <1>4. TypeOK'
    BY <1>1 DEF Inv, TypeOK, Ended
  <1>5. Inv'
    BY <1>1, <1>2, <1>4 DEF Inv, Active, Ended, Lawful
  <1>6. Sees
    BY <1>1, <1>2, <1>3 DEF Sees, Message!Next, Message!Abandon
  <1> QED
    BY <1>1, <1>5, <1>6 DEF Step

\* What keeps the calls keeps their names.
LEMMA NamedKept ==
  ASSUME NEW s, NEW r, Named(s), SameNames(s, r) \/ r.call = s.call
  PROVE  Named(r)
  BY DEF Named, SameNames

LEMMA TextChunkStep == ASSUME Inv, TextChunk PROVE Step
  <1>1. phase \in Active
    BY DEF TextChunk, Chunk, Active
  <1> QED
    BY <1>1, ClientBehind, TextGood, NamedKept, ChunkStep DEF TextChunk

LEMMA ThinkingChunkStep == ASSUME Inv, ThinkingChunk PROVE Step
  <1>1. phase \in Active
    BY DEF ThinkingChunk, Chunk, Active
  <1> QED
    BY <1>1, ClientBehind, ThinkingGood, NamedKept, ChunkStep DEF ThinkingChunk

LEMMA HeuristicChunkStep == ASSUME Inv, HeuristicChunk PROVE Step
  <1>1. phase \in Active
    BY DEF HeuristicChunk, Chunk, Active
  <1> QED
    BY <1>1, ClientBehind, HeuristicToolGood, NamedKept, ChunkStep DEF HeuristicChunk

LEMMA NameChunkStep ==
  ASSUME Inv, NEW t \in Calls, NEW n \in {"part", "whole"}, NameChunk(t, n)
  PROVE  Step
  <1> DEFINE c == sse.call[t]
             z == CloseContentBlocks(sse)
             s == [z EXCEPT !.call[t].name = n]
             b == StartTool(s, t)
             fresh == [b EXCEPT !.call[t].early = "none"]
  <1>1. phase = "streaming"
    BY DEF NameChunk, Chunk, Buffer
  <1>2. Good(sse) /\ Named(sse) /\ c \in ToolCallState
    BY <1>1, ClientBehind DEF Active, Good, Builder
  <1>3. Good(z) /\ Later(sse.view, z.view) /\ z.call = sse.call
    BY <1>2, CloseContentGood
  <1> HIDE DEF z
  <1>4. /\ Good(s) /\ Later(sse.view, s.view)
        /\ s.call = [sse.call EXCEPT ![t] = [sse.call[t] EXCEPT !.name = n]]
    <2>1. n \in {"none", "part", "whole"}
      OBVIOUS
    <2>2. /\ Good(s) /\ s.view = z.view
          /\ s.call = [z.call EXCEPT ![t] = [z.call[t] EXCEPT !.name = n]]
      <3>1. Good(z)
        BY <1>3
      <3>2. Good(s)
        BY <2>1, <3>1, NamedGood
      <3>3. s.view = z.view
        BY <2>1, <3>1, NamedGood
      <3>4. s.call = [z.call EXCEPT ![t] = [z.call[t] EXCEPT !.name = n]]
        BY <2>1, <3>1, NamedGood
      <3> QED
        BY <3>2, <3>3, <3>4
    <2> HIDE DEF s
    <2> QED
      BY <1>3, <2>2
  <1> HIDE DEF s
  <1>5. /\ s.call[t].name = n /\ s.call[t].block = sse.call[t].block
        /\ \A u \in Calls \ {t} : s.call[u] = sse.call[u]
    BY <1>2, <1>4 DEF Good, Builder, ToolCallState
  <1>6. CASE c.name = "none"
    <2>1. s.call[t].block = NoBlock
      BY <1>2, <1>5, <1>6 DEF Named
    <2>2. /\ Good(b) /\ Later(sse.view, b.view) /\ t \in Started(b)
          /\ b.call = [s.call EXCEPT ![t] = [s.call[t] EXCEPT !.block = s.next]]
      BY <1>4, <2>1, StartToolGood, LaterIsTransitive
    <2>3. s.next # NoBlock /\ s \in Builder
      BY <1>4, NextIsFresh DEF Good
    <2> HIDE DEF b
    <2>4. /\ b.call[t].name = n /\ b.call[t].block # NoBlock
          /\ \A u \in Calls \ {t} : b.call[u] = sse.call[u]
      BY <1>5, <2>2, <2>3 DEF Builder, ToolCallState
    <2>5. Named(b)
      BY <1>2, <2>4 DEF Named
    <2>6. CASE Chunk(b)
      BY <2>2, <2>5, <2>6, ChunkStep
    <2>7. CASE \E a \in Emitted(fresh, t, {c.early}) \cup Withheld(fresh, t, {c.early}) :
                  Chunk(a)
      <3>1. PICK a \in Emitted(fresh, t, {c.early}) \cup Withheld(fresh, t, {c.early}) :
                 Chunk(a)
        BY <2>7
      <3>2. /\ Good(fresh) /\ Later(sse.view, fresh.view) /\ t \in Started(fresh)
            /\ SameNames(b, fresh)
        BY <2>2, EarlyGood, LaterIsTransitive DEF Json
      <3> HIDE DEF fresh
      <3>3. {c.early} \in SUBSET Json
        BY <1>2 DEF ToolCallState
      <3>4. Good(a) /\ Later(sse.view, a.view) /\ SameNames(fresh, a)
        BY <3>1, <3>2, <3>3, AssembledGood, LaterIsTransitive
      <3>5. Named(a)
        BY <2>5, <3>2, <3>4, NamedKept
      <3> QED
        BY <3>1, <3>4, <3>5, ChunkStep
    <2> QED
      BY <1>6, <2>6, <2>7 DEF NameChunk, b, s, z
  <1>7. CASE c.name # "none"
    <2>1. Named(s)
      BY <1>2, <1>5, <1>7 DEF Named
    <2>2. Buffer(s)
      BY <1>7 DEF NameChunk, s, z
    <2> QED
      BY <1>4, <2>1, <2>2, BufferStep
  <1> QED
    BY <1>6, <1>7

LEMMA ArgumentsChunkStep ==
  ASSUME Inv, NEW t \in Calls, ArgumentsChunk(t) PROVE Step
  <1> DEFINE c == sse.call[t]
             s == CloseContentBlocks(sse)
  <1>1. phase = "streaming"
    BY DEF ArgumentsChunk, Chunk, Buffer
  <1>2. Good(sse) /\ Named(sse) /\ c \in ToolCallState
    BY <1>1, ClientBehind DEF Active, Good, Builder
  <1>3. Good(s) /\ Later(sse.view, s.view) /\ s.call = sse.call /\ Named(s)
    BY <1>2, CloseContentGood, NamedKept
  <1>4. \/ /\ c.name = "whole"
           /\ \E a \in Emitted(s, t, Longer(c, t)) \cup Withheld(s, t, Longer(c, t)) :
                 Chunk(a) \/ Buffer(a)
        \/ \E j \in After(c.early) : Buffer([s EXCEPT !.call[t].early = j])
    BY DEF ArgumentsChunk
  <1> HIDE DEF s
  <1>5. ASSUME c.name = "whole",
               NEW a \in Emitted(s, t, Longer(c, t)) \cup Withheld(s, t, Longer(c, t)),
               Chunk(a) \/ Buffer(a)
        PROVE  Step
    <2>1. t \in Started(s)
      BY <1>3, <1>5 DEF Named, Started
    <2>2. Longer(c, t) \in SUBSET Json
      <3>1. After(c.held) \subseteq Json \/ c.held = "none"
        BY <1>2 DEF After, Json, ToolCallState
      <3>2. After(c.json) \subseteq Json
        BY <1>2 DEF After, Json, ToolCallState
      <3> QED
        BY <3>1, <3>2 DEF Longer, Json
    <2>3. Good(a) /\ Later(sse.view, a.view) /\ SameNames(s, a)
      BY <1>3, <2>1, <2>2, AssembledGood, LaterIsTransitive
    <2>4. Named(a)
      BY <1>3, <2>3, NamedKept
    <2> QED
      BY <1>5, <2>3, <2>4, ChunkStep, BufferStep
  <1>6. ASSUME NEW j \in After(c.early), Buffer([s EXCEPT !.call[t].early = j])
        PROVE  Step
    <2> DEFINE a == [s EXCEPT !.call[t].early = j]
    <2>1. j \in Json
      BY <1>2 DEF After, Json, ToolCallState
    <2>2. Good(a) /\ Later(sse.view, a.view) /\ SameNames(s, a)
      BY <1>3, <2>1, EarlyGood, LaterIsTransitive
    <2>3. Named(a)
      BY <1>3, <2>2, NamedKept
    <2> QED
      BY <1>6, <2>2, <2>3, BufferStep
  <1> QED
    BY <1>4, <1>5, <1>6

LEMMA OpenFailsStep == ASSUME Inv, OpenFails PROVE Step
  <1>1. phase \in Active /\ FinalError(sse)
    BY DEF OpenFails, Active
  <1> QED
    BY <1>1, ClientBehind, LaterIsReflexive, FinalErrorStep

LEMMA RecoveryFailsStep == ASSUME Inv, RecoveryFails PROVE Step
  <1>1. phase \in Active /\ FinalError(sse)
    BY DEF RecoveryFails, Active
  <1> QED
    BY <1>1, ClientBehind, LaterIsReflexive, FinalErrorStep

LEMMA CutStep ==
  ASSUME Inv, StreamFails \/ Truncated \/ \E t \in Calls : TaskNotObject(t)
  PROVE  Step
  <1>1. phase = "streaming"
    BY DEF StreamFails, Truncated, TaskNotObject
  <1>2. Good(sse)
    BY <1>1, ClientBehind DEF Active
  <1>3. CASE \E retryable \in BOOLEAN : Fail(sse, retryable)
    BY <1>1, <1>2, <1>3, LaterIsReflexive, FailStep
  <1>4. CASE Fail(CloseContentBlocks(sse), FALSE)
    BY <1>1, <1>2, <1>4, CloseContentGood, FailStep
  <1> QED
    BY <1>3, <1>4 DEF StreamFails, Truncated, TaskNotObject

\* What Padded adds, there is a block in the end.
LEMMA PaddedGood ==
  ASSUME NEW s, Good(s), NEW r \in Padded(s)
  PROVE  Good(r) /\ Later(s.view, r.view) /\ r.view.started # {}
  <1>1. CASE r = Text(s)
    BY <1>1, TextGood
  <1>2. CASE r = s /\ HasOutput(s)
    BY <1>2, OutputSeen, LaterIsReflexive
  <1>3. CASE r = s /\ ~HasOutput(s)
    BY <1>3, TextGood DEF Padded
  <1> QED
    BY <1>1, <1>2, <1>3 DEF Padded

LEMMA StreamEndsStep ==
  ASSUME Inv, StreamEnds
  PROVE  Step /\ phase' = "complete" /\ \A t \in Started(sse') : sse'.call[t].held = "none"
  <1>1. phase = "streaming"
    BY DEF StreamEnds
  <1>2. Good(sse) /\ phase \in Active
    BY <1>1, ClientBehind DEF Active
  <1>3. PICK p \in Remainders : \E h \in {p, HeuristicTool(p)} : \E b \in Padded(h) :
             \E f \in {FlushHeld(b, e) : e \in {"whole", "broken"}} :
                Finish(EndMessage(CloseAllBlocks(f)), "complete")
    BY DEF StreamEnds
  <1>4. PICK h \in {p, HeuristicTool(p)} : \E b \in Padded(h) :
             \E f \in {FlushHeld(b, e) : e \in {"whole", "broken"}} :
                Finish(EndMessage(CloseAllBlocks(f)), "complete")
    BY <1>3
  <1>5. PICK b \in Padded(h), e \in {"whole", "broken"} :
                Finish(EndMessage(CloseAllBlocks(FlushHeld(b, e))), "complete")
    BY <1>4
  <1>6. Good(p) /\ Later(sse.view, p.view)
    BY <1>2, TextGood, ThinkingGood, LaterIsReflexive DEF Remainders
  <1>7. Good(h) /\ Later(sse.view, h.view)
    BY <1>6, HeuristicToolGood, LaterIsTransitive
  <1>8. Good(b) /\ Later(sse.view, b.view) /\ b.view.started # {}
    BY <1>7, PaddedGood, LaterIsTransitive
  <1> DEFINE f == FlushHeld(b, e)
             d == EndMessage(CloseAllBlocks(f))
  <1>9. /\ Good(f) /\ Later(b.view, f.view) /\ f.view.started # {}
        /\ \A t \in Started(f) : f.call[t].held = "none"
    BY <1>8, FlushHeldGood DEF Later
  <1>10. Later(sse.view, f.view)
    BY <1>8, <1>9, LaterIsTransitive
  <1>11. Finish(d, "complete")
    BY <1>5
  <1> HIDE DEF f
  <1>12. Done(d) /\ Later(sse.view, d.view) /\ d.call = f.call
    BY <1>9, <1>10, ClosedMessage, LaterIsTransitive
  <1> HIDE DEF d
  <1>13. Later(client, d.view) /\ "complete" \in Ended \ {"gone"}
    BY <1>2, <1>12, ClientBehind DEF Ended
  <1>14. Step
    BY <1>2, <1>11, <1>12, <1>13, FinishStep
  <1>15. phase' = "complete" /\ sse' = d
    BY <1>11 DEF Finish
  <1> QED
    BY <1>9, <1>12, <1>14, <1>15 DEF Started

LEMMA SalvageStep ==
  ASSUME Inv, Salvage
  PROVE  Step /\ phase' = "salvaged" /\ \A t \in Started(sse') : sse'.call[t].json = "whole"
  <1> DEFINE f == Repair(sse)
             d == EndMessage(CloseAllBlocks(f))
  <1>1. phase \in Active /\ Started(sse) # {} /\ Finish(d, "salvaged")
    BY DEF Salvage, Active
  <1>2. Good(sse)
    BY <1>1, ClientBehind
  <1>3. /\ Good(f) /\ Later(sse.view, f.view) /\ Started(f) # {}
        /\ \A t \in Started(f) : f.call[t].json = "whole"
    BY <1>1, <1>2, RepairGood
  <1> HIDE DEF f
  <1>4. f.view.started # {}
    BY <1>3, StartedSeen
  <1>5. Done(d) /\ Later(sse.view, d.view) /\ d.call = f.call
    BY <1>3, <1>4, ClosedMessage, LaterIsTransitive
  <1> HIDE DEF d
  <1>6. Later(client, d.view) /\ "salvaged" \in Ended \ {"gone"}
    BY <1>1, <1>5, ClientBehind DEF Ended
  <1>7. Step
    BY <1>1, <1>5, <1>6, FinishStep
  <1>8. phase' = "salvaged" /\ sse' = d
    BY <1>1 DEF Finish
  <1> QED
    BY <1>3, <1>5, <1>7, <1>8 DEF Started

LEMMA ContinueStep ==
  ASSUME Inv, NEW thinking \in BOOLEAN, NEW text \in BOOLEAN, Continue(thinking, text)
  PROVE  Step /\ phase' = "continued"
  <1> DEFINE s == IF thinking THEN Thinking(sse) ELSE sse
             r == IF text THEN Text(s) ELSE s
             d == EndMessage(CloseAllBlocks(r))
  <1>1. phase \in Active /\ Finish(d, "continued") /\ (thinking \/ text)
    BY DEF Continue, Active
  <1>2. Good(sse)
    BY <1>1, ClientBehind
  <1>3. /\ Good(s) /\ Later(sse.view, s.view)
        /\ thinking => s.view.started # {}
    BY <1>2, ThinkingGood, LaterIsReflexive
  <1> HIDE DEF s
  <1>4. Good(r) /\ Later(sse.view, r.view) /\ r.view.started # {}
    BY <1>1, <1>3, TextGood, LaterIsReflexive, LaterIsTransitive
  <1> HIDE DEF r
  <1>5. Done(d) /\ Later(sse.view, d.view)
    BY <1>4, ClosedMessage, LaterIsTransitive
  <1> HIDE DEF d
  <1>6. Later(client, d.view) /\ "continued" \in Ended \ {"gone"}
    BY <1>1, <1>5, ClientBehind DEF Ended
  <1> QED
    BY <1>1, <1>5, <1>6, FinishStep DEF Finish

LEMMA NextStep == ASSUME Inv, Next PROVE Step
  <1>1. CASE Open \/ OpenFails
    BY <1>1, OpenStep, OpenFailsStep
  <1>2. CASE Chunks
    BY <1>2, ThinkingChunkStep, TextChunkStep, HeuristicChunkStep, FinishReasonStep,
       NameChunkStep, ArgumentsChunkStep DEF Chunks
  <1>3. CASE StreamOver
    BY <1>3, StreamEndsStep, CutStep DEF StreamOver
  <1>4. CASE Recovery
    BY <1>4, SalvageStep, RecoveryFailsStep, ContinueStep DEF Recovery
  <1>5. CASE Disconnect
    BY <1>5, DisconnectStep
  <1> QED
    BY <1>1, <1>2, <1>3, <1>4, <1>5 DEF Next

LEMMA StutterStep == ASSUME Inv, UNCHANGED vars PROVE Step
  <1>1. Inv'
    BY DEF Inv, TypeOK, vars
  <1>2. Sees
    BY DEF Sees, Message!vars, MessagePhase, vars
  <1> QED
    BY <1>1, <1>2 DEF Step, vars

-----------------------------------------------------------------------------
(* Theorems.                                                               *)

\* The invariant: builder, calls and client agree at every step of a stream.
THEOREM Invariance == Spec => []Inv
  <1>1. Inv /\ [Next]_vars => Inv'
    BY NextStep, StutterStep DEF Step
  <1> QED
    BY InitInv, <1>1, PTL DEF Spec

\* The state of a stream has its type, whatever the provider does.
THEOREM TypeCorrect == Spec => []TypeOK
  <1>1. Inv => TypeOK
    BY DEF Inv
  <1> QED
    BY Invariance, <1>1, PTL

\* The client never sees an event that the contract of a message forbids.
THEOREM ContractIsKept == Spec => []ContractKept
  <1>1. Inv => ContractKept
    <2> SUFFICES ASSUME Inv PROVE ContractKept
      OBVIOUS
    <2>1. CASE phase \in Active
      BY <2>1, ClientBehind DEF ContractKept, Lawful
    <2>2. CASE phase \notin Active
      BY <2>2 DEF Inv, TypeOK, ContractKept, Lawful, Ended
    <2> QED
      BY <2>1, <2>2
  <1> QED
    BY Invariance, <1>1, PTL

\* A request is repeated only for a client that has seen message_start alone.
THEOREM RetriesAreInvisible == Spec => RetryIsInvisible
  <1>1. Inv /\ [Next]_vars => [retries' # retries => client' = MessageStart(NewView)]_vars
    BY NextStep, StutterStep DEF Step
  <1> QED
    BY Invariance, <1>1, PTL DEF Spec, RetryIsInvisible

\* What is said of the calls of a message that has ended.
LEMMA CallsEnd == Spec => [](SalvagedIsWhole /\ NothingHeldBack)
  <1> DEFINE P == SalvagedIsWhole /\ NothingHeldBack
  <1>1. Init => P
    BY DEF Init, SalvagedIsWhole, NothingHeldBack
  <1>2. ASSUME Inv, P, [Next]_vars PROVE P'
    <2>1. CASE StreamEnds
      BY <1>2, <2>1, StreamEndsStep DEF SalvagedIsWhole, NothingHeldBack
    <2>2. CASE Salvage
      BY <1>2, <2>2, SalvageStep DEF SalvagedIsWhole, NothingHeldBack
    <2>3. CASE UNCHANGED vars
      BY <1>2, <2>3 DEF SalvagedIsWhole, NothingHeldBack, vars, Started
    <2>4. CASE Next /\ ~StreamEnds /\ ~Salvage
      <3>1. phase' \notin {"complete", "salvaged"}
        <4>1. CASE Open \/ OpenFails \/ Disconnect
          BY <4>1 DEF Open, OpenFails, FinalError, Finish, Disconnect
        <4>2. CASE Chunks
          <5>1. \A s : Chunk(s) \/ Buffer(s) => phase' = "streaming"
            BY DEF Chunk, Buffer
          <5>2. \A t \in Calls, n \in {"part", "whole"} :
                   NameChunk(t, n) \/ ArgumentsChunk(t) => phase' = "streaming"
            BY <5>1, Zenon DEF NameChunk, ArgumentsChunk
          <5>3. ThinkingChunk \/ TextChunk \/ HeuristicChunk \/ FinishReason
                   => phase' = "streaming"
            BY <5>1 DEF ThinkingChunk, TextChunk, HeuristicChunk, FinishReason
          <5> QED
            BY <4>2, <5>2, <5>3 DEF Chunks
        <4>3. CASE StreamFails \/ Truncated \/ \E t \in Calls : TaskNotObject(t)
          BY <4>3 DEF StreamFails, Truncated, TaskNotObject, Fail, RetryEarly,
             FinalError, Finish
        <4>4. CASE Recovery /\ ~Salvage
          <5>1. RecoveryFails => phase' = "failed"
            BY DEF RecoveryFails, FinalError, Finish
          <5>2. \A thinking, text \in BOOLEAN :
                   Continue(thinking, text) => phase' = "continued"
            BY <1>2, ContinueStep
          <5> QED
            BY <4>4, <5>1, <5>2 DEF Recovery
        <4>5. StreamOver => \/ StreamEnds \/ StreamFails \/ Truncated
                            \/ \E t \in Calls : TaskNotObject(t)
          BY DEF StreamOver
        <4> QED
          BY <2>4, <4>1, <4>2, <4>3, <4>4, <4>5 DEF Next
      <3> QED
        BY <3>1 DEF SalvagedIsWhole, NothingHeldBack
    <2> QED
      BY <1>2, <2>1, <2>2, <2>3, <2>4
  <1> QED
    BY Invariance, <1>1, <1>2, PTL DEF Spec

\* Calls presented as the outcome of a broken answer have whole inputs.
THEOREM CallsAreWhole == Spec => []SalvagedIsWhole
  BY CallsEnd, PTL

\* An answer that ends well leaves none of a call's input in a buffer.
THEOREM NothingIsHeldBack == Spec => []NothingHeldBack
  BY CallsEnd, PTL

\* What the client sees is a MessageStream.
THEOREM IsMessageStream == Spec => Message!Spec
  <1>1. Init => Message!Begin
    BY NewBuilderGood DEF Init, Message!Begin, MessagePhase, MessageStart, NewView
  <1>2. Inv /\ [Next]_vars => [Message!Next]_(Message!vars)
    BY NextStep, StutterStep DEF Step, Sees
  <1> QED
    BY Invariance, <1>1, <1>2, PTL DEF Spec, Message!Spec
=============================================================================
