---------------------------- MODULE TextParsers -----------------------------
(***************************************************************************)
(* The two parsers of streamed text: thinking between tags                 *)
(* (core/anthropic/thinking.py) and tool calls that a model writes as text *)
(* (core/anthropic/tools.py), fed chunk by chunk.                          *)
(*                                                                         *)
(* Text is a sequence of atoms.  For the first parser they are the pieces  *)
(* of <think> and </think>, so that a chunk can end inside a tag; for the  *)
(* second they are whole tags, the halves of a control token, and the name *)
(* and the arguments of a web tool.  What the parsers tell is the places   *)
(* of the atoms in all that was fed.                                       *)
(***************************************************************************)
EXTENDS Naturals, Sequences, FiniteSets, SequencesExt

CONSTANTS MaxAtoms,    \* bound on the atoms fed
          MaxChunk,    \* bound on the atoms of a chunk
          Hold         \* what MATCHING_FUNCTION holds before it gives up (100 characters)

ASSUME TextAssumption == MaxAtoms \in Nat /\ MaxChunk \in Nat /\ Hold \in Nat

VARIABLES
    reader,   \* which parser is fed: "think" or "tools"
    fed,      \* history: the atoms fed
    text,     \* the parser: its buffer and mode, what it told, the call at hand and the calls found
    flushed

textVars == <<reader, fed, text, flushed>>

OpenTag == <<"<", "think>">>
CloseTag == <<"<", "/", "think>">>
Alphabet ==
    [think |-> {"<", "/", "think>", "x"},
     tools |-> {"x", " ", "*", "function", "parameter", "end", "<|", "|>", "WebFetch", "{url}"}]
NoTextCall == [name |-> 0, given |-> {}]

TextInit ==
    /\ reader \in {"think", "tools"} /\ fed = <<>> /\ flushed = FALSE
    /\ text = [buffer |-> <<>>, mode |-> "text", told |-> <<>>, call |-> NoTextCall, found |-> <<>>]

\* Where a sequence of atoms, or one atom of a set, is first found in a buffer from
\* an index on; 0 if nowhere.
Lowest(S) == IF S = {} THEN 0 ELSE CHOOSE i \in S : \A j \in S : i <= j
Highest(S) == IF S = {} THEN 0 ELSE CHOOSE i \in S : \A j \in S : i >= j
PlacesOf(S, b, from, all) == {i \in from..Len(b) : all[b[i]] \in S}
FirstOf(S, b, from, all) == Lowest(PlacesOf(S, b, from, all))
Spells(tag, b, i, all) == i + Len(tag) - 1 <= Len(b) /\ \A j \in 1..Len(tag) : all[b[i + j - 1]] = tag[j]
FirstTag(tag, b, all) == Lowest({i \in 1..Len(b) : Spells(tag, b, i, all)})

\* What is handed to the caller: n places of the buffer, the rest from `from` on kept.
Tell(p, n, from) ==
    [p EXCEPT !.told = @ \o [i \in 1..n |-> [kind |-> IF p.mode = "thinking" THEN "thinking" ELSE "text", at |-> p.buffer[i]]],
              !.buffer = SubSeq(@, from, Len(@))]

-----------------------------------------------------------------------------
(* Thinking tags.                                                          *)

\* A tail of the buffer that may become a tag: a proper prefix of one that counts.
MayBecome(tag, b, i, all) == Len(b) - i + 1 < Len(tag) /\ Spells(SubSeq(tag, 1, Len(b) - i + 1), b, i, all)

\* _parse_outside_think() and _parse_inside_think(): an orphan closing tag is dropped.
ParseThink(p, all) ==
    LET open  == IF p.mode = "text" THEN FirstTag(OpenTag, p.buffer, all) ELSE 0
        close == FirstTag(CloseTag, p.buffer, all)
        last  == Highest(PlacesOf({"<"}, p.buffer, 1, all))
        waits == last # 0 /\ (\/ p.mode = "text" /\ MayBecome(OpenTag, p.buffer, last, all)
                              \/ MayBecome(CloseTag, p.buffer, last, all))
    IN CASE close # 0 /\ (open = 0 \/ close < open) -> [Tell(p, close - 1, close + Len(CloseTag)) EXCEPT !.mode = "text"]
         [] open # 0 /\ (close = 0 \/ open < close) -> [Tell(p, open - 1, open + Len(OpenTag)) EXCEPT !.mode = "thinking"]
         [] open = 0 /\ close = 0 -> IF waits THEN Tell(p, last - 1, last) ELSE Tell(p, Len(p.buffer), Len(p.buffer) + 1)

\* ThinkTagParser.feed()
RECURSIVE FeedThink(_, _)
FeedThink(p, all) ==
    LET q == ParseThink(p, all)
    IN IF p.buffer = <<>> THEN p ELSE IF Len(q.buffer) = Len(p.buffer) THEN q ELSE FeedThink(q, all)

-----------------------------------------------------------------------------
(* Tool calls written as text.                                             *)

\* _strip_control_tokens(): what stands between the halves holds neither | nor >.
Printable == {"x", " ", "*", "WebFetch", "{url}"}
Token(b, i, j, all) == all[b[i]] = "<|" /\ all[b[j]] = "|>" /\ i + 1 < j /\ \A m \in (i + 1)..(j - 1) : all[b[m]] \in Printable
Stripped(b, all) ==
    LET inToken == {m \in 1..Len(b) : \E i \in 1..m, j \in m..Len(b) : Token(b, i, j, all)}
    IN FoldLeft(LAMBDA s, m : IF m \in inToken THEN s ELSE Append(s, b[m]), <<>>, [m \in 1..Len(b) |-> m])

\* _extract_web_tool_json_calls(): what is found empties the buffer of all the rest.
RECURSIVE WebCalls(_, _, _)
WebCalls(b, from, all) ==
    LET tool == FirstOf({"WebFetch"}, b, from, all)
        json == IF tool = 0 THEN 0 ELSE FirstOf({"{url}"}, b, tool, all)
    IN IF json = 0 THEN <<>> ELSE <<[name |-> b[tool], given |-> {b[json]}]>> \o WebCalls(b, json + 1, all)

\* _FUNC_START_PATTERN: the bullet, blanks and the function.
BeginsCall(b, i, j, all) == all[b[i]] = "*" /\ all[b[j]] = "function" /\ i < j /\ \A m \in (i + 1)..(j - 1) : all[b[m]] = " "

\* TEXT: up to the bullet, or up to a control token that has not ended.
FeedText(p, all) ==
    LET bullet == FirstOf({"*"}, p.buffer, 1, all)
        token  == Highest(PlacesOf({"<|"}, p.buffer, 1, all))
        open   == token > 1 /\ FirstOf({"|>"}, p.buffer, token, all) = 0
    IN IF bullet # 0 THEN [Tell(p, bullet - 1, bullet) EXCEPT !.mode = "function"]
       ELSE IF open THEN Tell(p, token - 1, token) ELSE Tell(p, Len(p.buffer), Len(p.buffer) + 1)

\* MATCHING_FUNCTION: a bullet that is no call's is text in the end.
FeedFunction(p, all) ==
    LET ends == {j \in 1..Len(p.buffer) : \E i \in 1..j : BeginsCall(p.buffer, i, j, all)}
    IN IF ends # {} THEN [p EXCEPT !.mode = "parameters", !.call = [NoTextCall EXCEPT !.name = p.buffer[Lowest(ends)]],
                                   !.buffer = SubSeq(@, Lowest(ends) + 1, Len(@))]
       ELSE IF Len(p.buffer) > Hold THEN [Tell(p, 1, 2) EXCEPT !.mode = "text"] ELSE p

\* PARSING_PARAMETERS: every parameter that has ended, and then what tells that the
\* call has: a bullet, or text which begins no tag.
RECURSIVE TakeParameters(_, _)
TakeParameters(p, all) ==
    LET begin == FirstOf({"parameter"}, p.buffer, 1, all)
        end   == IF begin = 0 THEN 0 ELSE FirstOf({"end"}, p.buffer, begin, all)
    IN IF end = 0 THEN p
       ELSE TakeParameters([Tell(p, begin - 1, end + 1) EXCEPT
                !.call.given = @ \cup {p.buffer[m] : m \in begin..end}], all)
EndCall(p) == [p EXCEPT !.mode = "text", !.found = Append(@, p.call)]
FeedParameters(p0, all) ==
    LET p      == TakeParameters(p0, all)
        bullet == FirstOf({"*"}, p.buffer, 1, all)
        word   == FirstOf(Alphabet.tools \ {" "}, p.buffer, 1, all)
        prose  == /\ p.buffer # <<>> /\ FirstOf({"parameter"}, p.buffer, 1, all) = 0
                  /\ word = 0 \/ all[p.buffer[word]] \notin {"function", "end", "<|"}
    IN IF bullet # 0 THEN EndCall(Tell(p, bullet - 1, bullet))
       ELSE IF prose THEN EndCall(Tell(p, Len(p.buffer), Len(p.buffer) + 1)) ELSE p

\* The loop of HeuristicToolParser.feed(): text that is told ends it, a call that
\* has begun or ended does not.
RECURSIVE FeedTools(_, _)
FeedTools(p, all) ==
    LET q == CASE p.mode = "text" -> FeedText(p, all)
               [] p.mode = "function" -> FeedFunction(p, all)
               [] p.mode = "parameters" -> FeedParameters(p, all)
    IN IF q.mode = p.mode THEN q ELSE FeedTools(q, all)

\* feed(), over the whole buffer first.
ReadTools(p, all) ==
    LET s == Stripped(p.buffer, all)
        web == WebCalls(s, 1, all)
    IN FeedTools([p EXCEPT !.buffer = IF web = <<>> THEN s ELSE <<>>, !.found = @ \o web], all)

\* flush() of both: the first tells its buffer, the second ends the call at hand and
\* gives it what an unfinished parameter has so far.
FlushTools(p0, all) ==
    LET p     == [p0 EXCEPT !.buffer = Stripped(@, all)]
        begin == FirstOf({"parameter"}, p.buffer, 1, all)
        tail  == IF begin = 0 THEN {} ELSE {p.buffer[m] : m \in begin..Len(p.buffer)}
    IN IF p.mode # "parameters" THEN p
       ELSE EndCall([p EXCEPT !.buffer = <<>>, !.call.given = @ \cup tail])

Feed ==
    /\ ~flushed
    /\ \E chunk \in UNION {[1..n -> Alphabet[reader]] : n \in 1..MaxChunk} :
          LET all == fed \o chunk
              p   == [text EXCEPT !.buffer = @ \o [i \in 1..Len(chunk) |-> Len(fed) + i]]
          IN /\ Len(all) <= MaxAtoms
             /\ fed' = all
             /\ text' = IF reader = "think" THEN FeedThink(p, all) ELSE ReadTools(p, all)
    /\ UNCHANGED <<reader, flushed>>

Flush ==
    /\ ~flushed /\ flushed' = TRUE
    /\ text' = IF reader = "think" THEN Tell(text, Len(text.buffer), Len(text.buffer) + 1) ELSE FlushTools(text, fed)
    /\ UNCHANGED <<reader, fed>>

TextNext == Feed \/ Flush

-----------------------------------------------------------------------------
TextTypeOK ==
    /\ reader \in {"think", "tools"} /\ flushed \in BOOLEAN /\ fed \in Seq(Alphabet[reader])
    /\ text.mode \in (IF reader = "think" THEN {"text", "thinking"} ELSE {"text", "function", "parameters"})
    /\ Range(text.buffer) \cup {t.at : t \in Range(text.told)} \subseteq DOMAIN fed

\* What the tags say, read from the left without any chunks.
RECURSIVE Scan(_, _)
Scan(i, mode) ==
    LET here(tag) == Spells(tag, [j \in 1..Len(fed) |-> j], i, fed)
    IN IF i > Len(fed) THEN <<>>
       ELSE IF here(CloseTag) THEN Scan(i + Len(CloseTag), "text")
       ELSE IF mode = "text" /\ here(OpenTag) THEN Scan(i + Len(OpenTag), "thinking")
       ELSE <<[kind |-> mode, at |-> i]>> \o Scan(i + 1, mode)

\* However the upstream cuts its text into chunks, thinking and text are told apart
\* as the tags of the whole text do, and nothing but the beginning of a tag waits.
ChunksDoNotMatter ==
    reader = "think" =>
        /\ Tell(text, Len(text.buffer), 1).told = Scan(1, "text")
        /\ Len(text.buffer) < Len(CloseTag)

\* No text is told twice or out of its order, none both told and taken for a call;
\* no call is found twice, no two share an argument, and an argument comes after
\* its function.
CallsTakeTheirOwn ==
    reader = "tools" =>
        LET told  == [i \in 1..Len(text.told) |-> text.told[i].at]
            calls == IF text.mode = "parameters" THEN Append(text.found, text.call) ELSE text.found
            taken == [i \in 1..Len(calls) |-> {calls[i].name} \cup calls[i].given]
        IN /\ \A i, j \in 1..Len(told) : i < j => told[i] < told[j]
           /\ \A i, j \in 1..Len(calls) : i # j => taken[i] \cap taken[j] = {}
           /\ \A i \in 1..Len(calls) : \A m \in calls[i].given : calls[i].name < m
           /\ Cardinality(Range(told)) + Cardinality(Range(text.buffer)) + Cardinality(UNION Range(taken))
                = Cardinality(Range(told) \cup Range(text.buffer) \cup UNION Range(taken))

\* Both parsers do what the stream relies on.
TextParsed == TextTypeOK /\ ChunksDoNotMatter /\ CallsTakeTheirOwn

=============================================================================
