-------------------------- MODULE MessagingProofs --------------------------
(***************************************************************************)
(* The properties of the chat logs, of the outgoing queue and of the client *)
(* CLIs of the messaging bridge, of the platforms it speaks to and of the  *)
(* server that starts and stops it, for every number of messages, calls,   *)
(* keys, retries, turns, trees, stops, edits and restarts, every window    *)
(* and every cap.  Each part names what its inductive invariant is made    *)
(* of, shows that every action keeps it, and concludes.                    *)
(***************************************************************************)
EXTENDS Platforms, ServerLife, MessagingLimiter, ChatLog, CliSessions, TLAPS

-----------------------------------------------------------------------------
(* The chat logs: what LogAgrees and KnownOrGone need to be inductive.      *)

\* Only messages that exist are recorded.
KnownAreUsed ==
    \A m \in MessageIds :
        (m \in treeIds \/ \E ch \in Chats : m \in logIds[ch]) => what[m] # "none"

\* A message that does not exist is nowhere.
UnusedRest == \A m \in MessageIds : what[m] = "none" => at[m] = "none"

\* An answer answers a message of its chat that was handled.
AnswersFollow ==
    \A n \in MessageIds : what[n] = "answer" =>
        /\ answerTo[n] \in MessageIds /\ ChatOf[answerTo[n]] = ChatOf[n]
        /\ what[answerTo[n]] # "none" /\ at[answerTo[n]] \in {"shown", "done"}

\* What a running /clear took down of its chat is what it deletes, or was lost before.
ClearKnows ==
    \A c \in Deleting : Findable(ChatOf[c]) \cap inChat \subseteq todo[c] \cup lost

LogInv == LogTypeOK /\ LogAgrees /\ KnownOrGone /\ KnownAreUsed /\ UnusedRest /\ AnswersFollow /\ ClearKnows

\* The elements of a sequence by their places.
LEMMA Elements ==
    ASSUME NEW S, NEW s \in Seq(S)
    PROVE  \A x : x \in ToSet(s) <=> \E i \in 1..Len(s) : x = s[i]
BY DEF ToSet

\* A place in what is left, counted from the place of the cut.
LEMMA Shifted ==
    ASSUME NEW n \in Nat, NEW e \in 0..n, NEW i \in 1..n - e
    PROVE  e + i \in 1..n
OBVIOUS

\* What is kept and what is cut off when a sequence loses its oldest elements.
LEMMA Cut ==
    ASSUME NEW S, NEW s \in Seq(S), NEW e \in 0..Len(s)
    PROVE  LET kept == SubSeq(s, e + 1, Len(s)) IN
           /\ kept \in Seq(S) /\ Len(kept) = Len(s) - e
           /\ \A i \in 1..Len(kept) : kept[i] = s[e + i]
           /\ ToSet(s) = ToSet(kept) \cup ToSet(SubSeq(s, 1, e))
<1> DEFINE kept == SubSeq(s, e + 1, Len(s))
           gone == SubSeq(s, 1, e)
<1>1. e \in Nat /\ Len(s) \in Nat /\ e <= Len(s)
  OBVIOUS
<1>2. kept \in Seq(S) /\ Len(kept) = Len(s) - e /\ \A i \in 1..Len(kept) : kept[i] = s[e + i]
  BY <1>1
<1>3. gone \in Seq(S) /\ Len(gone) = e /\ \A i \in 1..Len(gone) : gone[i] = s[i]
  BY <1>1
<1>9. /\ \A x : x \in ToSet(s) <=> \E i \in 1..Len(s) : x = s[i]
      /\ \A x : x \in ToSet(kept) <=> \E i \in 1..Len(kept) : x = kept[i]
      /\ \A x : x \in ToSet(gone) <=> \E i \in 1..Len(gone) : x = gone[i]
  BY <1>2, <1>3, Elements
<1> HIDE DEF kept, gone
<1>4. ASSUME NEW x \in ToSet(s)
      PROVE  x \in ToSet(kept) \cup ToSet(gone)
  <2>1. PICK i \in 1..Len(s) : x = s[i]
    BY <1>9
  <2>2. CASE i <= e
    BY <1>9, <1>1, <1>3, <2>1, <2>2 
  <2>3. CASE i > e
    <3>1. i - e \in 1..Len(kept) /\ kept[i - e] = s[e + (i - e)] /\ e + (i - e) = i
      BY <1>9, <1>1, <1>2, <2>1, <2>3
    <3> QED  BY <1>9, <1>2, <2>1, <3>1 
  <2> QED  BY <1>9, <2>1, <2>2, <2>3, <1>1
<1>5. ToSet(kept) \subseteq ToSet(s)
  <2> SUFFICES ASSUME NEW i \in 1..Len(kept) PROVE kept[i] \in ToSet(s)
    BY <1>9, <1>2 
  <2>1. e + i \in 1..Len(s)
    BY <1>9, <1>1, <1>2
  <2> QED  BY <1>9, <1>2, <2>1 
<1>6. ToSet(gone) \subseteq ToSet(s)
  <2> SUFFICES ASSUME NEW i \in 1..Len(gone) PROVE gone[i] \in ToSet(s)
    BY <1>9
  <2>1. i \in 1..Len(s) /\ gone[i] = s[i]
    BY <1>1, <1>3
  <2> QED  BY <1>9, <2>1
<1>7. ToSet(s) = ToSet(kept) \cup ToSet(gone)
  BY <1>4, <1>5, <1>6
<1> QED  BY <1>2, <1>7 DEF kept, gone

\* An id belongs to a chat, and is found there if it is in a tree or in its log.
LEMMA FoundInChat ==
    ASSUME LogTypeOK, LogAgrees, NEW m \in MessageIds
    PROVE  /\ ChatOf[m] \in Chats
           /\ m \in Findable(ChatOf[m]) <=> m \in treeIds \/ m \in logIds[ChatOf[m]]
           /\ \A ch \in Chats :
                 /\ m \in Findable(ch) => ChatOf[m] = ch
                 /\ m \in logIds[ch] => ChatOf[m] = ch
  BY ChatLogAssumption DEF Findable, OfChat, LogAgrees, MessageIds

\* What record() does to the log of a chat, the ids and what is lost: the cap drops
\* the oldest ids and nothing else, and no other chat is concerned.
LEMMA RecordFacts ==
    ASSUME LogInv, NEW m \in MessageIds, NEW attached \in SUBSET MessageIds, Record(m, attached)
    PROVE  LET ch == ChatOf[m] IN
           /\ log' \in [Chats -> Seq(MessageIds)] /\ logIds' \in [Chats -> SUBSET MessageIds]
           /\ LogAgrees'
           /\ m \in logIds'[ch] /\ logIds'[ch] \subseteq logIds[ch] \cup {m}
           /\ \A d \in Chats \ {ch} : logIds'[d] = logIds[d]
           /\ treeIds' = treeIds \cup attached
           /\ \A o \in logIds[ch] \cap inChat : o \in logIds'[ch] \cup treeIds' \cup lost'
           /\ lost \subseteq lost' \cup attached
           /\ OfChat(Deleting, ch) # {} => inChat \cap ({m} \cup attached) \subseteq lost'
<1> DEFINE ch == ChatOf[m]
           old == log[ch]
           ids == logIds[ch]
           all == IF m \in ids THEN old ELSE Append(old, m)
           excess == IF Cap > 0 /\ Len(all) > Cap THEN Len(all) - Cap ELSE 0
           kept == SubSeq(all, excess + 1, Len(all))
<1>1. /\ log' = [log EXCEPT ![ch] = kept] /\ logIds' = [logIds EXCEPT ![ch] = ToSet(kept)]
      /\ treeIds' = treeIds \cup attached
      /\ lost' = (lost \ attached) \cup ((inChat \cap ToSet(SubSeq(all, 1, excess))) \ treeIds')
                 \cup (IF OfChat(Deleting, ch) = {} THEN {} ELSE inChat \cap ({m} \cup attached))
  BY DEF Record
<1>0. /\ log \in [Chats -> Seq(MessageIds)] /\ logIds \in [Chats -> SUBSET MessageIds]
      /\ ch \in Chats
  BY FoundInChat DEF LogInv, LogTypeOK
<1>2. /\ old \in Seq(MessageIds) /\ ids = ToSet(old) /\ Len(old) \in Nat
      /\ \A i, j \in 1..Len(old) : old[i] = old[j] => i = j
      /\ Cap > 0 => Len(old) <= Cap
      /\ \A x : x \in ids <=> \E i \in 1..Len(old) : x = old[i]
  <2>1. old \in Seq(MessageIds)
    BY <1>0
  <2>2. /\ ids = ToSet(old) /\ \A i, j \in DOMAIN old : old[i] = old[j] => i = j
        /\ Cap > 0 => Len(old) <= Cap
    BY <1>0 DEF LogInv, LogAgrees
  <2> HIDE DEF old, ids
  <2> QED  BY <2>1, <2>2, Elements
<1> HIDE DEF old, ids, ch
<1>3. /\ all \in Seq(MessageIds) /\ Len(all) \in Nat
      /\ ToSet(all) = ids \cup {m} /\ \A i, j \in 1..Len(all) : all[i] = all[j] => i = j
  <2>1. CASE m \in ids
    BY <1>2, <2>1
  <2>2. CASE m \notin ids
    <3>1. /\ all \in Seq(MessageIds) /\ Len(all) = Len(old) + 1 /\ all[Len(old) + 1] = m
          /\ \A i \in 1..Len(old) : all[i] = old[i]
      BY <1>2, <2>2
    <3>2. \A i \in 1..Len(all) : i \in 1..Len(old) \/ i = Len(old) + 1
      BY <1>2, <3>1
    <3>3. \A i \in 1..Len(old) : all[i] \in ids
      BY <1>2, <3>1
    <3>4. \A i, j \in 1..Len(all) : all[i] = all[j] => i = j
      BY <1>2, <2>2, <3>1, <3>2, <3>3
    <3>5. ToSet(all) = ids \cup {m}
      <4> HIDE DEF all
      <4>1. \A x : x \in ToSet(all) <=> \E i \in 1..Len(all) : x = all[i]
        BY <3>1, Elements
      <4> QED  BY <1>2, <3>1, <3>2, <4>1
    <3> QED  BY <1>2, <3>1, <3>4, <3>5
  <2> QED  BY <2>1, <2>2
<1>4. excess \in 0..Len(all) /\ (Cap > 0 => Len(all) - excess <= Cap)
  BY <1>3, ChatLogAssumption
<1> HIDE DEF all, excess
<1>5. /\ kept \in Seq(MessageIds) /\ Len(kept) = Len(all) - excess
      /\ \A i \in 1..Len(kept) : kept[i] = all[excess + i]
      /\ ToSet(all) = ToSet(kept) \cup ToSet(SubSeq(all, 1, excess))
  BY <1>3, <1>4, Cut
<1>6. \A i, j \in 1..Len(kept) : kept[i] = kept[j] => i = j
  <2> SUFFICES ASSUME NEW i \in 1..Len(kept), NEW j \in 1..Len(kept), kept[i] = kept[j]
               PROVE  i = j
    OBVIOUS
  <2>1. excess + i \in 1..Len(all) /\ excess + j \in 1..Len(all)
    <3>1. Len(all) \in Nat /\ excess \in 0..Len(all) /\ Len(kept) = Len(all) - excess
      BY <1>3, <1>4, <1>5
    <3>2. i \in 1..Len(all) - excess /\ j \in 1..Len(all) - excess
      BY <3>1
    <3> QED  BY <3>1, <3>2, Shifted
  <2>2. excess + i = excess + j
    BY <1>3, <1>5, <2>1
  <2> QED  BY <2>2, <1>4, <1>3
<1>7. Cap > 0 => Len(kept) <= Cap
  BY <1>4, <1>5
<1>8. m \in ToSet(kept)
  <2>1. CASE m \in ids
    <3>1. all = old /\ excess = 0
      BY <1>2, <2>1, ChatLogAssumption DEF all, excess
    <3>2. SubSeq(all, 1, excess) = <<>>
      BY <3>1, <1>2
    <3> QED  BY <1>3, <1>5, <2>1, <3>1, <3>2 DEF ToSet
  <2>2. CASE m \notin ids
    <3>1. Len(all) = Len(old) + 1 /\ all[Len(all)] = m
      BY <1>2, <2>2 DEF all
    <3>2. Len(kept) >= 1
      BY <3>1, <1>2, <1>5, ChatLogAssumption DEF excess
    <3>3. Len(kept) \in 1..Len(kept) /\ excess + Len(kept) = Len(all)
      BY <3>2, <1>3, <1>4, <1>5
    <3>4. kept[Len(kept)] = m
      BY <1>5, <3>1, <3>3
    <3> QED  BY <1>5, <3>3, <3>4, Elements
  <2> QED  BY <2>1, <2>2
<1> HIDE DEF kept
<1>9. ToSet(kept) \subseteq ids \cup {m} /\ ids \in SUBSET MessageIds
  BY <1>0, <1>3, <1>5 DEF ids
<1>10. /\ log'[ch] = kept /\ logIds'[ch] = ToSet(kept)
       /\ \A d \in Chats \ {ch} : log'[d] = log[d] /\ logIds'[d] = logIds[d]
       /\ log' \in [Chats -> Seq(MessageIds)] /\ logIds' \in [Chats -> SUBSET MessageIds]
  BY <1>0, <1>1, <1>5, <1>9
<1>11. LogAgrees'
  <2> SUFFICES ASSUME NEW d \in Chats
               PROVE  /\ logIds'[d] = ToSet(log'[d]) /\ logIds'[d] = OfChat(logIds'[d], d)
                      /\ \A i, j \in DOMAIN log'[d] : log'[d][i] = log'[d][j] => i = j
                      /\ Cap > 0 => Len(log'[d]) <= Cap
    BY DEF LogAgrees, OfChat
  <2>1. CASE d = ch
    <3>1. \A x \in ToSet(kept) : x \in MessageIds /\ ChatOf[x] = ch
      <4>1. \A x \in ids : x \in MessageIds /\ ChatOf[x] = ch
        BY <1>0, <1>9, FoundInChat DEF LogInv, ids
      <4> QED  BY <1>9, <4>1 DEF ch
    <3>2. ToSet(kept) = OfChat(ToSet(kept), ch)
      BY <3>1 DEF OfChat
    <3> QED  BY <1>5, <1>6, <1>7, <1>10, <2>1, <3>2
  <2>2. CASE d # ch
    <3>1. log'[d] = log[d] /\ logIds'[d] = logIds[d]
      BY <1>10, <2>2
    <3> QED  BY <3>1, Zenon DEF LogInv, LogAgrees, OfChat
  <2> QED  BY <2>1, <2>2
<1>12. /\ m \in logIds'[ch] /\ logIds'[ch] \subseteq logIds[ch] \cup {m}
       /\ \A o \in logIds[ch] \cap inChat : o \in logIds'[ch] \cup treeIds' \cup lost'
  BY <1>1, <1>3, <1>5, <1>8, <1>9, <1>10 DEF ids
<1> QED  BY <1>1, <1>10, <1>11, <1>12 DEF ch

\* A step that records a message keeps everything that is known of the chats.
LEMMA RecordKeeps ==
    ASSUME LogInv, NEW m \in MessageIds, NEW attached \in SUBSET MessageIds, Record(m, attached),
           \A o \in {m} \cup attached : what[o] # "none" /\ ChatOf[o] = ChatOf[m],
           UNCHANGED <<what, answerTo, inChat, todo>>,
           LogTypeOK', Deleting' = Deleting,
           \A o \in MessageIds : at'[o] # "sent" => at[o] # "sent" \/ o \in {m} \cup attached,
           \A o \in MessageIds : at'[o] = "sent" => at[o] = "sent",
           \A o \in MessageIds : what[o] = "none" => at'[o] = "none",
           \A o \in MessageIds : at[o] \in {"shown", "done"} => at'[o] \in {"shown", "done"}
    PROVE  LogInv'
<1> DEFINE ch == ChatOf[m]
<1>1. /\ LogAgrees'
      /\ m \in logIds'[ch] /\ logIds'[ch] \subseteq logIds[ch] \cup {m}
      /\ \A d \in Chats \ {ch} : logIds'[d] = logIds[d]
      /\ treeIds' = treeIds \cup attached
      /\ \A o \in logIds[ch] \cap inChat : o \in logIds'[ch] \cup treeIds' \cup lost'
      /\ lost \subseteq lost' \cup attached
      /\ OfChat(Deleting, ch) # {} => inChat \cap ({m} \cup attached) \subseteq lost'
  BY RecordFacts
<1> HIDE DEF ch
<1>2. /\ LogTypeOK /\ LogAgrees /\ KnownOrGone /\ KnownAreUsed
      /\ UnusedRest /\ AnswersFollow /\ ClearKnows /\ inChat \subseteq MessageIds
  BY DEF LogInv, LogTypeOK
<1>3. \A o \in MessageIds :
         /\ ChatOf[o] \in Chats
         /\ o \in Findable(ChatOf[o]) <=> o \in treeIds \/ o \in logIds[ChatOf[o]]
  BY <1>2, FoundInChat
<1>4. \A o \in MessageIds :
         o \in Findable(ChatOf[o])' <=> o \in treeIds' \/ o \in logIds'[ChatOf[o]]
  BY DEF Findable, OfChat
<1>5. KnownOrGone'
  <2> SUFFICES ASSUME NEW o \in inChat \ lost', at'[o] # "sent",
                      ~(o \in Findable(ChatOf[o])')
               PROVE  \E c \in Deleting' : o \in todo'[c]
    BY DEF KnownOrGone
  <2>1. o \in MessageIds /\ o \notin treeIds' /\ o \notin logIds'[ChatOf[o]]
    BY <1>2, <1>4
  <2>2. o \notin {m} \cup attached /\ o \notin lost /\ o \notin treeIds
    BY <1>1, <2>1 DEF ch
  <2>3. o \notin logIds[ChatOf[o]]
    BY <1>1, <1>3, <2>1
  <2>4. at[o] # "sent"
    BY <2>1, <2>2
  <2>5. o \notin Findable(ChatOf[o])
    BY <1>3, <2>1, <2>2, <2>3
  <2> QED  BY <1>2, <2>2, <2>4, <2>5 DEF KnownOrGone
<1>6. KnownAreUsed'
  <2> SUFFICES ASSUME NEW o \in MessageIds, o \in treeIds' \/ \E d \in Chats : o \in logIds'[d]
               PROVE  what[o] # "none"
    BY DEF KnownAreUsed
  <2>1. CASE o \in treeIds'
    BY <1>1, <1>2, <2>1 DEF KnownAreUsed
  <2>2. CASE \E d \in Chats : o \in logIds'[d]
    BY <1>1, <1>2, <2>2 DEF KnownAreUsed
  <2> QED  BY <2>1, <2>2
<1>7. AnswersFollow'
  BY <1>2 DEF AnswersFollow
<1>8. ClearKnows'
  <2> SUFFICES ASSUME NEW c \in Deleting, NEW o \in inChat, o \in Findable(ChatOf[c])'
               PROVE  o \in todo[c] \cup lost'
    BY DEF ClearKnows
  <2>1. c \in MessageIds /\ o \in MessageIds /\ ChatOf[o] = ChatOf[c]
    <3>1. c \in MessageIds /\ ChatOf[c] \in Chats /\ o \in MessageIds
      BY <1>2, <1>3 DEF Deleting
    <3>2. o \in logIds'[ChatOf[c]] => o \in OfChat(logIds'[ChatOf[c]], ChatOf[c])
      BY <1>1, <3>1 DEF LogAgrees, OfChat
    <3> QED  BY <3>1, <3>2 DEF Findable, OfChat
  <2>2. CASE o \in {m} \cup attached
    <3>1. c \in OfChat(Deleting, ch)
      BY <2>1, <2>2 DEF OfChat, ch
    <3> QED  BY <1>1, <2>2, <3>1
  <2>3. CASE o \notin {m} \cup attached
    <3>1. o \in Findable(ChatOf[o])
      BY <1>1, <1>3, <1>4, <2>1, <2>3
    <3> QED  BY <1>1, <1>2, <2>1, <2>3, <3>1 DEF ClearKnows
  <2> QED  BY <2>2, <2>3
<1>9. UnusedRest'
  BY <1>2 DEF UnusedRest
<1> QED  BY <1>1, <1>5, <1>6, <1>7, <1>8, <1>9 DEF LogInv

\* Every action keeps the invariant: a recording by RecordKeeps, a clear because
\* it has taken down all that is known before it deletes.
LEMMA LogStep == LogInv /\ [ChatLogNext]_chatLogVars => LogInv'
<1> SUFFICES ASSUME LogInv, [ChatLogNext]_chatLogVars PROVE LogInv'
  OBVIOUS
<1>0. LogTypeOK /\ KnownAreUsed /\ UnusedRest /\ AnswersFollow /\ KnownOrGone /\ ClearKnows /\ LogAgrees
  BY DEF LogInv
<1>a. \A o \in MessageIds :
         /\ ChatOf[o] \in Chats
         /\ o \in Findable(ChatOf[o]) <=> o \in treeIds \/ o \in logIds[ChatOf[o]]
  BY <1>0, FoundInChat
<1>b. ASSUME UNCHANGED <<logIds, treeIds>>
      PROVE  \A ch : Findable(ch)' = Findable(ch)
  BY <1>b DEF Findable, OfChat
<1>1. ASSUME NEW m \in MessageIds, NEW k \in {"prompt", "command", "clear"}, UserSends(m, k)
      PROVE  LogInv'
  <2>1. /\ what[m] = "none" /\ what' = [what EXCEPT ![m] = k]
        /\ at' = [at EXCEPT ![m] = "sent"] /\ inChat' = inChat \cup {m}
        /\ UNCHANGED <<answerTo, log, logIds, treeIds, todo, lost>>
    BY <1>1 DEF UserSends, IsNewId
  <2>2. m \notin treeIds /\ \A ch \in Chats : m \notin Findable(ch)
    BY <1>0, <2>1 DEF KnownAreUsed, Findable, OfChat
  <2>3. Deleting' \subseteq Deleting
    BY <1>0, <2>1 DEF Deleting, LogTypeOK
  <2>4. LogTypeOK'
    BY <1>0, <2>1 DEF LogTypeOK
  <2>5. LogAgrees'
    BY <1>0, <2>1 DEF LogAgrees
  <2>6. KnownAreUsed'
    BY <1>0, <2>1 DEF KnownAreUsed, LogTypeOK
  <2>7. AnswersFollow'
    BY <1>0, <2>1 DEF AnswersFollow, LogTypeOK
  <2>8. ClearKnows'
    <3>1. \A c \in Deleting : ChatOf[c] \in Chats
      BY <1>a DEF Deleting
    <3> QED  BY <1>0, <1>b, <2>1, <2>2, <2>3, <3>1 DEF ClearKnows
  <2>9. KnownOrGone'
    <3> SUFFICES ASSUME NEW o \in inChat' \ lost', at'[o] # "sent", o \notin Findable(ChatOf[o])
                 PROVE  \E c \in Deleting' : o \in todo'[c]
      BY <1>b, <2>1 DEF KnownOrGone
    <3>1. o # m /\ o \in inChat \ lost /\ at[o] # "sent"
      BY <1>0, <2>1 DEF LogTypeOK
    <3>2. PICK c \in Deleting : o \in todo[c]
      BY <1>0, <2>1, <3>1 DEF KnownOrGone
    <3>3. c # m
      <4>1. at[m] = "none"
        BY <1>0, <2>1 DEF UnusedRest
      <4> QED  BY <4>1 DEF Deleting
    <3>4. c \in Deleting'
      BY <1>0, <2>1, <3>3 DEF Deleting, LogTypeOK
    <3> QED  BY <2>1, <3>2, <3>4
  <2>0. UnusedRest'
    BY <1>0, <2>1 DEF UnusedRest, LogTypeOK
  <2> QED  BY <2>0, <2>4, <2>5, <2>6, <2>7, <2>8, <2>9 DEF LogInv
<1>2. ASSUME NEW m \in MessageIds, NEW n \in MessageIds, AnswerSent(m, n)
      PROVE  LogInv'
  <2>1. /\ at[m] = "asked" /\ what[n] = "none" /\ what' = [what EXCEPT ![n] = "answer"]
        /\ ChatOf[n] = ChatOf[m]
        /\ answerTo' = [answerTo EXCEPT ![n] = m]
        /\ at' = [at EXCEPT ![m] = "shown", ![n] = "sent"] /\ inChat' = inChat \cup {n}
        /\ UNCHANGED <<log, logIds, treeIds, todo, lost>>
    BY <1>2 DEF AnswerSent, IsNewId
  <2>2. /\ n \notin treeIds /\ \A ch \in Chats : n \notin Findable(ch)
        /\ at[n] = "none" /\ what[m] # "none" /\ n # m
    BY <1>0, <2>1 DEF KnownAreUsed, UnusedRest, Findable, OfChat
  <2>3. Deleting' = Deleting
    BY <1>0, <2>1, <2>2 DEF Deleting, LogTypeOK
  <2>4. LogTypeOK'
    <3>1. m \in 0..MaxMessages
      BY ChatLogAssumption DEF MessageIds
    <3> QED  BY <1>0, <2>1, <3>1 DEF LogTypeOK
  <2>5. LogAgrees'
    BY <1>0, <2>1 DEF LogAgrees
  <2>6. KnownAreUsed'
    BY <1>0, <2>1 DEF KnownAreUsed, LogTypeOK
  <2>7. AnswersFollow'
    BY <1>0, <2>1, <2>2 DEF AnswersFollow, LogTypeOK
  <2>8. ClearKnows'
    <3>1. \A c \in Deleting : ChatOf[c] \in Chats
      BY <1>a DEF Deleting
    <3> QED  BY <1>0, <1>b, <2>1, <2>2, <2>3, <3>1 DEF ClearKnows
  <2>9. KnownOrGone'
    <3> SUFFICES ASSUME NEW o \in inChat' \ lost', at'[o] # "sent", o \notin Findable(ChatOf[o])
                 PROVE  \E c \in Deleting' : o \in todo'[c]
      BY <1>b, <2>1 DEF KnownOrGone
    <3>1. o # n /\ o \in inChat \ lost /\ at[o] # "sent"
      BY <1>0, <2>1, <2>2 DEF LogTypeOK
    <3> QED  BY <1>0, <2>1, <2>3, <3>1 DEF KnownOrGone
  <2>0. UnusedRest'
    BY <1>0, <2>1, <2>2 DEF UnusedRest, LogTypeOK
  <2> QED  BY <2>0, <2>4, <2>5, <2>6, <2>7, <2>8, <2>9 DEF LogInv
<1>3. ASSUME NEW m \in MessageIds, Delivered(m)
      PROVE  LogInv'
  <2>1. /\ at[m] = "sent" /\ Record(m, {}) /\ UNCHANGED <<what, answerTo, inChat, todo>>
        /\ at' = [at EXCEPT ![m] = IF what[m] = "clear" THEN "stopping" ELSE "asked"]
    BY <1>3 DEF Delivered
  <2>2. what[m] # "none"
    BY <1>0, <2>1 DEF UnusedRest
  <2>3. LogTypeOK' /\ \A o \in MessageIds : o # m => at'[o] = at[o]
    <3>1. /\ log' \in [Chats -> Seq(MessageIds)] /\ logIds' \in [Chats -> SUBSET MessageIds]
          /\ treeIds' = treeIds
      <4> DEFINE none == {}
      <4>1. none \in SUBSET MessageIds /\ Record(m, none)
        BY <2>1
      <4> HIDE DEF none
      <4>2. /\ log' \in [Chats -> Seq(MessageIds)] /\ logIds' \in [Chats -> SUBSET MessageIds]
            /\ treeIds' = treeIds \cup none
        BY <4>1, RecordFacts
      <4> QED  BY <4>2 DEF none
    <3> QED  BY <1>0, <2>1, <3>1 DEF LogTypeOK
  <2>4. at'[m] \in {"stopping", "asked"}
    BY <1>0, <2>1 DEF LogTypeOK
  <2>5. Deleting' = Deleting
    BY <2>1, <2>3, <2>4 DEF Deleting
  <2>6. /\ \A o \in MessageIds : at'[o] # "sent" => at[o] # "sent" \/ o \in {m}
        /\ \A o \in MessageIds : at'[o] = "sent" => at[o] = "sent"
        /\ \A o \in MessageIds : what[o] = "none" => at'[o] = "none"
        /\ \A o \in MessageIds : at[o] \in {"shown", "done"} => at'[o] \in {"shown", "done"}
    BY <1>0, <2>1, <2>2, <2>3, <2>4 DEF UnusedRest
  <2> QED  BY <2>1, <2>2, <2>3, <2>5, <2>6, RecordKeeps
<1>4. ASSUME NEW m \in MessageIds, AnswerRecorded(m)
      PROVE  LogInv'
  <2> DEFINE p == answerTo[m]
             attached == IF what[p] = "prompt" THEN {p, m} ELSE {}
  <2>1. /\ at[m] = "sent" /\ what[m] = "answer" /\ Record(m, attached)
        /\ UNCHANGED <<what, answerTo, inChat, todo>>
        /\ at' = [at EXCEPT ![p] = "done", ![m] = "done"]
    BY <1>4 DEF AnswerRecorded
  <2>2. /\ p \in MessageIds /\ ChatOf[p] = ChatOf[m] /\ what[p] # "none"
        /\ at[p] \in {"shown", "done"} /\ what[m] # "none"
    BY <1>0, <2>1 DEF AnswersFollow
  <2> HIDE DEF p
  <2>7. /\ attached \in SUBSET MessageIds
        /\ \A o \in {m} \cup attached : what[o] # "none" /\ ChatOf[o] = ChatOf[m]
    BY <2>2
  <2>3. /\ LogTypeOK' /\ \A o \in MessageIds : o \notin {m, p} => at'[o] = at[o]
        /\ at'[m] = "done" /\ at'[p] = "done"
    <3>1. /\ log' \in [Chats -> Seq(MessageIds)] /\ logIds' \in [Chats -> SUBSET MessageIds]
          /\ treeIds' = treeIds \cup attached
      BY <2>1, <2>7, RecordFacts
    <3> QED  BY <1>0, <2>1, <2>2, <2>7, <3>1 DEF LogTypeOK
  <2>5. Deleting' = Deleting
    BY <2>1, <2>2, <2>3 DEF Deleting
  <2>6. /\ \A o \in MessageIds : at'[o] # "sent" => at[o] # "sent" \/ o \in {m} \cup attached
        /\ \A o \in MessageIds : at'[o] = "sent" => at[o] = "sent"
        /\ \A o \in MessageIds : what[o] = "none" => at'[o] = "none"
        /\ \A o \in MessageIds : at[o] \in {"shown", "done"} => at'[o] \in {"shown", "done"}
    BY <1>0, <2>1, <2>2, <2>3 DEF UnusedRest
  <2> HIDE DEF attached
  <2> QED  BY <2>1, <2>3, <2>5, <2>6, <2>7, RecordKeeps
<1>5. ASSUME NEW m \in MessageIds, AnswerFails(m)
      PROVE  LogInv'
  <2>1. /\ at[m] = "asked" /\ at' = [at EXCEPT ![m] = "done"]
        /\ UNCHANGED <<what, answerTo, inChat, log, logIds, treeIds, todo, lost>>
    BY <1>5 DEF AnswerFails
  <2>2. Deleting' = Deleting /\ LogTypeOK'
    BY <1>0, <2>1 DEF Deleting, LogTypeOK
  <2>3. KnownOrGone' /\ UnusedRest' /\ AnswersFollow'
    BY <1>0, <1>b, <2>1, <2>2 DEF KnownOrGone, UnusedRest, AnswersFollow, LogTypeOK
  <2>4. LogAgrees' /\ KnownAreUsed' /\ ClearKnows'
    BY <1>0, <1>b, <2>1, <2>2 DEF LogAgrees, KnownAreUsed, ClearKnows
  <2> QED  BY <2>2, <2>3, <2>4 DEF LogInv
<1>6. ASSUME NEW m \in MessageIds, CollectIds(m)
      PROVE  LogInv'
  <2>1. /\ at[m] = "stopping" /\ at' = [at EXCEPT ![m] = "deleting"]
        /\ todo' = [todo EXCEPT ![m] =
                       ToSet(log[ChatOf[m]]) \cup OfChat(treeIds, ChatOf[m]) \cup {m}]
        /\ UNCHANGED <<what, answerTo, inChat, log, logIds, treeIds, lost>>
    BY <1>6 DEF CollectIds
  <2>2. Deleting' = Deleting \cup {m} /\ m \notin Deleting
    BY <1>0, <2>1 DEF Deleting, LogTypeOK
  <2>3. /\ ToSet(log[ChatOf[m]]) \cup OfChat(treeIds, ChatOf[m]) = Findable(ChatOf[m])
        /\ Findable(ChatOf[m]) \subseteq MessageIds
    BY <1>0, <1>a DEF LogAgrees, LogTypeOK, Findable, OfChat
  <2>4. LogTypeOK'
    BY <1>0, <2>1, <2>3 DEF LogTypeOK
  <2>5. /\ todo'[m] = Findable(ChatOf[m]) \cup {m}
        /\ \A c \in Deleting : todo'[c] = todo[c]
    BY <1>0, <2>1, <2>2, <2>3 DEF LogTypeOK, Deleting
  <2>6. KnownOrGone'
    BY <1>0, <1>b, <2>1, <2>2, <2>5 DEF KnownOrGone, LogTypeOK
  <2>7. UnusedRest' /\ AnswersFollow'
    BY <1>0, <2>1 DEF UnusedRest, AnswersFollow, LogTypeOK
  <2>8. ClearKnows'
    BY <1>0, <1>b, <2>1, <2>2, <2>5 DEF ClearKnows
  <2>9. LogAgrees' /\ KnownAreUsed'
    BY <1>0, <2>1 DEF LogAgrees, KnownAreUsed
  <2> QED  BY <2>4, <2>6, <2>7, <2>8, <2>9 DEF LogInv
<1>7. ASSUME NEW m \in MessageIds, DeleteChunk(m)
      PROVE  LogInv'
  <2>1. PICK gone \in SUBSET Chunk(m), skipped \in {Chunk(m), todo[m]} :
           /\ inChat' = inChat \ gone
           /\ lost' = (lost \ gone) \cup ((inChat \cap skipped) \ gone)
           /\ todo' = [todo EXCEPT ![m] = todo[m] \ skipped]
    BY <1>7 DEF DeleteChunk
  <2>2. m \in Deleting /\ UNCHANGED <<what, at, answerTo, log, logIds, treeIds>>
    BY <1>7 DEF DeleteChunk, Deleting
  <2>3. Deleting' = Deleting
    BY <2>2 DEF Deleting
  <2>4. LogTypeOK'
    BY <1>0, <2>1, <2>2 DEF LogTypeOK
  <2>5. /\ \A c \in Deleting : c # m => todo'[c] = todo[c]
        /\ todo'[m] = todo[m] \ skipped
    BY <1>0, <2>1 DEF LogTypeOK, Deleting
  <2>6. KnownOrGone'
    BY <1>0, <1>b, <2>1, <2>2, <2>3, <2>5 DEF KnownOrGone
  <2>7. ClearKnows'
    BY <1>0, <1>b, <2>1, <2>2, <2>3, <2>5 DEF ClearKnows
  <2>8. UnusedRest' /\ AnswersFollow' /\ LogAgrees' /\ KnownAreUsed'
    BY <1>0, <2>2 DEF UnusedRest, AnswersFollow, LogAgrees, KnownAreUsed
  <2> QED  BY <2>4, <2>6, <2>7, <2>8 DEF LogInv
<1>8. ASSUME NEW m \in MessageIds, ClearEnds(m)
      PROVE  LogInv'
  <2> DEFINE unlisted == {o \in inChat : /\ ChatOf[o] # ChatOf[m] /\ o \in Findable(ChatOf[o])
                                          /\ \A d \in Deleting : o \notin todo[d]}
  <2>1. /\ at[m] = "deleting" /\ todo[m] = {} /\ at' = [at EXCEPT ![m] = "done"]
        /\ log' = [ch \in Chats |-> <<>>] /\ logIds' = [ch \in Chats |-> {}] /\ treeIds' = {}
        /\ lost' = lost \cup unlisted
        /\ UNCHANGED <<what, answerTo, inChat, todo>>
    BY <1>8 DEF ClearEnds
  <2>2. Deleting' = Deleting \ {m} /\ m \in Deleting
    BY <1>0, <2>1 DEF Deleting, LogTypeOK
  <2>3. LogTypeOK'
    BY <1>0, <2>1 DEF LogTypeOK
  <2>4. KnownOrGone'
    <3> SUFFICES ASSUME NEW o \in inChat \ lost', at'[o] # "sent"
                 PROVE  \E c \in Deleting' : o \in todo[c]
      BY <2>1 DEF KnownOrGone
    <3>1. o \in inChat \ lost /\ o \notin unlisted /\ at[o] # "sent" /\ o \in MessageIds
      BY <1>0, <2>1 DEF LogTypeOK
    <3>2. \E c \in Deleting : o \in todo[c]
      <4>1. CASE o \notin Findable(ChatOf[o])
        BY <1>0, <3>1, <4>1 DEF KnownOrGone
      <4>2. CASE o \in Findable(ChatOf[o]) /\ ChatOf[o] # ChatOf[m]
        BY <3>1, <4>2
      <4>3. CASE o \in Findable(ChatOf[o]) /\ ChatOf[o] = ChatOf[m]
        BY <1>0, <2>2, <3>1, <4>3 DEF ClearKnows
      <4> QED  BY <4>1, <4>2, <4>3
    <3> QED  BY <2>1, <2>2, <3>2
  <2> HIDE DEF unlisted
  <2>5. LogAgrees'
    BY <2>1, ChatLogAssumption DEF LogAgrees, ToSet, OfChat
  <2>6. KnownAreUsed' /\ ClearKnows'
    <3>1. \A c \in MessageIds : Findable(ChatOf[c])' = {}
      BY <1>a, <2>1 DEF Findable, OfChat
    <3> QED  BY <2>1, <2>2, <3>1 DEF KnownAreUsed, ClearKnows, Deleting
  <2>7. UnusedRest' /\ AnswersFollow'
    BY <1>0, <2>1 DEF UnusedRest, AnswersFollow, LogTypeOK
  <2> QED  BY <2>3, <2>4, <2>5, <2>6, <2>7 DEF LogInv
<1>9. CASE UNCHANGED chatLogVars
  <2>1. UNCHANGED <<what, at, answerTo, inChat, log, logIds, treeIds, todo, lost>>
    BY <1>9 DEF chatLogVars
  <2>2. LogTypeOK' /\ LogAgrees' /\ KnownAreUsed' /\ UnusedRest' /\ AnswersFollow'
    BY <1>0, <2>1 DEF LogTypeOK, LogAgrees, KnownAreUsed, UnusedRest, AnswersFollow
  <2>3. KnownOrGone' /\ ClearKnows'
    BY <1>0, <1>b, <2>1 DEF KnownOrGone, ClearKnows, Deleting
  <2> QED  BY <2>2, <2>3 DEF LogInv
<1> QED  BY <1>1, <1>2, <1>3, <1>4, <1>5, <1>6, <1>7, <1>8, <1>9 DEF ChatLogNext

\* Empty chats.
LEMMA LogStart == LogInit => LogInv
<1> SUFFICES ASSUME LogInit PROVE LogInv
  OBVIOUS
<1>1. LogTypeOK
  BY ChatLogAssumption DEF LogInit, LogTypeOK
<1>2. LogAgrees /\ KnownOrGone /\ KnownAreUsed /\ UnusedRest /\ AnswersFollow
  BY ChatLogAssumption DEF LogInit, LogAgrees, KnownOrGone, KnownAreUsed, UnusedRest,
                           AnswersFollow, ToSet, OfChat
<1>3. ClearKnows
  BY DEF LogInit, ClearKnows
<1> QED  BY <1>1, <1>2, <1>3 DEF LogInv

\* Whatever users, answers, the clears of every chat and the cap do, logs and indices
\* agree, and a message that a chat shows is found by a /clear of that chat unless the
\* cap, a failing delete, or a /clear here or in another chat made it be forgotten
\* (messaging/session.py, messaging/commands.py).
THEOREM ChatIsKnown == LogInit /\ [][ChatLogNext]_chatLogVars => []ChatLogKept
<1>1. LogInv => ChatLogKept
  BY DEF LogInv, ChatLogKept
<1> QED  BY <1>1, LogStart, LogStep, PTL

-----------------------------------------------------------------------------
(* The outgoing queue.                                                     *)

Entered == {c \in Calls : phase[c] \notin {"none", "made"}}

\* Calls are made in their order, and tasks begin in that order too.
MadeInOrder ==
    /\ \A c, d \in Calls : d < c /\ phase[c] # "none" => phase[d] # "none"
    /\ \A c \in forgotten : phase[c] # "none"
    /\ \A c \in Calls : phase[c] = "made" => c \in forgotten
    /\ \A c \in Calls, d \in forgotten : c < d /\ phase[c] = "made" => phase[d] = "made"

MayRepeat == \A c \in Calls : phase[c] = "backoff" => attempt[c] < MaxRetries

\* What is queued under a key is the newest call made for it, or one that came late.
MapNewest ==
    \A k \in Keys : map[k] # NoEntry =>
        /\ KeyOf[map[k].func] = k /\ map[k].func \in Entered
        /\ \A c \in Calls : KeyOf[c] = k /\ c \in Entered => c <= map[k].func \/ map[k].func \in Late
        /\ \A c \in map[k].waiters : KeyOf[c] = k /\ c \in Entered

ShownEntered ==
    \A k \in Keys : shown[k] # NoCall => KeyOf[shown[k]] = k /\ shown[k] \in Entered

\* The worker holds a call no older than what is shown and than all who wait
\* for it, unless it came late.
WorkerHolds ==
    /\ worker.pc \in {"idle", "stopped"} => worker.waiters = {}
    /\ worker.pc \notin {"idle", "stopped"} =>
         /\ worker.func \in Calls /\ worker.func \in Entered
         /\ shown[KeyOf[worker.func]] <= worker.func \/ worker.func \in Late
         /\ \A c \in worker.waiters :
              /\ KeyOf[c] = KeyOf[worker.func]
              /\ c <= worker.func \/ worker.func \in Late

\* A worker that is past its pause calls nothing before the pause is over.
PauseIsOver ==
    /\ worker.pc = "paused" => worker.until = pausedUntil
    /\ worker.pc \in {"acquiring", "throttled", "calling"} => pausedUntil <= now

OutboxInv ==
    /\ OutboxTypeOK /\ WindowInv /\ QueueIsMap /\ WaiterHeld /\ AnswerIsOwn
    /\ MadeInOrder /\ MayRepeat /\ MapNewest /\ ShownEntered /\ WorkerHolds /\ PauseIsOver

\* Calls are numbered from one, so that no call is NoCall.
LEMMA CallsAreNumbers ==
    Calls \subseteq Nat \ {0} /\ NoCall \notin Calls /\ \A c \in Calls : KeyOf[c] \in Keys
BY MessagingLimiterAssumption DEF Calls, NoCall

\* An entry of the map is a function and its waiters, and never NoEntry.
LEMMA EntriesAreEntries ==
    /\ NoEntry \notin Entries
    /\ \A e \in Entries : e.func \in Calls /\ e.waiters \in SUBSET Calls
BY MessagingLimiterAssumption DEF Entries

\* A call that came late stays one.
LEMMA LateStays ==
    ASSUME OutboxTypeOK, attempt' \in [Calls -> 0..MaxRetries],
           \A d \in Calls : attempt'[d] >= attempt[d], forgotten \subseteq forgotten',
           \A d \in Calls \ forgotten : phase[d] # "none" => d \notin forgotten' /\ phase'[d] # "none"
    PROVE  Late \subseteq Late'
<1> SUFFICES ASSUME NEW c \in Calls, c \in Late
             PROVE  attempt'[c] > 0 \/ (c \in forgotten' /\ \E d \in Calls \ forgotten' :
                                            phase'[d] # "none" /\ d > c /\ KeyOf[d] = KeyOf[c])
  BY DEF Late
<1>1. CASE attempt[c] > 0
  <2>1. attempt[c] \in Nat /\ attempt'[c] \in Nat /\ attempt'[c] >= attempt[c]
    BY MessagingLimiterAssumption DEF OutboxTypeOK
  <2> QED  BY <1>1, <2>1
<1>2. CASE c \in forgotten /\ \E d \in Calls \ forgotten : phase[d] # "none" /\ d > c /\ KeyOf[d] = KeyOf[c]
  BY <1>2
<1> QED  BY <1>1, <1>2 DEF Late

\* A call that enters the queue, for the first time or again.
LEMMA EnqueueKeeps ==
    ASSUME OutboxInv, NEW c \in Calls, Enqueue(c), WorkerFrame, now' = now,
           phase' = [phase EXCEPT ![c] = "waiting"], UNCHANGED <<forgotten, wake, answer>>,
           attempt' \in [Calls -> 0..MaxRetries], \A d \in Calls : attempt'[d] >= attempt[d],
           \A d \in Calls \ {c} : attempt'[d] = attempt[d],
           \A d \in Calls : d < c => phase[d] # "none",
           \A d \in Calls : d < c /\ phase[d] = "made" => c \notin forgotten,
           \A d \in Calls : KeyOf[d] = KeyOf[c] /\ d \in Entered => d <= c \/ c \in Late'
    PROVE  OutboxInv'
<1> USE CallsAreNumbers, EntriesAreEntries
<1> DEFINE k == KeyOf[c]
           others == IF map[k] = NoEntry THEN {} ELSE map[k].waiters
           queued == [func |-> c, waiters |-> others \cup {c}]
<1>0. /\ OutboxTypeOK /\ WindowInv /\ QueueIsMap /\ WaiterHeld /\ AnswerIsOwn
      /\ MadeInOrder /\ MayRepeat /\ MapNewest /\ ShownEntered /\ WorkerHolds /\ PauseIsOver
  BY DEF OutboxInv
<1>1. /\ map' = [map EXCEPT ![k] = queued] /\ k \in Keys
      /\ queue' = IF map[k] = NoEntry THEN Append(queue, k) ELSE queue
      /\ UNCHANGED <<granted, dropped, worker, pausedUntil, stopped, shown>>
  BY DEF Enqueue, WorkerFrame, window
<1>2. /\ map \in [Keys -> Entries \cup {NoEntry}] /\ queue \in Seq(Keys)
      /\ phase \in [Calls -> Phases] /\ forgotten \subseteq Calls
      /\ attempt \in [Calls -> 0..MaxRetries]
  BY <1>0 DEF OutboxTypeOK
<1>3. others \in SUBSET Calls /\ queued \in Entries
  BY <1>1, <1>2 DEF Entries
<1>4. /\ queued # NoEntry /\ queued.func = c /\ queued.waiters = others \cup {c}
      /\ \A w \in others : map[k] # NoEntry /\ w \in map[k].waiters
  BY <1>3
<1> HIDE DEF queued, others
<1>5. /\ map'[k] = queued /\ \A j \in Keys \ {k} : map'[j] = map[j]
      /\ map' \in [Keys -> Entries \cup {NoEntry}]
  BY <1>1, <1>2, <1>3
<1>6. /\ phase' \in [Calls -> Phases] /\ phase'[c] = "waiting" /\ \A d \in Calls \ {c} : phase'[d] = phase[d]
  BY <1>2 DEF Phases
<1>7. Late \subseteq Late' /\ Late \subseteq Calls
  BY <1>0, <1>6, LateStays DEF Late
<1>8. Entered \subseteq Entered' /\ Entered \subseteq Calls
  BY <1>6 DEF Entered
<1>a. OutboxTypeOK'
  <2>1. queue' \in Seq(Keys)
    BY <1>1, <1>2
  <2> QED  BY <1>0, <1>1, <1>5, <1>6, <2>1 DEF OutboxTypeOK, WindowType
<1>b. WindowInv'
  BY <1>0, <1>1, TimeKeeps DEF window
<1>c. QueueIsMap'
  <2>1. \A i, j \in 1..Len(queue) : queue[i] = queue[j] => i = j
    BY <1>0, <1>2 DEF QueueIsMap
  <2>2. \A j \in Keys : map[j] # NoEntry <=> \E i \in 1..Len(queue) : queue[i] = j
    BY <1>0, <1>2 DEF QueueIsMap
  <2>3. CASE map[k] = NoEntry
    <3>1. /\ queue' \in Seq(Keys) /\ Len(queue) \in Nat /\ Len(queue') = Len(queue) + 1
          /\ queue'[Len(queue) + 1] = k /\ \A i \in 1..Len(queue) : queue'[i] = queue[i]
      BY <1>1, <1>2, <2>3
    <3>2. \A i \in 1..Len(queue') : i \in 1..Len(queue) \/ i = Len(queue) + 1
      BY <3>1
    <3>3. \A i, j \in 1..Len(queue') : queue'[i] = queue'[j] => i = j
      BY <2>1, <2>2, <2>3, <3>1, <3>2, <1>1
    <3>4. ASSUME NEW j \in Keys
          PROVE  map'[j] # NoEntry <=> \E i \in 1..Len(queue') : queue'[i] = j
      <4>1. CASE j = k
        <5>1. Len(queue) + 1 \in 1..Len(queue')
          BY <3>1
        <5> QED  BY <4>1, <5>1, <3>1, <1>4, <1>5
      <4>2. CASE j # k
        <5>1. \A i \in 1..Len(queue) : i \in 1..Len(queue')
          BY <3>1
        <5> QED  BY SMTT(30), <4>2, <5>1, <2>2, <3>1, <3>2, <1>5
      <4> QED  BY <4>1, <4>2
    <3>5. DOMAIN queue' = 1..Len(queue')
      BY <3>1
    <3> QED  BY <3>3, <3>4, <3>5 DEF QueueIsMap
  <2>4. CASE map[k] # NoEntry
    BY <1>0, <1>1, <1>4, <1>5, <2>4 DEF QueueIsMap
  <2> QED  BY <2>3, <2>4
<1>d. WaiterHeld'
  <2> SUFFICES ASSUME NEW d \in Calls, phase'[d] = "waiting", ~stopped, d \notin worker.waiters
               PROVE  map'[KeyOf[d]] # NoEntry /\ d \in map'[KeyOf[d]].waiters
    BY <1>1 DEF WaiterHeld
  <2>1. CASE d = c
    BY <2>1, <1>4, <1>5
  <2>2. CASE d # c
    <3>1. map[KeyOf[d]] # NoEntry /\ d \in map[KeyOf[d]].waiters
      BY <1>0, <1>6, <2>2 DEF WaiterHeld
    <3>2. CASE KeyOf[d] = k
      BY <3>1, <3>2, <1>4, <1>5 DEF others
    <3>3. CASE KeyOf[d] # k
      BY <3>1, <3>3, <1>5
    <3> QED  BY <3>2, <3>3
  <2> QED  BY <2>1, <2>2
<1>e. AnswerIsOwn'
  <2>1. \A d \in Calls : phase'[d] = "answered" => phase[d] = "answered"
    BY <1>6
  <2> QED  BY <1>0, <1>7, <2>1 DEF AnswerIsOwn
<1>f. MadeInOrder' /\ MayRepeat'
  BY <1>0, <1>2, <1>6 DEF MadeInOrder, MayRepeat
<1>g. MapNewest'
  <2> SUFFICES ASSUME NEW j \in Keys, map'[j] # NoEntry
               PROVE  /\ KeyOf[map'[j].func] = j /\ map'[j].func \in Entered'
                      /\ \A d \in Calls : KeyOf[d] = j /\ d \in Entered' =>
                             d <= map'[j].func \/ map'[j].func \in Late'
                      /\ \A d \in map'[j].waiters : KeyOf[d] = j /\ d \in Entered'
    BY DEF MapNewest
  <2>1. CASE j = k
    <3>1. map'[j].func = c /\ map'[j].waiters = others \cup {c}
      BY <2>1, <1>4, <1>5
    <3>2. \A d \in others : d \in Calls /\ KeyOf[d] = k /\ d \in Entered
      BY <1>0, <1>1, <1>3, <1>4 DEF MapNewest
    <3>3. c \in Entered'
      BY <1>6 DEF Entered
    <3>4. \A d \in Calls : d # c /\ d \in Entered' => d \in Entered
      BY <1>6 DEF Entered
    <3>5. \A d \in Calls : KeyOf[d] = j /\ d \in Entered' => d <= c \/ c \in Late'
      <4> TAKE d \in Calls
      <4>1. CASE d = c
        BY <4>1
      <4>2. CASE d # c
        BY <4>2, <2>1, <3>4
      <4> QED  BY <4>1, <4>2
    <3>6. \A d \in others \cup {c} : KeyOf[d] = j /\ d \in Entered'
      BY <2>1, <3>2, <3>3, <1>8
    <3> QED  BY <2>1, <3>1, <3>3, <3>5, <3>6
  <2>2. CASE j # k
    <3>1. map'[j] = map[j] /\ map[j] # NoEntry /\ map[j].func \in Calls /\ map[j].waiters \in SUBSET Calls
      BY <1>2, <1>5, <2>2
    <3>2. \A d \in Calls : KeyOf[d] = j /\ d \in Entered' => d \in Entered
      BY <1>6, <2>2 DEF Entered
    <3> QED  BY <1>0, <1>7, <1>8, <3>1, <3>2 DEF MapNewest
  <2> QED  BY <2>1, <2>2
<1>h. ShownEntered'
  <2>1. \A j \in Keys : shown[j] # NoCall => shown[j] \in Calls
    BY <1>0 DEF OutboxTypeOK
  <2> QED  BY <1>0, <1>1, <1>8, <2>1 DEF ShownEntered
<1>i. WorkerHolds'
  <2>1. worker.waiters \subseteq Calls
    BY <1>0 DEF OutboxTypeOK
  <2> SUFFICES ASSUME worker.pc \notin {"idle", "stopped"}
               PROVE  WorkerHolds'
    BY <1>0, <1>1 DEF WorkerHolds
  <2>2. worker.func \in Calls
    BY <1>0 DEF WorkerHolds
  <2>3. worker.func \in Entered' /\ (worker.func \in Late => worker.func \in Late')
    BY <1>0, <1>7, <1>8, <2>2 DEF WorkerHolds
  <2> QED  BY <1>0, <1>1, <2>1, <2>2, <2>3 DEF WorkerHolds
<1>j. PauseIsOver'
  BY <1>0, <1>1 DEF PauseIsOver
<1> QED  BY <1>a, <1>b, <1>c, <1>d, <1>e, <1>f, <1>g, <1>h, <1>i, <1>j DEF OutboxInv

\* A call enters the queue in one of three ways, and none of them lets an
\* older call take the place of a newer one unless it is late.
LEMMA MakeAwaitedKeeps ==
    ASSUME OutboxInv, NEW c \in Calls, MakeAwaited(c) PROVE OutboxInv'
<1>1. /\ phase[c] = "none" /\ \A d \in Calls : d < c => phase[d] # "none"
      /\ Enqueue(c) /\ WorkerFrame /\ phase' = [phase EXCEPT ![c] = "waiting"]
      /\ UNCHANGED <<now, forgotten, attempt, wake, answer>>
  BY DEF MakeAwaited, Next1
<1>2. attempt \in [Calls -> 0..MaxRetries] /\ MadeInOrder
  BY DEF OutboxInv, OutboxTypeOK
<1>3. c \notin forgotten
  BY <1>1, <1>2 DEF MadeInOrder
<1>4. \A d \in Calls : d \in Entered => d <= c
  BY <1>1, <1>2, CallsAreNumbers DEF MadeInOrder, Entered
<1>5. \A d \in Calls : attempt'[d] >= attempt[d]
  BY <1>1, <1>2, MessagingLimiterAssumption
<1> QED  BY <1>1, <1>2, <1>3, <1>4, <1>5, EnqueueKeeps

\* A task begins while no older one waits to: only an awaited call of its key
\* can be in front of it, and then it is late.
LEMMA BeginKeeps ==
    ASSUME OutboxInv, NEW c \in Calls, Begin(c) PROVE OutboxInv'
<1>1. /\ phase[c] = "made" /\ \A d \in Calls : phase[d] = "made" => c <= d
      /\ Enqueue(c) /\ WorkerFrame /\ phase' = [phase EXCEPT ![c] = "waiting"]
      /\ UNCHANGED <<now, forgotten, attempt, wake, answer>>
  BY DEF Begin
<1>2. /\ attempt \in [Calls -> 0..MaxRetries] /\ phase \in [Calls -> Phases]
      /\ MadeInOrder /\ forgotten \subseteq Calls
  BY DEF OutboxInv, OutboxTypeOK
<1>3. c \in forgotten /\ \A d \in Calls : d < c => phase[d] # "none"
  BY <1>1, <1>2 DEF MadeInOrder
<1>4. \A d \in Calls : d < c => phase[d] # "made"
  BY <1>1, CallsAreNumbers
<1>5. \A d \in Calls : KeyOf[d] = KeyOf[c] /\ d \in Entered => d <= c \/ c \in Late'
  <2> SUFFICES ASSUME NEW d \in Calls, KeyOf[d] = KeyOf[c], d \in Entered, c < d
               PROVE  c \in Late'
    BY CallsAreNumbers
  <2>1. d \notin forgotten
    BY <1>1, <1>2 DEF MadeInOrder, Entered
  <2>2. phase'[d] # "none"
    BY <1>1, <1>2 DEF Entered
  <2> QED  BY <1>1, <1>3, <2>1, <2>2 DEF Late
<1>6. \A d \in Calls : attempt'[d] >= attempt[d]
  BY <1>1, <1>2, MessagingLimiterAssumption
<1> QED  BY <1>1, <1>2, <1>3, <1>4, <1>5, <1>6, EnqueueKeeps

\* A repetition is late by definition.
LEMMA RepeatKeeps ==
    ASSUME OutboxInv, NEW c \in Calls, Repeat(c) PROVE OutboxInv'
<1>1. /\ phase[c] = "backoff" /\ attempt' = [attempt EXCEPT ![c] = @ + 1]
      /\ Enqueue(c) /\ WorkerFrame /\ phase' = [phase EXCEPT ![c] = "waiting"]
      /\ UNCHANGED <<now, forgotten, wake, answer>>
  BY DEF Repeat
<1>2. /\ attempt \in [Calls -> 0..MaxRetries] /\ phase \in [Calls -> Phases]
      /\ MadeInOrder /\ forgotten \subseteq Calls /\ MayRepeat
  BY DEF OutboxInv, OutboxTypeOK
<1>3. \A d \in Calls : d < c => phase[d] # "none"
  BY <1>1, <1>2 DEF MadeInOrder
<1>4. \A d \in Calls : d < c /\ phase[d] = "made" => c \notin forgotten
  BY <1>1, <1>2 DEF MadeInOrder
<1>5. /\ attempt' \in [Calls -> 0..MaxRetries] /\ attempt'[c] > 0
      /\ \A d \in Calls : attempt'[d] >= attempt[d]
      /\ \A d \in Calls \ {c} : attempt'[d] = attempt[d]
  BY <1>1, <1>2, MessagingLimiterAssumption DEF MayRepeat
<1>6. c \in Late'
  BY <1>5 DEF Late
<1> QED  BY <1>1, <1>3, <1>4, <1>5, <1>6, EnqueueKeeps

\* What is queued, shown and held stays right when only callers change.
LEMMA QueueStays ==
    ASSUME OutboxInv, UNCHANGED <<queue, map>>, Late \subseteq Late', Entered' = Entered
    PROVE  /\ QueueIsMap' /\ MapNewest'
           /\ shown' = shown => ShownEntered'
           /\ UNCHANGED <<shown, worker>> => WorkerHolds'
<1>0. QueueIsMap /\ MapNewest /\ ShownEntered /\ WorkerHolds
  BY DEF OutboxInv
<1>1. QueueIsMap'
  BY <1>0 DEF QueueIsMap
<1>2. MapNewest'
  BY <1>0 DEF MapNewest
<1>3. ASSUME shown' = shown PROVE ShownEntered'
  BY <1>0, <1>3 DEF ShownEntered
<1>4. ASSUME UNCHANGED <<shown, worker>> PROVE WorkerHolds'
  BY <1>0, <1>4 DEF WorkerHolds
<1> QED  BY <1>1, <1>2, <1>3, <1>4

\* A task that is created but did not begin has touched nothing yet.
LEMMA MakeForgottenKeeps ==
    ASSUME OutboxInv, NEW c \in Calls, MakeForgotten(c) PROVE OutboxInv'
<1>0. /\ OutboxTypeOK /\ WindowInv /\ QueueIsMap /\ WaiterHeld /\ AnswerIsOwn
      /\ MadeInOrder /\ MayRepeat /\ MapNewest /\ ShownEntered /\ WorkerHolds /\ PauseIsOver
  BY DEF OutboxInv
<1>1. /\ phase[c] = "none" /\ \A d \in Calls : d < c => phase[d] # "none"
      /\ phase' = [phase EXCEPT ![c] = "made"] /\ forgotten' = forgotten \cup {c}
      /\ UNCHANGED <<now, granted, dropped, worker, pausedUntil, stopped, shown, queue, map,
                     attempt, wake, answer>>
  BY DEF MakeForgotten, Next1, WorkerFrame, window
<1>2. /\ phase' \in [Calls -> Phases] /\ phase'[c] = "made"
      /\ \A d \in Calls \ {c} : phase'[d] = phase[d]
  BY <1>0, <1>1 DEF OutboxTypeOK, Phases
<1>3. Entered' = Entered
  BY <1>1, <1>2 DEF Entered
<1>4. Late \subseteq Late'
  <2>1. attempt \in [Calls -> 0..MaxRetries]
    BY <1>0 DEF OutboxTypeOK
  <2> QED  BY <1>0, <1>1, <1>2, <2>1, MessagingLimiterAssumption, LateStays
<1>a. OutboxTypeOK'
  BY <1>0, <1>1, <1>2 DEF OutboxTypeOK, WindowType
<1>b. WindowInv'
  BY <1>0, <1>1, TimeKeeps DEF window
<1>c. QueueIsMap' /\ MapNewest' /\ ShownEntered' /\ WorkerHolds'
  BY <1>1, <1>3, <1>4, QueueStays
<1>d. WaiterHeld'
  BY <1>0, <1>1, <1>2 DEF WaiterHeld
<1>e. AnswerIsOwn'
  BY <1>0, <1>1, <1>2, <1>4 DEF AnswerIsOwn
<1>f. MadeInOrder'
  <2>1. /\ \A b, d \in Calls : d < b /\ phase[b] # "none" => phase[d] # "none"
        /\ \A b \in forgotten : phase[b] # "none"
        /\ \A b \in Calls : phase[b] = "made" => b \in forgotten
        /\ \A b \in Calls, d \in forgotten : b < d /\ phase[b] = "made" => phase[d] = "made"
        /\ forgotten \subseteq Calls
    BY <1>0 DEF MadeInOrder, OutboxTypeOK
  <2>2. \A b, d \in Calls : d < b /\ phase'[b] # "none" => phase'[d] # "none"
    <3> SUFFICES ASSUME NEW b \in Calls, NEW d \in Calls, d < b, phase'[b] # "none", d # c
                 PROVE  phase[d] # "none"
      BY <1>2
    <3> QED  BY <1>1, <1>2, <2>1
  <2>3. ASSUME NEW b \in Calls, NEW d \in forgotten', b < d, phase'[b] = "made"
        PROVE  phase'[d] = "made"
    <3>1. CASE d = c
      BY <3>1, <1>2
    <3>2. CASE d # c
      <4>1. d \in forgotten /\ phase[d] # "none"
        BY <3>2, <1>1, <2>1
      <4>2. b # c
        BY <4>1, <1>1, <2>1, <2>3
      <4> QED  BY <3>2, <4>1, <4>2, <1>2, <2>1, <2>3
    <3> QED  BY <3>1, <3>2
  <2> QED  BY <1>1, <1>2, <2>1, <2>2, <2>3 DEF MadeInOrder
<1>g. MayRepeat' /\ PauseIsOver'
  BY <1>0, <1>1, <1>2 DEF MayRepeat, PauseIsOver
<1> QED  BY <1>a, <1>b, <1>c, <1>d, <1>e, <1>f, <1>g DEF OutboxInv

\* A caller that was cancelled is still among the waiters, and no longer waits.
LEMMA CancelKeeps ==
    ASSUME OutboxInv, NEW c \in Calls, Cancel(c) PROVE OutboxInv'
<1>0. /\ OutboxTypeOK /\ WindowInv /\ QueueIsMap /\ WaiterHeld /\ AnswerIsOwn
      /\ MadeInOrder /\ MayRepeat /\ MapNewest /\ ShownEntered /\ WorkerHolds /\ PauseIsOver
  BY DEF OutboxInv
<1>1. /\ phase[c] = "waiting" /\ phase' = [phase EXCEPT ![c] = "cancelled"]
      /\ UNCHANGED <<now, granted, dropped, worker, pausedUntil, stopped, shown, queue, map,
                     forgotten, attempt, wake, answer>>
  BY DEF Cancel, WorkerFrame, window
<1>2. /\ phase' \in [Calls -> Phases] /\ phase'[c] = "cancelled"
      /\ \A d \in Calls \ {c} : phase'[d] = phase[d]
  BY <1>0, <1>1 DEF OutboxTypeOK, Phases
<1>3. Entered' = Entered
  BY <1>1, <1>2 DEF Entered
<1>4. Late \subseteq Late'
  <2>1. attempt \in [Calls -> 0..MaxRetries]
    BY <1>0 DEF OutboxTypeOK
  <2> QED  BY <1>0, <1>1, <1>2, <2>1, MessagingLimiterAssumption, LateStays
<1>a. OutboxTypeOK'
  BY <1>0, <1>1, <1>2 DEF OutboxTypeOK, WindowType
<1>b. WindowInv'
  BY <1>0, <1>1, TimeKeeps DEF window
<1>c. QueueIsMap' /\ MapNewest' /\ ShownEntered' /\ WorkerHolds'
  BY <1>1, <1>3, <1>4, QueueStays
<1>d. WaiterHeld'
  BY <1>0, <1>1, <1>2 DEF WaiterHeld
<1>e. AnswerIsOwn'
  BY <1>0, <1>1, <1>2, <1>4 DEF AnswerIsOwn
<1>f. MadeInOrder' /\ MayRepeat' /\ PauseIsOver'
  BY <1>0, <1>1, <1>2 DEF MadeInOrder, MayRepeat, PauseIsOver
<1> QED  BY <1>a, <1>b, <1>c, <1>d, <1>e, <1>f DEF OutboxInv

\* The worker takes the newest call of the oldest key: it goes on where the
\* queue left off, and no waiter is between the two.
LEMMA TakeKeeps ==
    ASSUME OutboxInv, Take PROVE OutboxInv'
<1> USE CallsAreNumbers, EntriesAreEntries
<1> DEFINE k == Head(queue)
           queued == map[k]
<1>0. /\ OutboxTypeOK /\ WindowInv /\ QueueIsMap /\ WaiterHeld /\ AnswerIsOwn
      /\ MadeInOrder /\ MayRepeat /\ MapNewest /\ ShownEntered /\ WorkerHolds /\ PauseIsOver
  BY DEF OutboxInv
<1>1. /\ worker.pc = "idle" /\ queue # <<>> /\ queue' = Tail(queue)
      /\ worker' = [pc |-> IF pausedUntil > now THEN "paused" ELSE "acquiring",
                    func |-> queued.func, waiters |-> queued.waiters, until |-> pausedUntil]
      /\ map' = [map EXCEPT ![k] = NoEntry]
      /\ UNCHANGED <<now, granted, dropped, pausedUntil, stopped, phase, forgotten, attempt,
                     wake, answer, shown>>
  BY DEF Take, CallFrame, callers, window
<1>2. /\ map \in [Keys -> Entries \cup {NoEntry}] /\ queue \in Seq(Keys)
      /\ shown \in [Keys -> Calls \cup {NoCall}] /\ now \in Nat /\ pausedUntil \in Nat
  BY <1>0 DEF OutboxTypeOK, WindowType
<1>3. /\ Len(queue) \in Nat \ {0} /\ k \in Keys /\ k = queue[1] /\ queue' \in Seq(Keys)
      /\ Len(queue') = Len(queue) - 1 /\ \A i \in 1..Len(queue') : queue'[i] = queue[i + 1]
  BY <1>1, <1>2
<1>4. queued \in Entries /\ queued # NoEntry /\ queued.func \in Calls /\ queued.waiters \in SUBSET Calls
  <2>1. 1 \in DOMAIN queue
    BY <1>2, <1>3
  <2>2. queued # NoEntry
    BY <1>0, <1>3, <2>1 DEF QueueIsMap
  <2> QED  BY <1>2, <1>3, <2>2
<1> HIDE DEF k, queued
<1>5. /\ map'[k] = NoEntry /\ \A j \in Keys \ {k} : map'[j] = map[j]
      /\ map' \in [Keys -> Entries \cup {NoEntry}]
  BY <1>1, <1>2, <1>3
<1>6. /\ worker'.func = queued.func /\ worker'.waiters = queued.waiters
      /\ worker'.pc \notin {"idle", "stopped"}
  BY <1>1
<1>7. Late' = Late /\ Entered' = Entered
  BY <1>1 DEF Late, Entered
<1>8. /\ KeyOf[queued.func] = k /\ queued.func \in Entered
      /\ \A c \in Calls : KeyOf[c] = k /\ c \in Entered => c <= queued.func \/ queued.func \in Late
      /\ \A c \in queued.waiters : KeyOf[c] = k /\ c \in Entered
  BY <1>0, <1>3, <1>4 DEF MapNewest, queued
<1>a. OutboxTypeOK'
  BY <1>0, <1>1, <1>2, <1>3, <1>4, <1>5 DEF OutboxTypeOK, WindowType
<1>b. WindowInv'
  BY <1>0, <1>1, TimeKeeps DEF window
<1>c. QueueIsMap'
  <2>1. DOMAIN queue = 1..Len(queue) /\ DOMAIN queue' = 1..Len(queue')
    BY <1>2, <1>3
  <2>2. \A i \in 1..Len(queue') : i + 1 \in 1..Len(queue) /\ i + 1 # 1
    BY <1>3
  <2>3. \A i, j \in 1..Len(queue) : queue[i] = queue[j] => i = j
    BY <1>0, <2>1 DEF QueueIsMap
  <2>4. \A i, j \in 1..Len(queue') : queue'[i] = queue'[j] => i = j
    BY <1>3, <2>2, <2>3
  <2>5. ASSUME NEW j \in Keys
        PROVE  map'[j] # NoEntry <=> \E i \in 1..Len(queue') : queue'[i] = j
    <3>1. CASE j = k
      <4>1. 1 \in 1..Len(queue)
        BY <1>3
      <4>2. \A i \in 1..Len(queue') : queue'[i] # k
        BY <1>3, <2>2, <2>3, <4>1
      <4> QED  BY <3>1, <4>2, <1>5
    <3>2. CASE j # k
      <4>1. map[j] # NoEntry <=> \E i \in 1..Len(queue) : queue[i] = j
        BY <1>0, <2>1 DEF QueueIsMap
      <4>2. ASSUME NEW i \in 1..Len(queue), queue[i] = j
            PROVE  \E n \in 1..Len(queue') : queue'[n] = j
        <5>1. i # 1
          BY <1>3, <3>2, <4>2
        <5>2. i - 1 \in 1..Len(queue') /\ queue'[i - 1] = queue[i]
          BY <1>3, <5>1
        <5> QED  BY <4>2, <5>2
      <4>3. ASSUME NEW n \in 1..Len(queue'), queue'[n] = j
            PROVE  \E i \in 1..Len(queue) : queue[i] = j
        BY <1>3, <2>2, <4>3
      <4> QED  BY <1>5, <3>2, <4>1, <4>2, <4>3
    <3> QED  BY <3>1, <3>2
  <2> QED  BY <2>1, <2>4, <2>5 DEF QueueIsMap
<1>d. WaiterHeld'
  <2> SUFFICES ASSUME NEW c \in Calls, phase[c] = "waiting", ~stopped
               PROVE  \/ c \in queued.waiters
                      \/ map'[KeyOf[c]] # NoEntry /\ c \in map'[KeyOf[c]].waiters
    BY <1>1, <1>6 DEF WaiterHeld
  <2>1. map[KeyOf[c]] # NoEntry /\ c \in map[KeyOf[c]].waiters
    BY <1>0, <1>1 DEF WaiterHeld, WorkerHolds
  <2>2. CASE KeyOf[c] = k
    BY <2>1, <2>2 DEF queued
  <2>3. CASE KeyOf[c] # k
    BY <2>1, <2>3, <1>5
  <2> QED  BY <2>2, <2>3
<1>e. AnswerIsOwn'
  BY <1>0, <1>1, <1>7 DEF AnswerIsOwn
<1>f. MadeInOrder' /\ MayRepeat'
  BY <1>0, <1>1 DEF MadeInOrder, MayRepeat
<1>g. MapNewest'
  <2> SUFFICES ASSUME NEW j \in Keys \ {k}, map[j] # NoEntry
               PROVE  /\ KeyOf[map[j].func] = j /\ map[j].func \in Entered
                      /\ \A c \in Calls : KeyOf[c] = j /\ c \in Entered =>
                             c <= map[j].func \/ map[j].func \in Late
                      /\ \A c \in map[j].waiters : KeyOf[c] = j /\ c \in Entered
    BY <1>5, <1>7 DEF MapNewest
  <2> QED  BY <1>0 DEF MapNewest
<1>h. ShownEntered'
  BY <1>0, <1>1, <1>7 DEF ShownEntered
<1>i. WorkerHolds'
  <2>1. shown[k] <= queued.func \/ queued.func \in Late
    <3>1. CASE shown[k] = NoCall
      <4>1. queued.func \in Nat /\ NoCall = 0
        BY <1>4 DEF NoCall
      <4> QED  BY <3>1, <4>1
    <3>2. CASE shown[k] # NoCall
      BY <3>2, <1>0, <1>2, <1>3, <1>8 DEF ShownEntered
    <3> QED  BY <3>1, <3>2
  <2>2. \A c \in queued.waiters : c \in Calls /\ KeyOf[c] = k /\ (c <= queued.func \/ queued.func \in Late)
    BY <1>4, <1>8
  <2> QED  BY <1>1, <1>4, <1>6, <1>7, <1>8, <2>1, <2>2 DEF WorkerHolds
<1>j. PauseIsOver'
  BY <1>1, <1>2 DEF PauseIsOver
<1> QED  BY <1>a, <1>b, <1>c, <1>d, <1>e, <1>f, <1>g, <1>h, <1>i, <1>j DEF OutboxInv

\* A step of the worker that holds the same call, and calls nothing yet.
LEMMA HoldingKeeps ==
    ASSUME OutboxInv, WindowInv', QueueFrame, CallFrame, UNCHANGED <<now, pausedUntil, stopped>>,
           worker.pc \in {"paused", "acquiring", "throttled"},
           NEW place \in {"acquiring", "throttled", "calling"}, NEW until \in Nat,
           worker' = [worker EXCEPT !.pc = place, !.until = until], pausedUntil <= now
    PROVE  OutboxInv'
<1>0. /\ OutboxTypeOK /\ QueueIsMap /\ WaiterHeld /\ AnswerIsOwn
      /\ MadeInOrder /\ MayRepeat /\ MapNewest /\ ShownEntered /\ WorkerHolds /\ PauseIsOver
  BY DEF OutboxInv
<1>1. UNCHANGED <<queue, map, phase, forgotten, attempt, wake, answer, shown>>
  BY DEF QueueFrame, CallFrame, callers
<1>2. Late' = Late /\ Entered' = Entered
  BY <1>1 DEF Late, Entered
<1>3. /\ worker'.pc = place /\ worker'.func = worker.func /\ worker'.waiters = worker.waiters
      /\ worker' \in [pc : {"idle", "paused", "acquiring", "throttled", "calling", "stopped"},
                      func : Calls \cup {NoCall}, waiters : SUBSET Calls, until : Nat]
  BY <1>0 DEF OutboxTypeOK
<1>a. OutboxTypeOK'
  BY <1>0, <1>1, <1>3 DEF OutboxTypeOK, WindowInv
<1>b. WaiterHeld'
  BY <1>0, <1>1, <1>3 DEF WaiterHeld
<1>c. AnswerIsOwn' /\ MadeInOrder' /\ MayRepeat'
  BY <1>0, <1>1, <1>2 DEF AnswerIsOwn, MadeInOrder, MayRepeat
<1>d. QueueIsMap' /\ MapNewest' /\ ShownEntered'
  BY <1>1, <1>2, QueueStays
<1>e. WorkerHolds'
  BY <1>0, <1>1, <1>2, <1>3 DEF WorkerHolds
<1>f. PauseIsOver'
  BY <1>3 DEF PauseIsOver
<1> QED  BY <1>a, <1>b, <1>c, <1>d, <1>e, <1>f DEF OutboxInv

\* The worker wakes when the pause it saw is over: nobody else sets a pause.
LEMMA AwakeKeeps ==
    ASSUME OutboxInv, Awake PROVE OutboxInv'
<1>1. /\ OutboxTypeOK /\ WindowInv /\ PauseIsOver /\ worker.pc \in {"paused", "throttled"}
      /\ now >= worker.until /\ worker' = [worker EXCEPT !.pc = "acquiring"]
      /\ QueueFrame /\ CallFrame /\ UNCHANGED <<now, window, pausedUntil, stopped>>
  BY DEF OutboxInv, Awake
<1>2. worker.until \in Nat /\ worker' = [worker EXCEPT !.pc = "acquiring", !.until = worker.until]
  BY <1>1 DEF OutboxTypeOK
<1>3. WindowInv' /\ pausedUntil <= now
  BY <1>1, TimeKeeps DEF PauseIsOver
<1> QED  BY <1>1, <1>2, <1>3, HoldingKeeps

\* The worker gets its place in the window.
LEMMA StartCallKeeps ==
    ASSUME OutboxInv, StartCall PROVE OutboxInv'
<1>1. /\ OutboxTypeOK /\ WindowInv /\ PauseIsOver /\ worker.pc = "acquiring" /\ Acquire
      /\ worker' = [worker EXCEPT !.pc = "calling"]
      /\ QueueFrame /\ CallFrame /\ UNCHANGED <<now, pausedUntil, stopped>>
  BY DEF OutboxInv, StartCall
<1>2. worker.until \in Nat /\ worker' = [worker EXCEPT !.pc = "calling", !.until = worker.until]
  BY <1>1 DEF OutboxTypeOK
<1>3. WindowInv' /\ pausedUntil <= now
  BY <1>1, AcquireKeeps DEF PauseIsOver
<1> QED  BY <1>1, <1>2, <1>3, HoldingKeeps

\* The worker finds the window full.
LEMMA WaitForRoomKeeps ==
    ASSUME OutboxInv, WaitForRoom PROVE OutboxInv'
<1>1. /\ WindowInv /\ PauseIsOver /\ worker.pc = "acquiring" /\ Throttle
      /\ worker' = [worker EXCEPT !.pc = "throttled", !.until = NextRoom]
      /\ QueueFrame /\ CallFrame /\ UNCHANGED <<now, pausedUntil, stopped>>
  BY DEF OutboxInv, WaitForRoom
<1>2. WindowInv' /\ NextRoom \in Nat /\ pausedUntil <= now
  BY <1>1, ThrottleKeeps DEF PauseIsOver
<1> QED  BY <1>1, <1>2, HoldingKeeps

\* The worker settles what it holds: whoever still waited for it is answered
\* with its call, failed, or told to repeat its own.
LEMMA SettleKeeps ==
    ASSUME OutboxInv, worker.pc = "calling", worker' = Idle, QueueFrame,
           UNCHANGED <<now, window, stopped, forgotten, attempt>>,
           Shows \/ UNCHANGED shown, wake' \in [Calls -> Nat], pausedUntil' \in Nat,
           NEW end \in [Calls -> {"answered", "failed", "backoff"}],
           phase' = [c \in Calls |-> IF c \in Unanswered THEN end[c] ELSE phase[c]],
           answer' \in [Calls -> Calls \cup {NoCall}],
           \A c \in Unanswered : end[c] = "answered" => answer'[c] = worker.func,
           \A c \in Calls \ Unanswered : answer'[c] = answer[c],
           \A c \in Unanswered : end[c] = "backoff" => attempt[c] < MaxRetries
    PROVE  OutboxInv'
<1> USE CallsAreNumbers
<1>0. /\ OutboxTypeOK /\ WindowInv /\ QueueIsMap /\ WaiterHeld /\ AnswerIsOwn
      /\ MadeInOrder /\ MayRepeat /\ MapNewest /\ ShownEntered /\ WorkerHolds /\ PauseIsOver
  BY DEF OutboxInv
<1>1. /\ UNCHANGED <<queue, map, granted, dropped>>
      /\ worker'.pc = "idle" /\ worker'.waiters = {}
      /\ worker' \in [pc : {"idle", "paused", "acquiring", "throttled", "calling", "stopped"},
                      func : Calls \cup {NoCall}, waiters : SUBSET Calls, until : Nat]
  BY DEF QueueFrame, Idle, window
<1>2. /\ Unanswered \subseteq Calls /\ \A c \in Unanswered : c \in worker.waiters /\ phase[c] = "waiting"
      /\ \A c \in worker.waiters : phase[c] = "waiting" => c \in Unanswered
      /\ phase \in [Calls -> Phases] /\ attempt \in [Calls -> 0..MaxRetries]
      /\ shown \in [Keys -> Calls \cup {NoCall}]
  BY <1>0 DEF Unanswered, OutboxTypeOK
<1>3. /\ phase' \in [Calls -> Phases]
      /\ \A c \in Unanswered : phase'[c] = end[c] /\ end[c] \in {"answered", "failed", "backoff"}
      /\ \A c \in Calls \ Unanswered : phase'[c] = phase[c]
  BY <1>2 DEF Phases
<1>4. Entered' = Entered
  BY <1>2, <1>3 DEF Entered
<1>5. Late \subseteq Late'
  BY SMTT(30), <1>0, <1>2, <1>3, MessagingLimiterAssumption, LateStays
<1>6. /\ worker.func \in Calls /\ worker.func \in Entered
      /\ \A c \in worker.waiters : KeyOf[c] = KeyOf[worker.func] /\ (c <= worker.func \/ worker.func \in Late)
  BY <1>0 DEF WorkerHolds
<1>7. /\ shown' \in [Keys -> Calls \cup {NoCall}]
      /\ \A j \in Keys : shown'[j] = shown[j] \/ (j = KeyOf[worker.func] /\ shown'[j] = worker.func)
  BY <1>2, <1>6 DEF Shows
<1>a. OutboxTypeOK'
  BY <1>0, <1>1, <1>3, <1>7 DEF OutboxTypeOK, WindowType
<1>b. WindowInv'
  BY <1>0, TimeKeeps
<1>c. QueueIsMap' /\ MapNewest'
  BY <1>1, <1>4, <1>5, QueueStays
<1>d. WaiterHeld'
  BY <1>0, <1>1, <1>2, <1>3 DEF WaiterHeld
<1>e. AnswerIsOwn'
  <2> SUFFICES ASSUME NEW c \in Calls, phase'[c] = "answered"
               PROVE  /\ answer'[c] \in Calls /\ KeyOf[answer'[c]] = KeyOf[c]
                      /\ answer'[c] >= c \/ answer'[c] \in Late'
    BY DEF AnswerIsOwn
  <2>1. CASE c \in Unanswered
    <3>1. answer'[c] = worker.func
      BY <2>1, <1>3
    <3>2. KeyOf[c] = KeyOf[worker.func] /\ (c <= worker.func \/ worker.func \in Late)
      BY <2>1, <1>2, <1>6
    <3> QED  BY <3>1, <3>2, <1>5, <1>6
  <2>2. CASE c \notin Unanswered
    BY <2>2, <1>0, <1>3, <1>5 DEF AnswerIsOwn
  <2> QED  BY <2>1, <2>2
<1>f. MadeInOrder'
  <2>1. \A c \in Calls : /\ phase'[c] = "none" <=> phase[c] = "none"
                         /\ phase'[c] = "made" <=> phase[c] = "made"
    BY <1>2, <1>3
  <2>2. /\ \A c, d \in Calls : d < c /\ phase[c] # "none" => phase[d] # "none"
        /\ \A c \in forgotten : phase[c] # "none"
        /\ \A c \in Calls : phase[c] = "made" => c \in forgotten
        /\ \A c \in Calls, d \in forgotten : c < d /\ phase[c] = "made" => phase[d] = "made"
        /\ forgotten' = forgotten /\ forgotten \subseteq Calls
    BY <1>0 DEF MadeInOrder, OutboxTypeOK
  <2>3. \A c, d \in Calls : d < c /\ phase'[c] # "none" => phase'[d] # "none"
    BY <2>1, <2>2
  <2>4. \A c \in Calls, d \in forgotten' : c < d /\ phase'[c] = "made" => phase'[d] = "made"
    BY <2>1, <2>2
  <2> QED  BY <2>1, <2>2, <2>3, <2>4 DEF MadeInOrder
<1>g. MayRepeat'
  BY <1>0, <1>2, <1>3 DEF MayRepeat
<1>h. ShownEntered'
  BY <1>0, <1>4, <1>6, <1>7 DEF ShownEntered
<1>i. WorkerHolds' /\ PauseIsOver'
  BY <1>1 DEF WorkerHolds, PauseIsOver
<1> QED  BY <1>a, <1>b, <1>c, <1>d, <1>e, <1>f, <1>g, <1>h, <1>i DEF OutboxInv

\* All who still wait get the result.
LEMMA CallSucceedsKeeps ==
    ASSUME OutboxInv, CallSucceeds PROVE OutboxInv'
<1> DEFINE end == [c \in Calls |-> "answered"]
<1>1. /\ worker.pc = "calling" /\ worker' = Idle /\ QueueFrame /\ Shows
      /\ UNCHANGED <<now, window, pausedUntil, stopped, forgotten, attempt, wake>>
      /\ phase' = [c \in Calls |-> IF c \in Unanswered THEN "answered" ELSE phase[c]]
      /\ answer' = [c \in Calls |-> IF c \in Unanswered THEN worker.func ELSE answer[c]]
      /\ OutboxTypeOK
  BY DEF CallSucceeds, OutboxInv
<1>2. /\ end \in [Calls -> {"answered", "failed", "backoff"}] /\ \A c \in Calls : end[c] = "answered"
      /\ Unanswered \subseteq Calls
  BY <1>1 DEF Unanswered, OutboxTypeOK
<1>3. phase' = [c \in Calls |-> IF c \in Unanswered THEN end[c] ELSE phase[c]]
  BY <1>1
<1> HIDE DEF end
<1>4. /\ answer' \in [Calls -> Calls \cup {NoCall}] /\ wake' \in [Calls -> Nat] /\ pausedUntil' \in Nat
      /\ \A c \in Unanswered : answer'[c] = worker.func
      /\ \A c \in Calls \ Unanswered : answer'[c] = answer[c]
  BY <1>1, <1>2 DEF OutboxTypeOK
<1> QED  BY <1>1, <1>2, <1>3, <1>4, SettleKeeps

\* All who still wait get the error, or repeat.
LEMMA CallFailsKeeps ==
    ASSUME OutboxInv, NEW error \in {"transient", "flood", "final"}, CallFails(error)
    PROVE  OutboxInv'
<1> DEFINE again == IF error = "transient" THEN {c \in Unanswered : Repeats(c)} ELSE {}
           end == [c \in Calls |-> IF c \in again THEN "backoff" ELSE "failed"]
<1>1. /\ worker.pc = "calling" /\ worker' = Idle /\ QueueFrame /\ (Shows \/ UNCHANGED shown)
      /\ UNCHANGED <<now, window, stopped, forgotten, attempt, answer>>
      /\ phase' = [c \in Calls |-> IF c \in again THEN "backoff"
                                   ELSE IF c \in Unanswered THEN "failed" ELSE phase[c]]
      /\ wake' = [c \in Calls |-> IF c \in again THEN now + Backoff[attempt[c]] ELSE wake[c]]
      /\ pausedUntil' = IF error = "flood" THEN now + FloodPause ELSE pausedUntil
      /\ OutboxTypeOK
  BY DEF CallFails, OutboxInv
<1>2. again \subseteq Unanswered /\ Unanswered \subseteq Calls /\ \A c \in again : attempt[c] < MaxRetries
  BY <1>1 DEF Unanswered, Repeats, OutboxTypeOK
<1> HIDE DEF again
<1>3. phase' = [c \in Calls |-> IF c \in Unanswered THEN end[c] ELSE phase[c]]
  BY <1>1, <1>2
<1>4. /\ end \in [Calls -> {"answered", "failed", "backoff"}]
      /\ \A c \in Calls : end[c] # "answered" /\ (end[c] = "backoff" => c \in again)
  OBVIOUS
<1> HIDE DEF end
<1>5. /\ answer' \in [Calls -> Calls \cup {NoCall}] /\ \A c \in Calls \ Unanswered : answer'[c] = answer[c]
      /\ now \in Nat /\ wake \in [Calls -> Nat] /\ attempt \in [Calls -> 0..MaxRetries]
      /\ pausedUntil \in Nat
  BY <1>1 DEF OutboxTypeOK, WindowType
<1>6. /\ pausedUntil' \in Nat
      /\ \A c \in Calls : attempt[c] \in 0..MaxRetries /\ Backoff[attempt[c]] \in Nat
  BY <1>1, <1>5, MessagingLimiterAssumption
<1>7. wake' \in [Calls -> Nat]
  BY <1>1, <1>5, <1>6
<1>8. \A c \in Unanswered : end[c] = "backoff" => attempt[c] < MaxRetries
  BY <1>2, <1>4
<1>9. \A c \in Unanswered : end[c] = "answered" => answer'[c] = worker.func
  BY <1>2, <1>4
<1> QED  BY <1>1, <1>3, <1>4, <1>5, <1>6, <1>7, <1>8, <1>9, SettleKeeps

\* Shutdown, the passing of time and steps of others.
LEMMA RestKeeps ==
    ASSUME OutboxInv, Shutdown \/ Tick \/ UNCHANGED outboxVars PROVE OutboxInv'
<1>0. /\ OutboxTypeOK /\ WindowInv /\ QueueIsMap /\ WaiterHeld /\ AnswerIsOwn
      /\ MadeInOrder /\ MayRepeat /\ MapNewest /\ ShownEntered /\ WorkerHolds /\ PauseIsOver
  BY DEF OutboxInv
<1>1. /\ UNCHANGED <<queue, map, phase, forgotten, attempt, wake, answer, shown, window, granted,
                     dropped, pausedUntil>>
      /\ now' \in {now, now + 1} /\ now \in Nat
      /\ UNCHANGED <<worker, stopped>> \/ (worker' = [Idle EXCEPT !.pc = "stopped"] /\ stopped' = TRUE /\ now' = now)
  BY <1>0 DEF Shutdown, Tick, QueueFrame, CallFrame, callers, outboxVars, window, OutboxTypeOK, WindowType
<1>2. Late' = Late /\ Entered' = Entered
  BY <1>1 DEF Late, Entered
<1>a. OutboxTypeOK'
  <2>1. [Idle EXCEPT !.pc = "stopped"] \in
          [pc : {"idle", "paused", "acquiring", "throttled", "calling", "stopped"},
           func : Calls \cup {NoCall}, waiters : SUBSET Calls, until : Nat]
    BY DEF Idle
  <2>2. worker' \in [pc : {"idle", "paused", "acquiring", "throttled", "calling", "stopped"},
                     func : Calls \cup {NoCall}, waiters : SUBSET Calls, until : Nat]
    BY <1>0, <1>1, <2>1 DEF OutboxTypeOK
  <2>3. WindowType'
    BY <1>0, <1>1 DEF OutboxTypeOK, WindowType
  <2>4. stopped' \in BOOLEAN
    BY <1>0, <1>1 DEF OutboxTypeOK
  <2> QED  BY <1>0, <1>1, <2>2, <2>3, <2>4 DEF OutboxTypeOK
<1>b. WindowInv'
  BY <1>0, <1>1, TimeKeeps
<1>c. QueueIsMap' /\ MapNewest' /\ ShownEntered'
  BY <1>1, <1>2, QueueStays
<1>d. WaiterHeld'
  BY <1>0, <1>1 DEF WaiterHeld
<1>e. AnswerIsOwn' /\ MadeInOrder' /\ MayRepeat'
  BY <1>0, <1>1, <1>2 DEF AnswerIsOwn, MadeInOrder, MayRepeat
<1>f. WorkerHolds'
  BY <1>0, <1>1, <1>2 DEF WorkerHolds, Idle
<1>g. PauseIsOver'
  BY <1>0, <1>1 DEF PauseIsOver, Idle, OutboxTypeOK
<1> QED  BY <1>a, <1>b, <1>c, <1>d, <1>e, <1>f, <1>g DEF OutboxInv

\* An empty queue and an idle worker.
LEMMA OutboxStarts ==
    ASSUME OutboxInit PROVE OutboxInv
<1> USE CallsAreNumbers, MessagingLimiterAssumption DEF OutboxInit
<1>1. WindowInv
  BY WindowStarts
<1>2. OutboxTypeOK
  <2>1. /\ Idle \in [pc : {"idle", "paused", "acquiring", "throttled", "calling", "stopped"},
                     func : Calls \cup {NoCall}, waiters : SUBSET Calls, until : Nat]
    BY DEF Idle
  <2>2. /\ [c \in Calls |-> "none"] \in [Calls -> Phases]
        /\ [c \in Calls |-> 0] \in [Calls -> 0..MaxRetries]
    BY DEF Phases
  <2>3. /\ WindowType /\ queue \in Seq(Keys) /\ map \in [Keys -> Entries \cup {NoEntry}]
        /\ pausedUntil \in Nat
    BY <1>1 DEF WindowInv
  <2>6. stopped \in BOOLEAN
    OBVIOUS
  <2>4. /\ wake \in [Calls -> Nat] /\ answer \in [Calls -> Calls \cup {NoCall}]
        /\ shown \in [Keys -> Calls \cup {NoCall}] /\ forgotten \subseteq Calls
    OBVIOUS
  <2>5. worker = Idle /\ phase \in [Calls -> Phases] /\ attempt \in [Calls -> 0..MaxRetries]
    BY <2>2
  <2> HIDE DEF OutboxInit
  <2> QED  BY <2>1, <2>3, <2>4, <2>5, <2>6 DEF OutboxTypeOK
<1>3. QueueIsMap /\ WaiterHeld /\ AnswerIsOwn
  BY DEF QueueIsMap, WaiterHeld, AnswerIsOwn
<1>4. MadeInOrder /\ MayRepeat /\ MapNewest /\ ShownEntered
  BY DEF MadeInOrder, MayRepeat, MapNewest, ShownEntered
<1>5. WorkerHolds /\ PauseIsOver
  BY DEF WorkerHolds, PauseIsOver, Idle
<1> QED  BY <1>1, <1>2, <1>3, <1>4, <1>5 DEF OutboxInv

\* The actions together.
LEMMA OutboxStepKeeps ==
    ASSUME OutboxInv, [OutboxNext]_outboxVars PROVE OutboxInv'
BY MakeAwaitedKeeps, MakeForgottenKeeps, BeginKeeps, RepeatKeeps, CancelKeeps, TakeKeeps,
   AwakeKeeps, StartCallKeeps, WaitForRoomKeeps, CallSucceedsKeeps, CallFailsKeeps, RestKeeps
   DEF OutboxNext

\* No caller of the outgoing queue is lost or answered with somebody else's
\* result, and its calls stay within the window (messaging/limiter.py).
THEOREM CallersAreHeld == OutboxInit /\ [][OutboxNext]_outboxVars => []OutboxHolds
<1>1. OutboxInit => OutboxInv
  BY OutboxStarts
<1>2. OutboxInv /\ [OutboxNext]_outboxVars => OutboxInv'
  BY OutboxStepKeeps
<1>3. OutboxInv => OutboxHolds
  BY DEF OutboxInv, OutboxHolds, WindowInv
<1> QED  BY <1>1, <1>2, <1>3, PTL

\* A call is made only when the pause of a flood error is over, and a message
\* goes back to an older version only by a call that came late.
THEOREM OutboxStepsHold == OutboxInit /\ [][OutboxNext]_outboxVars => OutboxSteps
<1>1. OutboxInit => OutboxInv
  BY OutboxStarts
<1>2. OutboxInv /\ [OutboxNext]_outboxVars => OutboxInv'
  BY OutboxStepKeeps
<1>3. OutboxInv /\ [OutboxNext]_outboxVars => [worker'.pc = "calling" => now >= pausedUntil]_<<worker>>
  <2> SUFFICES ASSUME OutboxInv, OutboxNext, worker' # worker, worker'.pc = "calling"
               PROVE  now >= pausedUntil
    BY DEF outboxVars
  <2>1. now \in Nat /\ pausedUntil \in Nat /\ PauseIsOver
    BY DEF OutboxInv, OutboxTypeOK, WindowType
  <2>2. Take \/ Awake \/ StartCall \/ WaitForRoom \/ worker' = Idle \/ Shutdown
    BY DEF OutboxNext, MakeAwaited, MakeForgotten, Begin, Repeat, Cancel, CallSucceeds, CallFails, Tick,
           WorkerFrame
  <2>3. Idle.pc = "idle" /\ [Idle EXCEPT !.pc = "stopped"].pc = "stopped"
    BY DEF Idle
  <2>4. ~Take
    BY DEF Take
  <2>5. [worker EXCEPT !.pc = "acquiring"].pc = "acquiring"
        /\ \A u \in Nat : [worker EXCEPT !.pc = "throttled", !.until = u].pc = "throttled"
    BY DEF OutboxInv, OutboxTypeOK
  <2>6. ~Awake
    BY <2>5 DEF Awake
  <2>7. ~WaitForRoom
    BY <2>5, ThrottleKeeps DEF WaitForRoom, OutboxInv
  <2>8. StartCall
    BY <2>2, <2>3, <2>4, <2>6, <2>7 DEF Shutdown
  <2> QED  BY <2>1, <2>8 DEF StartCall, PauseIsOver
<1>4. OutboxInv /\ [OutboxNext]_outboxVars =>
        [\A k \in Keys : shown'[k] < shown[k] => shown'[k] \in Late]_outboxVars
  <2> SUFFICES ASSUME OutboxInv, OutboxNext, NEW k \in Keys, shown'[k] < shown[k]
               PROVE  shown'[k] \in Late
    BY DEF outboxVars
  <2>1. /\ shown \in [Keys -> Calls \cup {NoCall}] /\ WorkerHolds
        /\ \A j \in Keys : shown[j] \in Nat
    <3>1. shown \in [Keys -> Calls \cup {NoCall}] /\ WorkerHolds
      BY DEF OutboxInv, OutboxTypeOK
    <3>2. Calls \cup {NoCall} \subseteq Nat
      BY CallsAreNumbers DEF NoCall
    <3> QED  BY <3>1, <3>2
  <2>2. shown' # shown
    BY <2>1
  <2>3. worker.pc = "calling" /\ Shows
    BY <2>2 DEF OutboxNext, MakeAwaited, MakeForgotten, Begin, Repeat, Cancel, Take, Awake, StartCall,
                WaitForRoom, CallSucceeds, CallFails, Shutdown, Tick, WorkerFrame, CallFrame
  <2>4. /\ worker.func \in Calls
        /\ shown[KeyOf[worker.func]] <= worker.func \/ worker.func \in Late
    BY <2>1, <2>3 DEF WorkerHolds
  <2>5. shown' = [shown EXCEPT ![KeyOf[worker.func]] = worker.func]
    BY <2>3 DEF Shows
  <2>6. k = KeyOf[worker.func] /\ shown'[k] = worker.func
    BY <2>1, <2>5
  <2>7. worker.func \in Nat /\ shown[k] \in Nat /\ worker.func < shown[k]
    BY <2>1, <2>4, <2>6, CallsAreNumbers
  <2>8. ~(shown[k] <= worker.func)
    BY <2>7
  <2> QED  BY <2>4, <2>6, <2>8
<1> QED  BY <1>1, <1>2, <1>3, <1>4, PTL DEF OutboxSteps, PauseHonoured, NeverBack

\* The outgoing queue keeps its promises to its callers at every step.
THEOREM OutboxIsKept == OutboxInit /\ [][OutboxNext]_outboxVars => OutboxKept
BY CallersAreHeld, OutboxStepsHold, PTL DEF OutboxKept

-----------------------------------------------------------------------------
(* The sessions of the turns and their processes: what KilledAtExit needs  *)
(* to be inductive.                                                        *)

\* A session is named after the turn that created it, which uses it, and
\* what the maps hold is a session.
SessionsAreOwn ==
    /\ \A x \in Turns : session[x] # None => session[session[x]] = session[x]
    /\ \A i \in Ids : /\ pending[i] # None => session[pending[i]] = pending[i]
                      /\ sessions[i] # None => session[sessions[i]] = sessions[i]

\* The process of a session is one that was spawned in it.
ProcessIsOwn ==
    \A s \in Turns : process[s] # None =>
        session[process[s]] = s /\ alive[process[s]] # "none"

\* Whoever waits in stop() waits for a process of that session that was told
\* to end.
WaitsForDying ==
    \A w \in Turns \cup {Manager} : waitsFor[w] # None =>
        /\ session[waitsFor[w].process] = waitsFor[w].session
        /\ alive[waitsFor[w].process] \in {"dying", "dead"}

\* What the place of a turn tells of its session, and of its process.
PlaceHasSession ==
    \A x \in Turns :
        /\ pc[x] \in {"idle", "opening"} => session[x] = None
        /\ pc[x] \in {"queued", "spawning", "reading", "registering", "handling",
                      "finishing", "halting"} => session[x] # None
        /\ session[x] = None => temp[x] = None /\ captured[x] = None
        /\ pc[x] = "registering" => temp[x] # None
        /\ x \in orphaned => pc[x] = "done"
PlaceHasProcess ==
    \A x \in Turns :
        /\ pc[x] \in {"idle", "opening", "queued", "spawning"} => alive[x] = "none"
        /\ pc[x] \in {"reading", "registering", "handling", "finishing", "halting"}
               => alive[x] # "none"
        /\ pc[x] = "finishing" => alive[x] = "dead"
        /\ alive[x] # "none" => session[x] # None /\ (Mixed(x) \/ process[x] = x)
        /\ pc[x] = "halting" => \/ Mixed(x) \/ alive[x] = "dead"
                                \/ waitsFor[x] # None /\ waitsFor[x].process = x

\* After the exit nothing runs but what was lost.
ExitEndsAll ==
    exited => \A x \in Turns : pc[x] = "done" /\ (alive[x] = "running" => Mixed(x))

\* A call of stop_all() that runs is counted when it ends.
SweepsCounted == sweep.pc # "idle" => sweeps < MaxStopAlls

ProcInv == /\ CliTypeOK /\ SessionsAreOwn /\ ProcessIsOwn /\ WaitsForDying
           /\ PlaceHasSession /\ PlaceHasProcess /\ ExitEndsAll /\ SweepsCounted /\ KilledAtExit

\* What the ids are made of.
LEMMA IdFacts ==
    /\ \A t \in Turns : /\ Real(t) \in Ids /\ Real(t)[1] = "real" /\ Real(t)[2] = t
                        /\ Pending(t) \in Ids /\ Pending(t)[1] = "pending" /\ Pending(t)[2] = t
    /\ \A i \in Ids : i[2] \in Turns /\ (i[1] = "real" => i = Real(i[2]))
BY DEF Ids, Real, Pending

\* The session a resumed id is known by, if any.
LEMMA KnownType ==
    ASSUME CliTypeOK, NEW i \in Ids
    PROVE  Known(i)[1] \in MaybeTurns /\ Known(i)[2] \in Ids
BY DEF Known, CliTypeOK

\* A session that changed hands stays one that did.
LEMMA MixedStays ==
    ASSUME session' = session, overlapped' = overlapped
    PROVE  \A x \in Turns : Mixed(x)' <=> Mixed(x)
BY DEF Mixed, Shared

\* Two turns of one session are mixed, and a turn that is not is its creator.
LEMMA MixedFacts ==
    ASSUME CliTypeOK
    PROVE  /\ \A x, y \in Turns : x # y /\ session[x] # None /\ session[x] = session[y]
                  => Mixed(x) /\ Mixed(y)
           /\ SessionsAreOwn => \A x \in Turns : ~Mixed(x) /\ session[x] # None => session[x] = x
<1>1. \A x, y \in Turns : x # y /\ session[x] # None /\ session[x] = session[y]
          => Mixed(x) /\ Mixed(y)
  BY DEF Mixed, Shared
<1>2. ASSUME SessionsAreOwn, NEW x \in Turns, ~Mixed(x), session[x] # None
      PROVE  session[x] = x
  BY <1>1, <1>2 DEF SessionsAreOwn, CliTypeOK, MaybeTurns
<1> QED  BY <1>1, <1>2

\* Leaving a session unregisters its process: no one else's that runs, unless
\* the session is shared.
LEMMA LeaveFacts ==
    ASSUME CliTypeOK, ProcessIsOwn, NEW t \in Turns, session[t] # None, Leave(session[t]),
           alive[t] # "running" \/ Mixed(t)
    PROVE  /\ cliLock' \in [Turns -> MaybeTurns] /\ pids' \subseteq pids
           /\ \A x \in pids : alive[x] = "running" => x \in pids' \/ Mixed(x)
<1>1. cliLock' \in [Turns -> MaybeTurns] /\ pids' \subseteq pids
  BY DEF Leave, CliTypeOK, MaybeTurns
<1>2. ASSUME NEW x \in pids, alive[x] = "running", x \notin pids'
      PROVE  Mixed(x)
  <2>1. x \in Turns /\ session[t] \in Turns /\ x = process[session[t]]
    BY <1>2 DEF Leave, CliTypeOK, MaybeTurns
  <2>2. session[x] = session[t] /\ x # None
    BY <2>1, CliSessionsAssumption DEF ProcessIsOwn
  <2> QED  BY <1>2, <2>1, <2>2, MixedFacts
<1> QED  BY <1>1, <1>2

\* Nor does the end of a stop().
LEMMA KilledFacts ==
    ASSUME CliTypeOK, ProcessIsOwn, WaitsForDying, NEW w \in Turns \cup {Manager}, Killed(w),
           pids' = pids \ {process[waitsFor[w].session]}
    PROVE  /\ waitsFor[w] \in Waits /\ pids' \subseteq pids
           /\ \A x \in pids : alive[x] = "running" => x \in pids' \/ Mixed(x)
<1>1. waitsFor[w] \in Waits
  BY DEF CliTypeOK, Killed
<1>2. ASSUME NEW x \in pids, alive[x] = "running", x \notin pids'
      PROVE  Mixed(x)
  <2> DEFINE p == waitsFor[w].process
             s == waitsFor[w].session
  <2>1. x \in Turns /\ p \in Turns /\ s \in Turns /\ x = process[s]
    BY <1>1, <1>2 DEF Waits, CliTypeOK
  <2>2. session[x] = s /\ x # None
    BY <2>1, CliSessionsAssumption DEF ProcessIsOwn
  <2>3. session[p] = s /\ alive[p] = "dead"
    BY <1>1 DEF Killed, WaitsForDying
  <2>4. x # p
    BY <1>2, <2>3
  <2>5. s # None
    BY <2>1, CliSessionsAssumption
  <2> HIDE DEF p, s
  <2> QED  BY <2>1, <2>2, <2>3, <2>4, <2>5, MixedFacts
<1> QED  BY <1>1, <1>2

\* What stop() does up to its wait.
LEMMA KillFacts ==
    ASSUME CliTypeOK, ProcessIsOwn, WaitsForDying, session' = session,
           NEW w \in Turns \cup {Manager}, NEW s \in Turns, NEW id \in Ids \cup {None},
           Running(s), Kill(w, s, id)
    PROVE  /\ process[s] \in Turns /\ session[process[s]] = s
           /\ alive' \in [Turns -> {"none", "running", "dying", "dead"}]
           /\ waitsFor' \in [Turns \cup {Manager} -> Waits \cup {None}]
           /\ alive'[process[s]] = "dying"
           /\ \A x \in Turns : x # process[s] => alive'[x] = alive[x]
           /\ \A x \in Turns : alive'[x] = "running" => alive[x] = "running"
           /\ \A x \in Turns : alive'[x] = "none" <=> alive[x] = "none"
           /\ \A x \in Turns : alive'[x] = "dead" <=> alive[x] = "dead"
           /\ \A v \in Turns \cup {Manager} : v # w => waitsFor'[v] = waitsFor[v]
           /\ waitsFor'[w] # None /\ waitsFor'[w].process = process[s]
           /\ waitsFor'[w].id = id
           /\ WaitsForDying'
<1> DEFINE rec == [session |-> s, process |-> process[s], id |-> id]
<1>1. process[s] \in Turns /\ session[process[s]] = s /\ alive[process[s]] \in {"running", "dying"}
  BY DEF Running, ProcessIsOwn, CliTypeOK, MaybeTurns
<1>2. rec \in Waits /\ rec.process = process[s] /\ rec.session = s /\ rec.id = id
  BY <1>1 DEF Waits
<1>3. waitsFor' = [waitsFor EXCEPT ![w] = rec] /\ alive' = [alive EXCEPT ![process[s]] = "dying"]
  BY DEF Kill
<1>4. rec # None
  BY NoneAssumption, <1>2
<1>5. waitsFor'[w] = rec /\ \A v \in Turns \cup {Manager} : v # w => waitsFor'[v] = waitsFor[v]
  BY <1>3 DEF CliTypeOK
<1>6. waitsFor' \in [Turns \cup {Manager} -> Waits \cup {None}]
  BY <1>2, <1>3 DEF CliTypeOK
<1>7. /\ alive' \in [Turns -> {"none", "running", "dying", "dead"}]
      /\ alive'[process[s]] = "dying"
      /\ \A x \in Turns : x # process[s] => alive'[x] = alive[x]
  BY <1>1, <1>3 DEF CliTypeOK
<1> HIDE DEF rec
<1>8. WaitsForDying'
  <2> SUFFICES ASSUME NEW v \in Turns \cup {Manager}, waitsFor'[v] # None
               PROVE  /\ session'[waitsFor'[v].process] = waitsFor'[v].session
                      /\ alive'[waitsFor'[v].process] \in {"dying", "dead"}
    BY DEF WaitsForDying
  <2>1. CASE v = w
    BY <1>1, <1>2, <1>5, <1>7, <2>1
  <2>2. CASE v # w
    <3>1. waitsFor'[v] = waitsFor[v] /\ waitsFor[v] # None /\ waitsFor[v].process \in Turns
      BY <1>5, <2>2 DEF CliTypeOK, Waits
    <3>2. /\ session[waitsFor[v].process] = waitsFor[v].session
          /\ alive[waitsFor[v].process] \in {"dying", "dead"}
      BY <3>1 DEF WaitsForDying
    <3> QED  BY <1>7, <3>1, <3>2
  <2> QED  BY <2>1, <2>2
<1>9. \A x \in Turns : /\ alive'[x] = "running" => alive[x] = "running"
                       /\ alive'[x] = "none" <=> alive[x] = "none"
                       /\ alive'[x] = "dead" <=> alive[x] = "dead"
  BY <1>1, <1>7
<1> QED  BY <1>1, <1>2, <1>4, <1>5, <1>6, <1>7, <1>8, <1>9

\* Start keeps the invariant of the processes.
LEMMA StartProc ==
    ASSUME ProcInv, NEW t \in Turns, Start(t)
    PROVE  ProcInv'
<1>0. /\ CliTypeOK /\ SessionsAreOwn /\ ProcessIsOwn /\ WaitsForDying
      /\ PlaceHasSession /\ PlaceHasProcess /\ ExitEndsAll /\ SweepsCounted /\ KilledAtExit
  BY DEF ProcInv
<1>1. session' = session /\ overlapped' = overlapped
  BY DEF Start, managerVars, sweepVars, Processes
<1>2. \A x \in Turns : Mixed(x)' <=> Mixed(x)
  BY <1>1, MixedStays
<1>3. CliTypeOK'
  <2>1. pc' \in [Turns -> Places]
    BY <1>0 DEF Start, Goes, CliTypeOK, Places
  <2>2. resume' \in [Turns -> Ids \cup {None}]
    BY <1>0, CliSessionsAssumption DEF Start, CliTypeOK, MaybeTurns
  <2>3. current' \in [Trees -> MaybeTurns]
    BY <1>0 DEF Start, CliTypeOK, MaybeTurns
  <2> QED  BY <1>0, <2>1, <2>2, <2>3 DEF Start, CliTypeOK, managerVars, Processes, sweepVars
<1>4. SessionsAreOwn'
  BY <1>0, <1>1, IdFacts DEF Start, managerVars, sweepVars, Processes, SessionsAreOwn, CliTypeOK
<1>5. ProcessIsOwn'
  BY <1>0, <1>1 DEF Start, managerVars, sweepVars, Processes, ProcessIsOwn, CliTypeOK, MaybeTurns
<1>6. WaitsForDying'
  BY <1>0, <1>1 DEF Start, managerVars, sweepVars, Processes, WaitsForDying, CliTypeOK, Waits
<1>7. PlaceHasSession'
  BY <1>0, <1>1 DEF Start, Goes, managerVars, sweepVars, Processes, PlaceHasSession, CliTypeOK
<1>8. PlaceHasProcess'
  BY <1>0, <1>1, <1>2 DEF Start, Goes, managerVars, sweepVars, Processes, PlaceHasProcess, CliTypeOK
<1>9. ExitEndsAll'
  BY <1>0, <1>2 DEF Start, Goes, managerVars, sweepVars, Processes, ExitEndsAll, CliTypeOK
<1>10. KilledAtExit'
  BY <1>0, <1>2 DEF Start, Goes, managerVars, sweepVars, Processes, KilledAtExit, CliTypeOK
<1>11. SweepsCounted'
  BY <1>0 DEF Start, managerVars, sweepVars, Processes, SweepsCounted, CliTypeOK
<1> QED  BY <1>3, <1>4, <1>5, <1>6, <1>7, <1>8, <1>9, <1>10, <1>11 DEF ProcInv

\* TakeCli keeps the invariant of the processes.
LEMMA TakeCliProc ==
    ASSUME ProcInv, NEW t \in Turns, TakeCli(t)
    PROVE  ProcInv'
<1>0. /\ CliTypeOK /\ SessionsAreOwn /\ ProcessIsOwn /\ WaitsForDying
      /\ PlaceHasSession /\ PlaceHasProcess /\ ExitEndsAll /\ SweepsCounted /\ KilledAtExit
  BY DEF ProcInv
<1>1. session' = session /\ overlapped' = overlapped
  BY DEF TakeCli, managerVars, turnVars, treeVars, sweepVars, Stops
<1>2. \A x \in Turns : Mixed(x)' <=> Mixed(x)
  BY <1>1, MixedStays
<1>3. CliTypeOK'
  BY <1>0, CliSessionsAssumption, IdFacts DEF TakeCli, Goes, managerVars, turnVars, treeVars,
     sweepVars, Stops, CliTypeOK, Places, MaybeTurns, PlaceHasSession
<1>4. SessionsAreOwn'
  BY <1>0, <1>1, IdFacts DEF TakeCli, managerVars, turnVars, treeVars, sweepVars, Stops,
     SessionsAreOwn, CliTypeOK
<1>5. ProcessIsOwn'
  BY <1>0, <1>1 DEF TakeCli, managerVars, turnVars, treeVars, sweepVars, Stops, ProcessIsOwn,
     CliTypeOK, MaybeTurns
<1>6. WaitsForDying'
  BY <1>0, <1>1 DEF TakeCli, managerVars, turnVars, treeVars, sweepVars, Stops, WaitsForDying,
     CliTypeOK, Waits
<1>7. PlaceHasSession'
  BY <1>0, <1>1 DEF TakeCli, Goes, managerVars, turnVars, treeVars, sweepVars, Stops,
     PlaceHasSession, CliTypeOK
<1>8. PlaceHasProcess'
  BY <1>0, <1>1, <1>2 DEF TakeCli, Goes, managerVars, turnVars, treeVars, sweepVars, Stops,
     PlaceHasProcess, CliTypeOK
<1>9. ExitEndsAll'
  BY <1>0, <1>2 DEF TakeCli, Goes, managerVars, turnVars, treeVars, sweepVars, Stops, ExitEndsAll,
     CliTypeOK
<1>10. KilledAtExit'
  BY <1>0, <1>2 DEF TakeCli, Goes, managerVars, turnVars, treeVars, sweepVars, Stops,
     KilledAtExit, CliTypeOK
<1>11. SweepsCounted'
  BY <1>0 DEF TakeCli, managerVars, turnVars, treeVars, sweepVars, Stops, SweepsCounted, CliTypeOK
<1> QED  BY <1>3, <1>4, <1>5, <1>6, <1>7, <1>8, <1>9, <1>10, <1>11 DEF ProcInv

\* Spawn keeps the invariant of the processes.
LEMMA SpawnProc ==
    ASSUME ProcInv, NEW t \in Turns, Spawn(t)
    PROVE  ProcInv'
<1>0. /\ CliTypeOK /\ SessionsAreOwn /\ ProcessIsOwn /\ WaitsForDying
      /\ PlaceHasSession /\ PlaceHasProcess /\ ExitEndsAll /\ SweepsCounted /\ KilledAtExit
  BY DEF ProcInv
<1>1. session' = session /\ overlapped' = overlapped
  BY DEF Spawn, managerVars, turnVars, treeVars, sweepVars, Stops
<1>2. \A x \in Turns : Mixed(x)' <=> Mixed(x)
  BY <1>1, MixedStays
<1>3. CliTypeOK'
  BY <1>0, CliSessionsAssumption, IdFacts DEF Spawn, Goes, managerVars, turnVars, treeVars,
     sweepVars, Stops, CliTypeOK, Places, MaybeTurns, PlaceHasSession
<1>4. SessionsAreOwn'
  BY <1>0, <1>1, IdFacts DEF Spawn, managerVars, turnVars, treeVars, sweepVars, Stops,
     SessionsAreOwn, CliTypeOK
<1>5. ProcessIsOwn'
  BY <1>0, <1>1 DEF Spawn, managerVars, turnVars, treeVars, sweepVars, Stops, ProcessIsOwn,
     CliTypeOK, MaybeTurns
<1>6. WaitsForDying'
  <2>1. alive[t] = "none" /\ alive' = [alive EXCEPT ![t] = "running"] /\ waitsFor' = waitsFor
    BY <1>0 DEF Spawn, Stops, PlaceHasProcess
  <2>2. \A w \in Turns \cup {Manager} : waitsFor[w] # None => waitsFor[w].process \in Turns
    BY <1>0 DEF CliTypeOK, Waits
  <2> QED  BY <1>0, <1>1, <2>1, <2>2 DEF WaitsForDying, CliTypeOK
<1>7. PlaceHasSession'
  BY <1>0, <1>1 DEF Spawn, Goes, managerVars, turnVars, treeVars, sweepVars, Stops,
     PlaceHasSession, CliTypeOK
<1>8. PlaceHasProcess'
  <2>1. /\ session[t] \in Turns /\ (Mixed(t) \/ session[t] = t) /\ pc[t] = "spawning"
        /\ \A x \in Turns : x # t /\ session[x] = session[t] => Mixed(x)
    BY <1>0, MixedFacts DEF Spawn, PlaceHasSession, CliTypeOK, MaybeTurns
  <2>2. /\ alive' = [alive EXCEPT ![t] = "running"] /\ process' = [process EXCEPT ![session[t]] = t]
        /\ pc' = [pc EXCEPT ![t] = "reading"] /\ waitsFor' = waitsFor
    BY DEF Spawn, Goes, Stops
  <2>3. \A x \in Turns : x # t => alive'[x] = alive[x] /\ pc'[x] = pc[x]
    BY <1>0, <2>2 DEF CliTypeOK
  <2>4. alive'[t] = "running" /\ pc'[t] = "reading" /\ process'[session[t]] = t
    BY <1>0, <2>1, <2>2 DEF CliTypeOK
  <2>5. \A x \in Turns : alive'[x] # "none" => session[x] # None /\ (Mixed(x) \/ process'[x] = x)
    <3> SUFFICES ASSUME NEW x \in Turns, alive'[x] # "none"
                 PROVE  session[x] # None /\ (Mixed(x) \/ process'[x] = x)
      OBVIOUS
    <3>1. CASE x = t
      BY <2>1, <2>4, <3>1, CliSessionsAssumption
    <3>2. CASE x # t
      <4>1. session[x] # None /\ (Mixed(x) \/ process[x] = x)
        BY <1>0, <2>3, <3>2 DEF PlaceHasProcess
      <4>2. CASE x = session[t] /\ process[x] = x
        BY <1>0, <2>1, <3>2, <4>1, <4>2, CliSessionsAssumption DEF ProcessIsOwn
      <4>3. CASE x # session[t]
        BY <1>0, <2>2, <4>1, <4>3 DEF CliTypeOK
      <4> QED  BY <4>1, <4>2, <4>3
    <3> QED  BY <3>1, <3>2
  <2> QED  BY <1>0, <1>1, <1>2, <2>2, <2>3, <2>4, <2>5 DEF PlaceHasProcess
<1>9. ExitEndsAll'
  BY <1>0, <1>2 DEF Spawn, Goes, managerVars, turnVars, treeVars, sweepVars, Stops, ExitEndsAll,
     CliTypeOK
<1>10. KilledAtExit'
  BY <1>0, <1>2 DEF Spawn, Goes, managerVars, turnVars, treeVars, sweepVars, Stops, KilledAtExit,
     CliTypeOK
<1>11. SweepsCounted'
  BY <1>0 DEF Spawn, managerVars, turnVars, treeVars, sweepVars, Stops, SweepsCounted, CliTypeOK
<1> QED  BY <1>3, <1>4, <1>5, <1>6, <1>7, <1>8, <1>9, <1>10, <1>11 DEF ProcInv

\* SpawnFails keeps the invariant of the processes.
LEMMA SpawnFailsProc ==
    ASSUME ProcInv, NEW t \in Turns, SpawnFails(t)
    PROVE  ProcInv'
<1>0. /\ CliTypeOK /\ SessionsAreOwn /\ ProcessIsOwn /\ WaitsForDying
      /\ PlaceHasSession /\ PlaceHasProcess /\ ExitEndsAll /\ SweepsCounted /\ KilledAtExit
  BY DEF ProcInv
<1>1. session' = session /\ overlapped' = overlapped
  BY DEF SpawnFails, managerVars, turnVars, sweepVars
<1>2. \A x \in Turns : Mixed(x)' <=> Mixed(x)
  BY <1>1, MixedStays
<1>3. CliTypeOK'
  BY <1>0, CliSessionsAssumption, IdFacts DEF SpawnFails, Goes, managerVars, turnVars, sweepVars,
     CliTypeOK, Places, MaybeTurns, PlaceHasSession, Leave
<1>4. SessionsAreOwn'
  BY <1>0, <1>1, IdFacts DEF SpawnFails, managerVars, turnVars, sweepVars, SessionsAreOwn, CliTypeOK
<1>5. ProcessIsOwn'
  BY <1>0, <1>1 DEF SpawnFails, managerVars, turnVars, sweepVars, ProcessIsOwn, CliTypeOK,
     MaybeTurns
<1>6. WaitsForDying'
  BY <1>0, <1>1 DEF SpawnFails, managerVars, turnVars, sweepVars, WaitsForDying, CliTypeOK, Waits
<1>7. PlaceHasSession'
  BY <1>0, <1>1 DEF SpawnFails, Goes, managerVars, turnVars, sweepVars, PlaceHasSession, CliTypeOK
<1>8. PlaceHasProcess'
  BY <1>0, <1>1, <1>2 DEF SpawnFails, Goes, managerVars, turnVars, sweepVars, PlaceHasProcess,
     CliTypeOK
<1>9. ExitEndsAll'
  BY <1>0, <1>2 DEF SpawnFails, Goes, managerVars, turnVars, sweepVars, ExitEndsAll, CliTypeOK
<1>10. KilledAtExit'
  <2>1. session[t] # None /\ (alive[t] = "none") /\ Leave(session[t])
    BY <1>0 DEF SpawnFails, PlaceHasSession, PlaceHasProcess
  <2>2. \A x \in pids : alive[x] = "running" => x \in pids' \/ Mixed(x)
    BY <1>0, <2>1, LeaveFacts
  <2>3. alive' = alive
    BY DEF SpawnFails
  <2> QED  BY <1>0, <1>2, <2>2, <2>3 DEF KilledAtExit
<1>11. SweepsCounted'
  BY <1>0 DEF SpawnFails, managerVars, turnVars, sweepVars, SweepsCounted, CliTypeOK
<1> QED  BY <1>3, <1>4, <1>5, <1>6, <1>7, <1>8, <1>9, <1>10, <1>11 DEF ProcInv

\* SessionInfo keeps the invariant of the processes.
LEMMA SessionInfoProc ==
    ASSUME ProcInv, NEW t \in Turns, SessionInfo(t)
    PROVE  ProcInv'
<1>0. /\ CliTypeOK /\ SessionsAreOwn /\ ProcessIsOwn /\ WaitsForDying
      /\ PlaceHasSession /\ PlaceHasProcess /\ ExitEndsAll /\ SweepsCounted /\ KilledAtExit
  BY DEF ProcInv
<1>1. session' = session /\ overlapped' = overlapped
  BY DEF SessionInfo, managerVars, turnVars, treeVars, sweepVars, Stops, Processes
<1>2. \A x \in Turns : Mixed(x)' <=> Mixed(x)
  BY <1>1, MixedStays
<1>3. CliTypeOK'
  BY <1>0, CliSessionsAssumption, IdFacts DEF SessionInfo, Goes, managerVars, turnVars, treeVars,
     sweepVars, Stops, Processes, CliTypeOK, Places, MaybeTurns, PlaceHasSession
<1>4. SessionsAreOwn'
  BY <1>0, <1>1, IdFacts DEF SessionInfo, managerVars, turnVars, treeVars, sweepVars, Stops,
     Processes, SessionsAreOwn, CliTypeOK
<1>5. ProcessIsOwn'
  BY <1>0, <1>1 DEF SessionInfo, managerVars, turnVars, treeVars, sweepVars, Stops, Processes,
     ProcessIsOwn, CliTypeOK, MaybeTurns
<1>6. WaitsForDying'
  BY <1>0, <1>1 DEF SessionInfo, managerVars, turnVars, treeVars, sweepVars, Stops, Processes,
     WaitsForDying, CliTypeOK, Waits
<1>7. PlaceHasSession'
  BY <1>0, <1>1 DEF SessionInfo, Goes, managerVars, turnVars, treeVars, sweepVars, Stops,
     Processes, PlaceHasSession, CliTypeOK
<1>8. PlaceHasProcess'
  BY <1>0, <1>1, <1>2 DEF SessionInfo, Goes, managerVars, turnVars, treeVars, sweepVars, Stops,
     Processes, PlaceHasProcess, CliTypeOK
<1>9. ExitEndsAll'
  BY <1>0, <1>2 DEF SessionInfo, Goes, managerVars, turnVars, treeVars, sweepVars, Stops,
     Processes, ExitEndsAll, CliTypeOK
<1>10. KilledAtExit'
  BY <1>0, <1>2 DEF SessionInfo, Goes, managerVars, turnVars, treeVars, sweepVars, Stops,
     Processes, KilledAtExit, CliTypeOK
<1>11. SweepsCounted'
  BY <1>0 DEF SessionInfo, managerVars, turnVars, treeVars, sweepVars, Stops, Processes,
     SweepsCounted, CliTypeOK
<1> QED  BY <1>3, <1>4, <1>5, <1>6, <1>7, <1>8, <1>9, <1>10, <1>11 DEF ProcInv

\* Register keeps the invariant of the processes.
LEMMA RegisterProc ==
    ASSUME ProcInv, NEW t \in Turns, Register(t)
    PROVE  ProcInv'
<1>0. /\ CliTypeOK /\ SessionsAreOwn /\ ProcessIsOwn /\ WaitsForDying
      /\ PlaceHasSession /\ PlaceHasProcess /\ ExitEndsAll /\ SweepsCounted /\ KilledAtExit
  BY DEF ProcInv
<1>1. session' = session /\ overlapped' = overlapped
  BY DEF Register, managerVars, treeVars, sweepVars, Stops, Processes
<1>2. \A x \in Turns : Mixed(x)' <=> Mixed(x)
  BY <1>1, MixedStays
<1>3. CliTypeOK'
  <2>1. pc' \in [Turns -> Places]
    BY <1>0 DEF Register, Goes, CliTypeOK, Places
  <2>2. temp[t] \in Ids /\ Real(t) \in Ids
    BY <1>0, IdFacts DEF Register, CliTypeOK, PlaceHasSession
  <2>3. pending' \in [Ids -> MaybeTurns] /\ sessions' \in [Ids -> MaybeTurns]
    BY <1>0, <2>2 DEF Register, managerVars, CliTypeOK, MaybeTurns
  <2>4. tempToReal' \in [Ids -> Ids \cup {None}] /\ realToTemp' \in [Ids -> Ids \cup {None}]
    BY <1>0, <2>2 DEF Register, managerVars, CliTypeOK
  <2>5. /\ recorded' \in [Turns -> Ids \cup {None}] /\ captured' \in [Turns -> Ids \cup {None}]
        /\ temp' \in [Turns -> Ids \cup {None}]
    BY <1>0, <2>2 DEF Register, CliTypeOK
  <2> QED  BY <1>0, <2>1, <2>3, <2>4, <2>5 DEF Register, CliTypeOK, Processes, treeVars,
              sweepVars, Stops
<1>4. SessionsAreOwn'
  <2>1. temp[t] \in Ids /\ Real(t) \in Ids
    BY <1>0, IdFacts DEF Register, CliTypeOK, PlaceHasSession
  <2>2. \A i \in Ids : /\ pending'[i] \in {None, pending[i]}
                       /\ sessions'[i] \in {sessions[i], pending[temp[t]]}
    BY <1>0, <2>1 DEF Register, managerVars, CliTypeOK
  <2> QED  BY <1>0, <1>1, <2>1, <2>2 DEF SessionsAreOwn
<1>5. ProcessIsOwn'
  BY <1>0, <1>1 DEF Register, managerVars, treeVars, sweepVars, Stops, Processes, ProcessIsOwn,
     CliTypeOK, MaybeTurns
<1>6. WaitsForDying'
  BY <1>0, <1>1 DEF Register, managerVars, treeVars, sweepVars, Stops, Processes, WaitsForDying,
     CliTypeOK, Waits
<1>7. PlaceHasSession'
  BY <1>0, <1>1 DEF Register, Goes, managerVars, treeVars, sweepVars, Stops, Processes,
     PlaceHasSession, CliTypeOK
<1>8. PlaceHasProcess'
  BY <1>0, <1>1, <1>2 DEF Register, Goes, managerVars, treeVars, sweepVars, Stops, Processes,
     PlaceHasProcess, CliTypeOK
<1>9. ExitEndsAll'
  BY <1>0, <1>2 DEF Register, Goes, managerVars, treeVars, sweepVars, Stops, Processes,
     ExitEndsAll, CliTypeOK
<1>10. KilledAtExit'
  BY <1>0, <1>2 DEF Register, Goes, managerVars, treeVars, sweepVars, Stops, Processes,
     KilledAtExit, CliTypeOK
<1>11. SweepsCounted'
  BY <1>0 DEF Register, managerVars, treeVars, sweepVars, Stops, Processes, SweepsCounted, CliTypeOK
<1> QED  BY <1>3, <1>4, <1>5, <1>6, <1>7, <1>8, <1>9, <1>10, <1>11 DEF ProcInv

\* Event keeps the invariant of the processes.
LEMMA EventProc ==
    ASSUME ProcInv, NEW t \in Turns, Event(t)
    PROVE  ProcInv'
<1>0. /\ CliTypeOK /\ SessionsAreOwn /\ ProcessIsOwn /\ WaitsForDying
      /\ PlaceHasSession /\ PlaceHasProcess /\ ExitEndsAll /\ SweepsCounted /\ KilledAtExit
  BY DEF ProcInv
<1>1. session' = session /\ overlapped' = overlapped
  BY DEF Event, managerVars, turnVars, treeVars, sweepVars, Stops, Processes
<1>2. \A x \in Turns : Mixed(x)' <=> Mixed(x)
  BY <1>1, MixedStays
<1>3. CliTypeOK'
  <2>1. pc' \in [Turns -> Places]
    BY <1>0 DEF Event, Goes, CliTypeOK, Places
  <2> QED  BY <1>0, <2>1 DEF Event, CliTypeOK, managerVars, Processes, turnVars, treeVars,
              sweepVars, Stops
<1>4. SessionsAreOwn'
  BY <1>0, <1>1, IdFacts DEF Event, managerVars, turnVars, treeVars, sweepVars, Stops, Processes,
     SessionsAreOwn, CliTypeOK
<1>5. ProcessIsOwn'
  BY <1>0, <1>1 DEF Event, managerVars, turnVars, treeVars, sweepVars, Stops, Processes,
     ProcessIsOwn, CliTypeOK, MaybeTurns
<1>6. WaitsForDying'
  BY <1>0, <1>1 DEF Event, managerVars, turnVars, treeVars, sweepVars, Stops, Processes,
     WaitsForDying, CliTypeOK, Waits
<1>7. PlaceHasSession'
  BY <1>0, <1>1 DEF Event, Goes, managerVars, turnVars, treeVars, sweepVars, Stops, Processes,
     PlaceHasSession, CliTypeOK
<1>8. PlaceHasProcess'
  BY <1>0, <1>1, <1>2 DEF Event, Goes, managerVars, turnVars, treeVars, sweepVars, Stops,
     Processes, PlaceHasProcess, CliTypeOK
<1>9. ExitEndsAll'
  BY <1>0, <1>2 DEF Event, Goes, managerVars, turnVars, treeVars, sweepVars, Stops, Processes,
     ExitEndsAll, CliTypeOK
<1>10. KilledAtExit'
  BY <1>0, <1>2 DEF Event, Goes, managerVars, turnVars, treeVars, sweepVars, Stops, Processes,
     KilledAtExit, CliTypeOK
<1>11. SweepsCounted'
  BY <1>0 DEF Event, managerVars, turnVars, treeVars, sweepVars, Stops, Processes, SweepsCounted,
     CliTypeOK
<1> QED  BY <1>3, <1>4, <1>5, <1>6, <1>7, <1>8, <1>9, <1>10, <1>11 DEF ProcInv

\* Eof keeps the invariant of the processes.
LEMMA EofProc ==
    ASSUME ProcInv, NEW t \in Turns, Eof(t)
    PROVE  ProcInv'
<1>0. /\ CliTypeOK /\ SessionsAreOwn /\ ProcessIsOwn /\ WaitsForDying
      /\ PlaceHasSession /\ PlaceHasProcess /\ ExitEndsAll /\ SweepsCounted /\ KilledAtExit
  BY DEF ProcInv
<1>1. session' = session /\ overlapped' = overlapped
  BY DEF Eof, managerVars, turnVars, treeVars, sweepVars, Stops, Processes
<1>2. \A x \in Turns : Mixed(x)' <=> Mixed(x)
  BY <1>1, MixedStays
<1>3. CliTypeOK'
  BY <1>0, CliSessionsAssumption, IdFacts DEF Eof, Goes, managerVars, turnVars, treeVars,
     sweepVars, Stops, Processes, CliTypeOK, Places, MaybeTurns, PlaceHasSession
<1>4. SessionsAreOwn'
  BY <1>0, <1>1, IdFacts DEF Eof, managerVars, turnVars, treeVars, sweepVars, Stops, Processes,
     SessionsAreOwn, CliTypeOK
<1>5. ProcessIsOwn'
  BY <1>0, <1>1 DEF Eof, managerVars, turnVars, treeVars, sweepVars, Stops, Processes,
     ProcessIsOwn, CliTypeOK, MaybeTurns
<1>6. WaitsForDying'
  BY <1>0, <1>1 DEF Eof, managerVars, turnVars, treeVars, sweepVars, Stops, Processes,
     WaitsForDying, CliTypeOK, Waits
<1>7. PlaceHasSession'
  BY <1>0, <1>1 DEF Eof, Goes, managerVars, turnVars, treeVars, sweepVars, Stops, Processes,
     PlaceHasSession, CliTypeOK
<1>8. PlaceHasProcess'
  BY <1>0, <1>1, <1>2 DEF Eof, Goes, managerVars, turnVars, treeVars, sweepVars, Stops, Processes,
     PlaceHasProcess, CliTypeOK
<1>9. ExitEndsAll'
  BY <1>0, <1>2 DEF Eof, Goes, managerVars, turnVars, treeVars, sweepVars, Stops, Processes,
     ExitEndsAll, CliTypeOK
<1>10. KilledAtExit'
  BY <1>0, <1>2 DEF Eof, Goes, managerVars, turnVars, treeVars, sweepVars, Stops, Processes,
     KilledAtExit, CliTypeOK
<1>11. SweepsCounted'
  BY <1>0 DEF Eof, managerVars, turnVars, treeVars, sweepVars, Stops, Processes, SweepsCounted,
     CliTypeOK
<1> QED  BY <1>3, <1>4, <1>5, <1>6, <1>7, <1>8, <1>9, <1>10, <1>11 DEF ProcInv

\* Finish keeps the invariant of the processes.
LEMMA FinishProc ==
    ASSUME ProcInv, NEW t \in Turns, Finish(t)
    PROVE  ProcInv'
<1>0. /\ CliTypeOK /\ SessionsAreOwn /\ ProcessIsOwn /\ WaitsForDying
      /\ PlaceHasSession /\ PlaceHasProcess /\ ExitEndsAll /\ SweepsCounted /\ KilledAtExit
  BY DEF ProcInv
<1>1. session' = session /\ overlapped' = overlapped
  BY DEF Finish, managerVars, sweepVars
<1>2. \A x \in Turns : Mixed(x)' <=> Mixed(x)
  BY <1>1, MixedStays
<1>3. CliTypeOK'
  BY <1>0, CliSessionsAssumption, IdFacts DEF Finish, Goes, managerVars, sweepVars, CliTypeOK,
     Places, MaybeTurns, PlaceHasSession, Leave
<1>4. SessionsAreOwn'
  BY <1>0, <1>1, IdFacts DEF Finish, managerVars, sweepVars, SessionsAreOwn, CliTypeOK
<1>5. ProcessIsOwn'
  BY <1>0, <1>1 DEF Finish, managerVars, sweepVars, ProcessIsOwn, CliTypeOK, MaybeTurns
<1>6. WaitsForDying'
  BY <1>0, <1>1 DEF Finish, managerVars, sweepVars, WaitsForDying, CliTypeOK, Waits
<1>7. PlaceHasSession'
  BY <1>0, <1>1 DEF Finish, Goes, managerVars, sweepVars, PlaceHasSession, CliTypeOK
<1>8. PlaceHasProcess'
  BY <1>0, <1>1, <1>2 DEF Finish, Goes, managerVars, sweepVars, PlaceHasProcess, CliTypeOK
<1>9. ExitEndsAll'
  BY <1>0, <1>2 DEF Finish, Goes, managerVars, sweepVars, ExitEndsAll, CliTypeOK
<1>10. KilledAtExit'
  <2>1. session[t] # None /\ (alive[t] = "dead") /\ Leave(session[t])
    BY <1>0 DEF Finish, PlaceHasSession, PlaceHasProcess
  <2>2. \A x \in pids : alive[x] = "running" => x \in pids' \/ Mixed(x)
    BY <1>0, <2>1, LeaveFacts
  <2>3. alive' = alive
    BY DEF Finish
  <2> QED  BY <1>0, <1>2, <2>2, <2>3 DEF KilledAtExit
<1>11. SweepsCounted'
  BY <1>0 DEF Finish, managerVars, sweepVars, SweepsCounted, CliTypeOK
<1> QED  BY <1>3, <1>4, <1>5, <1>6, <1>7, <1>8, <1>9, <1>10, <1>11 DEF ProcInv

\* Dies keeps the invariant of the processes.
LEMMA DiesProc ==
    ASSUME ProcInv, NEW t \in Turns, Dies(t)
    PROVE  ProcInv'
<1>0. /\ CliTypeOK /\ SessionsAreOwn /\ ProcessIsOwn /\ WaitsForDying
      /\ PlaceHasSession /\ PlaceHasProcess /\ ExitEndsAll /\ SweepsCounted /\ KilledAtExit
  BY DEF ProcInv
<1>1. session' = session /\ overlapped' = overlapped
  BY DEF Dies, managerVars, turnVars, treeVars, sweepVars, Stops
<1>2. \A x \in Turns : Mixed(x)' <=> Mixed(x)
  BY <1>1, MixedStays
<1>3. CliTypeOK'
  BY <1>0, CliSessionsAssumption, IdFacts DEF Dies, managerVars, turnVars, treeVars, sweepVars,
     Stops, CliTypeOK, Places, MaybeTurns, PlaceHasSession
<1>4. SessionsAreOwn'
  BY <1>0, <1>1, IdFacts DEF Dies, managerVars, turnVars, treeVars, sweepVars, Stops,
     SessionsAreOwn, CliTypeOK
<1>5. ProcessIsOwn'
  BY <1>0, <1>1 DEF Dies, managerVars, turnVars, treeVars, sweepVars, Stops, ProcessIsOwn,
     CliTypeOK, MaybeTurns
<1>6. WaitsForDying'
  BY <1>0, <1>1 DEF Dies, managerVars, turnVars, treeVars, sweepVars, Stops, WaitsForDying,
     CliTypeOK, Waits
<1>7. PlaceHasSession'
  BY <1>0, <1>1 DEF Dies, managerVars, turnVars, treeVars, sweepVars, Stops, PlaceHasSession,
     CliTypeOK
<1>8. PlaceHasProcess'
  BY <1>0, <1>1, <1>2 DEF Dies, managerVars, turnVars, treeVars, sweepVars, Stops,
     PlaceHasProcess, CliTypeOK
<1>9. ExitEndsAll'
  BY <1>0, <1>2 DEF Dies, managerVars, turnVars, treeVars, sweepVars, Stops, ExitEndsAll, CliTypeOK
<1>10. KilledAtExit'
  BY <1>0, <1>2 DEF Dies, managerVars, turnVars, treeVars, sweepVars, Stops, KilledAtExit, CliTypeOK
<1>11. SweepsCounted'
  BY <1>0 DEF Dies, managerVars, turnVars, treeVars, sweepVars, Stops, SweepsCounted, CliTypeOK
<1> QED  BY <1>3, <1>4, <1>5, <1>6, <1>7, <1>8, <1>9, <1>10, <1>11 DEF ProcInv

\* RemoveSession keeps the invariant of the processes.
LEMMA RemoveSessionProc ==
    ASSUME ProcInv, NEW t \in Turns, RemoveSession(t)
    PROVE  ProcInv'
<1>0. /\ CliTypeOK /\ SessionsAreOwn /\ ProcessIsOwn /\ WaitsForDying
      /\ PlaceHasSession /\ PlaceHasProcess /\ ExitEndsAll /\ SweepsCounted /\ KilledAtExit
  BY DEF ProcInv
<1>1. session' = session /\ overlapped' = overlapped
  BY DEF RemoveSession, turnVars, treeVars, sweepVars
<1>2. \A x \in Turns : Mixed(x)' <=> Mixed(x)
  BY <1>1, MixedStays
<1>11. SweepsCounted'
  BY <1>0 DEF RemoveSession, turnVars, treeVars, sweepVars, SweepsCounted, CliTypeOK
<1> DEFINE i == IF captured[t] # None THEN captured[t] ELSE temp[t]
           isPending == i # None /\ pending[i] # None
           isReal == i # None /\ ~isPending /\ sessions[i] # None
           s == IF isPending THEN pending[i] ELSE sessions[i]
<1>3. i \in Ids \cup {None} /\ (isPending \/ isReal => i \in Ids /\ s \in Turns)
  BY <1>0 DEF CliTypeOK, MaybeTurns
<1>4. /\ pc[t] = "cleanup" /\ process' = process /\ pids' = pids
      /\ pending' = IF isPending THEN [pending EXCEPT ![i] = None] ELSE pending
      /\ sessions' = IF isReal THEN [sessions EXCEPT ![i] = None] ELSE sessions
      /\ UNCHANGED <<cliLock, resume, temp, captured, recorded, openedIn, current, over, freed,
                     cleared, sweep, sweeps, seen, orphaned, exited>>
  BY DEF RemoveSession, turnVars, treeVars, sweepVars
<1>5. \/ /\ isPending \/ isReal
         /\ Running(s) /\ Kill(t, s, IF isReal THEN i ELSE None)
         /\ pc' = [pc EXCEPT ![t] = "removing"] /\ lock' = t
         /\ UNCHANGED <<tempToReal, realToTemp>>
      \/ /\ IF isReal THEN Forget(i) ELSE UNCHANGED <<tempToReal, realToTemp>>
         /\ pc' = [pc EXCEPT ![t] = "done"] /\ UNCHANGED <<lock, alive, waitsFor>>
  BY DEF RemoveSession, Goes
<1>6. pending' \in [Ids -> MaybeTurns] /\ sessions' \in [Ids -> MaybeTurns] /\ SessionsAreOwn'
  <2> HIDE DEF i, isPending, isReal
  <2>1. \A j \in Ids : pending'[j] \in {None, pending[j]} /\ sessions'[j] \in {None, sessions[j]}
    BY <1>0, <1>3, <1>4 DEF CliTypeOK
  <2>2. SessionsAreOwn'
    BY <1>0, <1>1, <2>1 DEF SessionsAreOwn
  <2> QED  BY <1>0, <1>3, <1>4, <2>2 DEF CliTypeOK, MaybeTurns
<1> HIDE DEF s, isPending, i
<1>7. CASE /\ isPending \/ isReal
           /\ Running(s) /\ Kill(t, s, IF isReal THEN i ELSE None)
           /\ pc' = [pc EXCEPT ![t] = "removing"] /\ lock' = t
           /\ UNCHANGED <<tempToReal, realToTemp>>
  <2>1. s \in Turns /\ (IF isReal THEN i ELSE None) \in Ids \cup {None}
    BY <1>3, <1>7
  <2>2. /\ alive' \in [Turns -> {"none", "running", "dying", "dead"}]
        /\ waitsFor' \in [Turns \cup {Manager} -> Waits \cup {None}]
        /\ \A x \in Turns : /\ alive'[x] = "running" => alive[x] = "running"
                            /\ alive'[x] = "none" <=> alive[x] = "none"
                            /\ alive'[x] = "dead" <=> alive[x] = "dead"
        /\ \A v \in Turns \cup {Manager} : v # t => waitsFor'[v] = waitsFor[v]
        /\ WaitsForDying'
    <3> DEFINE k == IF isReal THEN i ELSE None
    <3>1. Kill(t, s, k) /\ Running(s) /\ t \in Turns \cup {Manager} /\ k \in Ids \cup {None} /\ s \in Turns
      BY <1>7, <2>1
    <3> HIDE DEF k
    <3> QED  BY <1>0, <1>1, <3>1, KillFacts
  <2>3. pc' \in [Turns -> Places] /\ pc'[t] = "removing" /\ \A x \in Turns : x # t => pc'[x] = pc[x]
    BY <1>0, <1>7 DEF CliTypeOK, Places
  <2>4. CliTypeOK'
    BY <1>0, <1>1, <1>4, <1>6, <1>7, <2>2, <2>3 DEF CliTypeOK, MaybeTurns
  <2>5. ProcessIsOwn'
    BY <1>0, <1>1, <1>4, <2>2 DEF ProcessIsOwn, CliTypeOK, MaybeTurns
  <2>6. PlaceHasSession'
    BY <1>0, <1>1, <1>4, <2>3 DEF PlaceHasSession
  <2>7. PlaceHasProcess'
    BY <1>0, <1>1, <1>2, <1>4, <2>2, <2>3 DEF PlaceHasProcess
  <2>8. ExitEndsAll' /\ KilledAtExit'
    BY <1>0, <1>2, <1>4, <2>2, <2>3 DEF ExitEndsAll, KilledAtExit
  <2> QED  BY <1>6, <1>11, <2>2, <2>4, <2>5, <2>6, <2>7, <2>8 DEF ProcInv
<1>8. CASE /\ IF isReal THEN Forget(i) ELSE UNCHANGED <<tempToReal, realToTemp>>
           /\ pc' = [pc EXCEPT ![t] = "done"] /\ UNCHANGED <<lock, alive, waitsFor>>
  <2>3. pc' \in [Turns -> Places] /\ pc'[t] = "done" /\ \A x \in Turns : x # t => pc'[x] = pc[x]
    BY <1>0, <1>8 DEF CliTypeOK, Places
  <2>4. tempToReal' \in [Ids -> Ids \cup {None}] /\ realToTemp' \in [Ids -> Ids \cup {None}]
    BY <1>0, <1>3, <1>8 DEF Forget, CliTypeOK
  <2>5. CliTypeOK'
    BY <1>0, <1>1, <1>4, <1>6, <1>8, <2>3, <2>4 DEF CliTypeOK, MaybeTurns
  <2>6. PlaceHasSession' /\ PlaceHasProcess'
    BY <1>0, <1>1, <1>2, <1>4, <1>8, <2>3 DEF PlaceHasSession, PlaceHasProcess
  <2>7. ExitEndsAll' /\ KilledAtExit' /\ ProcessIsOwn' /\ WaitsForDying'
    BY <1>0, <1>1, <1>2, <1>4, <1>8, <2>3 DEF ExitEndsAll, KilledAtExit, ProcessIsOwn, WaitsForDying
  <2> QED  BY <1>6, <1>11, <2>5, <2>6, <2>7 DEF ProcInv
<1> QED  BY <1>5, <1>7, <1>8

\* Removed keeps the invariant of the processes.
LEMMA RemovedProc ==
    ASSUME ProcInv, NEW t \in Turns, Removed(t)
    PROVE  ProcInv'
<1>0. /\ CliTypeOK /\ SessionsAreOwn /\ ProcessIsOwn /\ WaitsForDying
      /\ PlaceHasSession /\ PlaceHasProcess /\ ExitEndsAll /\ SweepsCounted /\ KilledAtExit
  BY DEF ProcInv
<1>1. session' = session /\ overlapped' = overlapped
  BY DEF Removed, turnVars, treeVars, sweepVars
<1>2. \A x \in Turns : Mixed(x)' <=> Mixed(x)
  BY <1>1, MixedStays
<1>3. CliTypeOK'
  <2>1. pc' \in [Turns -> Places] /\ lock' = None
    BY <1>0 DEF Removed, Goes, CliTypeOK, Places
  <2>2. waitsFor[t] \in Waits /\ pids' \subseteq pids
    BY <1>0, KilledFacts DEF Removed
  <2>3. waitsFor[t].id \in Ids \cup {None}
    BY <2>2 DEF Waits
  <2>4. tempToReal' \in [Ids -> Ids \cup {None}] /\ realToTemp' \in [Ids -> Ids \cup {None}]
    BY <1>0, <2>3 DEF Removed, Forget, CliTypeOK
  <2>5. waitsFor' \in [Turns \cup {Manager} -> Waits \cup {None}]
    BY <1>0 DEF Removed, CliTypeOK
  <2> QED  BY <1>0, <2>1, <2>2, <2>4, <2>5 DEF Removed, CliTypeOK, turnVars, treeVars, sweepVars,
              MaybeTurns
<1>4. SessionsAreOwn'
  BY <1>0, <1>1, IdFacts DEF Removed, turnVars, treeVars, sweepVars, SessionsAreOwn, CliTypeOK
<1>5. ProcessIsOwn'
  BY <1>0, <1>1 DEF Removed, turnVars, treeVars, sweepVars, ProcessIsOwn, CliTypeOK, MaybeTurns
<1>6. WaitsForDying'
  BY <1>0, <1>1 DEF Removed, turnVars, treeVars, sweepVars, WaitsForDying, CliTypeOK, Waits, Killed
<1>7. PlaceHasSession'
  BY <1>0, <1>1 DEF Removed, Goes, turnVars, treeVars, sweepVars, PlaceHasSession, CliTypeOK
<1>8. PlaceHasProcess'
  BY <1>0, <1>1, <1>2 DEF Removed, Goes, turnVars, treeVars, sweepVars, PlaceHasProcess, CliTypeOK
<1>9. ExitEndsAll'
  BY <1>0, <1>2 DEF Removed, Goes, turnVars, treeVars, sweepVars, ExitEndsAll, CliTypeOK
<1>10. KilledAtExit'
  <2>1. \A x \in pids : alive[x] = "running" => x \in pids' \/ Mixed(x)
    BY <1>0, KilledFacts DEF Removed
  <2>2. alive' = alive
    BY DEF Removed
  <2> QED  BY <1>0, <1>2, <2>1, <2>2 DEF KilledAtExit
<1>11. SweepsCounted'
  BY <1>0 DEF Removed, turnVars, treeVars, sweepVars, SweepsCounted, CliTypeOK
<1> QED  BY <1>3, <1>4, <1>5, <1>6, <1>7, <1>8, <1>9, <1>10, <1>11 DEF ProcInv

\* Halted keeps the invariant of the processes.
LEMMA HaltedProc ==
    ASSUME ProcInv, NEW t \in Turns, Halted(t)
    PROVE  ProcInv'
<1>0. /\ CliTypeOK /\ SessionsAreOwn /\ ProcessIsOwn /\ WaitsForDying
      /\ PlaceHasSession /\ PlaceHasProcess /\ ExitEndsAll /\ SweepsCounted /\ KilledAtExit
  BY DEF ProcInv
<1>1. session' = session /\ overlapped' = overlapped
  BY DEF Halted, managerVars, turnVars, treeVars, sweepVars
<1>2. \A x \in Turns : Mixed(x)' <=> Mixed(x)
  BY <1>1, MixedStays
<1>3. CliTypeOK'
  BY <1>0, CliSessionsAssumption, IdFacts DEF Halted, Goes, managerVars, turnVars, treeVars,
     sweepVars, CliTypeOK, Places, MaybeTurns, PlaceHasSession, Leave
<1>4. SessionsAreOwn'
  BY <1>0, <1>1, IdFacts DEF Halted, managerVars, turnVars, treeVars, sweepVars, SessionsAreOwn,
     CliTypeOK
<1>5. ProcessIsOwn'
  BY <1>0, <1>1 DEF Halted, managerVars, turnVars, treeVars, sweepVars, ProcessIsOwn, CliTypeOK,
     MaybeTurns
<1>6. WaitsForDying'
  BY <1>0, <1>1 DEF Halted, managerVars, turnVars, treeVars, sweepVars, WaitsForDying, CliTypeOK,
     Waits, Killed
<1>7. PlaceHasSession'
  BY <1>0, <1>1 DEF Halted, Goes, managerVars, turnVars, treeVars, sweepVars, PlaceHasSession,
     CliTypeOK
<1>8. PlaceHasProcess'
  BY <1>0, <1>1, <1>2 DEF Halted, Goes, managerVars, turnVars, treeVars, sweepVars,
     PlaceHasProcess, CliTypeOK
<1>9. ExitEndsAll'
  BY <1>0, <1>2 DEF Halted, Goes, managerVars, turnVars, treeVars, sweepVars, ExitEndsAll, CliTypeOK
<1>10. KilledAtExit'
  <2>1. session[t] # None /\ (alive[t] # "running" \/ Mixed(t)) /\ Leave(session[t])
    BY <1>0 DEF Halted, PlaceHasSession, PlaceHasProcess, Killed
  <2>2. \A x \in pids : alive[x] = "running" => x \in pids' \/ Mixed(x)
    BY <1>0, <2>1, LeaveFacts
  <2>3. alive' = alive
    BY DEF Halted
  <2> QED  BY <1>0, <1>2, <2>2, <2>3 DEF KilledAtExit
<1>11. SweepsCounted'
  BY <1>0 DEF Halted, managerVars, turnVars, treeVars, sweepVars, SweepsCounted, CliTypeOK
<1> QED  BY <1>3, <1>4, <1>5, <1>6, <1>7, <1>8, <1>9, <1>10, <1>11 DEF ProcInv

\* Collect keeps the invariant of the processes.
LEMMA CollectProc ==
    ASSUME ProcInv, NEW t \in Turns, Collect(t)
    PROVE  ProcInv'
<1>0. /\ CliTypeOK /\ SessionsAreOwn /\ ProcessIsOwn /\ WaitsForDying
      /\ PlaceHasSession /\ PlaceHasProcess /\ ExitEndsAll /\ SweepsCounted /\ KilledAtExit
  BY DEF ProcInv
<1>1. session' = session /\ overlapped' = overlapped
  BY DEF Collect, managerVars, turnVars, treeVars, sweepVars, Stops
<1>2. \A x \in Turns : Mixed(x)' <=> Mixed(x)
  BY <1>1, MixedStays
<1>3. CliTypeOK'
  BY <1>0, CliSessionsAssumption, IdFacts DEF Collect, managerVars, turnVars, treeVars, sweepVars,
     Stops, CliTypeOK, Places, MaybeTurns, PlaceHasSession, Leave
<1>4. SessionsAreOwn'
  BY <1>0, <1>1, IdFacts DEF Collect, managerVars, turnVars, treeVars, sweepVars, Stops,
     SessionsAreOwn, CliTypeOK
<1>5. ProcessIsOwn'
  BY <1>0, <1>1 DEF Collect, managerVars, turnVars, treeVars, sweepVars, Stops, ProcessIsOwn,
     CliTypeOK, MaybeTurns
<1>6. WaitsForDying'
  BY <1>0, <1>1 DEF Collect, managerVars, turnVars, treeVars, sweepVars, Stops, WaitsForDying,
     CliTypeOK, Waits
<1>7. PlaceHasSession'
  BY <1>0, <1>1 DEF Collect, managerVars, turnVars, treeVars, sweepVars, Stops, PlaceHasSession,
     CliTypeOK
<1>8. PlaceHasProcess'
  BY <1>0, <1>1, <1>2 DEF Collect, managerVars, turnVars, treeVars, sweepVars, Stops,
     PlaceHasProcess, CliTypeOK
<1>9. ExitEndsAll'
  BY <1>0, <1>2 DEF Collect, managerVars, turnVars, treeVars, sweepVars, Stops, ExitEndsAll,
     CliTypeOK
<1>10. KilledAtExit'
  <2>1. session[t] # None /\ (alive[t] = "dead") /\ Leave(session[t])
    BY <1>0 DEF Collect, PlaceHasSession, PlaceHasProcess
  <2>2. \A x \in pids : alive[x] = "running" => x \in pids' \/ Mixed(x)
    BY <1>0, <2>1, LeaveFacts
  <2>3. alive' = alive
    BY DEF Collect, Stops
  <2> QED  BY <1>0, <1>2, <2>2, <2>3 DEF KilledAtExit
<1>11. SweepsCounted'
  BY <1>0 DEF Collect, managerVars, turnVars, treeVars, sweepVars, Stops, SweepsCounted, CliTypeOK
<1> QED  BY <1>3, <1>4, <1>5, <1>6, <1>7, <1>8, <1>9, <1>10, <1>11 DEF ProcInv

\* SweepNext keeps the invariant of the processes.
LEMMA SweepNextProc ==
    ASSUME ProcInv, NEW s \in Turns, SweepNext(s)
    PROVE  ProcInv'
<1>0. /\ CliTypeOK /\ SessionsAreOwn /\ ProcessIsOwn /\ WaitsForDying
      /\ PlaceHasSession /\ PlaceHasProcess /\ ExitEndsAll /\ SweepsCounted /\ KilledAtExit
  BY DEF ProcInv
<1>1. session' = session /\ overlapped' = overlapped
  BY DEF SweepNext, managerVars, turnVars, treeVars
<1>2. \A x \in Turns : Mixed(x)' <=> Mixed(x)
  BY <1>1, MixedStays
<1>11. SweepsCounted'
  BY <1>0 DEF SweepNext, managerVars, turnVars, treeVars, SweepsCounted, CliTypeOK
<1>3. s \in Turns /\ sweep' \in [pc : {"idle", "cancelling", "waiting", "sweeping", "stopping"},
                              left : SUBSET (Turns \cup Trees)]
  BY <1>0 DEF SweepNext, CliTypeOK
<1>4. CASE ~Running(s)
  <2>1. alive' = alive /\ waitsFor' = waitsFor /\ process' = process /\ pids' = pids /\ pc' = pc
    BY <1>4 DEF SweepNext
  <2>2. CliTypeOK'
    BY <1>0, <1>3, <2>1 DEF SweepNext, CliTypeOK, managerVars, turnVars, treeVars
  <2>3. SessionsAreOwn' /\ ProcessIsOwn' /\ WaitsForDying'
    BY <1>0, <1>1, <2>1 DEF SweepNext, managerVars, SessionsAreOwn, ProcessIsOwn, WaitsForDying
  <2>4. PlaceHasSession' /\ PlaceHasProcess' /\ ExitEndsAll' /\ KilledAtExit'
    BY <1>0, <1>1, <1>2, <2>1 DEF SweepNext, turnVars, PlaceHasSession, PlaceHasProcess,
       ExitEndsAll, KilledAtExit
  <2> QED  BY <1>11, <2>2, <2>3, <2>4 DEF ProcInv
<1>5. CASE Running(s)
  <2>1. /\ alive' \in [Turns -> {"none", "running", "dying", "dead"}]
        /\ waitsFor' \in [Turns \cup {Manager} -> Waits \cup {None}]
        /\ \A x \in Turns : /\ alive'[x] = "running" => alive[x] = "running"
                            /\ alive'[x] = "none" <=> alive[x] = "none"
                            /\ alive'[x] = "dead" <=> alive[x] = "dead"
        /\ \A v \in Turns \cup {Manager} : v # Manager => waitsFor'[v] = waitsFor[v]
        /\ WaitsForDying'
    <3>1. Kill(Manager, s, None) /\ Manager \in Turns \cup {Manager} /\ None \in Ids \cup {None}
      BY <1>5 DEF SweepNext
    <3> QED  BY <1>0, <1>1, <1>3, <1>5, <3>1, KillFacts
  <2>2. \A x \in Turns : x # Manager /\ waitsFor'[x] = waitsFor[x]
    BY <2>1, CliSessionsAssumption
  <2>3. process' = process /\ pids' = pids /\ pc' = pc
    BY DEF SweepNext
  <2>4. CliTypeOK'
    BY <1>0, <1>3, <2>1 DEF SweepNext, CliTypeOK, managerVars, turnVars, treeVars
  <2>5. SessionsAreOwn' /\ ProcessIsOwn'
    BY <1>0, <1>1, <2>1, <2>3 DEF SweepNext, managerVars, SessionsAreOwn, ProcessIsOwn, CliTypeOK,
       MaybeTurns
  <2>6. PlaceHasSession' /\ PlaceHasProcess'
    BY <1>0, <1>1, <1>2, <2>1, <2>2, <2>3 DEF SweepNext, turnVars, PlaceHasSession, PlaceHasProcess
  <2>7. ExitEndsAll' /\ KilledAtExit'
    BY <1>0, <1>2, <2>1, <2>3 DEF SweepNext, ExitEndsAll, KilledAtExit
  <2> QED  BY <1>11, <2>1, <2>4, <2>5, <2>6, <2>7 DEF ProcInv
<1> QED  BY <1>4, <1>5

\* StopAll keeps the invariant of the processes.
LEMMA StopAllProc ==
    ASSUME ProcInv, StopAll
    PROVE  ProcInv'
<1>0. /\ CliTypeOK /\ SessionsAreOwn /\ ProcessIsOwn /\ WaitsForDying
      /\ PlaceHasSession /\ PlaceHasProcess /\ ExitEndsAll /\ SweepsCounted /\ KilledAtExit
  BY DEF ProcInv
<1>1. session' = session /\ overlapped' = overlapped
  BY DEF StopAll, managerVars, turnVars, treeVars, Processes
<1>2. \A x \in Turns : Mixed(x)' <=> Mixed(x)
  BY <1>1, MixedStays
<1>3. CliTypeOK'
  BY <1>0, CliSessionsAssumption, IdFacts DEF StopAll, managerVars, turnVars, treeVars, Processes,
     CliTypeOK, Places, MaybeTurns, PlaceHasSession
<1>4. SessionsAreOwn'
  BY <1>0, <1>1, IdFacts DEF StopAll, managerVars, turnVars, treeVars, Processes, SessionsAreOwn,
     CliTypeOK
<1>5. ProcessIsOwn'
  BY <1>0, <1>1 DEF StopAll, managerVars, turnVars, treeVars, Processes, ProcessIsOwn, CliTypeOK,
     MaybeTurns
<1>6. WaitsForDying'
  BY <1>0, <1>1 DEF StopAll, managerVars, turnVars, treeVars, Processes, WaitsForDying, CliTypeOK,
     Waits
<1>7. PlaceHasSession'
  BY <1>0, <1>1 DEF StopAll, managerVars, turnVars, treeVars, Processes, PlaceHasSession, CliTypeOK
<1>8. PlaceHasProcess'
  BY <1>0, <1>1, <1>2 DEF StopAll, managerVars, turnVars, treeVars, Processes, PlaceHasProcess,
     CliTypeOK
<1>9. ExitEndsAll'
  BY <1>0, <1>2 DEF StopAll, managerVars, turnVars, treeVars, Processes, ExitEndsAll, CliTypeOK
<1>10. KilledAtExit'
  BY <1>0, <1>2 DEF StopAll, managerVars, turnVars, treeVars, Processes, KilledAtExit, CliTypeOK
<1>11. SweepsCounted'
  BY <1>0 DEF StopAll, managerVars, turnVars, treeVars, Processes, SweepsCounted, CliTypeOK
<1> QED  BY <1>3, <1>4, <1>5, <1>6, <1>7, <1>8, <1>9, <1>10, <1>11 DEF ProcInv

\* StopSessions keeps the invariant of the processes.
LEMMA StopSessionsProc ==
    ASSUME ProcInv, StopSessions
    PROVE  ProcInv'
<1>0. /\ CliTypeOK /\ SessionsAreOwn /\ ProcessIsOwn /\ WaitsForDying
      /\ PlaceHasSession /\ PlaceHasProcess /\ ExitEndsAll /\ SweepsCounted /\ KilledAtExit
  BY DEF ProcInv
<1>1. session' = session /\ overlapped' = overlapped
  BY DEF StopSessions, managerVars, turnVars, treeVars, Processes
<1>2. \A x \in Turns : Mixed(x)' <=> Mixed(x)
  BY <1>1, MixedStays
<1>3. CliTypeOK'
  BY <1>0, CliSessionsAssumption, IdFacts DEF StopSessions, managerVars, turnVars, treeVars,
     Processes, CliTypeOK, Places, MaybeTurns, PlaceHasSession
<1>4. SessionsAreOwn'
  BY <1>0, <1>1, IdFacts DEF StopSessions, managerVars, turnVars, treeVars, Processes,
     SessionsAreOwn, CliTypeOK
<1>5. ProcessIsOwn'
  BY <1>0, <1>1 DEF StopSessions, managerVars, turnVars, treeVars, Processes, ProcessIsOwn,
     CliTypeOK, MaybeTurns
<1>6. WaitsForDying'
  BY <1>0, <1>1 DEF StopSessions, managerVars, turnVars, treeVars, Processes, WaitsForDying,
     CliTypeOK, Waits
<1>7. PlaceHasSession'
  BY <1>0, <1>1 DEF StopSessions, managerVars, turnVars, treeVars, Processes, PlaceHasSession,
     CliTypeOK
<1>8. PlaceHasProcess'
  BY <1>0, <1>1, <1>2 DEF StopSessions, managerVars, turnVars, treeVars, Processes,
     PlaceHasProcess, CliTypeOK
<1>9. ExitEndsAll'
  BY <1>0, <1>2 DEF StopSessions, managerVars, turnVars, treeVars, Processes, ExitEndsAll, CliTypeOK
<1>10. KilledAtExit'
  BY <1>0, <1>2 DEF StopSessions, managerVars, turnVars, treeVars, Processes, KilledAtExit,
     CliTypeOK
<1>11. SweepsCounted'
  BY <1>0 DEF StopSessions, managerVars, turnVars, treeVars, Processes, SweepsCounted, CliTypeOK
<1> QED  BY <1>3, <1>4, <1>5, <1>6, <1>7, <1>8, <1>9, <1>10, <1>11 DEF ProcInv

\* SweepBegin keeps the invariant of the processes.
LEMMA SweepBeginProc ==
    ASSUME ProcInv, SweepBegin
    PROVE  ProcInv'
<1>0. /\ CliTypeOK /\ SessionsAreOwn /\ ProcessIsOwn /\ WaitsForDying
      /\ PlaceHasSession /\ PlaceHasProcess /\ ExitEndsAll /\ SweepsCounted /\ KilledAtExit
  BY DEF ProcInv
<1>1. session' = session /\ overlapped' = overlapped
  BY DEF SweepBegin, managerVars, turnVars, treeVars, Processes
<1>2. \A x \in Turns : Mixed(x)' <=> Mixed(x)
  BY <1>1, MixedStays
<1>3. CliTypeOK'
  BY <1>0, CliSessionsAssumption, IdFacts DEF SweepBegin, managerVars, turnVars, treeVars,
     Processes, CliTypeOK, Places, MaybeTurns, PlaceHasSession, Values
<1>4. SessionsAreOwn'
  BY <1>0, <1>1, IdFacts DEF SweepBegin, managerVars, turnVars, treeVars, Processes,
     SessionsAreOwn, CliTypeOK
<1>5. ProcessIsOwn'
  BY <1>0, <1>1 DEF SweepBegin, managerVars, turnVars, treeVars, Processes, ProcessIsOwn,
     CliTypeOK, MaybeTurns
<1>6. WaitsForDying'
  BY <1>0, <1>1 DEF SweepBegin, managerVars, turnVars, treeVars, Processes, WaitsForDying,
     CliTypeOK, Waits
<1>7. PlaceHasSession'
  BY <1>0, <1>1 DEF SweepBegin, managerVars, turnVars, treeVars, Processes, PlaceHasSession,
     CliTypeOK
<1>8. PlaceHasProcess'
  BY <1>0, <1>1, <1>2 DEF SweepBegin, managerVars, turnVars, treeVars, Processes, PlaceHasProcess,
     CliTypeOK
<1>9. ExitEndsAll'
  BY <1>0, <1>2 DEF SweepBegin, managerVars, turnVars, treeVars, Processes, ExitEndsAll, CliTypeOK
<1>10. KilledAtExit'
  BY <1>0, <1>2 DEF SweepBegin, managerVars, turnVars, treeVars, Processes, KilledAtExit, CliTypeOK
<1>11. SweepsCounted'
  BY <1>0 DEF SweepBegin, managerVars, turnVars, treeVars, Processes, SweepsCounted, CliTypeOK
<1> QED  BY <1>3, <1>4, <1>5, <1>6, <1>7, <1>8, <1>9, <1>10, <1>11 DEF ProcInv

\* SweepStopped keeps the invariant of the processes.
LEMMA SweepStoppedProc ==
    ASSUME ProcInv, SweepStopped
    PROVE  ProcInv'
<1>0. /\ CliTypeOK /\ SessionsAreOwn /\ ProcessIsOwn /\ WaitsForDying
      /\ PlaceHasSession /\ PlaceHasProcess /\ ExitEndsAll /\ SweepsCounted /\ KilledAtExit
  BY DEF ProcInv
<1>1. session' = session /\ overlapped' = overlapped
  BY DEF SweepStopped, managerVars, turnVars, treeVars
<1>2. \A x \in Turns : Mixed(x)' <=> Mixed(x)
  BY <1>1, MixedStays
<1>3. CliTypeOK'
  <2>1. /\ sweep' = [sweep EXCEPT !.pc = "sweeping"]
        /\ waitsFor' = [waitsFor EXCEPT ![Manager] = None]
        /\ pids' \subseteq pids
    BY DEF SweepStopped
  <2>2. sweep' \in [pc : {"idle", "cancelling", "waiting", "sweeping", "stopping"},
                   left : SUBSET (Turns \cup Trees)]
    BY <1>0, <2>1 DEF CliTypeOK
  <2>3. waitsFor' \in [Turns \cup {Manager} -> Waits \cup {None}]
    BY <1>0, <2>1 DEF CliTypeOK
  <2>4. UNCHANGED <<managerVars, lock, process, cliLock, alive, pc, turnVars, treeVars, sweeps, seen,
                    orphaned, exited>>
    BY DEF SweepStopped
  <2> QED  BY <1>0, <2>1, <2>2, <2>3, <2>4 DEF CliTypeOK, managerVars, turnVars, treeVars
<1>4. SessionsAreOwn'
  BY <1>0, <1>1, IdFacts DEF SweepStopped, managerVars, turnVars, treeVars, SessionsAreOwn,
     CliTypeOK
<1>5. ProcessIsOwn'
  BY <1>0, <1>1 DEF SweepStopped, managerVars, turnVars, treeVars, ProcessIsOwn, CliTypeOK,
     MaybeTurns
<1>6. WaitsForDying'
  BY <1>0, <1>1 DEF SweepStopped, managerVars, turnVars, treeVars, WaitsForDying, CliTypeOK,
     Waits, Killed
<1>7. PlaceHasSession'
  BY <1>0, <1>1 DEF SweepStopped, managerVars, turnVars, treeVars, PlaceHasSession, CliTypeOK
<1>8. PlaceHasProcess'
  <2>1. \A x \in Turns : waitsFor'[x] = waitsFor[x]
    BY <1>0, CliSessionsAssumption DEF SweepStopped, CliTypeOK
  <2>2. pc' = pc /\ alive' = alive /\ process' = process
    BY DEF SweepStopped
  <2> QED  BY <1>0, <1>1, <1>2, <2>1, <2>2 DEF PlaceHasProcess
<1>9. ExitEndsAll'
  BY <1>0, <1>2 DEF SweepStopped, managerVars, turnVars, treeVars, ExitEndsAll, CliTypeOK
<1>10. KilledAtExit'
  <2>1. \A x \in pids : alive[x] = "running" => x \in pids' \/ Mixed(x)
    BY <1>0, KilledFacts DEF SweepStopped
  <2>2. alive' = alive
    BY DEF SweepStopped
  <2> QED  BY <1>0, <1>2, <2>1, <2>2 DEF KilledAtExit
<1>11. SweepsCounted'
  BY <1>0 DEF SweepStopped, managerVars, turnVars, treeVars, SweepsCounted, CliTypeOK
<1> QED  BY <1>3, <1>4, <1>5, <1>6, <1>7, <1>8, <1>9, <1>10, <1>11 DEF ProcInv

\* SweepEnd keeps the invariant of the processes.
LEMMA SweepEndProc ==
    ASSUME ProcInv, SweepEnd
    PROVE  ProcInv'
<1>0. /\ CliTypeOK /\ SessionsAreOwn /\ ProcessIsOwn /\ WaitsForDying
      /\ PlaceHasSession /\ PlaceHasProcess /\ ExitEndsAll /\ SweepsCounted /\ KilledAtExit
  BY DEF ProcInv
<1>1. session' = session /\ overlapped' = overlapped
  BY DEF SweepEnd, turnVars, treeVars, Processes
<1>2. \A x \in Turns : Mixed(x)' <=> Mixed(x)
  BY <1>1, MixedStays
<1>3. CliTypeOK'
  <2>1. /\ pending' \in [Ids -> MaybeTurns] /\ sessions' \in [Ids -> MaybeTurns]
        /\ tempToReal' \in [Ids -> Ids \cup {None}] /\ realToTemp' \in [Ids -> Ids \cup {None}]
    BY DEF SweepEnd, MaybeTurns
  <2>2. sweeps' \in 0..MaxStopAlls
    BY <1>0, CliSessionsAssumption DEF SweepEnd, SweepsCounted, CliTypeOK
  <2> QED  BY <1>0, <2>1, <2>2 DEF SweepEnd, NoSweep, CliTypeOK, Processes, turnVars, treeVars,
              MaybeTurns
<1>4. SessionsAreOwn'
  BY <1>0, <1>1, IdFacts DEF SweepEnd, turnVars, treeVars, Processes, SessionsAreOwn, CliTypeOK
<1>5. ProcessIsOwn'
  BY <1>0, <1>1 DEF SweepEnd, turnVars, treeVars, Processes, ProcessIsOwn, CliTypeOK, MaybeTurns
<1>6. WaitsForDying'
  BY <1>0, <1>1 DEF SweepEnd, turnVars, treeVars, Processes, WaitsForDying, CliTypeOK, Waits
<1>7. PlaceHasSession'
  BY <1>0, <1>1 DEF SweepEnd, turnVars, treeVars, Processes, PlaceHasSession, CliTypeOK
<1>8. PlaceHasProcess'
  BY <1>0, <1>1, <1>2 DEF SweepEnd, turnVars, treeVars, Processes, PlaceHasProcess, CliTypeOK
<1>9. ExitEndsAll'
  BY <1>0, <1>2 DEF SweepEnd, turnVars, treeVars, Processes, ExitEndsAll, CliTypeOK
<1>10. KilledAtExit'
  BY <1>0, <1>2 DEF SweepEnd, turnVars, treeVars, Processes, KilledAtExit, CliTypeOK
<1>11. SweepsCounted'
  BY <1>0 DEF SweepEnd, turnVars, treeVars, Processes, SweepsCounted, CliTypeOK, NoSweep
<1> QED  BY <1>3, <1>4, <1>5, <1>6, <1>7, <1>8, <1>9, <1>10, <1>11 DEF ProcInv

\* Exit keeps the invariant of the processes.
LEMMA ExitProc ==
    ASSUME ProcInv, Exit
    PROVE  ProcInv'
<1>0. /\ CliTypeOK /\ SessionsAreOwn /\ ProcessIsOwn /\ WaitsForDying
      /\ PlaceHasSession /\ PlaceHasProcess /\ ExitEndsAll /\ SweepsCounted /\ KilledAtExit
  BY DEF ProcInv
<1>1. session' = session /\ overlapped' = overlapped
  BY DEF Exit, managerVars, turnVars, treeVars, sweepVars
<1>2. \A x \in Turns : Mixed(x)' <=> Mixed(x)
  BY <1>1, MixedStays
<1>3. CliTypeOK'
  BY <1>0, CliSessionsAssumption, IdFacts DEF Exit, managerVars, turnVars, treeVars, sweepVars,
     CliTypeOK, Places, MaybeTurns, PlaceHasSession
<1>4. SessionsAreOwn'
  BY <1>0, <1>1, IdFacts DEF Exit, managerVars, turnVars, treeVars, sweepVars, SessionsAreOwn,
     CliTypeOK
<1>5. ProcessIsOwn'
  BY <1>0, <1>1 DEF Exit, managerVars, turnVars, treeVars, sweepVars, ProcessIsOwn, CliTypeOK,
     MaybeTurns
<1>6. WaitsForDying'
  BY <1>0, <1>1 DEF Exit, managerVars, turnVars, treeVars, sweepVars, WaitsForDying, CliTypeOK,
     Waits
<1>7. PlaceHasSession'
  BY <1>0, <1>1 DEF Exit, managerVars, turnVars, treeVars, sweepVars, PlaceHasSession, CliTypeOK
<1>8. PlaceHasProcess'
  BY <1>0, <1>1, <1>2 DEF Exit, managerVars, turnVars, treeVars, sweepVars, PlaceHasProcess,
     CliTypeOK
<1>9. ExitEndsAll'
  <2>1. \A x \in Turns : pc'[x] = "done" /\ (alive'[x] = "running" => alive[x] = "running" /\ x \notin pids)
    BY <1>0 DEF Exit, CliTypeOK
  <2> QED  BY <1>0, <1>2, <2>1 DEF ExitEndsAll, KilledAtExit
<1>10. KilledAtExit'
  BY <1>0, <1>2 DEF Exit, managerVars, turnVars, treeVars, sweepVars, KilledAtExit, CliTypeOK
<1>11. SweepsCounted'
  BY <1>0 DEF Exit, managerVars, turnVars, treeVars, sweepVars, SweepsCounted, CliTypeOK
<1> QED  BY <1>3, <1>4, <1>5, <1>6, <1>7, <1>8, <1>9, <1>10, <1>11 DEF ProcInv

\* The cancellation of a turn, wherever it stands, keeps what concerns it.
LEMMA CancelTurnProc ==
    ASSUME ProcInv, NEW t \in Turns, CancelTurn(t), Active(t),
           UNCHANGED <<session, overlapped, temp, captured, exited>>
    PROVE  /\ lock' \in MaybeTurns \cup {Manager} /\ cliLock' \in [Turns -> MaybeTurns]
           /\ alive' \in [Turns -> {"none", "running", "dying", "dead"}]
           /\ pids' \subseteq {x \in Turns : alive'[x] # "none"}
           /\ waitsFor' \in [Turns \cup {Manager} -> Waits \cup {None}]
           /\ pc' \in [Turns -> Places] /\ orphaned' \subseteq Turns /\ process' = process
           /\ ProcessIsOwn' /\ WaitsForDying' /\ PlaceHasSession' /\ PlaceHasProcess'
           /\ ExitEndsAll' /\ KilledAtExit'
<1> DEFINE Types == /\ lock' \in MaybeTurns \cup {Manager} /\ cliLock' \in [Turns -> MaybeTurns]
                    /\ alive' \in [Turns -> {"none", "running", "dying", "dead"}]
                    /\ pids' \subseteq {x \in Turns : alive'[x] # "none"}
                    /\ waitsFor' \in [Turns \cup {Manager} -> Waits \cup {None}]
                    /\ pc' \in [Turns -> Places] /\ orphaned' \subseteq Turns /\ process' = process
           Kept == ProcessIsOwn' /\ WaitsForDying' /\ PlaceHasSession' /\ PlaceHasProcess' /\ KilledAtExit'
<1>0. /\ CliTypeOK /\ SessionsAreOwn /\ ProcessIsOwn /\ WaitsForDying
      /\ PlaceHasSession /\ PlaceHasProcess /\ ExitEndsAll /\ KilledAtExit
  BY DEF ProcInv
<1>1. session' = session /\ overlapped' = overlapped /\ temp' = temp /\ captured' = captured
      /\ exited' = exited
  OBVIOUS
<1>2. \A x \in Turns : Mixed(x)' <=> Mixed(x)
  BY <1>1, MixedStays
<1>3. ~exited /\ ExitEndsAll'
  BY <1>0, <1>1 DEF ExitEndsAll, Active
<1>4. CASE /\ pc[t] \in {"opening", "queued", "registering", "handling", "finishing"}
           /\ Goes(t, "cleanup") /\ UNCHANGED <<lock, Processes, waitsFor, orphaned>>
  <2>1. pc' \in [Turns -> Places] /\ pc'[t] = "cleanup" /\ \A x \in Turns : x # t => pc'[x] = pc[x]
    BY <1>0, <1>4 DEF CliTypeOK, Goes, Places
  <2>2. Types
    BY <1>0, <1>4, <2>1 DEF CliTypeOK, Processes
  <2>3. PlaceHasSession' /\ PlaceHasProcess'
    BY <1>0, <1>1, <1>2, <1>4, <2>1 DEF PlaceHasSession, PlaceHasProcess, Processes
  <2>4. ProcessIsOwn' /\ WaitsForDying' /\ KilledAtExit'
    BY <1>0, <1>1, <1>2, <1>4 DEF ProcessIsOwn, WaitsForDying, KilledAtExit, Processes
  <2> QED  BY <1>3, <2>2, <2>3, <2>4
<1>5. CASE /\ pc[t] = "spawning" /\ Leave(session[t])
           /\ Goes(t, "cleanup") /\ UNCHANGED <<lock, process, alive, waitsFor, orphaned>>
  <2>1. pc' \in [Turns -> Places] /\ pc'[t] = "cleanup" /\ \A x \in Turns : x # t => pc'[x] = pc[x]
    BY <1>0, <1>5 DEF CliTypeOK, Goes, Places
  <2>2. /\ cliLock' \in [Turns -> MaybeTurns] /\ pids' \subseteq pids
        /\ \A x \in pids : alive[x] = "running" => x \in pids' \/ Mixed(x)
    BY <1>0, <1>5, LeaveFacts DEF PlaceHasSession, PlaceHasProcess
  <2>3. Types
    BY <1>0, <1>5, <2>1, <2>2 DEF CliTypeOK
  <2>4. PlaceHasSession' /\ PlaceHasProcess'
    BY <1>0, <1>1, <1>2, <1>5, <2>1 DEF PlaceHasSession, PlaceHasProcess
  <2>5. ProcessIsOwn' /\ WaitsForDying' /\ KilledAtExit'
    BY <1>0, <1>1, <1>2, <1>5, <2>2 DEF ProcessIsOwn, WaitsForDying, KilledAtExit
  <2> QED  BY <1>3, <2>3, <2>4, <2>5
<1>6. CASE /\ pc[t] = "reading" /\ Running(session[t]) /\ Kill(t, session[t], None)
           /\ Goes(t, "halting") /\ UNCHANGED <<lock, process, cliLock, pids, orphaned>>
  <2>1. pc' \in [Turns -> Places] /\ pc'[t] = "halting" /\ \A x \in Turns : x # t => pc'[x] = pc[x]
    BY <1>0, <1>6 DEF CliTypeOK, Goes, Places
  <2>2. session[t] \in Turns /\ (Mixed(t) \/ session[t] = t)
    BY <1>0, <1>6, MixedFacts DEF PlaceHasSession, CliTypeOK, MaybeTurns
  <2>3. /\ alive' \in [Turns -> {"none", "running", "dying", "dead"}]
        /\ waitsFor' \in [Turns \cup {Manager} -> Waits \cup {None}]
        /\ \A x \in Turns : /\ alive'[x] = "running" => alive[x] = "running"
                            /\ alive'[x] = "none" <=> alive[x] = "none"
                            /\ alive'[x] = "dead" <=> alive[x] = "dead"
        /\ \A v \in Turns \cup {Manager} : v # t => waitsFor'[v] = waitsFor[v]
        /\ waitsFor'[t] # None /\ waitsFor'[t].process = process[session[t]]
        /\ WaitsForDying'
    <3> DEFINE s == session[t]
    <3>1. /\ t \in Turns \cup {Manager} /\ None \in Ids \cup {None} /\ s \in Turns
          /\ Running(s) /\ Kill(t, s, None)
      BY <1>6, <2>2
    <3>2. session' = session
      BY <1>1
    <3> HIDE DEF s
    <3>3. /\ alive' \in [Turns -> {"none", "running", "dying", "dead"}]
          /\ waitsFor' \in [Turns \cup {Manager} -> Waits \cup {None}]
          /\ WaitsForDying'
      BY <1>0, <3>1, <3>2, KillFacts
    <3>4. \A x \in Turns : /\ alive'[x] = "running" => alive[x] = "running"
                           /\ alive'[x] = "none" <=> alive[x] = "none"
                           /\ alive'[x] = "dead" <=> alive[x] = "dead"
      BY <1>0, <3>1, <3>2, KillFacts
    <3>5. \A v \in Turns \cup {Manager} : v # t => waitsFor'[v] = waitsFor[v]
      BY <1>0, <3>1, <3>2, KillFacts
    <3>6. waitsFor'[t] # None 
      BY <1>0, <3>1, <3>2, KillFacts
    <3>7. waitsFor'[t].process = process[s]
      BY <1>0, <3>1, <3>2, KillFacts
    <3> QED  BY <3>3, <3>4, <3>5, <3>6, <3>7 DEF s
  <2>4. Types
    BY <1>0, <1>6, <2>1, <2>3 DEF CliTypeOK
  <2>5. PlaceHasSession'
    BY <1>0, <1>1, <1>6, <2>1 DEF PlaceHasSession
  <2>6. PlaceHasProcess'
    BY <1>0, <1>1, <1>2, <1>6, <2>1, <2>2, <2>3 DEF PlaceHasProcess
  <2>7. ProcessIsOwn' /\ KilledAtExit'
    BY <1>0, <1>1, <1>2, <1>6, <2>3 DEF ProcessIsOwn, KilledAtExit, CliTypeOK, MaybeTurns
  <2> QED  BY <1>3, <2>3, <2>4, <2>5, <2>6, <2>7
<1>7. CASE /\ pc[t] = "reading" /\ ~Running(session[t])
           /\ Goes(t, "halting") /\ UNCHANGED <<lock, Processes, waitsFor, orphaned>>
  <2>1. pc' \in [Turns -> Places] /\ pc'[t] = "halting" /\ \A x \in Turns : x # t => pc'[x] = pc[x]
    BY <1>0, <1>7 DEF CliTypeOK, Goes, Places
  <2>2. Mixed(t) \/ alive[t] = "dead"
    <3>1. session[t] # None /\ alive[t] # "none" /\ (Mixed(t) \/ process[t] = t)
      BY <1>0, <1>7 DEF PlaceHasSession, PlaceHasProcess
    <3>2. Mixed(t) \/ session[t] = t
      BY <1>0, <3>1, MixedFacts
    <3> QED  BY <1>0, <1>7, <3>1, <3>2, CliSessionsAssumption DEF Running, CliTypeOK
  <2>3. Types
    BY <1>0, <1>7, <2>1 DEF CliTypeOK, Processes
  <2>4. PlaceHasSession' /\ PlaceHasProcess'
    BY <1>0, <1>1, <1>2, <1>7, <2>1, <2>2 DEF PlaceHasSession, PlaceHasProcess, Processes
  <2>5. ProcessIsOwn' /\ WaitsForDying' /\ KilledAtExit'
    BY <1>0, <1>1, <1>2, <1>7 DEF ProcessIsOwn, WaitsForDying, KilledAtExit, Processes
  <2> QED  BY <1>3, <2>3, <2>4, <2>5
<1>8. CASE /\ pc[t] \in {"halting", "cleanup"}
           /\ UNCHANGED <<pc, lock, Processes, waitsFor, orphaned>>
  <2>1. Types
    BY <1>0, <1>8 DEF CliTypeOK, Processes
  <2>2. PlaceHasSession' /\ PlaceHasProcess'
    BY <1>0, <1>1, <1>2, <1>8 DEF PlaceHasSession, PlaceHasProcess, Processes
  <2>3. ProcessIsOwn' /\ WaitsForDying' /\ KilledAtExit'
    BY <1>0, <1>1, <1>2, <1>8 DEF ProcessIsOwn, WaitsForDying, KilledAtExit, Processes
  <2> QED  BY <1>3, <2>1, <2>2, <2>3
<1>9. CASE /\ pc[t] = "cleanup" /\ orphaned' = orphaned \cup {t}
           /\ Goes(t, "done") /\ UNCHANGED <<lock, Processes, waitsFor>>
  <2>1. pc' \in [Turns -> Places] /\ pc'[t] = "done" /\ \A x \in Turns : x # t => pc'[x] = pc[x]
    BY <1>0, <1>9 DEF CliTypeOK, Goes, Places
  <2>2. Types
    BY <1>0, <1>9, <2>1 DEF CliTypeOK, Processes
  <2>3. PlaceHasSession' /\ PlaceHasProcess'
    BY <1>0, <1>1, <1>2, <1>9, <2>1 DEF PlaceHasSession, PlaceHasProcess, Processes
  <2>4. ProcessIsOwn' /\ WaitsForDying' /\ KilledAtExit'
    BY <1>0, <1>1, <1>2, <1>9 DEF ProcessIsOwn, WaitsForDying, KilledAtExit, Processes
  <2> QED  BY <1>3, <2>2, <2>3, <2>4
<1>10. CASE /\ pc[t] = "removing" /\ lock' = None
            /\ waitsFor' = [waitsFor EXCEPT ![t] = None]
            /\ Goes(t, "done") /\ UNCHANGED <<Processes, orphaned>>
  <2>1. pc' \in [Turns -> Places] /\ pc'[t] = "done" /\ \A x \in Turns : x # t => pc'[x] = pc[x]
    BY <1>0, <1>10 DEF CliTypeOK, Goes, Places
  <2>2. /\ waitsFor' \in [Turns \cup {Manager} -> Waits \cup {None}]
        /\ waitsFor'[t] = None /\ \A v \in Turns \cup {Manager} : v # t => waitsFor'[v] = waitsFor[v]
    BY <1>0, <1>10 DEF CliTypeOK
  <2>3. Types
    BY <1>0, <1>10, <2>1, <2>2 DEF CliTypeOK, Processes, MaybeTurns
  <2>4. PlaceHasSession' /\ PlaceHasProcess'
    BY <1>0, <1>1, <1>2, <1>10, <2>1, <2>2 DEF PlaceHasSession, PlaceHasProcess, Processes
  <2>5. ProcessIsOwn' /\ WaitsForDying' /\ KilledAtExit'
    BY <1>0, <1>1, <1>2, <1>10, <2>2 DEF ProcessIsOwn, WaitsForDying, KilledAtExit, Processes
  <2> QED  BY <1>3, <2>3, <2>4, <2>5
<1>11. Types /\ Kept
  BY <1>4, <1>5, <1>6, <1>7, <1>8, <1>9, <1>10 DEF CancelTurn, Processes
<1> QED  BY <1>3, <1>11

\* A turn that opens its session finds one, or creates it under an id.
LEMMA OpenShape ==
    ASSUME CliTypeOK, NEW t \in Turns, Open(t)
    PROVE  /\ pc[t] = "opening" /\ lock = None /\ pc' = [pc EXCEPT ![t] = "queued"]
           /\ UNCHANGED <<sessions, tempToReal, realToTemp, lock, Processes, resume, recorded, Stops>>
           /\ \/ \E s \in Turns, i \in Ids :
                   /\ resume[t] \in Ids /\ Known(resume[t]) = <<s, i>>
                   /\ session' = [session EXCEPT ![t] = s]
                   /\ captured' = [captured EXCEPT ![t] = i]
                   /\ pending' = pending /\ temp' = temp
              \/ \E i \in Ids :
                   /\ IF resume[t] = None THEN i = Pending(t)
                      ELSE i = resume[t] /\ Known(i)[1] = None
                   /\ session' = [session EXCEPT ![t] = t]
                   /\ pending' = [pending EXCEPT ![i] = t]
                   /\ temp' = [temp EXCEPT ![t] = i] /\ captured' = captured
<1> DEFINE old == IF resume[t] = None THEN <<None, None>> ELSE Known(resume[t])
           new == IF resume[t] = None THEN Pending(t) ELSE resume[t]
<1>1. /\ pc[t] = "opening" /\ lock = None /\ pc' = [pc EXCEPT ![t] = "queued"]
      /\ UNCHANGED <<sessions, tempToReal, realToTemp, lock, Processes, resume, recorded, Stops>>
  BY DEF Open, Goes
<1>2. CASE old[1] # None
  <2>1. /\ session' = [session EXCEPT ![t] = old[1]] /\ captured' = [captured EXCEPT ![t] = old[2]]
        /\ pending' = pending /\ temp' = temp
    BY <1>2 DEF Open
  <2>2. resume[t] \in Ids /\ old = Known(resume[t])
    BY <1>2 DEF CliTypeOK
  <2>3. old[1] \in Turns /\ old[2] \in Ids /\ old = <<old[1], old[2]>>
    BY <1>2, <2>2, KnownType DEF MaybeTurns, Known
  <2> HIDE DEF old
  <2> QED  BY <1>1, <2>1, <2>2, <2>3
<1>3. CASE old[1] = None
  <2>1. /\ session' = [session EXCEPT ![t] = t] /\ pending' = [pending EXCEPT ![new] = t]
        /\ temp' = [temp EXCEPT ![t] = new] /\ captured' = captured
    BY <1>3 DEF Open
  <2>2. new \in Ids /\ IF resume[t] = None THEN new = Pending(t)
                       ELSE new = resume[t] /\ Known(new)[1] = None
    BY <1>3, IdFacts DEF CliTypeOK
  <2> HIDE DEF old, new
  <2> QED  BY <1>1, <2>1, <2>2
<1> QED  BY <1>2, <1>3

\* What a resumed id is known by is in the maps.
LEMMA KnownInMaps ==
    ASSUME CliTypeOK, NEW i \in Ids
    PROVE  LET real == IF tempToReal[i] = None THEN i ELSE tempToReal[i] IN
           /\ real \in Ids /\ Known(i)[2] = real
           /\ sessions[real] # None => Known(i)[1] = sessions[real]
           /\ sessions[real] = None => Known(i)[1] = pending[real]
BY DEF Known, CliTypeOK

\* Opening a session makes no session one's own that was another's.
LEMMA MixedGrows ==
    ASSUME CliTypeOK, NEW t \in Turns, session[t] = None, overlapped \subseteq overlapped',
           NEW s, session' = [session EXCEPT ![t] = s]
    PROVE  \A x \in Turns : Mixed(x) => Mixed(x)'
<1>1. \A x \in Turns : x # t => session'[x] = session[x]
  BY DEF CliTypeOK
<1> QED  BY <1>1 DEF Mixed, Shared

\* Open keeps the invariant of the processes.
LEMMA OpenProc ==
    ASSUME ProcInv, NEW t \in Turns, Open(t)
    PROVE  ProcInv'
<1>0. /\ CliTypeOK /\ SessionsAreOwn /\ ProcessIsOwn /\ WaitsForDying
      /\ PlaceHasSession /\ PlaceHasProcess /\ ExitEndsAll /\ SweepsCounted /\ KilledAtExit
  BY DEF ProcInv
<1>1. /\ pc[t] = "opening" /\ session[t] = None /\ alive[t] = "none"
      /\ pc' = [pc EXCEPT ![t] = "queued"]
      /\ UNCHANGED <<sessions, tempToReal, realToTemp, lock, process, cliLock, alive, pids, resume,
                     recorded, waitsFor, current, over, freed, cleared, sweep, sweeps, seen,
                     orphaned, exited>>
  BY <1>0, OpenShape DEF Processes, Stops, treeVars, sweepVars, PlaceHasSession, PlaceHasProcess
<1>2. /\ overlapped' \subseteq Turns /\ overlapped \subseteq overlapped'
      /\ openedIn' \in [Turns -> 0..MaxStopAlls]
  BY <1>0 DEF Open, CliTypeOK
<1>3. \E s \in Turns : /\ session' = [session EXCEPT ![t] = s]
                       /\ s = t \/ session[s] = s
                       /\ pending' \in [Ids -> MaybeTurns]
                       /\ \A j \in Ids : pending'[j] \in {None, s, pending[j]}
                       /\ temp' \in [Turns -> Ids \cup {None}]
                       /\ captured' \in [Turns -> Ids \cup {None}]
                       /\ \A x \in Turns : x # t => temp'[x] = temp[x] /\ captured'[x] = captured[x]
  <2>1. CASE \E s \in Turns, i \in Ids :
                   /\ resume[t] \in Ids /\ Known(resume[t]) = <<s, i>>
                   /\ session' = [session EXCEPT ![t] = s]
                   /\ captured' = [captured EXCEPT ![t] = i]
                   /\ pending' = pending /\ temp' = temp
    <3>1. PICK s \in Turns, i \in Ids :
                   /\ resume[t] \in Ids /\ Known(resume[t]) = <<s, i>>
                   /\ session' = [session EXCEPT ![t] = s]
                   /\ captured' = [captured EXCEPT ![t] = i]
                   /\ pending' = pending /\ temp' = temp
      BY <2>1
    <3>2. \E j \in Ids : s = sessions[j] \/ s = pending[j]
      BY <1>0, <3>1, KnownInMaps
    <3>3. session[s] = s
      BY <1>0, <3>1, <3>2, CliSessionsAssumption DEF SessionsAreOwn
    <3> QED  BY <1>0, <3>1, <3>3 DEF CliTypeOK
  <2>2. CASE \E i \in Ids :
                   /\ session' = [session EXCEPT ![t] = t]
                   /\ pending' = [pending EXCEPT ![i] = t]
                   /\ temp' = [temp EXCEPT ![t] = i] /\ captured' = captured
    <3>1. PICK i \in Ids : /\ session' = [session EXCEPT ![t] = t]
                          /\ pending' = [pending EXCEPT ![i] = t]
                          /\ temp' = [temp EXCEPT ![t] = i] /\ captured' = captured
      BY <2>2
    <3>2. pending' \in [Ids -> MaybeTurns] /\ \A j \in Ids : pending'[j] \in {t, pending[j]}
      BY <1>0, <3>1 DEF CliTypeOK, MaybeTurns
    <3>3. /\ temp' \in [Turns -> Ids \cup {None}] /\ captured' \in [Turns -> Ids \cup {None}]
          /\ \A x \in Turns : x # t => temp'[x] = temp[x] /\ captured'[x] = captured[x]
      BY <1>0, <3>1 DEF CliTypeOK
    <3> QED  BY <3>1, <3>2, <3>3
  <2> QED  BY <1>0, <2>1, <2>2, OpenShape
<1>4. PICK s \in Turns : /\ session' = [session EXCEPT ![t] = s]
                         /\ s = t \/ session[s] = s
                         /\ pending' \in [Ids -> MaybeTurns]
                         /\ \A j \in Ids : pending'[j] \in {None, s, pending[j]}
                         /\ temp' \in [Turns -> Ids \cup {None}]
                         /\ captured' \in [Turns -> Ids \cup {None}]
                         /\ \A x \in Turns : x # t => temp'[x] = temp[x] /\ captured'[x] = captured[x]
  BY <1>3
<1>5. /\ session' \in [Turns -> MaybeTurns] /\ session'[t] = s /\ s # None
      /\ session'[s] = s
      /\ \A x \in Turns : x # t => session'[x] = session[x]
      /\ \A x \in Turns : session[x] # None => x # t /\ session'[x] = session[x]
  BY <1>0, <1>1, <1>4, CliSessionsAssumption DEF CliTypeOK, MaybeTurns
<1>6. \A x \in Turns : Mixed(x) => Mixed(x)'
  BY <1>0, <1>1, <1>2, <1>4, MixedGrows
<1>7. pc' \in [Turns -> Places] /\ pc'[t] = "queued" /\ \A x \in Turns : x # t => pc'[x] = pc[x]
  BY <1>0, <1>1 DEF CliTypeOK, Places
<1>8. CliTypeOK'
  BY <1>0, <1>1, <1>2, <1>4, <1>5, <1>7 DEF CliTypeOK
<1>9. SessionsAreOwn'
  <2>1. \A x \in Turns : session[x] # None => session[session[x]] = session[x]
    BY <1>0 DEF SessionsAreOwn
  <2>2. \A x \in Turns : session'[x] # None => session'[session'[x]] = session'[x]
    <3> SUFFICES ASSUME NEW x \in Turns, session'[x] # None
                 PROVE  session'[session'[x]] = session'[x]
      OBVIOUS
    <3>1. CASE x = t
      BY <1>5, <3>1
    <3>2. CASE x # t
      <4>1. session'[x] = session[x] /\ session[x] \in Turns /\ session[session[x]] = session[x]
        BY <1>0, <1>5, <2>1, <3>2 DEF CliTypeOK, MaybeTurns
      <4> QED  BY <1>5, <4>1, CliSessionsAssumption
    <3> QED  BY <3>1, <3>2
  <2>3. \A j \in Ids : pending[j] # None => pending[j] \in Turns /\ session'[pending[j]] = pending[j]
    BY <1>0, <1>5, CliSessionsAssumption DEF SessionsAreOwn, CliTypeOK, MaybeTurns
  <2>4. \A j \in Ids : sessions[j] # None => sessions[j] \in Turns /\ session'[sessions[j]] = sessions[j]
    BY <1>0, <1>5, CliSessionsAssumption DEF SessionsAreOwn, CliTypeOK, MaybeTurns
  <2> QED  BY <1>1, <1>4, <1>5, <2>2, <2>3, <2>4 DEF SessionsAreOwn
<1>10. ProcessIsOwn'
  BY <1>0, <1>1, <1>5, CliSessionsAssumption DEF ProcessIsOwn, CliTypeOK, MaybeTurns
<1>11. WaitsForDying'
  <2>1. \A w \in Turns \cup {Manager} : waitsFor[w] # None => waitsFor[w].process \in Turns
    BY <1>0 DEF CliTypeOK, Waits
  <2> QED  BY <1>0, <1>1, <1>5, <2>1 DEF WaitsForDying
<1>12. PlaceHasSession'
  BY <1>0, <1>1, <1>4, <1>5, <1>7 DEF PlaceHasSession
<1>13. PlaceHasProcess'
  BY <1>0, <1>1, <1>5, <1>6, <1>7 DEF PlaceHasProcess
<1>14. ExitEndsAll' /\ KilledAtExit' /\ SweepsCounted'
  BY <1>0, <1>1, <1>6 DEF ExitEndsAll, KilledAtExit, SweepsCounted
<1> QED  BY <1>8, <1>9, <1>10, <1>11, <1>12, <1>13, <1>14 DEF ProcInv

\* Stop keeps the invariant of the processes.
LEMMA StopProc ==
    ASSUME ProcInv, NEW t \in Turns, Stop(t)
    PROVE  ProcInv'
<1>1. /\ CancelTurn(t) /\ Active(t) /\ over' = over \cup {t}
      /\ UNCHANGED <<managerVars, turnVars, current, freed, cleared, sweepVars, exited>>
  BY DEF Stop
<1>2. UNCHANGED <<session, overlapped, temp, captured, exited>>
  BY <1>1 DEF turnVars
<1>3. /\ lock' \in MaybeTurns \cup {Manager} /\ cliLock' \in [Turns -> MaybeTurns]
      /\ alive' \in [Turns -> {"none", "running", "dying", "dead"}]
      /\ pids' \subseteq {x \in Turns : alive'[x] # "none"}
      /\ waitsFor' \in [Turns \cup {Manager} -> Waits \cup {None}]
      /\ pc' \in [Turns -> Places] /\ orphaned' \subseteq Turns /\ process' = process
      /\ ProcessIsOwn' /\ WaitsForDying' /\ PlaceHasSession' /\ PlaceHasProcess'
      /\ ExitEndsAll' /\ KilledAtExit'
  BY <1>1, <1>2, CancelTurnProc
<1>4. CliTypeOK'
  BY <1>1, <1>3 DEF ProcInv, CliTypeOK, managerVars, turnVars, sweepVars
<1>5. SessionsAreOwn' /\ SweepsCounted'
  BY <1>1 DEF ProcInv, SessionsAreOwn, SweepsCounted, managerVars, turnVars, sweepVars
<1> QED  BY <1>3, <1>4, <1>5 DEF ProcInv

\* cancel_tree() keeps what concerns the processes.
LEMMA CancelTreeProc ==
    ASSUME ProcInv, NEW r \in Trees, CancelTree(r), cleared' \subseteq Trees,
           sweep' \in [pc : {"idle", "cancelling", "waiting", "sweeping", "stopping"},
                       left : SUBSET (Turns \cup Trees)],
           sweep.pc = "idle" => sweep'.pc = "idle",
           UNCHANGED <<sweeps, seen>>
    PROVE  ProcInv'
<1> DEFINE t == current[r]
<1>0. /\ CliTypeOK /\ SessionsAreOwn /\ ProcessIsOwn /\ WaitsForDying
      /\ PlaceHasSession /\ PlaceHasProcess /\ ExitEndsAll /\ SweepsCounted /\ KilledAtExit
  BY DEF ProcInv
<1>1. /\ UNCHANGED <<managerVars, turnVars, current, exited>> /\ freed' \subseteq Turns
      /\ t \in MaybeTurns
  BY <1>0 DEF CancelTree, CliTypeOK
<1>2. SessionsAreOwn' /\ SweepsCounted'
  BY <1>0, <1>1 DEF SessionsAreOwn, SweepsCounted, managerVars, turnVars
<1>3. session' = session /\ overlapped' = overlapped /\ temp' = temp /\ captured' = captured
  BY <1>1 DEF turnVars
<1>4. CASE t # None /\ Active(t)
  <2>1. t \in Turns /\ CancelTurn(t) /\ over' = over \cup {t}
    BY <1>1, <1>4 DEF CancelTree, MaybeTurns
  <2> HIDE DEF t
  <2>2. UNCHANGED <<session, overlapped, temp, captured, exited>>
    BY <1>1, <1>3
  <2>3. /\ lock' \in MaybeTurns \cup {Manager} /\ cliLock' \in [Turns -> MaybeTurns]
        /\ alive' \in [Turns -> {"none", "running", "dying", "dead"}]
        /\ pids' \subseteq {x \in Turns : alive'[x] # "none"}
        /\ waitsFor' \in [Turns \cup {Manager} -> Waits \cup {None}]
        /\ pc' \in [Turns -> Places] /\ orphaned' \subseteq Turns /\ process' = process
        /\ ProcessIsOwn' /\ WaitsForDying' /\ PlaceHasSession' /\ PlaceHasProcess'
        /\ ExitEndsAll' /\ KilledAtExit'
    BY <1>4, <2>1, <2>2, CancelTurnProc
  <2>4. CliTypeOK'
    BY <1>0, <1>1, <2>1, <2>3 DEF CliTypeOK, managerVars, turnVars
  <2> QED  BY <1>2, <2>3, <2>4 DEF ProcInv
<1>5. CASE ~(t # None /\ Active(t))
  <2>1. UNCHANGED <<pc, lock, Processes, waitsFor, orphaned, over>>
    BY <1>5 DEF CancelTree
  <2>2. CliTypeOK'
    BY <1>0, <1>1, <2>1 DEF CliTypeOK, managerVars, turnVars, Processes
  <2>3. \A x \in Turns : Mixed(x)' <=> Mixed(x)
    BY <1>3, MixedStays
  <2>4. ProcessIsOwn' /\ WaitsForDying' /\ ExitEndsAll' /\ KilledAtExit'
    BY <1>0, <1>1, <1>3, <2>1, <2>3 DEF ProcessIsOwn, WaitsForDying, ExitEndsAll, KilledAtExit,
       Processes
  <2>5. PlaceHasSession' /\ PlaceHasProcess'
    BY <1>0, <1>3, <2>1, <2>3 DEF PlaceHasSession, PlaceHasProcess, Processes
  <2> QED  BY <1>2, <2>2, <2>4, <2>5 DEF ProcInv
<1> QED  BY <1>4, <1>5

\* /clear and a stop of everything keep the invariant of the processes.
LEMMA ClearProc ==
    ASSUME ProcInv, NEW r \in Trees, Clear(r) \/ CancelNext(r)
    PROVE  ProcInv'
<1>1. CliTypeOK
  BY DEF ProcInv
<1>2. CASE Clear(r)
  <2>1. CancelTree(r) /\ sweep' = sweep /\ sweeps' = sweeps /\ seen' = seen /\ cleared' = cleared \cup {r}
    BY <1>2 DEF Clear, sweepVars
  <2> QED  BY <1>1, <2>1, CancelTreeProc DEF CliTypeOK
<1>3. CASE CancelNext(r)
  <2>1. /\ CancelTree(r) /\ sweeps' = sweeps /\ seen' = seen /\ cleared' = cleared
        /\ sweep.pc = "cancelling" /\ r \in sweep.left
        /\ sweep' = IF sweep.left = {r} THEN [pc |-> "waiting", left |-> {}]
                    ELSE [sweep EXCEPT !.left = @ \ {r}]
    BY <1>3 DEF CancelNext
  <2>2. sweep' \in [pc : {"idle", "cancelling", "waiting", "sweeping", "stopping"},
                    left : SUBSET (Turns \cup Trees)]
    BY <1>1, <2>1 DEF CliTypeOK
  <2> QED  BY <1>1, <2>1, <2>2, CancelTreeProc DEF CliTypeOK
<1> QED  BY <1>2, <1>3

\* The invariant of the processes holds first, and every step keeps it.
LEMMA ProcStarts == CliInit => ProcInv
<1> SUFFICES ASSUME CliInit PROVE ProcInv
  OBVIOUS
<1>1. CliTypeOK
  <2>1. /\ pending \in [Ids -> MaybeTurns] /\ sessions \in [Ids -> MaybeTurns]
        /\ tempToReal \in [Ids -> Ids \cup {None}] /\ realToTemp \in [Ids -> Ids \cup {None}]
        /\ lock \in MaybeTurns \cup {Manager} /\ pids \subseteq {t \in Turns : alive[t] # "none"}
    BY DEF CliInit, MaybeTurns
  <2>2. /\ process \in [Turns -> MaybeTurns] /\ cliLock \in [Turns -> MaybeTurns]
        /\ session \in [Turns -> MaybeTurns] /\ current \in [Trees -> MaybeTurns]
    BY DEF CliInit, MaybeTurns
  <2>3. /\ alive \in [Turns -> {"none", "running", "dying", "dead"}] /\ pc \in [Turns -> Places]
    BY DEF CliInit, Places
  <2>4. /\ resume \in [Turns -> Ids \cup {None}] /\ recorded \in [Turns -> Ids \cup {None}]
        /\ temp \in [Turns -> Ids \cup {None}] /\ captured \in [Turns -> Ids \cup {None}]
        /\ waitsFor \in [Turns \cup {Manager} -> Waits \cup {None}]
    BY DEF CliInit
  <2>5. /\ sweep \in [pc : {"idle", "cancelling", "waiting", "sweeping", "stopping"},
                      left : SUBSET (Turns \cup Trees)]
        /\ sweeps \in 0..MaxStopAlls /\ openedIn \in [Turns -> 0..MaxStopAlls]
    BY CliSessionsAssumption DEF CliInit, NoSweep
  <2> QED  BY <2>1, <2>2, <2>3, <2>4, <2>5 DEF CliInit, CliTypeOK
<1> QED  BY <1>1 DEF CliInit, ProcInv, SessionsAreOwn, ProcessIsOwn, WaitsForDying,
            PlaceHasSession, PlaceHasProcess, ExitEndsAll, SweepsCounted, KilledAtExit, NoSweep

\* Every step keeps the invariant of the processes.
LEMMA ProcStep == ProcInv /\ [CliNext]_cliVars => ProcInv'
<1> SUFFICES ASSUME ProcInv, [CliNext]_cliVars PROVE ProcInv'
  OBVIOUS
<1>1. CASE UNCHANGED cliVars
  <2>1. session' = session /\ overlapped' = overlapped
    BY <1>1 DEF cliVars, turnVars
  <2>2. \A x \in Turns : Mixed(x)' <=> Mixed(x)
    BY <2>1, MixedStays
  <2>3. CliTypeOK'
    BY <1>1 DEF ProcInv, CliTypeOK, cliVars, managerVars, turnVars, treeVars, sweepVars
  <2>4. SessionsAreOwn' /\ ProcessIsOwn' /\ WaitsForDying' /\ PlaceHasSession' /\ SweepsCounted'
    BY <1>1 DEF ProcInv, cliVars, managerVars, turnVars, treeVars, sweepVars, SessionsAreOwn,
       ProcessIsOwn, WaitsForDying, PlaceHasSession, SweepsCounted
  <2>5. PlaceHasProcess' /\ ExitEndsAll' /\ KilledAtExit'
    BY <1>1, <2>2 DEF ProcInv, cliVars, turnVars, PlaceHasProcess, ExitEndsAll, KilledAtExit
  <2> QED  BY <2>3, <2>4, <2>5 DEF ProcInv
<1>2. CASE CliNext
  BY <1>2, StartProc, OpenProc, TakeCliProc, SpawnProc, SpawnFailsProc, SessionInfoProc,
     RegisterProc,
     EventProc, EofProc, FinishProc, DiesProc, RemoveSessionProc, RemovedProc, HaltedProc, CollectProc,
     StopProc, SweepNextProc, ClearProc, StopAllProc, StopSessionsProc, SweepBeginProc,
     SweepStoppedProc, SweepEndProc, ExitProc DEF CliNext
<1> QED  BY <1>1, <1>2

\* Whenever the bridge ends, every CLI that runs is among the pids it kills,
\* unless its session passed to another turn.
THEOREM EveryCliIsKilled == CliInit /\ [][CliNext]_cliVars => []KilledAtExit
<1>1. CliInit => ProcInv
  BY ProcStarts
<1>2. ProcInv /\ [CliNext]_cliVars => ProcInv'
  BY ProcStep
<1>3. ProcInv => KilledAtExit
  BY DEF ProcInv
<1> QED  BY <1>1, <1>2, <1>3, PTL

-----------------------------------------------------------------------------
(* The turns of a tree: one of them at most is not cancelled.              *)

\* A turn that has begun and not ended, as far as its tree knows.
Live(t) == Active(t) /\ t \notin freed

\* The live turn of a tree is its current one, a cleared tree has none, and
\* one that was freed is on its way out.  A turn that was not told to end and
\* cleans up has no session id, and its process is dead.
TreeInv ==
    \A x \in Turns :
        /\ Live(x) => current[TreeOf[x]] = x
        /\ x \in freed => pc[x] \in {"halting", "cleanup", "removing", "done"}
        /\ TreeOf[x] \in cleared => ~Live(x)
        /\ pc[x] = "halting" => x \in over
        /\ pc[x] \in {"cleanup", "removing"} /\ x \notin over => captured[x] = None /\ alive[x] = "dead"

\* What remove_session() does to the processes: one of them may be told to end.
LEMMA RemoveAlive ==
    ASSUME CliTypeOK, ProcessIsOwn, WaitsForDying, NEW t \in Turns, RemoveSession(t)
    PROVE  \A x \in Turns : alive[x] = "dead" => alive'[x] = "dead"
BY DEF RemoveSession, Kill, Running, CliTypeOK

\* What a cancellation does to the places and to the processes.
LEMMA CancelShape ==
    ASSUME CliTypeOK, NEW t \in Turns, CancelTurn(t)
    PROVE  /\ pc'[t] \in {"halting", "cleanup", "done"}
           /\ pc' \in [Turns -> Places] /\ \A x \in Turns : x # t => pc'[x] = pc[x]
           /\ \A x \in Turns : alive[x] = "dead" => alive'[x] = "dead"
<1>1. /\ pc'[t] \in {"halting", "cleanup", "done"}
      /\ pc' \in [Turns -> Places] /\ \A x \in Turns : x # t => pc'[x] = pc[x]
  BY DEF CancelTurn, Goes, CliTypeOK, Places
<1>2. \A x \in Turns : alive[x] = "dead" => alive'[x] = "dead"
  BY DEF CancelTurn, Kill, Running, Processes, CliTypeOK
<1> QED  BY <1>1, <1>2

\* The steps of a turn keep what its tree knows of it.
LEMMA TurnsTree ==
    ASSUME ProcInv, TreeInv, NEW t \in Turns,
           \/ Start(t) \/ Open(t) \/ TakeCli(t) \/ Spawn(t) \/ SpawnFails(t)
           \/ SessionInfo(t) \/ Register(t) \/ Event(t) \/ Eof(t) \/ Finish(t)
           \/ Dies(t) \/ RemoveSession(t) \/ Removed(t) \/ Halted(t) \/ Collect(t)
    PROVE  TreeInv'
<1>0. /\ CliTypeOK /\ PlaceHasSession /\ PlaceHasProcess /\ WaitsForDying /\ ProcessIsOwn
      /\ TreeOf[t] \in Trees
  BY DEF ProcInv, Trees
<1>1. CASE Open(t)
  <2>1. /\ pc' = [pc EXCEPT ![t] = pc'[t]] /\ \A x \in Turns : x # t => pc'[x] = pc[x]
    BY <1>0, <1>1 DEF Open, Goes, treeVars, sweepVars, Stops, Processes, CliTypeOK
  <2> QED  BY <1>0, <1>1, <2>1 DEF Open, Goes, treeVars, sweepVars, Stops, Processes, TreeInv,
              Live, Active, CliTypeOK, PlaceHasProcess, PlaceHasSession
<1>2. CASE TakeCli(t)
  <2>1. /\ pc' = [pc EXCEPT ![t] = pc'[t]] /\ \A x \in Turns : x # t => pc'[x] = pc[x]
    BY <1>0, <1>2 DEF TakeCli, Goes, managerVars, turnVars, treeVars, sweepVars, Stops, CliTypeOK
  <2> QED  BY <1>0, <1>2, <2>1 DEF TakeCli, Goes, managerVars, turnVars, treeVars, sweepVars,
              Stops, TreeInv, Live, Active, CliTypeOK, PlaceHasProcess, PlaceHasSession
<1>3. CASE Spawn(t)
  <2>1. /\ pc' = [pc EXCEPT ![t] = pc'[t]] /\ \A x \in Turns : x # t => pc'[x] = pc[x]
    BY <1>0, <1>3 DEF Spawn, Goes, managerVars, turnVars, treeVars, sweepVars, Stops, CliTypeOK
  <2> QED  BY <1>0, <1>3, <2>1 DEF Spawn, Goes, managerVars, turnVars, treeVars, sweepVars, Stops,
              TreeInv, Live, Active, CliTypeOK, PlaceHasProcess, PlaceHasSession
<1>4. CASE SpawnFails(t)
  <2>1. /\ pc' = [pc EXCEPT ![t] = pc'[t]] /\ \A x \in Turns : x # t => pc'[x] = pc[x]
    BY <1>0, <1>4 DEF SpawnFails, Goes, managerVars, turnVars, sweepVars, CliTypeOK
  <2> QED  BY <1>0, <1>4, <2>1 DEF SpawnFails, Goes, managerVars, turnVars, sweepVars, TreeInv,
              Live, Active, CliTypeOK, PlaceHasProcess, PlaceHasSession
<1>5. CASE SessionInfo(t)
  <2>1. /\ pc' = [pc EXCEPT ![t] = pc'[t]] /\ \A x \in Turns : x # t => pc'[x] = pc[x]
    BY <1>0, <1>5 DEF SessionInfo, Goes, managerVars, turnVars, treeVars, sweepVars, Stops,
       Processes, CliTypeOK
  <2> QED  BY <1>0, <1>5, <2>1 DEF SessionInfo, Goes, managerVars, turnVars, treeVars, sweepVars,
              Stops, Processes, TreeInv, Live, Active, CliTypeOK, PlaceHasProcess, PlaceHasSession
<1>6. CASE Register(t)
  <2>1. /\ pc' = [pc EXCEPT ![t] = pc'[t]] /\ \A x \in Turns : x # t => pc'[x] = pc[x]
    BY <1>0, <1>6 DEF Register, Goes, managerVars, treeVars, sweepVars, Stops, Processes, CliTypeOK
  <2> QED  BY <1>0, <1>6, <2>1 DEF Register, Goes, managerVars, treeVars, sweepVars, Stops,
              Processes, TreeInv, Live, Active, CliTypeOK, PlaceHasProcess, PlaceHasSession
<1>7. CASE Event(t)
  <2>1. /\ pc' = [pc EXCEPT ![t] = pc'[t]] /\ \A x \in Turns : x # t => pc'[x] = pc[x]
    BY <1>0, <1>7 DEF Event, Goes, managerVars, turnVars, treeVars, sweepVars, Stops, Processes,
       CliTypeOK
  <2> QED  BY <1>0, <1>7, <2>1 DEF Event, Goes, managerVars, turnVars, treeVars, sweepVars, Stops,
              Processes, TreeInv, Live, Active, CliTypeOK, PlaceHasProcess, PlaceHasSession
<1>8. CASE Eof(t)
  <2>1. /\ pc' = [pc EXCEPT ![t] = pc'[t]] /\ \A x \in Turns : x # t => pc'[x] = pc[x]
    BY <1>0, <1>8 DEF Eof, Goes, managerVars, turnVars, treeVars, sweepVars, Stops, Processes,
       CliTypeOK
  <2> QED  BY <1>0, <1>8, <2>1 DEF Eof, Goes, managerVars, turnVars, treeVars, sweepVars, Stops,
              Processes, TreeInv, Live, Active, CliTypeOK, PlaceHasProcess, PlaceHasSession
<1>9. CASE Finish(t)
  <2>1. /\ pc' = [pc EXCEPT ![t] = pc'[t]] /\ \A x \in Turns : x # t => pc'[x] = pc[x]
    BY <1>0, <1>9 DEF Finish, Goes, managerVars, sweepVars, CliTypeOK
  <2> QED  BY <1>0, <1>9, <2>1 DEF Finish, Goes, managerVars, sweepVars, TreeInv, Live, Active,
              CliTypeOK, PlaceHasProcess, PlaceHasSession
<1>10. CASE Dies(t)
  <2>1. /\ pc' = [pc EXCEPT ![t] = pc'[t]] /\ \A x \in Turns : x # t => pc'[x] = pc[x]
    BY <1>0, <1>10 DEF Dies, managerVars, turnVars, treeVars, sweepVars, Stops, CliTypeOK
  <2> QED  BY <1>0, <1>10, <2>1 DEF Dies, managerVars, turnVars, treeVars, sweepVars, Stops,
              TreeInv, Live, Active, CliTypeOK, PlaceHasProcess, PlaceHasSession
<1>11. CASE RemoveSession(t)
  <2>1. /\ pc' = [pc EXCEPT ![t] = pc'[t]] /\ \A x \in Turns : x # t => pc'[x] = pc[x]
    BY <1>0, <1>11 DEF RemoveSession, Goes, turnVars, treeVars, sweepVars, CliTypeOK
  <2>2. pc[t] = "cleanup" /\ pc'[t] \in {"removing", "done"} /\ captured' = captured /\ UNCHANGED treeVars
    BY <1>0, <1>11 DEF RemoveSession, Goes, turnVars, CliTypeOK
  <2>3. \A x \in Turns : alive[x] = "dead" => alive'[x] = "dead"
    BY <1>0, <1>11, RemoveAlive
  <2> QED  BY <1>0, <2>1, <2>2, <2>3 DEF TreeInv, Live, Active, treeVars
<1>12. CASE Removed(t)
  <2>1. /\ pc' = [pc EXCEPT ![t] = pc'[t]] /\ \A x \in Turns : x # t => pc'[x] = pc[x]
    BY <1>0, <1>12 DEF Removed, Goes, turnVars, treeVars, sweepVars, CliTypeOK
  <2> QED  BY <1>0, <1>12, <2>1 DEF Removed, Goes, turnVars, treeVars, sweepVars, TreeInv, Live,
              Active, CliTypeOK, PlaceHasProcess, PlaceHasSession
<1>13. CASE Halted(t)
  <2>1. /\ pc' = [pc EXCEPT ![t] = pc'[t]] /\ \A x \in Turns : x # t => pc'[x] = pc[x]
    BY <1>0, <1>13 DEF Halted, Goes, managerVars, turnVars, treeVars, sweepVars, CliTypeOK
  <2> QED  BY <1>0, <1>13, <2>1 DEF Halted, Goes, managerVars, turnVars, treeVars, sweepVars,
              TreeInv, Live, Active, CliTypeOK, PlaceHasProcess, PlaceHasSession
<1>14. CASE Collect(t)
  <2>1. /\ pc' = [pc EXCEPT ![t] = pc'[t]] /\ \A x \in Turns : x # t => pc'[x] = pc[x]
    BY <1>0, <1>14 DEF Collect, managerVars, turnVars, treeVars, sweepVars, Stops, CliTypeOK
  <2> QED  BY <1>0, <1>14, <2>1 DEF Collect, managerVars, turnVars, treeVars, sweepVars, Stops,
              TreeInv, Live, Active, CliTypeOK, PlaceHasProcess, PlaceHasSession
<1>15. CASE Start(t)
  <2>1. /\ pc'[t] = "opening" /\ \A x \in Turns : x # t => pc'[x] = pc[x]
        /\ UNCHANGED <<captured, alive, over, freed, cleared>>
    BY <1>0, <1>15 DEF Start, Goes, Processes, CliTypeOK
  <2>2. /\ pc[t] = "idle" /\ TreeOf[t] \notin cleared
        /\ \A u \in Turns : TreeOf[u] = TreeOf[t] /\ pc[u] # "idle" => Ended(u)
    BY <1>15 DEF Start
  <2>3. current' \in [Trees -> MaybeTurns] /\ current'[TreeOf[t]] = t
        /\ \A r \in Trees : r # TreeOf[t] => current'[r] = current[r]
    BY <1>0, <1>15 DEF Start, CliTypeOK, MaybeTurns
  <2>4. t \notin freed
    BY <2>2 DEF TreeInv
  <2>5. \A x \in Turns : TreeOf[x] \in Trees
    BY DEF Trees
  <2>6. \A x \in Turns : x # t /\ Live(x)' => Live(x) /\ TreeOf[x] # TreeOf[t]
    BY <2>1, <2>2 DEF Live, Active, Ended
  <2>7. \A x \in Turns : Live(x)' => current'[TreeOf[x]] = x
    BY <2>3, <2>5, <2>6 DEF TreeInv
  <2>8. \A x \in Turns : TreeOf[x] \in cleared' => ~Live(x)'
    BY <2>1, <2>2, <2>6 DEF TreeInv
  <2> QED  BY <2>1, <2>4, <2>7, <2>8 DEF TreeInv
<1> QED  BY <1>1, <1>2, <1>3, <1>4, <1>5, <1>6, <1>7, <1>8, <1>9, <1>10, <1>11, <1>12, <1>13,
            <1>14, <1>15

\* A stop, and the freeing of a tree, keep what the tree knows.
LEMMA CancelTree2 ==
    ASSUME ProcInv, TreeInv, NEW r \in Trees, CancelTree(r), cleared' \subseteq cleared \cup {r}
    PROVE  TreeInv'
<1> DEFINE t == current[r]
<1>0. CliTypeOK
  BY DEF ProcInv
<1>1. /\ current' = current /\ captured' = captured /\ t \in MaybeTurns
      /\ freed' = freed \cup {u \in Turns : TreeOf[u] = r /\ Active(u)}
  BY <1>0 DEF CancelTree, CliTypeOK, turnVars
<1>2. \A x \in Turns : Active(x) /\ TreeOf[x] = r => x = t \/ x \in freed
  BY DEF TreeInv, Live
<1>3. CASE t # None /\ Active(t)
  <2>1. t \in Turns /\ CancelTurn(t) /\ over' = over \cup {t}
    BY <1>1, <1>3 DEF CancelTree, MaybeTurns
  <2> HIDE DEF t
  <2>2. /\ pc'[t] \in {"halting", "cleanup", "done"}
        /\ \A x \in Turns : x # t => pc'[x] = pc[x]
        /\ \A x \in Turns : alive[x] = "dead" => alive'[x] = "dead"
    BY <1>0, <2>1, CancelShape
  <2>3. \A x \in Turns : Live(x)' => Live(x) /\ TreeOf[x] # r
    BY <1>1, <1>2, <1>3, <2>2 DEF Live, Active
  <2>4. \A x \in Turns : x \in freed' => pc'[x] \in {"halting", "cleanup", "removing", "done"}
    BY <1>1, <1>2, <2>2 DEF TreeInv
  <2>5. \A x \in Turns : /\ Live(x)' => current'[TreeOf[x]] = x
                         /\ TreeOf[x] \in cleared' => ~Live(x)'
    BY <1>1, <2>3 DEF TreeInv
  <2>6. \A x \in Turns : /\ pc'[x] = "halting" => x \in over'
                         /\ pc'[x] \in {"cleanup", "removing"} /\ x \notin over'
                                => captured'[x] = None /\ alive'[x] = "dead"
    BY <1>1, <2>1, <2>2 DEF TreeInv
  <2> QED  BY <2>4, <2>5, <2>6 DEF TreeInv
<1>4. CASE ~(t # None /\ Active(t))
  <2>1. pc' = pc /\ alive' = alive /\ over' = over
    BY <1>4 DEF CancelTree, Processes
  <2>2. \A x \in Turns : Live(x)' => Live(x) /\ TreeOf[x] # r
    BY <1>1, <1>2, <1>4, <2>1, CliSessionsAssumption DEF Live, Active
  <2>3. \A x \in Turns : x \in freed' => pc'[x] \in {"halting", "cleanup", "removing", "done"}
    BY <1>1, <1>2, <1>4, <2>1, CliSessionsAssumption DEF TreeInv
  <2>4. \A x \in Turns : /\ Live(x)' => current'[TreeOf[x]] = x
                         /\ TreeOf[x] \in cleared' => ~Live(x)'
    BY <1>1, <2>2 DEF TreeInv
  <2> QED  BY <1>1, <2>1, <2>3, <2>4 DEF TreeInv
<1> QED  BY <1>3, <1>4

\* A /stop leaves a turn of the tree on its way out.
LEMMA StopTree ==
    ASSUME ProcInv, TreeInv, NEW t \in Turns, Stop(t)
    PROVE  TreeInv'
<1>0. CliTypeOK
  BY DEF ProcInv
<1>1. /\ CancelTurn(t) /\ Active(t) /\ over' = over \cup {t}
      /\ current' = current /\ freed' = freed /\ cleared' = cleared /\ captured' = captured
  BY DEF Stop, turnVars
<1>2. /\ pc'[t] \in {"halting", "cleanup", "done"}
      /\ \A x \in Turns : x # t => pc'[x] = pc[x]
      /\ \A x \in Turns : alive[x] = "dead" => alive'[x] = "dead"
  BY <1>0, <1>1, CancelShape
<1>3. \A x \in Turns : Live(x)' => Live(x)
  BY <1>1, <1>2 DEF Live, Active
<1> QED  BY <1>1, <1>2, <1>3 DEF TreeInv

\* So do the steps of stop_all() and of the exit.
LEMMA RestTree ==
    ASSUME ProcInv, TreeInv,
           \/ \E s \in Turns : SweepNext(s)
           \/ StopAll \/ StopSessions \/ SweepBegin \/ SweepStopped \/ SweepEnd \/ Exit
           \/ UNCHANGED cliVars
    PROVE  TreeInv'
<1>0. CliTypeOK
  BY DEF ProcInv
<1>1. /\ UNCHANGED <<current, over, freed, cleared, captured>>
      /\ \A x \in Turns : pc'[x] \in {pc[x], "done"}
  BY <1>0 DEF SweepNext, StopAll, StopSessions, SweepBegin, SweepStopped, SweepEnd, Exit, cliVars,
     treeVars, turnVars, CliTypeOK
<1>2. \A x \in Turns : alive[x] = "dead" => alive'[x] = "dead"
  <2>1. CASE \E s \in Turns : SweepNext(s)
    BY <1>0, <2>1 DEF SweepNext, Kill, Running, CliTypeOK
  <2>2. CASE Exit
    BY <1>0, <2>2 DEF Exit, CliTypeOK
  <2>3. CASE StopAll \/ StopSessions \/ SweepBegin \/ SweepStopped \/ SweepEnd \/ UNCHANGED cliVars
    BY <2>3 DEF StopAll, StopSessions, SweepBegin, SweepStopped, SweepEnd, cliVars, Processes
  <2> QED  BY <2>1, <2>2, <2>3
<1>3. \A x \in Turns : Live(x)' => Live(x)
  BY <1>1 DEF Live, Active
<1> QED  BY <1>1, <1>2, <1>3 DEF TreeInv

\* What a tree knows of its turns holds first, and every step keeps it.
LEMMA TreeStarts == CliInit => TreeInv
BY DEF CliInit, TreeInv, Live, Active

\* Every step keeps it.
LEMMA TreeStep == ProcInv /\ TreeInv /\ [CliNext]_cliVars => TreeInv'
<1> SUFFICES ASSUME ProcInv, TreeInv, [CliNext]_cliVars PROVE TreeInv'
  OBVIOUS
<1>0. CliTypeOK
  BY DEF ProcInv
<1>1. CASE \E r \in Trees : Clear(r) \/ CancelNext(r)
  <2>1. PICK r \in Trees : Clear(r) \/ CancelNext(r)
    BY <1>1
  <2>2. CancelTree(r) /\ cleared' \subseteq cleared \cup {r}
    BY <2>1 DEF Clear, CancelNext
  <2> QED  BY <2>2, CancelTree2
<1> QED  BY <1>1, TurnsTree, StopTree, RestTree DEF CliNext

-----------------------------------------------------------------------------
(* The maps of the manager and the ids the turns hold: what RecordedIsOwn  *)
(* and AliasesAgree need to be inductive.                                  *)

\* An id that a turn holds, or that a map names, was given: by a turn that
\* opened a session, and registered it if the id is a real one.
Given(i) == session[i[2]] # None /\ (i[1] = "real" => temp[i[2]] = None)

\* An id that turn x may hold: one of its tree.
IdOk(i, x) == i # None => Given(i) /\ TreeOf[i[2]] = TreeOf[x]

\* A temporary id is no key of a session with a real one, and the creator of a
\* session holds no id but its own.
IdsGiven ==
    /\ \A x \in Turns : /\ IdOk(resume[x], x) /\ IdOk(recorded[x], x)
                        /\ IdOk(temp[x], x) /\ IdOk(captured[x], x)
                        /\ temp[x] # None => sessions[temp[x]] = None
                        /\ session[x] = x => captured[x] \in {None, Real(x)}
    /\ \A i \in Ids : tempToReal[i] # None =>
            /\ Given(i) /\ Given(tempToReal[i]) /\ tempToReal[i] = Real(tempToReal[i][2])
            /\ TreeOf[tempToReal[i][2]] = TreeOf[i[2]]

\* What waits for its real id: a session whose creator holds the temporary one.
PendingInv ==
    \A i \in Ids : pending[i] # None =>
        /\ temp[pending[i]] = i /\ captured[pending[i]] = None
        /\ tempToReal[i] # None => sessions[tempToReal[i]] = None

\* What has its real id: a session whose creator holds that id.
RegisteredInv ==
    \A r \in Ids : sessions[r] # None =>
        /\ r = Real(sessions[r]) /\ captured[sessions[r]] = r /\ temp[sessions[r]] = None
        /\ pending[r] = None /\ tempToReal[r] = None

\* The temporary id of a live turn is its own.
LivePending ==
    \A x \in Turns : Live(x) /\ temp[x] # None => pending[temp[x]] \in {None, x}

\* Who holds the manager's lock, and what remove_session() has still to forget.
Locked ==
    /\ \A x \in Turns : pc[x] = "removing" =>
           /\ lock = x /\ waitsFor[x] # None
           /\ waitsFor[x].id # None =>
                  /\ realToTemp[waitsFor[x].id] # None
                  /\ tempToReal[realToTemp[waitsFor[x].id]] = waitsFor[x].id
                  /\ sessions[waitsFor[x].id] = None /\ captured[x] = waitsFor[x].id
    /\ sweep.pc \in {"sweeping", "stopping"} => lock = Manager

MapsInv == /\ IdsGiven /\ PendingInv /\ RegisteredInv /\ LivePending /\ Locked
           /\ RecordedIsOwn /\ AliasesAgree

\* A real id names one turn.
LEMMA RealFacts ==
    /\ \A t \in Turns : Real(t) \in Ids /\ Real(t) # None /\ (Given(Real(t)) <=> session[t] # None /\ temp[t] = None)
    /\ \A t, u \in Turns : Real(t) = Real(u) => t = u
    /\ \A t \in Turns : Pending(t) \in Ids /\ Pending(t) # None /\ (Given(Pending(t)) => session[t] # None)
                        /\ Pending(t)[2] = t
    /\ \A t, u \in Turns : Real(t) # Pending(u)
BY IdFacts, NoneAssumption DEF Given

\* Steps that leave the maps, the sessions and the ids alone.
LEMMA QuietMaps ==
    ASSUME ProcInv, MapsInv,
           UNCHANGED <<managerVars, session, resume, temp, captured, recorded, overlapped>>,
           \A x \in Turns : Live(x)' => Live(x)
    PROVE  /\ IdsGiven' /\ PendingInv' /\ RegisteredInv' /\ LivePending'
           /\ RecordedIsOwn' /\ AliasesAgree'
<1>1. \A x \in Turns : Mixed(x)' <=> Mixed(x)
  BY MixedStays
<1>2. IdsGiven'
  BY DEF MapsInv, IdsGiven, IdOk, Given, managerVars
<1>3. PendingInv' /\ RegisteredInv' /\ AliasesAgree'
  BY DEF MapsInv, PendingInv, RegisteredInv, AliasesAgree, managerVars
<1>4. LivePending'
  BY DEF MapsInv, LivePending, managerVars
<1>5. RecordedIsOwn'
  BY <1>1 DEF MapsInv, RecordedIsOwn
<1> QED  BY <1>2, <1>3, <1>4, <1>5

\* Most steps of a turn leave the maps alone.
LEMMA QuietTurns ==
    ASSUME ProcInv, MapsInv, NEW t \in Turns,
           \/ TakeCli(t) \/ Spawn(t) \/ SpawnFails(t) \/ SessionInfo(t) \/ Event(t)
           \/ Eof(t) \/ Dies(t) \/ Halted(t) \/ Collect(t) \/ SweepNext(t)
    PROVE  MapsInv'
<1>0. CliTypeOK /\ WaitsForDying /\ PlaceHasSession /\ Locked
  BY DEF ProcInv, MapsInv
<1>1. CASE TakeCli(t)
  <2>1. /\ UNCHANGED <<managerVars, session, resume, temp, captured, recorded, overlapped>>
        /\ \A x \in Turns : Live(x)' => Live(x)
    BY <1>0, <1>1 DEF TakeCli, Goes, managerVars, turnVars, treeVars, sweepVars, Stops, Live,
       Active, CliTypeOK
  <2>2. Locked'
    BY <1>0, <1>1, <2>1, CliSessionsAssumption DEF TakeCli, Goes, managerVars, turnVars, treeVars,
       sweepVars, Stops, Locked, CliTypeOK
  <2> QED  BY <2>1, <2>2, QuietMaps DEF MapsInv
<1>2. CASE Spawn(t)
  <2>1. /\ UNCHANGED <<managerVars, session, resume, temp, captured, recorded, overlapped>>
        /\ \A x \in Turns : Live(x)' => Live(x)
    BY <1>0, <1>2 DEF Spawn, Goes, managerVars, turnVars, treeVars, sweepVars, Stops, Live,
       Active, CliTypeOK
  <2>2. Locked'
    BY <1>0, <1>2, <2>1, CliSessionsAssumption DEF Spawn, Goes, managerVars, turnVars, treeVars,
       sweepVars, Stops, Locked, CliTypeOK
  <2> QED  BY <2>1, <2>2, QuietMaps DEF MapsInv
<1>3. CASE SpawnFails(t)
  <2>1. /\ UNCHANGED <<managerVars, session, resume, temp, captured, recorded, overlapped>>
        /\ \A x \in Turns : Live(x)' => Live(x)
    BY <1>0, <1>3 DEF SpawnFails, Goes, managerVars, turnVars, sweepVars, Live, Active, CliTypeOK
  <2>2. Locked'
    BY <1>0, <1>3, <2>1, CliSessionsAssumption DEF SpawnFails, Goes, managerVars, turnVars,
       sweepVars, Locked, CliTypeOK
  <2> QED  BY <2>1, <2>2, QuietMaps DEF MapsInv
<1>4. CASE SessionInfo(t)
  <2>1. /\ UNCHANGED <<managerVars, session, resume, temp, captured, recorded, overlapped>>
        /\ \A x \in Turns : Live(x)' => Live(x)
    BY <1>0, <1>4 DEF SessionInfo, Goes, managerVars, turnVars, treeVars, sweepVars, Stops,
       Processes, Live, Active, CliTypeOK
  <2>2. Locked'
    BY <1>0, <1>4, <2>1, CliSessionsAssumption DEF SessionInfo, Goes, managerVars, turnVars,
       treeVars, sweepVars, Stops, Processes, Locked, CliTypeOK
  <2> QED  BY <2>1, <2>2, QuietMaps DEF MapsInv
<1>5. CASE Event(t)
  <2>1. /\ UNCHANGED <<managerVars, session, resume, temp, captured, recorded, overlapped>>
        /\ \A x \in Turns : Live(x)' => Live(x)
    BY <1>0, <1>5 DEF Event, Goes, managerVars, turnVars, treeVars, sweepVars, Stops, Processes,
       Live, Active, CliTypeOK
  <2>2. Locked'
    BY <1>0, <1>5, <2>1, CliSessionsAssumption DEF Event, Goes, managerVars, turnVars, treeVars,
       sweepVars, Stops, Processes, Locked, CliTypeOK
  <2> QED  BY <2>1, <2>2, QuietMaps DEF MapsInv
<1>6. CASE Eof(t)
  <2>1. /\ UNCHANGED <<managerVars, session, resume, temp, captured, recorded, overlapped>>
        /\ \A x \in Turns : Live(x)' => Live(x)
    BY <1>0, <1>6 DEF Eof, Goes, managerVars, turnVars, treeVars, sweepVars, Stops, Processes,
       Live, Active, CliTypeOK
  <2>2. Locked'
    BY <1>0, <1>6, <2>1, CliSessionsAssumption DEF Eof, Goes, managerVars, turnVars, treeVars,
       sweepVars, Stops, Processes, Locked, CliTypeOK
  <2> QED  BY <2>1, <2>2, QuietMaps DEF MapsInv
<1>7. CASE Dies(t)
  <2>1. /\ UNCHANGED <<managerVars, session, resume, temp, captured, recorded, overlapped>>
        /\ \A x \in Turns : Live(x)' => Live(x)
    BY <1>0, <1>7 DEF Dies, managerVars, turnVars, treeVars, sweepVars, Stops, Live, Active,
       CliTypeOK
  <2>2. Locked'
    BY <1>0, <1>7, <2>1, CliSessionsAssumption DEF Dies, managerVars, turnVars, treeVars,
       sweepVars, Stops, Locked, CliTypeOK
  <2> QED  BY <2>1, <2>2, QuietMaps DEF MapsInv
<1>8. CASE Halted(t)
  <2>1. /\ UNCHANGED <<managerVars, session, resume, temp, captured, recorded, overlapped>>
        /\ \A x \in Turns : Live(x)' => Live(x)
    BY <1>0, <1>8 DEF Halted, Goes, managerVars, turnVars, treeVars, sweepVars, Live, Active,
       CliTypeOK
  <2>2. Locked'
    BY <1>0, <1>8, <2>1, CliSessionsAssumption DEF Halted, Goes, managerVars, turnVars, treeVars,
       sweepVars, Locked, CliTypeOK
  <2> QED  BY <2>1, <2>2, QuietMaps DEF MapsInv
<1>9. CASE Collect(t)
  <2>1. /\ UNCHANGED <<managerVars, session, resume, temp, captured, recorded, overlapped>>
        /\ \A x \in Turns : Live(x)' => Live(x)
    BY <1>0, <1>9 DEF Collect, managerVars, turnVars, treeVars, sweepVars, Stops, Live, Active,
       CliTypeOK
  <2>2. Locked'
    BY <1>0, <1>9, <2>1, CliSessionsAssumption DEF Collect, managerVars, turnVars, treeVars,
       sweepVars, Stops, Locked, CliTypeOK
  <2> QED  BY <2>1, <2>2, QuietMaps DEF MapsInv
<1>10. CASE SweepNext(t)
  <2>1. /\ UNCHANGED <<managerVars, session, resume, temp, captured, recorded, overlapped>>
        /\ \A x \in Turns : Live(x)' => Live(x)
    BY <1>0, <1>10 DEF SweepNext, managerVars, turnVars, treeVars, Live, Active, CliTypeOK
  <2>2. Locked'
    BY <1>0, <1>10, <2>1, CliSessionsAssumption DEF SweepNext, managerVars, turnVars, treeVars,
       Locked, CliTypeOK, Kill
  <2> QED  BY <2>1, <2>2, QuietMaps DEF MapsInv
<1> QED  BY <1>1, <1>2, <1>3, <1>4, <1>5, <1>6, <1>7, <1>8, <1>9, <1>10

\* So do most steps of a stop of everything, and the exit.
LEMMA QuietRest ==
    ASSUME ProcInv, MapsInv, 
           \/ StopAll \/ StopSessions \/ SweepBegin \/ SweepStopped \/ Exit
           \/ UNCHANGED cliVars
    PROVE  MapsInv'
<1>0. CliTypeOK /\ WaitsForDying /\ PlaceHasSession /\ Locked
  BY DEF ProcInv, MapsInv
<1>1. CASE StopAll
  <2>1. /\ UNCHANGED <<managerVars, session, resume, temp, captured, recorded, overlapped>>
        /\ \A x \in Turns : Live(x)' => Live(x)
    BY <1>0, <1>1 DEF StopAll, managerVars, turnVars, treeVars, Processes, Live, Active, CliTypeOK
  <2>2. Locked'
    BY <1>0, <1>1, <2>1, CliSessionsAssumption DEF StopAll, managerVars, turnVars, treeVars,
       Processes, Locked, CliTypeOK
  <2> QED  BY <2>1, <2>2, QuietMaps DEF MapsInv
<1>2. CASE StopSessions
  <2>1. /\ UNCHANGED <<managerVars, session, resume, temp, captured, recorded, overlapped>>
        /\ \A x \in Turns : Live(x)' => Live(x)
    BY <1>0, <1>2 DEF StopSessions, managerVars, turnVars, treeVars, Processes, Live, Active,
       CliTypeOK
  <2>2. Locked'
    BY <1>0, <1>2, <2>1, CliSessionsAssumption DEF StopSessions, managerVars, turnVars, treeVars,
       Processes, Locked, CliTypeOK
  <2> QED  BY <2>1, <2>2, QuietMaps DEF MapsInv
<1>3. CASE SweepBegin
  <2>1. /\ UNCHANGED <<managerVars, session, resume, temp, captured, recorded, overlapped>>
        /\ \A x \in Turns : Live(x)' => Live(x)
    BY <1>0, <1>3 DEF SweepBegin, managerVars, turnVars, treeVars, Processes, Live, Active,
       CliTypeOK
  <2>2. Locked'
    BY <1>0, <1>3, <2>1, CliSessionsAssumption DEF SweepBegin, managerVars, turnVars, treeVars,
       Processes, Locked, CliTypeOK
  <2> QED  BY <2>1, <2>2, QuietMaps DEF MapsInv
<1>4. CASE SweepStopped
  <2>1. /\ UNCHANGED <<managerVars, session, resume, temp, captured, recorded, overlapped>>
        /\ \A x \in Turns : Live(x)' => Live(x)
    BY <1>0, <1>4 DEF SweepStopped, managerVars, turnVars, treeVars, Live, Active, CliTypeOK
  <2>2. Locked'
    BY <1>0, <1>4, <2>1, CliSessionsAssumption DEF SweepStopped, managerVars, turnVars, treeVars,
       Locked, CliTypeOK
  <2> QED  BY <2>1, <2>2, QuietMaps DEF MapsInv
<1>5. CASE Exit
  <2>1. /\ UNCHANGED <<managerVars, session, resume, temp, captured, recorded, overlapped>>
        /\ \A x \in Turns : Live(x)' => Live(x)
    BY <1>0, <1>5 DEF Exit, managerVars, turnVars, treeVars, sweepVars, Live, Active, CliTypeOK
  <2>2. Locked'
    BY <1>0, <1>5, <2>1, CliSessionsAssumption DEF Exit, managerVars, turnVars, treeVars,
       sweepVars, Locked, CliTypeOK
  <2> QED  BY <2>1, <2>2, QuietMaps DEF MapsInv
<1>6. CASE UNCHANGED cliVars
  <2>1. /\ UNCHANGED <<managerVars, session, resume, temp, captured, recorded, overlapped>>
        /\ \A x \in Turns : Live(x)' => Live(x)
    BY <1>0, <1>6 DEF cliVars, Goes, managerVars, turnVars, treeVars, sweepVars, Stops, Processes,
       Live, Active, CliTypeOK
  <2>2. Locked'
    BY <1>0, <1>6, <2>1, CliSessionsAssumption DEF cliVars, Goes, managerVars, turnVars, treeVars,
       sweepVars, Stops, Processes, Locked, CliTypeOK, Kill
  <2> QED  BY <2>1, <2>2, QuietMaps DEF MapsInv
<1> QED  BY <1>1, <1>2, <1>3, <1>4, <1>5, <1>6

\* A cancellation gives up the manager's lock, if the turn holds it.
LEMMA CancelLocked ==
    ASSUME CliTypeOK, Locked, NEW t \in Turns, CancelTurn(t), UNCHANGED <<managerVars, captured>>,
           sweep'.pc \in {"sweeping", "stopping"} => sweep.pc \in {"sweeping", "stopping"}
    PROVE  Locked'
<1>1. CASE /\ pc[t] = "removing" /\ lock' = None
           /\ waitsFor' = [waitsFor EXCEPT ![t] = None]
           /\ Goes(t, "done") /\ UNCHANGED <<Processes, orphaned>>
  BY <1>1, CliSessionsAssumption DEF Locked, Goes, CliTypeOK
<1>2. CASE /\ pc[t] = "reading" /\ Goes(t, "halting") /\ lock' = lock
           /\ Kill(t, session[t], None) \/ waitsFor' = waitsFor
  BY <1>2 DEF Locked, Goes, Kill, CliTypeOK, managerVars
<1>3. CASE /\ pc' = [pc EXCEPT ![t] = pc'[t]] /\ pc'[t] \in {"halting", "cleanup", "done"}
           /\ lock' = lock /\ waitsFor' = waitsFor
  BY <1>3 DEF Locked, CliTypeOK, managerVars
<1> QED  BY <1>1, <1>2, <1>3 DEF CancelTurn, Goes, CliTypeOK, Processes

\* A stop and the freeing of a tree leave the maps alone.
LEMMA CancelTreeMaps ==
    ASSUME ProcInv, MapsInv, NEW r \in Trees, CancelTree(r),
           sweep'.pc \in {"sweeping", "stopping"} => sweep.pc \in {"sweeping", "stopping"}
    PROVE  MapsInv'
<1> DEFINE t == current[r]
<1>0. CliTypeOK /\ Locked /\ t \in MaybeTurns
  BY DEF ProcInv, MapsInv, CliTypeOK
<1>1. /\ UNCHANGED <<managerVars, session, resume, temp, captured, recorded, overlapped>>
      /\ freed \subseteq freed'
  BY DEF CancelTree, turnVars
<1>2. CASE t # None /\ Active(t)
  <2>1. t \in Turns /\ CancelTurn(t)
    BY <1>0, <1>2 DEF CancelTree, MaybeTurns
  <2> HIDE DEF t
  <2>2. \A x \in Turns : x # t => pc'[x] = pc[x]
    BY <1>0, <2>1, CancelShape
  <2>3. \A x \in Turns : Live(x)' => Live(x)
    BY <1>1, <1>2, <2>2 DEF Live, Active
  <2>4. Locked'
    BY <1>0, <1>1, <2>1, CancelLocked
  <2> QED  BY <1>1, <2>3, <2>4, QuietMaps DEF MapsInv
<1>3. CASE ~(t # None /\ Active(t))
  <2>1. pc' = pc /\ lock' = lock /\ waitsFor' = waitsFor
    BY <1>3 DEF CancelTree
  <2>2. \A x \in Turns : Live(x)' => Live(x)
    BY <1>1, <2>1 DEF Live, Active
  <2>3. Locked'
    BY <1>0, <1>1, <2>1 DEF Locked, managerVars
  <2> QED  BY <1>1, <2>2, <2>3, QuietMaps DEF MapsInv
<1> QED  BY <1>2, <1>3

\* A /stop leaves the maps alone.
LEMMA StopMaps ==
    ASSUME ProcInv, MapsInv, NEW t \in Turns, Stop(t)
    PROVE  MapsInv'
<1>0. CliTypeOK /\ Locked /\ CancelTurn(t) /\ Active(t)
  BY DEF ProcInv, MapsInv, Stop
<1>1. /\ UNCHANGED <<managerVars, session, resume, temp, captured, recorded, overlapped>>
      /\ freed' = freed /\ sweep' = sweep
  BY DEF Stop, turnVars, sweepVars
<1>2. \A x \in Turns : x # t => pc'[x] = pc[x]
  BY <1>0, CancelShape
<1>3. \A x \in Turns : Live(x)' => Live(x)
  BY <1>0, <1>1, <1>2 DEF Live, Active
<1>4. Locked'
  BY <1>0, <1>1, CancelLocked
<1> QED  BY <1>1, <1>3, <1>4, QuietMaps DEF MapsInv

\* A turn starts with the id recorded for its parent.
LEMMA StartMaps ==
    ASSUME ProcInv, MapsInv, NEW t \in Turns, Start(t)
    PROVE  MapsInv'
<1>0. CliTypeOK /\ session[t] = None /\ temp[t] = None /\ pc[t] = "idle"
  BY DEF ProcInv, PlaceHasSession, Start
<1>1. /\ UNCHANGED <<managerVars, session, temp, captured, recorded, overlapped, lock, waitsFor, sweep, freed>>
      /\ pc' = [pc EXCEPT ![t] = "opening"]
      /\ resume' = [resume EXCEPT ![t] = IF ParentOf[t] = None THEN None ELSE recorded[ParentOf[t]]]
  BY DEF Start, Goes, sweepVars
<1>2. IdsGiven'
  <2>1. \A x \in Turns : IdOk(resume[x], x) /\ IdOk(recorded[x], x)
    BY DEF MapsInv, IdsGiven
  <2>2. ParentOf[t] # None => ParentOf[t] \in Turns /\ TreeOf[ParentOf[t]] = TreeOf[t]
    BY CliSessionsAssumption
  <2>3. \A x \in Turns : IdOk(resume'[x], x)
    BY <1>0, <1>1, <2>1, <2>2 DEF IdOk, CliTypeOK
  <2> QED  BY <1>1, <2>3 DEF MapsInv, IdsGiven, IdOk, Given, managerVars
<1>3. PendingInv' /\ RegisteredInv' /\ AliasesAgree' /\ RecordedIsOwn'
  BY <1>1, MixedStays DEF MapsInv, PendingInv, RegisteredInv, AliasesAgree, RecordedIsOwn,
     managerVars
<1>4. LivePending'
  BY <1>0, <1>1 DEF MapsInv, LivePending, Live, Active, managerVars, CliTypeOK
<1>5. Locked'
  BY <1>0, <1>1 DEF MapsInv, Locked, managerVars, CliTypeOK
<1> QED  BY <1>2, <1>3, <1>4, <1>5 DEF MapsInv

\* A turn that ends records the id it holds.
LEMMA FinishMaps ==
    ASSUME ProcInv, MapsInv, NEW t \in Turns, Finish(t)
    PROVE  MapsInv'
<1>0. CliTypeOK /\ SessionsAreOwn /\ session[t] # None /\ pc[t] = "finishing"
  BY DEF ProcInv, PlaceHasSession, Finish
<1>1. /\ UNCHANGED <<managerVars, session, temp, captured, resume, overlapped, lock, waitsFor, sweep, freed>>
      /\ pc' = [pc EXCEPT ![t] = "cleanup"]
      /\ recorded' = recorded \/ recorded' = [recorded EXCEPT ![t] = captured[t]]
  BY DEF Finish, Goes, sweepVars
<1>2. IdsGiven'
  <2>1. \A x \in Turns : IdOk(captured[x], x) /\ IdOk(recorded[x], x)
    BY DEF MapsInv, IdsGiven
  <2>3. \A x \in Turns : recorded'[x] \in {recorded[x], captured[x]}
    BY <1>0, <1>1 DEF CliTypeOK
  <2> QED  BY <1>1, <2>1, <2>3 DEF MapsInv, IdsGiven, IdOk, Given, managerVars
<1>3. PendingInv' /\ RegisteredInv' /\ AliasesAgree'
  BY <1>1 DEF MapsInv, PendingInv, RegisteredInv, AliasesAgree, managerVars
<1>4. LivePending'
  BY <1>0, <1>1 DEF MapsInv, LivePending, Live, Active, managerVars, CliTypeOK
<1>5. Locked'
  BY <1>0, <1>1 DEF MapsInv, Locked, managerVars, CliTypeOK
<1>6. RecordedIsOwn'
  <2>1. \A x \in Turns : Mixed(x)' <=> Mixed(x)
    BY <1>1, MixedStays
  <2>2. captured[t] \in {None, Real(t)} \/ Mixed(t)
    BY <1>0, MixedFacts DEF MapsInv, IdsGiven
  <2>3. \A x \in Turns : recorded[x] \in {None, Real(x)} \/ Mixed(x)
    BY DEF MapsInv, RecordedIsOwn
  <2>4. \A x \in Turns : recorded'[x] = recorded[x] \/ (x = t /\ recorded'[x] = captured[t])
    BY <1>0, <1>1 DEF CliTypeOK
  <2> QED  BY <2>1, <2>2, <2>3, <2>4 DEF RecordedIsOwn, Real
<1> QED  BY <1>2, <1>3, <1>4, <1>5, <1>6 DEF MapsInv

\* stop_all() empties the maps.
LEMMA SweepEndMaps ==
    ASSUME ProcInv, MapsInv, SweepEnd
    PROVE  MapsInv'
<1>1. /\ UNCHANGED <<pc, session, temp, captured, recorded, resume, overlapped, waitsFor, freed>>
      /\ lock' = None /\ sweep'.pc = "idle"
      /\ \A i \in Ids : /\ pending'[i] = None /\ sessions'[i] = None
                        /\ tempToReal'[i] = None /\ realToTemp'[i] = None
  BY DEF SweepEnd, turnVars, treeVars, NoSweep
<1>2. \A x \in Turns : pc[x] # "removing"
  BY CliSessionsAssumption DEF MapsInv, Locked, SweepEnd
<1>3. \A x \in Turns : temp[x] # None => temp[x] \in Ids
  BY DEF ProcInv, CliTypeOK
<1>4. IdsGiven'
  BY <1>1, <1>3 DEF MapsInv, IdsGiven, IdOk, Given
<1>5. PendingInv' /\ RegisteredInv' /\ AliasesAgree' /\ LivePending' /\ RecordedIsOwn'
  BY <1>1, <1>3, MixedStays DEF MapsInv, PendingInv, RegisteredInv, AliasesAgree, LivePending,
     RecordedIsOwn
<1>6. Locked'
  BY <1>1, <1>2 DEF Locked
<1> QED  BY <1>4, <1>5, <1>6 DEF MapsInv

\* What opening a session, new or not, leaves of the ids that were given.
LEMMA OpenGiven ==
    ASSUME CliTypeOK, IdsGiven, NEW t \in Turns, session[t] = None, temp[t] = None, captured[t] = None,
           resume' = resume, recorded' = recorded, tempToReal' = tempToReal, sessions' = sessions,
           NEW s \in Turns, session' = [session EXCEPT ![t] = s],
           \A x \in Turns : x # t => temp'[x] = temp[x] /\ captured'[x] = captured[x],
           \/ /\ s # t /\ temp'[t] = None
              /\ captured'[t] \in Ids /\ IdOk(captured'[t], t)
           \/ /\ s = t /\ captured'[t] = None
              /\ temp'[t] \in Ids /\ sessions[temp'[t]] = None
              /\ IdOk(temp'[t], t) \/ temp'[t] = Pending(t)
    PROVE  IdsGiven'
<1>1. /\ \A x \in Turns : /\ resume[x] \in Ids \cup {None} /\ recorded[x] \in Ids \cup {None}
                          /\ temp[x] \in Ids \cup {None} /\ captured[x] \in Ids \cup {None}
      /\ \A i \in Ids : tempToReal[i] \in Ids \cup {None}
  BY DEF CliTypeOK
<1>2. session'[t] = s /\ \A x \in Turns : x # t => session'[x] = session[x]
  BY DEF CliTypeOK
<1>3. \A i \in Ids : Given(i) => (session'[i[2]] # None /\ (i[1] = "real" => temp'[i[2]] = None))
  BY <1>2, IdFacts DEF Given
<1>4. \A i \in Ids, x \in Turns : IdOk(i, x) => /\ session'[i[2]] # None /\ (i[1] = "real" => temp'[i[2]] = None)
                                                /\ TreeOf[i[2]] = TreeOf[x]
  BY <1>3, NoneAssumption DEF IdOk
<1>5. \A x \in Turns : /\ IdOk(resume[x], x) /\ IdOk(recorded[x], x)
                       /\ IdOk(temp[x], x) /\ IdOk(captured[x], x)
                       /\ temp[x] # None => sessions[temp[x]] = None
                       /\ session[x] = x => captured[x] \in {None, Real(x)}
  BY DEF IdsGiven
<1>6. \A x \in Turns : /\ temp'[x] \in Ids \cup {None} /\ captured'[x] \in Ids \cup {None}
                       /\ temp'[x] # None =>
                              /\ IdOk(temp'[x], x) \/ (x = t /\ s = t /\ temp'[x] = Pending(t))
                              /\ sessions[temp'[x]] = None
                       /\ captured'[x] # None => IdOk(captured'[x], x)
                       /\ session'[x] = x => captured'[x] \in {None, Real(x)}
  BY <1>1, <1>2, <1>5, NoneAssumption
<1>7. \A i \in Ids : tempToReal[i] # None =>
            /\ Given(i) /\ Given(tempToReal[i]) /\ tempToReal[i] = Real(tempToReal[i][2])
            /\ TreeOf[tempToReal[i][2]] = TreeOf[i[2]]
  BY DEF IdsGiven
<1>8. \A x \in Turns :
        /\ resume[x] # None => /\ session'[resume[x][2]] # None /\ (resume[x][1] = "real" => temp'[resume[x][2]] = None)
                               /\ TreeOf[resume[x][2]] = TreeOf[x]
        /\ recorded[x] # None => /\ session'[recorded[x][2]] # None /\ (recorded[x][1] = "real" => temp'[recorded[x][2]] = None)
                                 /\ TreeOf[recorded[x][2]] = TreeOf[x]
        /\ temp'[x] # None => /\ session'[temp'[x][2]] # None /\ (temp'[x][1] = "real" => temp'[temp'[x][2]] = None)
                              /\ TreeOf[temp'[x][2]] = TreeOf[x]
        /\ captured'[x] # None => /\ session'[captured'[x][2]] # None /\ (captured'[x][1] = "real" => temp'[captured'[x][2]] = None)
                                  /\ TreeOf[captured'[x][2]] = TreeOf[x]
  BY <1>1, <1>2, <1>4, <1>5, <1>6, IdFacts, CliSessionsAssumption
<1>9. \A i \in Ids : tempToReal[i] # None =>
            /\ session'[i[2]] # None /\ (i[1] = "real" => temp'[i[2]] = None)
            /\ session'[tempToReal[i][2]] # None /\ (tempToReal[i][1] = "real" => temp'[tempToReal[i][2]] = None)
  BY <1>1, <1>3, <1>7
<1>10. \A x \in Turns : /\ IdOk(resume[x], x)' /\ IdOk(recorded[x], x)'
                        /\ IdOk(temp[x], x)' /\ IdOk(captured[x], x)'
  BY <1>8 DEF IdOk, Given
<1>11. \A i \in Ids : tempToReal[i] # None => Given(i)' /\ Given(tempToReal[i])'
  BY <1>9 DEF Given
<1> QED  BY <1>6, <1>7, <1>10, <1>11 DEF IdsGiven, Real

\* A session that is found or created agrees with the maps.
LEMMA OpenMaps ==
    ASSUME ProcInv, TreeInv, MapsInv, NEW t \in Turns, Open(t)
    PROVE  MapsInv'
<1>0. /\ CliTypeOK /\ SessionsAreOwn /\ PlaceHasSession
      /\ IdsGiven /\ PendingInv /\ RegisteredInv /\ LivePending /\ Locked /\ AliasesAgree
  BY DEF ProcInv, MapsInv
<1>1. /\ pc[t] = "opening" /\ lock = None /\ pc' = [pc EXCEPT ![t] = "queued"]
      /\ UNCHANGED <<sessions, tempToReal, realToTemp, lock, resume, recorded, waitsFor, freed, sweep>>
  BY <1>0, OpenShape DEF Stops, treeVars, sweepVars
<1>2. session[t] = None /\ temp[t] = None /\ captured[t] = None
  BY <1>0, <1>1 DEF PlaceHasSession
<1>3. \A i \in Ids : pending[i] # t /\ sessions[i] # t
  BY <1>0, <1>2, CliSessionsAssumption DEF SessionsAreOwn
<1>4. \A x \in Turns : Live(x)' <=> Live(x)
  BY <1>0, <1>1 DEF Live, Active, CliTypeOK
<1>5. RecordedIsOwn'
  <2>1. overlapped \subseteq overlapped'
    BY DEF Open
  <2>2. \E s \in Turns : session' = [session EXCEPT ![t] = s]
    BY <1>0, OpenShape
  <2>3. \A x \in Turns : Mixed(x) => Mixed(x)'
    BY <1>0, <1>2, <2>1, <2>2, MixedGrows
  <2> QED  BY <1>1, <2>3 DEF MapsInv, RecordedIsOwn
<1>6. Locked'
  <2>1. \A x \in Turns : pc[x] # "removing"
    BY <1>0, <1>1, CliSessionsAssumption DEF Locked
  <2> QED  BY <1>0, <1>1, <2>1, CliSessionsAssumption DEF Locked, CliTypeOK
<1>7. CASE \E s \in Turns, i \in Ids :
                /\ resume[t] \in Ids /\ Known(resume[t]) = <<s, i>>
                /\ session' = [session EXCEPT ![t] = s]
                /\ captured' = [captured EXCEPT ![t] = i]
                /\ pending' = pending /\ temp' = temp
  <2>1. PICK s \in Turns, i \in Ids :
                /\ resume[t] \in Ids /\ Known(resume[t]) = <<s, i>>
                /\ session' = [session EXCEPT ![t] = s]
                /\ captured' = [captured EXCEPT ![t] = i]
                /\ pending' = pending /\ temp' = temp
    BY <1>7
  <2>2. /\ IdOk(resume[t], t) /\ i = IF tempToReal[resume[t]] = None THEN resume[t] ELSE tempToReal[resume[t]]
        /\ \E j \in Ids : s = sessions[j] \/ s = pending[j]
    BY <1>0, <2>1, KnownInMaps DEF IdsGiven
  <2>3. IdOk(i, t) /\ s # t
    BY <1>0, <1>3, <2>1, <2>2, NoneAssumption DEF IdOk, IdsGiven
  <2>4. captured'[t] = i /\ \A x \in Turns : x # t => captured'[x] = captured[x]
    BY <1>0, <2>1 DEF CliTypeOK
  <2>5. IdsGiven'
    BY <1>0, <1>1, <1>2, <2>1, <2>3, <2>4, OpenGiven
  <2>6. PendingInv' /\ RegisteredInv' /\ AliasesAgree'
    BY <1>0, <1>1, <1>3, <2>1, <2>4 DEF PendingInv, RegisteredInv, AliasesAgree, CliTypeOK,
       MaybeTurns
  <2>7. LivePending'
    BY <1>0, <1>4, <2>1 DEF LivePending
  <2> QED  BY <1>5, <1>6, <2>5, <2>6, <2>7 DEF MapsInv
<1>8. CASE \E i \in Ids :
                /\ IF resume[t] = None THEN i = Pending(t)
                   ELSE i = resume[t] /\ Known(i)[1] = None
                /\ session' = [session EXCEPT ![t] = t]
                /\ pending' = [pending EXCEPT ![i] = t]
                /\ temp' = [temp EXCEPT ![t] = i] /\ captured' = captured
  <2>1. PICK i \in Ids :
                /\ IF resume[t] = None THEN i = Pending(t)
                   ELSE i = resume[t] /\ Known(i)[1] = None
                /\ session' = [session EXCEPT ![t] = t]
                /\ pending' = [pending EXCEPT ![i] = t]
                /\ temp' = [temp EXCEPT ![t] = i] /\ captured' = captured
    BY <1>8
  <2>2. IdOk(i, t) \/ i = Pending(t)
    BY <1>0, <2>1, RealFacts DEF IdOk, IdsGiven
  <2>3. sessions[i] = None /\ (tempToReal[i] # None => sessions[tempToReal[i]] = None)
    <3>1. CASE i = Pending(t)
      <4>1. sessions[i] = None
        BY <1>0, <3>1, RealFacts DEF RegisteredInv, CliTypeOK, MaybeTurns
      <4>2. tempToReal[i] = None \/ sessions[tempToReal[i]] = None
        BY <1>0, <1>2, <3>1, RealFacts DEF IdsGiven
      <4> QED  BY <4>1, <4>2
    <3>2. CASE Known(i)[1] = None
      BY <1>0, <3>2, KnownInMaps DEF RegisteredInv
    <3> QED  BY <2>1, <3>1, <3>2
  <2>4. /\ temp'[t] = i /\ \A x \in Turns : x # t => temp'[x] = temp[x]
        /\ pending'[i] = t /\ \A j \in Ids : j # i => pending'[j] = pending[j]
    BY <1>0, <2>1 DEF CliTypeOK
  <2>5. IdsGiven'
    BY <1>0, <1>1, <1>2, <2>1, <2>2, <2>3, <2>4, OpenGiven
  <2>6. PendingInv'
    BY <1>0, <1>1, <1>2, <1>3, <2>1, <2>3, <2>4 DEF PendingInv, CliTypeOK, MaybeTurns
  <2>7. RegisteredInv' /\ AliasesAgree'
    BY <1>0, <1>1, <1>3, <2>1, <2>3, <2>4 DEF RegisteredInv, AliasesAgree, CliTypeOK, MaybeTurns
  <2>8. LivePending'
    <3>1. Live(t) /\ current[TreeOf[t]] = t
      BY <1>1 DEF TreeInv, Live, Active
    <3>2. \A x \in Turns : Live(x) /\ x # t /\ temp[x] # None => temp[x] # i
      BY <1>0, <1>2, <2>2, <3>1, NoneAssumption, RealFacts DEF TreeInv, IdsGiven, IdOk
    <3>3. \A x \in Turns : temp[x] \in Ids \cup {None}
      BY <1>0 DEF CliTypeOK
    <3> QED  BY <1>0, <1>4, <2>4, <3>2, <3>3 DEF LivePending
  <2> QED  BY <1>5, <1>6, <2>5, <2>6, <2>7, <2>8 DEF MapsInv
<1> QED  BY <1>0, <1>7, <1>8, OpenShape

\* A session gets its real id, and every map agrees on it.
LEMMA RegisterMaps ==
    ASSUME ProcInv, TreeInv, MapsInv, NEW t \in Turns, Register(t)
    PROVE  MapsInv'
<1> DEFINE i == temp[t]
           r == Real(t)
<1>0. /\ CliTypeOK /\ SessionsAreOwn /\ PlaceHasSession
      /\ IdsGiven /\ PendingInv /\ RegisteredInv /\ LivePending /\ Locked /\ AliasesAgree
  BY DEF ProcInv, MapsInv
<1>1. /\ pc[t] = "registering" /\ lock = None /\ pc' = [pc EXCEPT ![t] = "reading"]
      /\ UNCHANGED <<lock, session, resume, overlapped, waitsFor, freed, sweep>>
      /\ recorded' = [recorded EXCEPT ![t] = r]
      /\ captured' = [captured EXCEPT ![t] = r]
      /\ temp' = [temp EXCEPT ![t] = None]
      /\ IF pending[i] = None THEN UNCHANGED managerVars
         ELSE /\ pending' = [pending EXCEPT ![i] = None]
              /\ sessions' = [sessions EXCEPT ![r] = pending[i]]
              /\ tempToReal' = [tempToReal EXCEPT ![i] = r]
              /\ realToTemp' = [realToTemp EXCEPT ![r] = i]
  BY DEF Register, Goes, Stops, treeVars, sweepVars
<1>2. /\ i \in Ids /\ r \in Ids /\ session[t] # None /\ session[t] \in Turns
      /\ ~Given(r) /\ sessions[i] = None /\ IdOk(i, t)
  BY <1>0, <1>1, RealFacts DEF PlaceHasSession, IdsGiven, CliTypeOK, MaybeTurns
<1>3. i # None /\ r # None /\ i # r /\ Given(i) /\ TreeOf[i[2]] = TreeOf[t] /\ r[1] = "real" /\ r[2] = t
  BY <1>2, NoneAssumption, IdFacts DEF IdOk
<1>4. pending[i] \in {None, t}
  <2>1. Live(t)
    BY <1>1 DEF TreeInv, Live, Active
  <2> QED  BY <1>0, <1>3, <2>1 DEF LivePending
<1>5. \A x \in Turns : /\ resume[x] # r /\ recorded[x] # r /\ temp[x] # r /\ captured[x] # r
  BY <1>0, <1>2, <1>3 DEF IdsGiven, IdOk
<1>6. /\ tempToReal[r] = None /\ \A j \in Ids : tempToReal[j] # r
      /\ pending[r] = None
  BY <1>0, <1>2, <1>3, <1>5 DEF IdsGiven, PendingInv, CliTypeOK, MaybeTurns
<1>7. sessions[r] = None
  <2>1. ASSUME sessions[r] # None
        PROVE  FALSE
    <3>1. r = Real(sessions[r]) /\ sessions[r] \in Turns /\ temp[sessions[r]] = None
      BY <1>0, <1>2, <2>1 DEF RegisteredInv, CliTypeOK, MaybeTurns
    <3>2. sessions[r] = t
      BY <3>1, RealFacts
    <3> QED  BY <1>3, <3>1, <3>2
  <2> QED  BY <2>1
<1>8. /\ temp'[t] = None /\ captured'[t] = r /\ recorded'[t] = r
      /\ \A x \in Turns : x # t => temp'[x] = temp[x] /\ captured'[x] = captured[x] /\ recorded'[x] = recorded[x]
  BY <1>0, <1>1 DEF CliTypeOK
<1>9. \A x \in Turns : sessions[i] # x
  BY <1>2, CliSessionsAssumption
<1>10. RecordedIsOwn'
  BY <1>1, <1>8, MixedStays DEF MapsInv, RecordedIsOwn, Real
<1>11. Locked'
  <2>1. \A x \in Turns : pc[x] # "removing"
    BY <1>0, <1>1, CliSessionsAssumption DEF Locked
  <2>2. \A x \in Turns : pc'[x] # "removing"
    BY <1>0, <1>1, <2>1 DEF CliTypeOK
  <2> QED  BY <1>0, <1>1, <2>2 DEF Locked
<1>12. \A x \in Turns : Live(x)' => Live(x)
  BY <1>0, <1>1 DEF Live, Active, CliTypeOK
<1>13. \A j \in Ids : Given(j) \/ j = r => session'[j[2]] # None /\ (j[1] = "real" => temp'[j[2]] = None)
  BY <1>1, <1>2, <1>3, <1>8, IdFacts DEF Given
<1> HIDE DEF i, r
<1>14. IdsGiven'
  <2>1. /\ \A x \in Turns : /\ resume[x] \in Ids \cup {None} /\ recorded[x] \in Ids \cup {None}
                            /\ temp[x] \in Ids \cup {None} /\ captured[x] \in Ids \cup {None}
        /\ \A j \in Ids : tempToReal[j] \in Ids \cup {None}
    BY <1>0 DEF CliTypeOK
  <2>2. \A j \in Ids : /\ sessions'[j] = sessions[j] \/ j = r
                       /\ tempToReal'[j] = tempToReal[j] \/ (j = i /\ tempToReal'[j] = r)
    BY <1>0, <1>1, <1>2 DEF CliTypeOK, managerVars
  <2>3. \A x \in Turns : /\ IdOk(resume[x], x) /\ IdOk(recorded[x], x)
                         /\ IdOk(temp[x], x) /\ IdOk(captured[x], x)
                         /\ temp[x] # None => sessions[temp[x]] = None
                         /\ session[x] = x => captured[x] \in {None, Real(x)}
    BY <1>0 DEF IdsGiven
  <2>4. \A j \in Ids, x \in Turns : IdOk(j, x) \/ (j = r /\ x = t) =>
            /\ session'[j[2]] # None /\ (j[1] = "real" => temp'[j[2]] = None)
            /\ TreeOf[j[2]] = TreeOf[x]
    BY <1>3, <1>13, NoneAssumption DEF IdOk
  <2>5. \A x \in Turns :
          /\ resume[x] # None => /\ session'[resume[x][2]] # None
                                 /\ resume[x][1] = "real" => temp'[resume[x][2]] = None
                                 /\ TreeOf[resume[x][2]] = TreeOf[x]
          /\ recorded'[x] # None => /\ session'[recorded'[x][2]] # None
                                    /\ recorded'[x][1] = "real" => temp'[recorded'[x][2]] = None
                                    /\ TreeOf[recorded'[x][2]] = TreeOf[x]
          /\ temp'[x] # None => /\ session'[temp'[x][2]] # None
                                /\ temp'[x][1] = "real" => temp'[temp'[x][2]] = None
                                /\ TreeOf[temp'[x][2]] = TreeOf[x]
          /\ captured'[x] # None => /\ session'[captured'[x][2]] # None
                                    /\ captured'[x][1] = "real" => temp'[captured'[x][2]] = None
                                    /\ TreeOf[captured'[x][2]] = TreeOf[x]
    BY <1>2, <1>8, <2>1, <2>3, <2>4
  <2>6. \A x \in Turns : /\ temp'[x] # None => sessions'[temp'[x]] = None
                         /\ session'[x] = x => captured'[x] \in {None, Real(x)}
    BY <1>1, <1>5, <1>8, <2>1, <2>2, <2>3 DEF r
  <2>7. \A j \in Ids : tempToReal'[j] # None =>
            /\ session'[j[2]] # None /\ (j[1] = "real" => temp'[j[2]] = None)
            /\ session'[tempToReal'[j][2]] # None
            /\ tempToReal'[j][1] = "real" => temp'[tempToReal'[j][2]] = None
            /\ tempToReal'[j] = Real(tempToReal'[j][2])
            /\ TreeOf[tempToReal'[j][2]] = TreeOf[j[2]]
    <3> SUFFICES ASSUME NEW j \in Ids, tempToReal'[j] # None
                 PROVE  /\ session'[j[2]] # None /\ (j[1] = "real" => temp'[j[2]] = None)
                        /\ session'[tempToReal'[j][2]] # None
                        /\ tempToReal'[j][1] = "real" => temp'[tempToReal'[j][2]] = None
                        /\ tempToReal'[j] = Real(tempToReal'[j][2])
                        /\ TreeOf[tempToReal'[j][2]] = TreeOf[j[2]]
      OBVIOUS
    <3>1. CASE tempToReal'[j] = tempToReal[j]
      <4>1. /\ Given(j) /\ Given(tempToReal[j]) /\ tempToReal[j] = Real(tempToReal[j][2])
            /\ TreeOf[tempToReal[j][2]] = TreeOf[j[2]] /\ tempToReal[j] \in Ids
        BY <1>0, <2>1, <3>1 DEF IdsGiven
      <4> QED  BY <1>13, <3>1, <4>1
    <3>2. CASE j = i /\ tempToReal'[j] = r
      <4>1. r = Real(r[2])
        BY <1>3 DEF r
      <4> QED  BY <1>2, <1>3, <1>13, <3>2, <4>1
    <3> QED  BY <2>2, <3>1, <3>2
  <2> QED  BY <1>1, <2>5, <2>6, <2>7 DEF IdsGiven, IdOk, Given, Real
<1>15. CASE pending[i] = None
  <2>1. UNCHANGED managerVars
    BY <1>1, <1>15
  <2>3. PendingInv'
    BY <1>0, <1>3, <1>8, <1>15, <2>1 DEF PendingInv, managerVars, CliTypeOK, MaybeTurns, i
  <2>4. RegisteredInv' /\ AliasesAgree'
    BY <1>0, <1>3, <1>7, <1>8, <2>1 DEF RegisteredInv, AliasesAgree, managerVars, CliTypeOK,
       MaybeTurns, i
  <2>5. LivePending'
    BY <1>0, <1>8, <1>12, <2>1 DEF LivePending, managerVars
  <2> QED  BY <1>10, <1>11, <1>14, <2>3, <2>4, <2>5 DEF MapsInv
<1>16. CASE pending[i] = t
  <2>1. /\ pending'[i] = None /\ sessions'[r] = t /\ tempToReal'[i] = r /\ realToTemp'[r] = i
        /\ \A j \in Ids : /\ j # i => pending'[j] = pending[j] /\ tempToReal'[j] = tempToReal[j]
                          /\ j # r => sessions'[j] = sessions[j] /\ realToTemp'[j] = realToTemp[j]
    BY <1>0, <1>1, <1>2, <1>16, CliSessionsAssumption DEF CliTypeOK
  <2>2. session[t] = t /\ captured[t] = None
    BY <1>0, <1>2, <1>16, CliSessionsAssumption DEF SessionsAreOwn, PendingInv
  <2>4. PendingInv'
    BY <1>0, <1>3, <1>6, <1>8, <1>16, <2>1 DEF PendingInv, CliTypeOK, MaybeTurns, i
  <2>5. RegisteredInv'
    BY <1>0, <1>2, <1>3, <1>6, <1>8, <1>16, <2>1 DEF RegisteredInv, CliTypeOK, MaybeTurns, i, r
  <2>6. AliasesAgree'
    <3>1. \A j \in Ids : tempToReal'[j] # None => realToTemp'[tempToReal'[j]] = j
      BY <1>0, <1>2, <1>6, <2>1 DEF AliasesAgree, CliTypeOK
    <3>2. ASSUME NEW k \in Ids, sessions'[k] # None
          PROVE  /\ realToTemp'[k] # None /\ tempToReal'[realToTemp'[k]] = k
                 /\ \A j \in Ids : pending'[j] # sessions'[k]
      <4>1. CASE k = r
        BY <1>0, <1>2, <1>3, <2>1, <4>1, CliSessionsAssumption DEF PendingInv, i
      <4>2. CASE k # r
        <5>1. /\ sessions[k] # None /\ realToTemp[k] # None /\ tempToReal[realToTemp[k]] = k
              /\ realToTemp[k] \in Ids /\ \A j \in Ids : pending[j] # sessions[k]
          BY <1>0, <2>1, <3>2, <4>2 DEF AliasesAgree, CliTypeOK
        <5>2. realToTemp[k] # i
          BY <1>0, <1>2, <1>16, <5>1, CliSessionsAssumption, NoneAssumption DEF PendingInv
        <5> QED  BY <2>1, <3>2, <4>2, <5>1, <5>2
      <4> QED  BY <4>1, <4>2
    <3> QED  BY <3>1, <3>2 DEF AliasesAgree
  <2>7. LivePending'
    BY <1>0, <1>8, <1>12, <2>1 DEF LivePending, CliTypeOK
  <2> QED  BY <1>10, <1>11, <1>14, <2>4, <2>5, <2>6, <2>7 DEF MapsInv
<1> QED  BY <1>4, <1>15, <1>16

\* What is taken from the maps disturbs nothing else that they hold.
LEMMA FewerInMaps ==
    ASSUME ProcInv, MapsInv,
           UNCHANGED <<session, resume, temp, captured, recorded, overlapped>>,
           \A x \in Turns : Live(x)' => Live(x),
           \A j \in Ids : /\ pending'[j] \in {None, pending[j]} /\ sessions'[j] \in {None, sessions[j]}
                          /\ tempToReal'[j] \in {None, tempToReal[j]}
    PROVE  IdsGiven' /\ PendingInv' /\ RegisteredInv' /\ LivePending' /\ RecordedIsOwn'
<1>0. CliTypeOK
  BY DEF ProcInv
<1>1. \A x \in Turns : temp[x] \in Ids \cup {None}
  BY <1>0 DEF CliTypeOK
<1>2. IdsGiven'
  BY <1>1 DEF MapsInv, IdsGiven, IdOk, Given, Real
<1>3. PendingInv' 
  <2>1. \A j \in Ids : tempToReal[j] \in Ids \cup {None}
    BY <1>0 DEF CliTypeOK
  <2> QED  BY <2>1 DEF MapsInv, PendingInv
<1>4. RegisteredInv' /\ LivePending'
  BY <1>1 DEF MapsInv, RegisteredInv, LivePending
<1>5. RecordedIsOwn'
  BY MixedStays DEF MapsInv, RecordedIsOwn
<1> QED  BY <1>2, <1>3, <1>4, <1>5

\* Forgetting an id that both maps agree on leaves every other pair as it was.
LEMMA ForgetFacts ==
    ASSUME CliTypeOK, AliasesAgree, NEW id \in Ids, Forget(id),
           realToTemp[id] # None /\ tempToReal[realToTemp[id]] = id
    PROVE  /\ \A j \in Ids : tempToReal'[j] \in {None, tempToReal[j]}
           /\ \A j \in Ids : tempToReal'[j] # None => realToTemp'[tempToReal'[j]] = j
           /\ \A k \in Ids : k # id /\ realToTemp[k] # None /\ tempToReal[realToTemp[k]] = k
                  => realToTemp'[k] = realToTemp[k] /\ tempToReal'[realToTemp[k]] = k
<1>1. /\ realToTemp[id] \in Ids
      /\ realToTemp' = [realToTemp EXCEPT ![id] = None]
      /\ tempToReal' = [tempToReal EXCEPT ![realToTemp[id]] = None]
  BY DEF Forget, CliTypeOK
<1>2. /\ \A k \in Ids : k # id => realToTemp'[k] = realToTemp[k]
      /\ tempToReal'[realToTemp[id]] = None
      /\ \A j \in Ids : j # realToTemp[id] => tempToReal'[j] = tempToReal[j]
  BY <1>1 DEF CliTypeOK
<1>3. \A j \in Ids : tempToReal[j] \in Ids \cup {None} /\ realToTemp[j] \in Ids \cup {None}
  BY DEF CliTypeOK
<1>4. \A j \in Ids : tempToReal[j] # None => realToTemp[tempToReal[j]] = j
  BY DEF AliasesAgree
<1>5. \A j \in Ids : tempToReal'[j] \in {None, tempToReal[j]}
  BY <1>1, <1>2
<1>6. \A j \in Ids : tempToReal'[j] # None => realToTemp'[tempToReal'[j]] = j
  BY <1>1, <1>2, <1>3, <1>4, NoneAssumption
<1>7. \A k \in Ids : k # id /\ realToTemp[k] # None /\ tempToReal[realToTemp[k]] = k
                  => realToTemp'[k] = realToTemp[k] /\ tempToReal'[realToTemp[k]] = k
  BY <1>1, <1>2, <1>3
<1> QED  BY <1>5, <1>6, <1>7

\* remove_session() takes one session from the maps.
LEMMA RemoveSessionMaps ==
    ASSUME ProcInv, MapsInv, NEW t \in Turns, RemoveSession(t)
    PROVE  MapsInv'
<1> DEFINE i == IF captured[t] # None THEN captured[t] ELSE temp[t]
           isPending == i # None /\ pending[i] # None
           isReal == i # None /\ ~isPending /\ sessions[i] # None
           s == IF isPending THEN pending[i] ELSE sessions[i]
<1>0. /\ CliTypeOK /\ ProcessIsOwn /\ WaitsForDying
      /\ IdsGiven /\ PendingInv /\ RegisteredInv /\ LivePending /\ Locked /\ AliasesAgree
  BY DEF ProcInv, MapsInv
<1>1. i \in Ids \cup {None} /\ (isPending \/ isReal => i \in Ids /\ s \in Turns)
  BY <1>0 DEF CliTypeOK, MaybeTurns
<1>2. /\ pc[t] = "cleanup" /\ lock = None
      /\ pending' = IF isPending THEN [pending EXCEPT ![i] = None] ELSE pending
      /\ sessions' = IF isReal THEN [sessions EXCEPT ![i] = None] ELSE sessions
      /\ UNCHANGED <<session, resume, temp, captured, recorded, overlapped, freed, sweep>>
  BY DEF RemoveSession, turnVars, treeVars, sweepVars
<1>3. \/ /\ isPending \/ isReal
         /\ Running(s) /\ Kill(t, s, IF isReal THEN i ELSE None)
         /\ pc' = [pc EXCEPT ![t] = "removing"] /\ lock' = t
         /\ UNCHANGED <<tempToReal, realToTemp>>
      \/ /\ IF isReal THEN Forget(i) ELSE UNCHANGED <<tempToReal, realToTemp>>
         /\ pc' = [pc EXCEPT ![t] = "done"] /\ UNCHANGED <<lock, alive, waitsFor>>
  BY DEF RemoveSession, Goes
<1>4. \A x \in Turns : Live(x)' => Live(x)
  BY <1>0, <1>2, <1>3 DEF Live, Active, CliTypeOK
<1>5. \A x \in Turns : pc[x] # "removing"
  BY <1>0, <1>2, CliSessionsAssumption DEF Locked
<1>6. sweep.pc \notin {"sweeping", "stopping"}
  BY <1>0, <1>2, CliSessionsAssumption DEF Locked
<1>7. isReal => /\ captured[t] = i /\ realToTemp[i] # None /\ tempToReal[realToTemp[i]] = i
                /\ pending[i] = None
  BY <1>0, <1>1 DEF IdsGiven, AliasesAgree
<1> HIDE DEF i, s, isPending
<1>8. \A j \in Ids : /\ pending'[j] \in {None, pending[j]} /\ sessions'[j] \in {None, sessions[j]}
                     /\ isReal /\ j = i => sessions'[j] = None
  BY <1>0, <1>1, <1>2 DEF CliTypeOK
<1> HIDE DEF isReal
<1>9. CASE /\ isPending \/ isReal
           /\ Running(s) /\ Kill(t, s, IF isReal THEN i ELSE None)
           /\ pc' = [pc EXCEPT ![t] = "removing"] /\ lock' = t
           /\ UNCHANGED <<tempToReal, realToTemp>>
  <2>1. IdsGiven' /\ PendingInv' /\ RegisteredInv' /\ LivePending' /\ RecordedIsOwn'
    BY <1>2, <1>4, <1>8, <1>9, FewerInMaps
  <2>2. AliasesAgree'
    BY <1>0, <1>8, <1>9 DEF AliasesAgree
  <2>3. /\ waitsFor'[t] # None
        /\ waitsFor'[t].id = IF isReal THEN i ELSE None
    <3> DEFINE k == IF isReal THEN i ELSE None
    <3>1. Kill(t, s, k) /\ Running(s) /\ t \in Turns \cup {Manager} /\ k \in Ids \cup {None} /\ s \in Turns
      BY <1>1, <1>9
    <3>2. session' = session
      BY <1>2
    <3> HIDE DEF k
    <3>3. waitsFor'[t] # None /\ waitsFor'[t].id = k
      BY <1>0, <3>1, <3>2, KillFacts
    <3> QED  BY <3>3 DEF k
  <2>4. /\ pc'[t] = "removing" /\ \A x \in Turns : x # t => pc'[x] # "removing"
    BY <1>0, <1>5, <1>9 DEF CliTypeOK
  <2>5. Locked'
    BY <1>1, <1>2, <1>6, <1>7, <1>8, <1>9, <2>3, <2>4 DEF Locked
  <2> QED  BY <2>1, <2>2, <2>5 DEF MapsInv
<1>10. CASE /\ IF isReal THEN Forget(i) ELSE UNCHANGED <<tempToReal, realToTemp>>
            /\ pc' = [pc EXCEPT ![t] = "done"] /\ UNCHANGED <<lock, alive, waitsFor>>
  <2>1. Locked'
    BY <1>0, <1>2, <1>5, <1>6, <1>10 DEF Locked, CliTypeOK
  <2>2. CASE ~isReal
    <3>1. IdsGiven' /\ PendingInv' /\ RegisteredInv' /\ LivePending' /\ RecordedIsOwn'
      BY <1>2, <1>4, <1>8, <1>10, <2>2, FewerInMaps
    <3>2. AliasesAgree'
      BY <1>0, <1>8, <1>10, <2>2 DEF AliasesAgree
    <3> QED  BY <2>1, <3>1, <3>2 DEF MapsInv
  <2>3. CASE isReal
    <3>1. /\ \A j \in Ids : tempToReal'[j] \in {None, tempToReal[j]}
          /\ \A j \in Ids : tempToReal'[j] # None => realToTemp'[tempToReal'[j]] = j
          /\ \A k \in Ids : k # i /\ realToTemp[k] # None /\ tempToReal[realToTemp[k]] = k
                  => realToTemp'[k] = realToTemp[k] /\ tempToReal'[realToTemp[k]] = k
      BY <1>0, <1>1, <1>7, <1>10, <2>3, ForgetFacts
    <3>2. IdsGiven' /\ PendingInv' /\ RegisteredInv' /\ LivePending' /\ RecordedIsOwn'
      BY <1>2, <1>4, <1>8, <3>1, FewerInMaps
    <3>3. AliasesAgree'
      BY <1>0, <1>8, <2>3, <3>1 DEF AliasesAgree
    <3> QED  BY <2>1, <3>2, <3>3 DEF MapsInv
  <2> QED  BY <2>2, <2>3
<1> QED  BY <1>3, <1>9, <1>10

\* The end of stop() in remove_session(): the id is forgotten.
LEMMA RemovedMaps ==
    ASSUME ProcInv, MapsInv, NEW t \in Turns, Removed(t)
    PROVE  MapsInv'
<1> DEFINE id == waitsFor[t].id
<1>0. /\ CliTypeOK /\ IdsGiven /\ PendingInv /\ RegisteredInv /\ LivePending /\ Locked /\ AliasesAgree
  BY DEF ProcInv, MapsInv
<1>1. /\ pc[t] = "removing" /\ lock' = None /\ pc' = [pc EXCEPT ![t] = "done"]
      /\ waitsFor[t] # None /\ waitsFor' = [waitsFor EXCEPT ![t] = None]
      /\ UNCHANGED <<pending, sessions, session, resume, temp, captured, recorded, overlapped, freed, sweep>>
      /\ IF id = None THEN UNCHANGED <<tempToReal, realToTemp>> ELSE Forget(id)
  BY DEF Removed, Killed, Goes, turnVars, treeVars, sweepVars
<1>2. \A x \in Turns : Live(x)' => Live(x)
  BY <1>0, <1>1 DEF Live, Active, CliTypeOK
<1>3. /\ lock = t /\ \A x \in Turns : x # t => pc[x] # "removing"
      /\ sweep.pc \notin {"sweeping", "stopping"}
      /\ id # None => /\ realToTemp[id] # None /\ tempToReal[realToTemp[id]] = id
                      /\ sessions[id] = None
      /\ id \in Ids \cup {None}
  <2>1. waitsFor[t] \in Waits
    BY <1>0, <1>1 DEF CliTypeOK
  <2>2. id \in Ids \cup {None}
    BY <2>1 DEF Waits
  <2>3. lock = t
    BY <1>0, <1>1 DEF Locked
  <2>4. (\A x \in Turns : x # t => pc[x] # "removing") /\ sweep.pc \notin {"sweeping", "stopping"}
    BY <1>0, <2>3, CliSessionsAssumption DEF Locked
  <2>5. id # None => realToTemp[id] # None /\ tempToReal[realToTemp[id]] = id /\ sessions[id] = None
    BY <1>0, <1>1 DEF Locked
  <2> QED  BY <2>2, <2>3, <2>4, <2>5
<1>4. Locked'
  BY <1>0, <1>1, <1>3 DEF Locked, CliTypeOK
<1> HIDE DEF id
<1>5. CASE id = None
  <2>1. IdsGiven' /\ PendingInv' /\ RegisteredInv' /\ LivePending' /\ RecordedIsOwn'
    BY <1>1, <1>2, <1>5, FewerInMaps
  <2>2. AliasesAgree'
    BY <1>0, <1>1, <1>5 DEF AliasesAgree
  <2> QED  BY <1>4, <2>1, <2>2 DEF MapsInv
<1>6. CASE id # None
  <2>1. /\ \A j \in Ids : tempToReal'[j] \in {None, tempToReal[j]}
        /\ \A j \in Ids : tempToReal'[j] # None => realToTemp'[tempToReal'[j]] = j
        /\ \A k \in Ids : k # id /\ realToTemp[k] # None /\ tempToReal[realToTemp[k]] = k
                => realToTemp'[k] = realToTemp[k] /\ tempToReal'[realToTemp[k]] = k
    BY <1>0, <1>1, <1>3, <1>6, ForgetFacts
  <2>2. IdsGiven' /\ PendingInv' /\ RegisteredInv' /\ LivePending' /\ RecordedIsOwn'
    BY <1>1, <1>2, <2>1, FewerInMaps
  <2>3. AliasesAgree'
    BY <1>0, <1>1, <1>3, <1>6, <2>1 DEF AliasesAgree
  <2> QED  BY <1>4, <2>2, <2>3 DEF MapsInv
<1> QED  BY <1>5, <1>6

\* The invariant of the maps holds first, and every step keeps it.
LEMMA MapsStart == CliInit => MapsInv
<1> SUFFICES ASSUME CliInit PROVE MapsInv
  OBVIOUS
<1>1. /\ \A i \in Ids : pending[i] = None /\ sessions[i] = None /\ tempToReal[i] = None
      /\ \A x \in Turns : /\ resume[x] = None /\ recorded[x] = None /\ temp[x] = None /\ captured[x] = None
                          /\ pc[x] = "idle"
      /\ sweep.pc = "idle"
  BY DEF CliInit, NoSweep
<1> QED  BY <1>1 DEF MapsInv, IdsGiven, IdOk, PendingInv, RegisteredInv, LivePending, Locked,
            RecordedIsOwn, AliasesAgree

\* Every step keeps the maps.
LEMMA MapsStep == ProcInv /\ TreeInv /\ MapsInv /\ [CliNext]_cliVars => MapsInv'
<1> SUFFICES ASSUME ProcInv, TreeInv, MapsInv, [CliNext]_cliVars PROVE MapsInv'
  OBVIOUS
<1>1. CASE \E r \in Trees : Clear(r) \/ CancelNext(r)
  <2>1. PICK r \in Trees : Clear(r) \/ CancelNext(r)
    BY <1>1
  <2>2. /\ CancelTree(r)
        /\ sweep'.pc \in {"sweeping", "stopping"} => sweep.pc \in {"sweeping", "stopping"}
    <3>1. CASE Clear(r)
      BY <3>1 DEF Clear, sweepVars
    <3>2. CASE CancelNext(r)
      <4>1. sweep \in [pc : {"idle", "cancelling", "waiting", "sweeping", "stopping"},
                       left : SUBSET (Turns \cup Trees)]
        BY DEF ProcInv, CliTypeOK
      <4> QED  BY <3>2, <4>1 DEF CancelNext
    <3> QED  BY <2>1, <3>1, <3>2
  <2> QED  BY <2>2, CancelTreeMaps
<1>2. CASE UNCHANGED cliVars
  BY <1>2, QuietRest
<1> QED  BY <1>1, <1>2, StartMaps, OpenMaps, QuietTurns, RegisterMaps, FinishMaps,
            RemoveSessionMaps,
            RemovedMaps, StopMaps, QuietRest, SweepEndMaps DEF CliNext

\* The two maps of ids agree on every session the manager knows, and what is
\* recorded for a turn is the id its own CLI reported.
THEOREM IdsAreKept == CliInit /\ [][CliNext]_cliVars => [](AliasesAgree /\ RecordedIsOwn)
<1>1. CliInit => ProcInv /\ TreeInv /\ MapsInv
  BY ProcStarts, TreeStarts, MapsStart
<1>2. ProcInv /\ TreeInv /\ MapsInv /\ [CliNext]_cliVars => (ProcInv /\ TreeInv /\ MapsInv)'
  BY ProcStep, TreeStep, MapsStep
<1>3. ProcInv /\ TreeInv /\ MapsInv => AliasesAgree /\ RecordedIsOwn
  BY DEF MapsInv
<1> QED  BY <1>1, <1>2, <1>3, PTL

-----------------------------------------------------------------------------
(* Who stops which process: what NoneLeftBehind, SharedOnlyWhenFreed and   *)
(* StopAllStops need to be inductive.                                      *)

\* The id a turn removes its session by, and the sessions the manager knows.
IdOf(t) == IF captured[t] # None THEN captured[t] ELSE temp[t]
InMaps(s) == \E i \in Ids : pending[i] = s \/ sessions[i] = s

\* A stop of everything that runs has passed the tree, or it was cleared.
Swept(r) ==
    r \in cleared \/ (sweep.pc # "idle" /\ (sweep.pc = "cancelling" => r \notin sweep.left))

\* A session is shared within its tree only, by turns that got no temporary id.
SharersInv ==
    \A x \in Turns : session[x] # None =>
        TreeOf[session[x]] = TreeOf[x] /\ (session[x] # x => temp[x] = None)

\* What the manager knows by the id of a turn is the turn's session, unless
\* another turn opened one beside it.
IdIsOwn ==
    \A x \in Turns : Active(x) /\ IdOf(x) # None =>
        /\ pending[IdOf(x)] # None => pending[IdOf(x)] = session[x] \/ pending[IdOf(x)] \in overlapped
        /\ sessions[IdOf(x)] # None => sessions[IdOf(x)] = session[x] \/ sessions[IdOf(x)] \in overlapped

\* A live turn that shares a session holds the id the manager knows it by.
SharerKnows ==
    \A x \in Turns : Live(x) /\ session[x] \notin {None, x} /\ InMaps(session[x]) =>
        captured[x] # None /\ session[x] \in {pending[captured[x]], sessions[captured[x]]}

\* A turn takes its session with it, unless it was freed or cut short.
RemovedWithTurn ==
    \A x \in Turns :
        ~exited /\ pc[x] \in {"removing", "done"} /\ session[x] # None /\ x \notin freed \cup orphaned
            => ~InMaps(session[x])

\* A temporary id whose real one was forgotten belongs to a tree that was
\* swept, or is forgotten next; so does one that waits again.
StaleIsSwept ==
    ~exited => \A i \in Ids : tempToReal[i] # None =>
        /\ sessions[tempToReal[i]] = None =>
               \/ \E x \in Turns : pc[x] = "removing" /\ waitsFor[x].id = tempToReal[i]
               \/ Swept(TreeOf[i[2]])
        /\ pending[i] # None => Swept(TreeOf[i[2]])
        /\ pending[i] \in orphaned /\ alive[pending[i]] = "running" => TreeOf[i[2]] \in cleared

\* The manager knows the session of a turn that runs alone.
KnownWhileCurrent ==
    \A x \in Turns :
        /\ session[x] # None /\ ~(openedIn[x] < sweeps) /\ ~Mixed(x)
        /\ (Active(x) /\ pc[x] # "removing") \/ (x \in orphaned /\ alive[x] = "running")
        => InMaps(x)

\* A turn that awaits the end of its CLI has told it to end.
RemovingHasStopped ==
    \A x \in Turns : pc[x] = "removing" /\ alive[x] = "running" => openedIn[x] < sweeps \/ Mixed(x)

\* What ran when stop_all() began has ended, or is still to be stopped.
LeftToStop ==
    \A x \in seen :
        /\ alive[x] # "none"
        /\ sweep.pc \in {"sweeping", "stopping"} /\ alive[x] = "running" =>
               openedIn[x] < sweeps \/ Mixed(x) \/ x \in sweep.left

\* The current turn of a tree is one of it.
CurrentInTree == \A r \in Trees : current[r] # None => TreeOf[current[r]] = r

\* A session is opened after the stops of everything that it counts.
OpenedBefore == \A x \in Turns : openedIn[x] <= sweeps

StopInv == /\ CurrentInTree /\ OpenedBefore /\ SharersInv /\ IdIsOwn /\ SharerKnows
           /\ RemovedWithTurn /\ SharedOnlyWhenFreed
           /\ StaleIsSwept /\ KnownWhileCurrent /\ RemovingHasStopped /\ NoneLeftBehind /\ LeftToStop

\* A step that opens, registers, removes and sweeps no session: what it leaves
\* alone, and what it may do to the turns.
OtherStep ==
    /\ UNCHANGED <<pending, sessions, session, temp, captured, openedIn, overlapped, sweeps>>
    /\ freed \subseteq freed' /\ orphaned \subseteq orphaned' /\ cleared \subseteq cleared'
    /\ exited => exited'
    /\ \A r \in Trees : current'[r] # current[r] => TreeOf[current'[r]] = r
    /\ \A x \in Turns :
           /\ Active(x)' => Active(x) \/ session[x] = None
           /\ alive'[x] = "running" => alive[x] = "running" \/ pc[x] = "spawning"
           /\ alive[x] # "none" => alive'[x] # "none"
           /\ pc'[x] = "removing" => pc[x] = "removing"
           /\ pc[x] = "removing" => pc'[x] \in {"removing", "done"}
           /\ pc'[x] = "done" => \/ pc[x] \in {"done", "removing"} \/ exited'
                                 \/ x \in orphaned' /\ pc[x] = "cleanup"
           /\ x \in orphaned' => x \in orphaned \/ pc[x] = "cleanup"

\* Most steps of a turn are such steps.
LEMMA OtherTurns ==
    ASSUME ProcInv, NEW t \in Turns,
           \/ Start(t) \/ TakeCli(t) \/ Spawn(t) \/ SpawnFails(t) \/ SessionInfo(t)
           \/ Event(t) \/ Eof(t) \/ Finish(t) \/ Dies(t) \/ Removed(t)
           \/ Halted(t) \/ Collect(t) \/ SweepNext(t)
    PROVE  OtherStep
<1>0. CliTypeOK /\ PlaceHasSession /\ PlaceHasProcess /\ ProcessIsOwn
  BY DEF ProcInv
<1>1. CASE Start(t)
  BY <1>0, <1>1 DEF Start, Goes, managerVars, sweepVars, Processes, Active, CliTypeOK, OtherStep,
     PlaceHasSession
<1>2. CASE TakeCli(t)
  BY <1>0, <1>2 DEF TakeCli, Goes, managerVars, turnVars, treeVars, sweepVars, Stops, Active,
     CliTypeOK, OtherStep, PlaceHasSession
<1>3. CASE Spawn(t)
  BY <1>0, <1>3 DEF Spawn, Goes, managerVars, turnVars, treeVars, sweepVars, Stops, Active,
     CliTypeOK, OtherStep, PlaceHasSession
<1>4. CASE SpawnFails(t)
  BY <1>0, <1>4 DEF SpawnFails, Goes, managerVars, turnVars, sweepVars, Active, CliTypeOK,
     OtherStep, PlaceHasSession
<1>5. CASE SessionInfo(t)
  BY <1>0, <1>5 DEF SessionInfo, Goes, managerVars, turnVars, treeVars, sweepVars, Stops,
     Processes, Active, CliTypeOK, OtherStep, PlaceHasSession
<1>6. CASE Event(t)
  BY <1>0, <1>6 DEF Event, Goes, managerVars, turnVars, treeVars, sweepVars, Stops, Processes,
     Active, CliTypeOK, OtherStep, PlaceHasSession
<1>7. CASE Eof(t)
  BY <1>0, <1>7 DEF Eof, Goes, managerVars, turnVars, treeVars, sweepVars, Stops, Processes,
     Active, CliTypeOK, OtherStep, PlaceHasSession
<1>8. CASE Finish(t)
  BY <1>0, <1>8 DEF Finish, Goes, managerVars, sweepVars, Active, CliTypeOK, OtherStep,
     PlaceHasSession
<1>9. CASE Dies(t)
  BY <1>0, <1>9 DEF Dies, managerVars, turnVars, treeVars, sweepVars, Stops, Active, CliTypeOK,
     OtherStep, PlaceHasSession
<1>10. CASE Removed(t)
  BY <1>0, <1>10 DEF Removed, Goes, turnVars, treeVars, sweepVars, Active, CliTypeOK, OtherStep,
     PlaceHasSession
<1>11. CASE Halted(t)
  BY <1>0, <1>11 DEF Halted, Goes, managerVars, turnVars, treeVars, sweepVars, Active, CliTypeOK,
     OtherStep, PlaceHasSession
<1>12. CASE Collect(t)
  BY <1>0, <1>12 DEF Collect, managerVars, turnVars, treeVars, sweepVars, Stops, Active,
     CliTypeOK, OtherStep, PlaceHasSession
<1>13. CASE SweepNext(t)
  BY <1>0, <1>13 DEF SweepNext, managerVars, turnVars, treeVars, Active, CliTypeOK, OtherStep,
     PlaceHasSession, Kill, Running
<1> QED  BY <1>1, <1>2, <1>3, <1>4, <1>5, <1>6, <1>7, <1>8, <1>9, <1>10, <1>11, <1>12, <1>13

\* So are most steps of a stop of everything, and the exit.
LEMMA OtherRest ==
    ASSUME ProcInv, 
           \/ StopAll \/ StopSessions \/ SweepBegin \/ SweepStopped \/ Exit
    PROVE  OtherStep
<1>0. CliTypeOK /\ PlaceHasSession /\ PlaceHasProcess /\ ProcessIsOwn
  BY DEF ProcInv
<1>1. CASE StopAll
  BY <1>0, <1>1 DEF StopAll, managerVars, turnVars, treeVars, Processes, Active, CliTypeOK,
     OtherStep, PlaceHasSession
<1>2. CASE StopSessions
  BY <1>0, <1>2 DEF StopSessions, managerVars, turnVars, treeVars, Processes, Active, CliTypeOK,
     OtherStep, PlaceHasSession
<1>3. CASE SweepBegin
  BY <1>0, <1>3 DEF SweepBegin, managerVars, turnVars, treeVars, Processes, Active, CliTypeOK,
     OtherStep, PlaceHasSession
<1>4. CASE SweepStopped
  BY <1>0, <1>4 DEF SweepStopped, managerVars, turnVars, treeVars, Active, CliTypeOK, OtherStep,
     PlaceHasSession
<1>5. CASE Exit
  BY <1>0, <1>5 DEF Exit, managerVars, turnVars, treeVars, sweepVars, Active, CliTypeOK,
     OtherStep, PlaceHasSession
<1> QED  BY <1>1, <1>2, <1>3, <1>4, <1>5

\* A cancellation, too.
LEMMA CancelEffects ==
    ASSUME CliTypeOK, ProcessIsOwn, NEW t \in Turns, CancelTurn(t)
    PROVE  /\ \A x \in Turns : x # t => pc'[x] = pc[x]
           /\ \A x \in Turns : alive'[x] = "running" => alive[x] = "running"
           /\ \A x \in Turns : alive[x] # "none" => alive'[x] # "none"
           /\ orphaned' = orphaned \/ (orphaned' = orphaned \cup {t} /\ pc[t] = "cleanup")
           /\ pc'[t] \in {"halting", "cleanup", "done"}
           /\ pc[t] = "removing" => pc'[t] = "done"
           /\ pc'[t] = "done" => pc[t] = "removing" \/ (t \in orphaned' /\ pc[t] = "cleanup")
<1>1. /\ \A x \in Turns : x # t => pc'[x] = pc[x]
      /\ orphaned' = orphaned \/ (orphaned' = orphaned \cup {t} /\ pc[t] = "cleanup")
      /\ pc'[t] \in {"halting", "cleanup", "done"}
      /\ pc[t] = "removing" => pc'[t] = "done"
      /\ pc'[t] = "done" => pc[t] = "removing" \/ (t \in orphaned' /\ pc[t] = "cleanup")
  BY DEF CancelTurn, Goes, CliTypeOK
<1>2. /\ \A x \in Turns : alive'[x] = "running" => alive[x] = "running"
      /\ \A x \in Turns : alive[x] # "none" => alive'[x] # "none"
  BY DEF CancelTurn, Kill, Running, Processes, CliTypeOK
<1> QED  BY <1>1, <1>2

\* So is the cancellation of a tree.
LEMMA CancelTreeOther ==
    ASSUME ProcInv, NEW r \in Trees, CancelTree(r), cleared \subseteq cleared', sweeps' = sweeps
    PROVE  OtherStep
<1> DEFINE t == current[r]
<1>0. CliTypeOK /\ ProcessIsOwn /\ t \in MaybeTurns
  BY DEF ProcInv, CliTypeOK
<1>1. /\ UNCHANGED <<pending, sessions, session, temp, captured, openedIn, overlapped, current, exited>>
      /\ freed \subseteq freed'
  BY DEF CancelTree, turnVars, managerVars
<1>2. CASE t # None /\ Active(t)
  <2>1. t \in Turns /\ CancelTurn(t)
    BY <1>0, <1>2 DEF CancelTree, MaybeTurns
  <2> HIDE DEF t
  <2>2. /\ \A x \in Turns : x # t => pc'[x] = pc[x]
        /\ \A x \in Turns : alive'[x] = "running" => alive[x] = "running"
        /\ \A x \in Turns : alive[x] # "none" => alive'[x] # "none"
        /\ orphaned' = orphaned \/ (orphaned' = orphaned \cup {t} /\ pc[t] = "cleanup")
        /\ pc'[t] \in {"halting", "cleanup", "done"}
        /\ pc[t] = "removing" => pc'[t] = "done"
        /\ pc'[t] = "done" => pc[t] = "removing" \/ (t \in orphaned' /\ pc[t] = "cleanup")
    BY <1>0, <2>1, CancelEffects
  <2> QED  BY <1>1, <1>2, <2>1, <2>2 DEF OtherStep, Active
<1>3. CASE ~(t # None /\ Active(t))
  <2>1. pc' = pc /\ alive' = alive /\ orphaned' = orphaned
    BY <1>3 DEF CancelTree, Processes
  <2> QED  BY <1>1, <2>1 DEF OtherStep, Active
<1> QED  BY <1>2, <1>3

\* And every call that cancels.
LEMMA CancelOther ==
    ASSUME ProcInv, \/ \E t \in Turns : Stop(t)
                    \/ \E r \in Trees : Clear(r) \/ CancelNext(r)
    PROVE  OtherStep
<1>0. CliTypeOK /\ ProcessIsOwn
  BY DEF ProcInv
<1>1. CASE \E t \in Turns : Stop(t)
  <2>1. PICK t \in Turns : Stop(t)
    BY <1>1
  <2>2. /\ CancelTurn(t) /\ Active(t)
        /\ UNCHANGED <<pending, sessions, session, temp, captured, openedIn, overlapped, sweeps,
                       current, freed, cleared, exited>>
    BY <2>1 DEF Stop, turnVars, managerVars, sweepVars
  <2>3. /\ \A x \in Turns : x # t => pc'[x] = pc[x]
        /\ \A x \in Turns : alive'[x] = "running" => alive[x] = "running"
        /\ \A x \in Turns : alive[x] # "none" => alive'[x] # "none"
        /\ orphaned' = orphaned \/ (orphaned' = orphaned \cup {t} /\ pc[t] = "cleanup")
        /\ pc'[t] \in {"halting", "cleanup", "done"}
        /\ pc[t] = "removing" => pc'[t] = "done"
        /\ pc'[t] = "done" => pc[t] = "removing" \/ (t \in orphaned' /\ pc[t] = "cleanup")
    BY <1>0, <2>2, CancelEffects
  <2> QED  BY <2>2, <2>3 DEF OtherStep, Active
<1>2. CASE \E r \in Trees : Clear(r) \/ CancelNext(r)
  <2>1. PICK r \in Trees : Clear(r) \/ CancelNext(r)
    BY <1>2
  <2>2. CancelTree(r) /\ cleared \subseteq cleared' /\ sweeps' = sweeps
    BY <2>1 DEF Clear, CancelNext, sweepVars
  <2> QED  BY <2>2, CancelTreeOther
<1> QED  BY <1>1, <1>2


\* Such a step keeps what is said of the sessions, and of the turns that end.
LEMMA OtherKeeps ==
    ASSUME ProcInv, ProcInv', StopInv, OtherStep
    PROVE  /\ CurrentInTree' /\ OpenedBefore' /\ SharersInv' /\ IdIsOwn' /\ SharerKnows'
           /\ RemovedWithTurn' /\ SharedOnlyWhenFreed'
           /\ KnownWhileCurrent' /\ RemovingHasStopped' /\ NoneLeftBehind'
<1>0. /\ CliTypeOK /\ PlaceHasSession /\ ExitEndsAll'
      /\ CurrentInTree /\ OpenedBefore /\ SharersInv /\ IdIsOwn /\ SharerKnows
      /\ RemovedWithTurn /\ SharedOnlyWhenFreed
      /\ KnownWhileCurrent /\ RemovingHasStopped /\ NoneLeftBehind
  BY DEF ProcInv, StopInv
<1>1. /\ UNCHANGED <<pending, sessions, session, temp, captured, openedIn, overlapped, sweeps>>
      /\ freed \subseteq freed' /\ orphaned \subseteq orphaned' /\ (exited => exited')
  BY DEF OtherStep
<1>2. \A x \in Turns : Mixed(x)' <=> Mixed(x)
  BY <1>1, MixedStays
<1>3. \A s : InMaps(s)' <=> InMaps(s)
  BY <1>1 DEF InMaps
<1>4. \A x \in Turns :
          /\ Active(x)' => Active(x) \/ session[x] = None
          /\ alive'[x] = "running" => alive[x] = "running" \/ pc[x] = "spawning"
          /\ pc'[x] = "removing" => pc[x] = "removing"
          /\ pc[x] = "removing" => pc'[x] \in {"removing", "done"}
          /\ pc'[x] = "done" => \/ pc[x] \in {"done", "removing"} \/ exited'
                                \/ x \in orphaned' /\ pc[x] = "cleanup"
          /\ x \in orphaned' => x \in orphaned \/ pc[x] = "cleanup"
  BY DEF OtherStep
<1>5. SharersInv' /\ SharedOnlyWhenFreed'
  BY <1>0, <1>1 DEF SharersInv, SharedOnlyWhenFreed
<1>6. IdIsOwn'
  <2> SUFFICES ASSUME NEW x \in Turns, Active(x)', IdOf(x)' # None
               PROVE  /\ pending'[IdOf(x)'] # None
                             => pending'[IdOf(x)'] = session'[x] \/ pending'[IdOf(x)'] \in overlapped'
                      /\ sessions'[IdOf(x)'] # None
                             => sessions'[IdOf(x)'] = session'[x] \/ sessions'[IdOf(x)'] \in overlapped'
    BY DEF IdIsOwn
  <2>1. IdOf(x)' = IdOf(x)
    BY <1>1 DEF IdOf
  <2>2. session[x] = None => IdOf(x) = None
    BY <1>0 DEF PlaceHasSession, IdOf
  <2>3. Active(x)
    BY <1>4, <2>1, <2>2
  <2> QED  BY <1>0, <1>1, <2>1, <2>3 DEF IdIsOwn
<1>7. SharerKnows'
  BY <1>0, <1>1, <1>3, <1>4 DEF SharerKnows, Live
<1>8. RemovedWithTurn'
  BY <1>0, <1>1, <1>3, <1>4 DEF RemovedWithTurn
<1>9. KnownWhileCurrent'
  <2> SUFFICES ASSUME NEW x \in Turns, session'[x] # None, ~(openedIn'[x] < sweeps'), ~Mixed(x)',
                      \/ Active(x)' /\ pc'[x] # "removing"
                      \/ x \in orphaned' /\ alive'[x] = "running"
               PROVE  InMaps(x)'
    BY DEF KnownWhileCurrent
  <2>1. \/ Active(x) /\ pc[x] # "removing"
        \/ x \in orphaned /\ alive[x] = "running"
    BY <1>0, <1>1, <1>4 DEF PlaceHasSession, Active
  <2> QED  BY <1>0, <1>1, <1>2, <1>3, <2>1 DEF KnownWhileCurrent
<1>10. RemovingHasStopped'
  BY <1>0, <1>1, <1>2, <1>4 DEF RemovingHasStopped
<1>11. NoneLeftBehind'
  <2> SUFFICES ASSUME NEW x \in Turns, pc'[x] = "done", alive'[x] = "running"
               PROVE  openedIn'[x] < sweeps' \/ x \in orphaned' \/ Mixed(x)'
    BY DEF NoneLeftBehind
  <2>1. exited' => Mixed(x)'
    BY <1>0 DEF ExitEndsAll
  <2>2. pc[x] \in {"done", "removing"} => alive[x] = "running"
    BY <1>4
  <2>3. pc[x] \in {"done", "removing"} => openedIn[x] < sweeps \/ x \in orphaned \/ Mixed(x)
    BY <1>0, <2>2 DEF NoneLeftBehind, RemovingHasStopped
  <2> QED  BY <1>1, <1>2, <1>4, <2>1, <2>3
<1>12. CurrentInTree' /\ OpenedBefore'
  BY <1>0, <1>1 DEF OtherStep, CurrentInTree, OpenedBefore
<1> QED  BY <1>5, <1>6, <1>7, <1>8, <1>9, <1>10, <1>11, <1>12

\* A step that leaves the ids alone, and whom the turns that remove a session
\* wait for, makes no id stale.
LEMMA QuietStale ==
    ASSUME ProcInv, StaleIsSwept, OtherStep, tempToReal' = tempToReal, orphaned' = orphaned,
           \A r \in Trees : Swept(r) => Swept(r)',
           \A x \in Turns : pc[x] = "removing" => pc'[x] = "removing" /\ waitsFor'[x] = waitsFor[x]
    PROVE  StaleIsSwept'
<1>0. /\ CliTypeOK /\ PlaceHasSession
      /\ UNCHANGED <<pending, sessions>> /\ cleared \subseteq cleared' /\ (exited => exited')
  BY DEF ProcInv, OtherStep
<1>1. \A x \in Turns : x \in orphaned /\ alive'[x] = "running" => alive[x] = "running"
  BY <1>0 DEF OtherStep, PlaceHasSession
<1> SUFFICES ASSUME ~exited', NEW i \in Ids, tempToReal'[i] # None
             PROVE  /\ sessions'[tempToReal'[i]] = None =>
                           \/ \E x \in Turns : pc'[x] = "removing" /\ waitsFor'[x].id = tempToReal'[i]
                           \/ Swept(TreeOf[i[2]])'
                    /\ pending'[i] # None => Swept(TreeOf[i[2]])'
                    /\ pending'[i] \in orphaned' /\ alive'[pending'[i]] = "running"
                           => TreeOf[i[2]] \in cleared'
  BY DEF StaleIsSwept
<1>2. TreeOf[i[2]] \in Trees /\ pending[i] \in MaybeTurns /\ None \notin orphaned
  BY <1>0, IdFacts, CliSessionsAssumption DEF Trees, CliTypeOK
<1>3. Swept(TreeOf[i[2]]) => Swept(TreeOf[i[2]])'
  BY <1>2
<1>4. sessions[tempToReal[i]] = None =>
          \/ \E x \in Turns : pc[x] = "removing" /\ waitsFor[x].id = tempToReal[i]
          \/ Swept(TreeOf[i[2]])
  BY <1>0 DEF StaleIsSwept
<1>5. /\ pending[i] # None => Swept(TreeOf[i[2]])
      /\ pending[i] \in orphaned /\ alive[pending[i]] = "running" => TreeOf[i[2]] \in cleared
  BY <1>0 DEF StaleIsSwept
<1>6. sessions'[tempToReal'[i]] = None =>
          \/ \E x \in Turns : pc'[x] = "removing" /\ waitsFor'[x].id = tempToReal'[i]
          \/ Swept(TreeOf[i[2]])'
  BY <1>0, <1>3, <1>4
<1>7. pending'[i] # None => Swept(TreeOf[i[2]])'
  BY <1>0, <1>3, <1>5
<1>8. pending'[i] \in orphaned' /\ alive'[pending'[i]] = "running" => TreeOf[i[2]] \in cleared'
  BY <1>0, <1>1, <1>2, <1>5 DEF CliTypeOK, MaybeTurns
<1> QED  BY <1>6, <1>7, <1>8

\* The steps of the turns that are of this kind.
LEMMA StaleTurns ==
    ASSUME ProcInv, StaleIsSwept, NEW t \in Turns,
           \/ Start(t) \/ TakeCli(t) \/ Spawn(t) \/ SpawnFails(t) \/ SessionInfo(t)
           \/ Event(t) \/ Eof(t) \/ Finish(t) \/ Dies(t)
           \/ Halted(t) \/ Collect(t) \/ SweepNext(t)
    PROVE  StaleIsSwept'
<1>a. OtherStep
  BY OtherTurns
<1>0. CliTypeOK /\ OtherStep /\ Manager \notin Turns
  BY <1>a, CliSessionsAssumption DEF ProcInv
<1>1. tempToReal' = tempToReal /\ orphaned' = orphaned
  BY DEF Start, TakeCli, Spawn, SpawnFails, SessionInfo, Event, Eof, Finish, Dies, Halted,
     Collect, SweepNext, managerVars, Stops
<1>2. CASE SweepNext(t)
  <2>1. \A x \in Turns : pc[x] = "removing" => pc'[x] = "removing" /\ waitsFor'[x] = waitsFor[x]
    BY <1>0, <1>2 DEF SweepNext, Kill, CliTypeOK
  <2>2. \A r \in Trees : Swept(r) => Swept(r)'
    BY <1>0, <1>2 DEF SweepNext, treeVars, Swept
  <2> QED  BY <1>0, <1>1, <2>1, <2>2, QuietStale
<1>3. CASE ~SweepNext(t)
  <2>1. \A x \in Turns : pc[x] = "removing" => pc'[x] = "removing" /\ waitsFor'[x] = waitsFor[x]
    BY <1>0, <1>3 DEF Start, TakeCli, Spawn, SpawnFails, SessionInfo, Event, Eof, Finish, Dies,
       Halted, Collect, Goes, Stops, CliTypeOK
  <2>2. \A r \in Trees : Swept(r) => Swept(r)'
    BY <1>3 DEF Start, TakeCli, Spawn, SpawnFails, SessionInfo, Event, Eof, Finish, Dies, Halted,
       Collect, Stops, treeVars, sweepVars, Swept
  <2> QED  BY <1>0, <1>1, <2>1, <2>2, QuietStale
<1> QED  BY <1>2, <1>3

\* And those of a stop of everything.
LEMMA StaleSweep ==
    ASSUME ProcInv, StaleIsSwept,
           \/ StopAll \/ StopSessions \/ SweepBegin \/ SweepStopped \/ Exit
    PROVE  StaleIsSwept'
<1>0. CliTypeOK /\ OtherStep /\ Manager \notin Turns
  BY OtherRest, CliSessionsAssumption DEF ProcInv
<1>1. CASE Exit
  BY <1>1 DEF Exit, StaleIsSwept
<1>2. CASE ~Exit
  <2>1. tempToReal' = tempToReal /\ orphaned' = orphaned /\ pc' = pc
    BY <1>2 DEF StopAll, StopSessions, SweepBegin, SweepStopped, managerVars
  <2>2. \A x \in Turns : waitsFor'[x] = waitsFor[x]
    BY <1>0, <1>2 DEF StopAll, StopSessions, SweepBegin, SweepStopped, CliTypeOK
  <2>3. \A r \in Trees : Swept(r) => Swept(r)'
    BY <1>0, <1>2 DEF StopAll, StopSessions, SweepBegin, SweepStopped, treeVars, Swept, CliTypeOK
  <2> QED  BY <1>0, <2>1, <2>2, <2>3, QuietStale
<1> QED  BY <1>1, <1>2

\* A session that was removed is forgotten: the id that led to it, no other.
LEMMA RemovedStale ==
    ASSUME ProcInv, MapsInv, StaleIsSwept, NEW t \in Turns, Removed(t)
    PROVE  StaleIsSwept'
<1>0. /\ CliTypeOK /\ PlaceHasSession /\ AliasesAgree /\ Locked
      /\ UNCHANGED <<pending, sessions, alive, orphaned, cleared, sweep, exited>>
      /\ pc[t] = "removing"
  BY DEF ProcInv, MapsInv, Removed, treeVars, sweepVars
<1> DEFINE w == waitsFor[t].id
<1>1. w \in Ids \cup {None} /\ lock = t
  BY <1>0 DEF Locked, CliTypeOK, Waits
<1>2. \A x \in Turns : x # t /\ pc[x] = "removing" => FALSE
  BY <1>0, <1>1 DEF Locked
<1>3. \A i \in Ids : tempToReal'[i] # None => tempToReal'[i] = tempToReal[i] /\ tempToReal[i] # w
  <2>1. CASE w = None
    BY <2>1 DEF Removed
  <2>2. CASE w # None
    <3>1. /\ realToTemp[w] # None /\ tempToReal[realToTemp[w]] = w /\ w \in Ids
          /\ realToTemp[w] \in Ids
      BY <1>0, <1>1, <2>2 DEF Locked, CliTypeOK
    <3>2. tempToReal' = [tempToReal EXCEPT ![realToTemp[w]] = None]
      BY <2>2, <3>1 DEF Removed, Forget
    <3>3. \A i \in Ids : tempToReal[i] = w => i = realToTemp[w]
      BY <1>0, <3>1, <2>2 DEF AliasesAgree
    <3> HIDE DEF w
    <3> QED  BY <1>0, <3>1, <3>2, <3>3 DEF CliTypeOK
  <2> QED  BY <2>1, <2>2
<1> SUFFICES ASSUME ~exited', NEW i \in Ids, tempToReal'[i] # None
             PROVE  /\ sessions'[tempToReal'[i]] = None =>
                           \/ \E x \in Turns : pc'[x] = "removing" /\ waitsFor'[x].id = tempToReal'[i]
                           \/ Swept(TreeOf[i[2]])'
                    /\ pending'[i] # None => Swept(TreeOf[i[2]])'
                    /\ pending'[i] \in orphaned' /\ alive'[pending'[i]] = "running"
                           => TreeOf[i[2]] \in cleared'
  BY DEF StaleIsSwept
<1>4. tempToReal'[i] = tempToReal[i] /\ tempToReal[i] # w /\ tempToReal[i] # None
  BY <1>3
<1>5. Swept(TreeOf[i[2]])' <=> Swept(TreeOf[i[2]])
  BY <1>0 DEF Swept
<1>6. sessions[tempToReal[i]] = None =>
          \/ \E x \in Turns : pc[x] = "removing" /\ waitsFor[x].id = tempToReal[i]
          \/ Swept(TreeOf[i[2]])
  BY <1>0, <1>4 DEF StaleIsSwept
<1>7. sessions[tempToReal[i]] = None => Swept(TreeOf[i[2]])
  BY <1>2, <1>4, <1>6
<1>8. /\ pending[i] # None => Swept(TreeOf[i[2]])
      /\ pending[i] \in orphaned /\ alive[pending[i]] = "running" => TreeOf[i[2]] \in cleared
  BY <1>0, <1>4 DEF StaleIsSwept
<1> QED  BY <1>0, <1>4, <1>5, <1>7, <1>8

\* So is a turn that is cancelled: what it would have forgotten is in its
\* tree, and that is swept or was never registered.
LEMMA CancelStale ==
    ASSUME ProcInv, TreeInv, MapsInv, StopInv, NEW t \in Turns, CancelTurn(t), OtherStep,
           tempToReal' = tempToReal,
           \A r \in Trees : Swept(r) => Swept(r)',
           t \notin over \/ (Swept(TreeOf[t])' /\ (Swept(TreeOf[t]) => TreeOf[t] \in cleared'))
    PROVE  StaleIsSwept'
<1>0. /\ CliTypeOK /\ PlaceHasSession /\ IdsGiven /\ PendingInv /\ Locked /\ StaleIsSwept
      /\ UNCHANGED <<pending, sessions>> /\ cleared \subseteq cleared' /\ (exited => exited')
  BY DEF ProcInv, MapsInv, StopInv, OtherStep
<1>1. \A x \in Turns : x \in orphaned /\ alive'[x] = "running" => alive[x] = "running"
  BY <1>0 DEF OtherStep, PlaceHasSession
<1>2. /\ \A x \in Turns : x # t => pc'[x] = pc[x]
      /\ \A x \in Turns : alive'[x] = "running" => alive[x] = "running"
      /\ orphaned' = orphaned \/ (orphaned' = orphaned \cup {t} /\ pc[t] = "cleanup")
  BY CancelEffects DEF ProcInv
<1>3. \A x \in Turns : x # t => waitsFor'[x] = waitsFor[x]
  BY <1>0 DEF CancelTurn, Kill, Running, CliTypeOK
<1>4. t \notin over /\ pc[t] \in {"cleanup", "removing"} => captured[t] = None /\ alive[t] = "dead"
  BY DEF TreeInv
<1> SUFFICES ASSUME ~exited', NEW i \in Ids, tempToReal'[i] # None
             PROVE  /\ sessions'[tempToReal'[i]] = None =>
                           \/ \E x \in Turns : pc'[x] = "removing" /\ waitsFor'[x].id = tempToReal'[i]
                           \/ Swept(TreeOf[i[2]])'
                    /\ pending'[i] # None => Swept(TreeOf[i[2]])'
                    /\ pending'[i] \in orphaned' /\ alive'[pending'[i]] = "running"
                           => TreeOf[i[2]] \in cleared'
  BY DEF StaleIsSwept
<1>5. TreeOf[i[2]] \in Trees /\ pending[i] \in MaybeTurns /\ None \notin orphaned
  BY <1>0, IdFacts, CliSessionsAssumption DEF Trees, CliTypeOK
<1>6. Swept(TreeOf[i[2]]) => Swept(TreeOf[i[2]])'
  BY <1>5
<1>7. sessions[tempToReal[i]] = None =>
          \/ \E x \in Turns : pc[x] = "removing" /\ waitsFor[x].id = tempToReal[i]
          \/ Swept(TreeOf[i[2]])
  BY <1>0 DEF StaleIsSwept
<1>8. /\ pending[i] # None => Swept(TreeOf[i[2]])
      /\ pending[i] \in orphaned /\ alive[pending[i]] = "running" => TreeOf[i[2]] \in cleared
  BY <1>0 DEF StaleIsSwept
<1>9. ASSUME pc[t] = "removing", waitsFor[t].id = tempToReal[i]
      PROVE  Swept(TreeOf[i[2]])'
  <2>1. captured[t] = tempToReal[i] /\ captured[t] # None
    BY <1>0, <1>9 DEF Locked
  <2>2. TreeOf[captured[t][2]] = TreeOf[t] /\ TreeOf[tempToReal[i][2]] = TreeOf[i[2]]
    BY <1>0, <2>1 DEF IdsGiven, IdOk
  <2>3. t \in over
    BY <1>4, <1>9, <2>1
  <2> QED  BY <2>1, <2>2, <2>3
<1>10. sessions'[tempToReal'[i]] = None =>
           \/ \E x \in Turns : pc'[x] = "removing" /\ waitsFor'[x].id = tempToReal'[i]
           \/ Swept(TreeOf[i[2]])'
  BY <1>0, <1>2, <1>3, <1>6, <1>7, <1>9
<1>11. pending'[i] # None => Swept(TreeOf[i[2]])'
  BY <1>0, <1>6, <1>8
<1>12. ASSUME pending[i] = t, pc[t] = "cleanup", alive'[t] = "running"
       PROVE  TreeOf[i[2]] \in cleared'
  <2>1. t \in over
    BY <1>0, <1>2, <1>4, <1>12
  <2>2. t # None
    BY CliSessionsAssumption
  <2>3. temp[t] = i /\ Swept(TreeOf[i[2]])
    BY <1>0, <1>8, <1>12, <2>2 DEF PendingInv
  <2>4. TreeOf[i[2]] = TreeOf[t]
    BY <1>0, <2>3, NoneAssumption DEF IdsGiven, IdOk
  <2> QED  BY <2>1, <2>3, <2>4
<1>13. pending'[i] \in orphaned' /\ alive'[pending'[i]] = "running" => TreeOf[i[2]] \in cleared'
  BY <1>0, <1>1, <1>2, <1>5, <1>8, <1>12 DEF CliTypeOK, MaybeTurns
<1> QED  BY <1>10, <1>11, <1>13

\* The calls that cancel a turn.
LEMMA CancelsStale ==
    ASSUME ProcInv, TreeInv, MapsInv, StopInv,
           \/ \E t \in Turns : Stop(t)
           \/ \E r \in Trees : Clear(r) \/ CancelNext(r)
    PROVE  StaleIsSwept'
<1>0. CliTypeOK /\ OtherStep /\ StaleIsSwept /\ CurrentInTree
  BY CancelOther DEF ProcInv, StopInv
<1>1. CASE \E t \in Turns : Stop(t)
  <2>1. PICK t \in Turns : Stop(t)
    BY <1>1
  <2>2. CancelTurn(t) /\ t \notin over /\ UNCHANGED <<tempToReal, cleared, sweep>>
    BY <2>1 DEF Stop, managerVars, sweepVars
  <2>3. \A r \in Trees : Swept(r) => Swept(r)'
    BY <2>2 DEF Swept
  <2> QED  BY <1>0, <2>2, <2>3, CancelStale
<1>2. CASE \E r \in Trees : Clear(r) \/ CancelNext(r)
  <2>1. PICK r \in Trees : Clear(r) \/ CancelNext(r)
    BY <1>2
  <2> DEFINE t == current[r]
  <2>2. CancelTree(r) /\ tempToReal' = tempToReal /\ t \in MaybeTurns
    BY <1>0, <2>1 DEF Clear, CancelNext, CancelTree, managerVars, CliTypeOK
  <2>3. /\ \A q \in Trees : Swept(q) => Swept(q)'
        /\ Swept(r)' /\ (Swept(r) => r \in cleared')
    <3>1. CASE Clear(r)
      BY <3>1 DEF Clear, sweepVars, Swept
    <3>2. CASE CancelNext(r)
      BY <1>0, <3>2 DEF CancelNext, Swept, CliTypeOK
    <3> QED  BY <2>1, <3>1, <3>2
  <2>4. CASE t # None /\ Active(t)
    <3>1. t \in Turns /\ TreeOf[t] = r /\ CancelTurn(t)
      BY <1>0, <2>2, <2>4 DEF CancelTree, CurrentInTree, MaybeTurns
    <3> HIDE DEF t
    <3> QED  BY <1>0, <2>2, <2>3, <3>1, CancelStale
  <2>5. CASE ~(t # None /\ Active(t))
    <3>1. pc' = pc /\ waitsFor' = waitsFor /\ orphaned' = orphaned
      BY <2>2, <2>5 DEF CancelTree
    <3> QED  BY <1>0, <2>2, <2>3, <3>1, QuietStale
  <2> QED  BY <2>4, <2>5
<1> QED  BY <1>1, <1>2

\* A step that starts no stop of everything leaves it no more to stop.
LEMMA LeftStays ==
    ASSUME ProcInv, LeftToStop, seen' = seen, sweeps' = sweeps,
           sweep'.pc \in {"sweeping", "stopping"} =>
               sweep.pc \in {"sweeping", "stopping"} /\ sweep'.left = sweep.left,
           \A x \in Turns :
               /\ Mixed(x) => Mixed(x)'
               /\ alive'[x] = "running" => alive[x] = "running" \/ pc[x] = "spawning"
               /\ alive[x] # "none" => alive'[x] # "none" /\ openedIn'[x] = openedIn[x]
    PROVE  LeftToStop'
<1> SUFFICES ASSUME NEW x \in seen
             PROVE  /\ alive'[x] # "none"
                    /\ sweep'.pc \in {"sweeping", "stopping"} /\ alive'[x] = "running" =>
                           openedIn'[x] < sweeps' \/ Mixed(x)' \/ x \in sweep'.left
  BY DEF LeftToStop
<1>1. x \in Turns /\ alive[x] # "none" /\ pc[x] # "spawning"
  BY DEF ProcInv, CliTypeOK, PlaceHasProcess, LeftToStop
<1>2. sweep.pc \in {"sweeping", "stopping"} /\ alive[x] = "running" =>
          openedIn[x] < sweeps \/ Mixed(x) \/ x \in sweep.left
  BY DEF LeftToStop
<1> QED  BY <1>1, <1>2

\* When it starts, every process that runs is one of a session the manager
\* knows, unless an earlier call has lost it.
LEMMA SweepBeginLeft ==
    ASSUME ProcInv, MapsInv, StopInv, SweepBegin
    PROVE  LeftToStop'
<1>0. /\ CliTypeOK /\ PlaceHasProcess /\ Locked /\ KnownWhileCurrent /\ NoneLeftBehind
      /\ UNCHANGED <<session, overlapped, openedIn, sweeps, alive>> /\ lock = None
      /\ sweep' = [pc |-> "sweeping", left |-> Values(sessions) \cup Values(pending)]
      /\ seen' = {x \in Turns : alive[x] = "running"}
  BY DEF ProcInv, MapsInv, StopInv, SweepBegin, turnVars, Processes
<1> SUFFICES ASSUME NEW x \in Turns, alive[x] = "running", ~(openedIn[x] < sweeps), ~Mixed(x)
             PROVE  x \in sweep'.left
  BY <1>0, MixedStays DEF LeftToStop
<1>1. session[x] # None /\ pc[x] # "idle" /\ x # None
  BY <1>0, CliSessionsAssumption DEF PlaceHasProcess
<1>2. pc[x] # "removing"
  BY <1>0, <1>1 DEF Locked
<1>3. pc[x] = "done" => x \in orphaned
  BY <1>0 DEF NoneLeftBehind
<1>4. InMaps(x)
  BY <1>0, <1>1, <1>2, <1>3 DEF KnownWhileCurrent, Active
<1> QED  BY <1>0, <1>1, <1>4 DEF InMaps, Values

\* The session it stops next is the one of its process, unless others share it.
LEMMA SweepNextLeft ==
    ASSUME ProcInv, LeftToStop, NEW s \in Turns, SweepNext(s)
    PROVE  LeftToStop'
<1>0. /\ CliTypeOK /\ PlaceHasProcess /\ ProcessIsOwn /\ WaitsForDying
      /\ UNCHANGED <<session, overlapped, openedIn, sweeps, seen>>
      /\ sweep.pc = "sweeping" /\ sweep'.left = sweep.left \ {s}
  BY DEF ProcInv, SweepNext, turnVars
<1>1. \A x \in Turns : Mixed(x)' <=> Mixed(x)
  BY <1>0, MixedStays
<1>2. \A x \in Turns : /\ alive'[x] = "running" => alive[x] = "running"
                       /\ alive'[x] = "none" <=> alive[x] = "none"
  BY <1>0, KillFacts, NoneAssumption DEF SweepNext
<1>3. ASSUME alive[s] = "running", alive'[s] = "running"
      PROVE  Mixed(s)
  <2> SUFFICES ASSUME process[s] = s
               PROVE  FALSE
    BY <1>0, <1>3 DEF PlaceHasProcess
  <2>1. Running(s)
    BY <1>3, CliSessionsAssumption DEF Running
  <2>2. alive' = [alive EXCEPT ![process[s]] = "dying"]
    BY <2>1 DEF SweepNext, Kill
  <2> QED  BY <1>0, <1>3, <2>2 DEF CliTypeOK
<1> SUFFICES ASSUME NEW x \in seen
             PROVE  /\ alive'[x] # "none"
                    /\ alive'[x] = "running" =>
                           openedIn'[x] < sweeps' \/ Mixed(x)' \/ x \in sweep'.left
  BY <1>0 DEF LeftToStop
<1>4. x \in Turns /\ alive[x] # "none"
  BY <1>0 DEF CliTypeOK, LeftToStop
<1>5. alive[x] = "running" => openedIn[x] < sweeps \/ Mixed(x) \/ x \in sweep.left
  BY <1>0 DEF LeftToStop
<1> QED  BY <1>0, <1>1, <1>2, <1>3, <1>4, <1>5

\* What the other steps leave a stop of everything to stop.
LEMMA OtherLeft ==
    ASSUME ProcInv, MapsInv, StopInv,
           \/ \E t \in Turns :
                  \/ Start(t) \/ TakeCli(t) \/ Spawn(t) \/ SpawnFails(t) \/ SessionInfo(t)
                  \/ Event(t) \/ Eof(t) \/ Finish(t) \/ Dies(t) \/ Removed(t)
                  \/ Halted(t) \/ Collect(t) \/ Stop(t) \/ SweepNext(t)
           \/ \E r \in Trees : Clear(r) \/ CancelNext(r)
           \/ StopAll \/ StopSessions \/ SweepBegin \/ SweepStopped \/ Exit,
           OtherStep
    PROVE  LeftToStop'
<1>0. LeftToStop /\ CliTypeOK
  BY DEF ProcInv, StopInv
<1>1. UNCHANGED <<session, overlapped, openedIn, sweeps>>
  BY DEF OtherStep
<1>2. \A x \in Turns :
          /\ Mixed(x) => Mixed(x)'
          /\ alive'[x] = "running" => alive[x] = "running" \/ pc[x] = "spawning"
          /\ alive[x] # "none" => alive'[x] # "none" /\ openedIn'[x] = openedIn[x]
  BY <1>1, MixedStays DEF OtherStep
<1>3. CASE SweepBegin
  BY <1>3, SweepBeginLeft
<1>4. CASE \E t \in Turns : SweepNext(t)
  BY <1>0, <1>4, SweepNextLeft
<1>5. CASE \E t \in Turns :
               \/ Start(t) \/ TakeCli(t) \/ Spawn(t) \/ SpawnFails(t) \/ SessionInfo(t)
               \/ Event(t) \/ Eof(t) \/ Finish(t) \/ Dies(t) \/ Removed(t)
               \/ Halted(t) \/ Collect(t) \/ Stop(t)
  <2>1. sweep' = sweep /\ seen' = seen
    BY <1>5 DEF Start, TakeCli, Spawn, SpawnFails, SessionInfo, Event, Eof, Finish, Dies, Removed,
       Halted, Collect, Stop, Stops, sweepVars
  <2> QED  BY <1>0, <1>1, <1>2, <2>1, LeftStays
<1>6. CASE \/ \E r \in Trees : Clear(r) \/ CancelNext(r)
           \/ StopAll \/ StopSessions \/ SweepStopped \/ Exit
  <2>1. /\ seen' = seen
        /\ sweep'.pc \in {"sweeping", "stopping"} =>
               sweep.pc \in {"sweeping", "stopping"} /\ sweep'.left = sweep.left
    <3>1. CASE \E r \in Trees : Clear(r)
      BY <3>1 DEF Clear, sweepVars
    <3>2. CASE \E r \in Trees : CancelNext(r)
      BY <1>0, <3>2 DEF CancelNext, CliTypeOK
    <3>3. CASE StopAll \/ StopSessions \/ SweepStopped \/ Exit
      BY <1>0, <3>3 DEF StopAll, StopSessions, SweepStopped, Exit, sweepVars, CliTypeOK
    <3> QED  BY <1>6, <3>1, <3>2, <3>3
  <2> QED  BY <1>0, <1>1, <1>2, <2>1, LeftStays
<1> QED  BY <1>3, <1>4, <1>5, <1>6

\* What a turn that opens its session does to the others: those of its tree
\* that have not ended now run beside it.
LEMMA OpenFacts ==
    ASSUME ProcInv, TreeInv, MapsInv, NEW t \in Turns, Open(t)
    PROVE  /\ pc[t] = "opening" /\ pc'[t] = "queued" /\ \A x \in Turns : x # t => pc'[x] = pc[x]
           /\ session[t] = None /\ temp[t] = None /\ captured[t] = None /\ alive[t] = "none"
           /\ t \notin orphaned /\ TreeOf[t] \notin cleared /\ ~exited
           /\ UNCHANGED <<sessions, tempToReal, lock, resume, alive, waitsFor, current, freed,
                          cleared, sweep, sweeps, seen, orphaned, exited>>
           /\ \A x \in Turns : Active(x)' <=> Active(x)
           /\ \A x \in Turns : pc[x] # "removing"
           /\ \A x \in Turns : x # t /\ Live(x) => TreeOf[x] # TreeOf[t]
           /\ \A x \in Turns : x # t /\ TreeOf[x] = TreeOf[t] /\ Active(x) =>
                  x \in overlapped' /\ t \in overlapped'
           /\ overlapped \subseteq overlapped'
           /\ \A x \in Turns : x # t => openedIn'[x] = openedIn[x]
           /\ \A x \in Turns : Mixed(x) => Mixed(x)'
           /\ \A x \in Turns : session[x] # t
           /\ \A i \in Ids : pending[i] # t /\ sessions[i] # t
<1>0. /\ CliTypeOK /\ SessionsAreOwn /\ PlaceHasSession /\ PlaceHasProcess /\ ExitEndsAll /\ Locked
  BY DEF ProcInv, MapsInv
<1>1. /\ pc[t] = "opening" /\ lock = None /\ pc' = [pc EXCEPT ![t] = "queued"]
      /\ UNCHANGED <<sessions, tempToReal, lock, resume, alive, waitsFor, current, freed, cleared,
                     sweep, sweeps, seen, orphaned, exited>>
  BY <1>0, OpenShape DEF Stops, treeVars, sweepVars, Processes
<1>2. /\ session[t] = None /\ temp[t] = None /\ captured[t] = None /\ alive[t] = "none"
      /\ t \notin orphaned /\ ~exited
  BY <1>0, <1>1 DEF PlaceHasSession, PlaceHasProcess, ExitEndsAll
<1>3. pc'[t] = "queued" /\ \A x \in Turns : x # t => pc'[x] = pc[x]
  BY <1>0, <1>1 DEF CliTypeOK
<1>4. \A x \in Turns : Active(x)' <=> Active(x)
  BY <1>1, <1>3 DEF Active
<1>5. Live(t) /\ TreeOf[t] \notin cleared /\ current[TreeOf[t]] = t
  BY <1>1 DEF TreeInv, Live, Active
<1>6. \A x \in Turns : x # t /\ Live(x) => TreeOf[x] # TreeOf[t]
  BY <1>5 DEF TreeInv
<1>7. /\ \A x \in Turns : x # t /\ TreeOf[x] = TreeOf[t] /\ Active(x) =>
             x \in overlapped' /\ t \in overlapped'
      /\ overlapped \subseteq overlapped'
      /\ openedIn' = [openedIn EXCEPT ![t] = sweeps]
  BY DEF Open
<1>8. \A x \in Turns : x # t => openedIn'[x] = openedIn[x]
  BY <1>0, <1>7 DEF CliTypeOK
<1>9. \E s : session' = [session EXCEPT ![t] = s]
  BY <1>0, OpenShape
<1>10. \A x \in Turns : Mixed(x) => Mixed(x)'
  BY <1>0, <1>2, <1>7, <1>9, MixedGrows
<1>11. \A x \in Turns : pc[x] # "removing"
  BY <1>0, <1>1, CliSessionsAssumption DEF Locked
<1>12. /\ \A x \in Turns : session[x] # t
       /\ \A i \in Ids : pending[i] # t /\ sessions[i] # t
  BY <1>0, <1>2, CliSessionsAssumption DEF SessionsAreOwn
<1> QED  BY <1>1, <1>2, <1>3, <1>4, <1>5, <1>6, <1>7, <1>8, <1>10, <1>11, <1>12

\* What the opening of a session keeps, found or new.
LEMMA OpenKeeps ==
    ASSUME ProcInv, TreeInv, MapsInv, StopInv, NEW t \in Turns, Open(t)
    PROVE  CurrentInTree' /\ OpenedBefore' /\ RemovingHasStopped' /\ NoneLeftBehind' /\ LeftToStop'
<1>0. CliTypeOK /\ CurrentInTree /\ OpenedBefore /\ RemovingHasStopped /\ NoneLeftBehind /\ LeftToStop
  BY DEF ProcInv, StopInv
<1>1. /\ pc'[t] = "queued" /\ \A x \in Turns : x # t => pc'[x] = pc[x]
      /\ UNCHANGED <<alive, current, sweep, sweeps, seen, orphaned>>
      /\ alive[t] = "none"
      /\ \A x \in Turns : x # t => openedIn'[x] = openedIn[x]
      /\ \A x \in Turns : Mixed(x) => Mixed(x)'
  BY OpenFacts
<1>2. CurrentInTree'
  BY <1>0, <1>1 DEF CurrentInTree
<1>3. RemovingHasStopped' /\ NoneLeftBehind'
  BY <1>0, <1>1 DEF RemovingHasStopped, NoneLeftBehind
<1>4. LeftToStop'
  BY <1>0, <1>1, LeftStays
<1>5. OpenedBefore'
  <2>1. openedIn' = [openedIn EXCEPT ![t] = sweeps]
    BY DEF Open
  <2> QED  BY <1>0, <1>1, <2>1 DEF OpenedBefore, CliTypeOK
<1> QED  BY <1>2, <1>3, <1>4, <1>5

\* A turn that finds a session shares it with one that was freed, or cut short.
LEMMA OpenFound ==
    ASSUME ProcInv, TreeInv, MapsInv, StopInv, NEW t \in Turns, Open(t),
           NEW s \in Turns, NEW i \in Ids,
           resume[t] \in Ids, Known(resume[t]) = <<s, i>>,
           session' = [session EXCEPT ![t] = s], captured' = [captured EXCEPT ![t] = i],
           pending' = pending, temp' = temp
    PROVE  /\ SharersInv' /\ IdIsOwn' /\ SharerKnows' /\ RemovedWithTurn' /\ SharedOnlyWhenFreed'
           /\ StaleIsSwept' /\ KnownWhileCurrent'
<1>0. /\ CliTypeOK /\ SessionsAreOwn /\ PlaceHasSession
      /\ IdsGiven /\ PendingInv /\ RegisteredInv
      /\ SharersInv /\ IdIsOwn /\ SharerKnows /\ RemovedWithTurn /\ SharedOnlyWhenFreed
      /\ StaleIsSwept /\ KnownWhileCurrent
      /\ s # None
  BY CliSessionsAssumption DEF ProcInv, MapsInv, StopInv
<1>1. /\ pc'[t] = "queued" /\ \A x \in Turns : x # t => pc'[x] = pc[x]
      /\ session[t] = None /\ temp[t] = None /\ captured[t] = None
      /\ t \notin orphaned /\ ~exited
      /\ UNCHANGED <<sessions, tempToReal, alive, waitsFor, freed,
                     cleared, sweep, sweeps, orphaned, exited>>
      /\ \A x \in Turns : Active(x)' <=> Active(x)
  BY OpenFacts
<1>2. /\ \A x \in Turns : pc[x] # "removing"
      /\ \A x \in Turns : x # t /\ Live(x) => TreeOf[x] # TreeOf[t]
      /\ overlapped \subseteq overlapped'
      /\ \A x \in Turns : x # t => openedIn'[x] = openedIn[x]
      /\ \A x \in Turns : Mixed(x) => Mixed(x)'
      /\ \A x \in Turns : session[x] # t
      /\ \A j \in Ids : pending[j] # t /\ sessions[j] # t
  BY OpenFacts
<1>3. /\ session'[t] = s /\ \A x \in Turns : x # t => session'[x] = session[x]
      /\ captured'[t] = i /\ \A x \in Turns : x # t => captured'[x] = captured[x]
  BY <1>0 DEF CliTypeOK
<1>4. /\ i = IF tempToReal[resume[t]] = None THEN resume[t] ELSE tempToReal[resume[t]]
      /\ sessions[i] # None => s = sessions[i]
      /\ sessions[i] = None => s = pending[i]
  BY <1>0, KnownInMaps
<1>5. TreeOf[i[2]] = TreeOf[t]
  BY <1>0, <1>4, NoneAssumption DEF IdsGiven, IdOk
<1>6. s # t /\ session[s] = s /\ InMaps(s)
  BY <1>0, <1>2, <1>4 DEF SessionsAreOwn, InMaps
<1>7. TreeOf[s] = TreeOf[t]
  <2>1. captured[s] = i \/ temp[s] = i
    BY <1>0, <1>4 DEF RegisteredInv, PendingInv
  <2>2. i # None
    BY NoneAssumption
  <2> QED  BY <1>0, <1>5, <2>1, <2>2 DEF IdsGiven, IdOk
<1>8. \A y : InMaps(y)' <=> InMaps(y)
  BY <1>1 DEF InMaps
<1>9. SharersInv'
  BY <1>0, <1>1, <1>3, <1>7 DEF SharersInv
<1>10. IdIsOwn'
  <2> SUFFICES ASSUME NEW x \in Turns, Active(x)', IdOf(x)' # None
               PROVE  /\ pending'[IdOf(x)'] # None
                             => pending'[IdOf(x)'] = session'[x] \/ pending'[IdOf(x)'] \in overlapped'
                      /\ sessions'[IdOf(x)'] # None
                             => sessions'[IdOf(x)'] = session'[x] \/ sessions'[IdOf(x)'] \in overlapped'
    BY DEF IdIsOwn
  <2>1. CASE x = t
    <3>1. IdOf(x)' = i
      BY <1>3, <2>1, NoneAssumption DEF IdOf
    <3>2. sessions[i] # None => pending[i] = None
      BY <1>0 DEF RegisteredInv
    <3> QED  BY <1>1, <1>3, <1>4, <2>1, <3>1, <3>2
  <2>2. CASE x # t
    <3>1. IdOf(x)' = IdOf(x)
      BY <1>3, <2>2 DEF IdOf
    <3> QED  BY <1>0, <1>1, <1>2, <1>3, <2>2, <3>1 DEF IdIsOwn
  <2> QED  BY <2>1, <2>2
<1>11. SharerKnows'
  <2> SUFFICES ASSUME NEW x \in Turns, Live(x)', session'[x] \notin {None, x}, InMaps(session'[x])
               PROVE  captured'[x] # None /\ session'[x] \in {pending'[captured'[x]], sessions'[captured'[x]]}
    BY <1>1 DEF SharerKnows, InMaps
  <2>1. CASE x = t
    BY <1>1, <1>3, <1>4, <2>1, NoneAssumption
  <2>2. CASE x # t
    <3>1. Live(x)
      BY <1>1 DEF Live
    <3> QED  BY <1>0, <1>1, <1>3, <2>2, <3>1 DEF SharerKnows
  <2> QED  BY <2>1, <2>2
<1>12. RemovedWithTurn'
  <2>1. \A x \in Turns : pc'[x] \in {"removing", "done"} => x # t /\ pc[x] = "done" /\ session'[x] = session[x]
    BY <1>1, <1>2, <1>3
  <2> QED  BY <1>0, <1>1, <1>8, <2>1 DEF RemovedWithTurn
<1>13. SharedOnlyWhenFreed'
  <2>1. ASSUME NEW u \in Turns, u # t, session[u] = s, u \notin freed \cup orphaned
        PROVE  FALSE
    <3>1. pc[u] # "idle" /\ TreeOf[u] = TreeOf[t]
      BY <1>0, <1>7, <2>1 DEF PlaceHasSession, SharersInv
    <3>2. pc[u] # "done"
      BY <1>0, <1>1, <1>6, <2>1 DEF RemovedWithTurn
    <3>3. Live(u)
      BY <2>1, <3>1, <3>2 DEF Live, Active
    <3> QED  BY <1>2, <2>1, <3>1, <3>3
  <2> SUFFICES ASSUME NEW x \in Turns, NEW u \in Turns, x # u, session'[x] # None,
                      session'[x] = session'[u]
               PROVE  {x, u} \cap (freed \cup orphaned) # {}
    BY <1>1 DEF SharedOnlyWhenFreed
  <2>2. CASE x = t
    BY <1>3, <2>1, <2>2
  <2>3. CASE u = t
    BY <1>3, <2>1, <2>3
  <2>4. CASE x # t /\ u # t
    BY <1>0, <1>3, <2>4 DEF SharedOnlyWhenFreed
  <2> QED  BY <2>2, <2>3, <2>4
<1>14. StaleIsSwept'
  <2>1. \A r : Swept(r)' <=> Swept(r)
    BY <1>1 DEF Swept
  <2> QED  BY <1>0, <1>1, <1>2, <2>1 DEF StaleIsSwept
<1>15. KnownWhileCurrent'
  <2>1. Mixed(t)'
    BY <1>3, <1>6, <1>0 DEF Mixed, Shared
  <2>2. \A x \in Turns : x # t => pc'[x] = pc[x] /\ session'[x] = session[x] /\ openedIn'[x] = openedIn[x]
    BY <1>1, <1>2, <1>3
  <2> QED  BY <1>0, <1>1, <1>2, <1>8, <2>1, <2>2 DEF KnownWhileCurrent
<1> QED  BY <1>9, <1>10, <1>11, <1>12, <1>13, <1>14, <1>15

\* A turn that creates a session may put it in the place of another, which
\* ran beside it or has ended.
LEMMA OpenNew ==
    ASSUME ProcInv, TreeInv, MapsInv, StopInv, NEW t \in Turns, Open(t), NEW i \in Ids,
           IF resume[t] = None THEN i = Pending(t) ELSE i = resume[t] /\ Known(i)[1] = None,
           session' = [session EXCEPT ![t] = t], pending' = [pending EXCEPT ![i] = t],
           temp' = [temp EXCEPT ![t] = i], captured' = captured
    PROVE  /\ SharersInv' /\ IdIsOwn' /\ SharerKnows' /\ RemovedWithTurn' /\ SharedOnlyWhenFreed'
           /\ StaleIsSwept' /\ KnownWhileCurrent'
<1>0. /\ CliTypeOK /\ SessionsAreOwn /\ PlaceHasSession
      /\ IdsGiven /\ PendingInv /\ RegisteredInv
      /\ SharersInv /\ IdIsOwn /\ SharerKnows /\ RemovedWithTurn /\ SharedOnlyWhenFreed
      /\ StaleIsSwept /\ KnownWhileCurrent
      /\ t # None /\ i # None
  BY CliSessionsAssumption, NoneAssumption DEF ProcInv, MapsInv, StopInv
<1>1. /\ pc'[t] = "queued" /\ \A x \in Turns : x # t => pc'[x] = pc[x]
      /\ session[t] = None /\ temp[t] = None /\ captured[t] = None
      /\ t \notin orphaned /\ ~exited /\ TreeOf[t] \notin cleared
      /\ UNCHANGED <<sessions, tempToReal, alive, waitsFor, freed,
                     cleared, sweep, sweeps, orphaned, exited>>
      /\ \A x \in Turns : Active(x)' <=> Active(x)
  BY OpenFacts
<1>2. /\ \A x \in Turns : pc[x] # "removing"
      /\ \A x \in Turns : x # t /\ Live(x) => TreeOf[x] # TreeOf[t]
      /\ overlapped \subseteq overlapped'
      /\ \A x \in Turns : x # t => openedIn'[x] = openedIn[x]
      /\ \A x \in Turns : Mixed(x) => Mixed(x)'
      /\ \A x \in Turns : session[x] # t
      /\ \A j \in Ids : pending[j] # t /\ sessions[j] # t
  BY OpenFacts
<1>3. \A x \in Turns : x # t /\ TreeOf[x] = TreeOf[t] /\ Active(x) =>
          x \in overlapped' /\ t \in overlapped'
  BY OpenFacts
<1>4. /\ session'[t] = t /\ \A x \in Turns : x # t => session'[x] = session[x]
      /\ temp'[t] = i /\ \A x \in Turns : x # t => temp'[x] = temp[x]
      /\ pending'[i] = t /\ \A j \in Ids : j # i => pending'[j] = pending[j]
  BY <1>0 DEF CliTypeOK
<1>5. TreeOf[i[2]] = TreeOf[t]
  BY <1>0, RealFacts DEF IdsGiven, IdOk
<1>6. /\ sessions[i] = None /\ (tempToReal[i] # None => sessions[tempToReal[i]] = None)
      /\ pending[i] # None => tempToReal[i] # None
  <2>1. CASE i = Pending(t)
    <3>1. sessions[i] = None
      BY <1>0, <2>1, RealFacts DEF RegisteredInv, CliTypeOK, MaybeTurns
    <3>2. tempToReal[i] = None /\ pending[i] = None
      <4>1. ~Given(i)
        BY <1>1, <2>1, RealFacts
      <4>2. \A x \in Turns : temp[x] # i
        BY <1>0, <4>1 DEF IdsGiven, IdOk
      <4> QED  BY <1>0, <4>1, <4>2 DEF IdsGiven, PendingInv, CliTypeOK, MaybeTurns
    <3> QED  BY <3>1, <3>2
  <2>2. CASE Known(i)[1] = None
    BY <1>0, <2>2, KnownInMaps DEF RegisteredInv
  <2> QED  BY <2>1, <2>2
<1>7. \A y : y # t /\ InMaps(y)' => InMaps(y)
  <2>1. \A j \in Ids : pending'[j] = t \/ pending'[j] = pending[j]
    BY <1>4
  <2> QED  BY <1>1, <2>1 DEF InMaps
<1>8. \A x \in Turns : TreeOf[i[2]] = TreeOf[x] => TreeOf[x] = TreeOf[t]
  BY <1>5
<1>9. \A x \in Turns : (captured[x] = i \/ temp[x] = i) => TreeOf[x] = TreeOf[t]
  BY <1>0, <1>5 DEF IdsGiven, IdOk
<1>10. SharersInv'
  BY <1>0, <1>1, <1>4 DEF SharersInv
<1>11. IdIsOwn'
  <2> SUFFICES ASSUME NEW x \in Turns, Active(x)', IdOf(x)' # None
               PROVE  /\ pending'[IdOf(x)'] # None
                             => pending'[IdOf(x)'] = session'[x] \/ pending'[IdOf(x)'] \in overlapped'
                      /\ sessions'[IdOf(x)'] # None
                             => sessions'[IdOf(x)'] = session'[x] \/ sessions'[IdOf(x)'] \in overlapped'
    BY DEF IdIsOwn
  <2>1. CASE x = t
    <3>1. IdOf(x)' = i
      BY <1>1, <1>4, <2>1 DEF IdOf
    <3> QED  BY <1>1, <1>4, <1>6, <2>1, <3>1
  <2>2. CASE x # t
    <3>1. IdOf(x)' = IdOf(x) /\ Active(x) /\ IdOf(x) \in Ids
      BY <1>0, <1>1, <1>4, <2>2 DEF IdOf, CliTypeOK
    <3>2. CASE IdOf(x) = i
      <4>1. t \in overlapped'
        BY <1>3, <1>9, <2>2, <3>1, <3>2 DEF IdOf
      <4> QED  BY <1>1, <1>4, <1>6, <3>1, <3>2, <4>1
    <3>3. CASE IdOf(x) # i
      <4>1. /\ pending[IdOf(x)] # None => pending[IdOf(x)] = session[x] \/ pending[IdOf(x)] \in overlapped
            /\ sessions[IdOf(x)] # None => sessions[IdOf(x)] = session[x] \/ sessions[IdOf(x)] \in overlapped
        BY <1>0, <3>1 DEF IdIsOwn
      <4> QED  BY <1>1, <1>2, <1>4, <2>2, <3>1, <3>3, <4>1
    <3> QED  BY <3>2, <3>3
  <2> QED  BY <2>1, <2>2
<1>12. SharerKnows'
  <2> SUFFICES ASSUME NEW x \in Turns, Live(x)', session'[x] \notin {None, x}, InMaps(session[x])'
               PROVE  captured'[x] # None /\ session'[x] \in {pending'[captured'[x]], sessions'[captured'[x]]}
    BY DEF SharerKnows, InMaps
  <2>1. x # t
    BY <1>4
  <2>2. Live(x) /\ session'[x] = session[x] /\ session[x] # t
    BY <1>1, <1>2, <1>4, <2>1 DEF Live
  <2>3. InMaps(session[x])
    <3>1. \A j \in Ids : pending'[j] = t \/ pending'[j] = pending[j]
      BY <1>4
    <3> QED  BY <1>1, <2>2, <3>1 DEF InMaps
  <2>4. captured[x] # None /\ session[x] \in {pending[captured[x]], sessions[captured[x]]}
    BY <1>0, <2>2, <2>3 DEF SharerKnows
  <2>5. captured[x] # i
    BY <1>2, <1>9, <2>1, <2>2
  <2> QED  BY <1>0, <1>1, <1>4, <2>2, <2>4, <2>5 DEF CliTypeOK
<1>13. RemovedWithTurn'
  <2> SUFFICES ASSUME NEW x \in Turns, pc'[x] \in {"removing", "done"}, session'[x] # None,
                      x \notin freed \cup orphaned, NEW j \in Ids,
                      pending'[j] = session'[x] \/ sessions'[j] = session'[x]
               PROVE  FALSE
    BY <1>1 DEF RemovedWithTurn, InMaps
  <2>1. x # t /\ pc[x] = pc'[x] /\ session'[x] = session[x] /\ session[x] # t
    BY <1>1, <1>2, <1>4
  <2>2. pending[j] = session[x] \/ sessions[j] = session[x]
    BY <1>1, <1>4, <2>1
  <2> QED  BY <1>0, <1>1, <2>1, <2>2 DEF RemovedWithTurn, InMaps
<1>14. SharedOnlyWhenFreed'
  BY <1>0, <1>1, <1>2, <1>4 DEF SharedOnlyWhenFreed
<1>15. StaleIsSwept'
  <2>1. \A r : Swept(r)' <=> Swept(r)
    BY <1>1 DEF Swept
  <2>2. tempToReal[i] # None => Swept(TreeOf[i[2]])
    BY <1>0, <1>1, <1>2, <1>6 DEF StaleIsSwept
  <2> SUFFICES ASSUME NEW j \in Ids, tempToReal[j] # None
               PROVE  /\ sessions[tempToReal[j]] = None => Swept(TreeOf[j[2]])
                      /\ pending'[j] # None => Swept(TreeOf[j[2]])
                      /\ pending'[j] \in orphaned /\ alive[pending'[j]] = "running"
                             => TreeOf[j[2]] \in cleared
    BY <1>1, <2>1 DEF StaleIsSwept
  <2>3. /\ sessions[tempToReal[j]] = None => Swept(TreeOf[j[2]])
        /\ pending[j] # None => Swept(TreeOf[j[2]])
        /\ pending[j] \in orphaned /\ alive[pending[j]] = "running" => TreeOf[j[2]] \in cleared
    BY <1>0, <1>1, <1>2 DEF StaleIsSwept
  <2> QED  BY <1>1, <1>4, <2>2, <2>3
<1>16. KnownWhileCurrent'
  <2> SUFFICES ASSUME NEW x \in Turns, session'[x] # None, ~(openedIn'[x] < sweeps'), ~Mixed(x)',
                      \/ Active(x)' /\ pc'[x] # "removing"
                      \/ x \in orphaned' /\ alive'[x] = "running"
               PROVE  \E j \in Ids : pending'[j] = x \/ sessions'[j] = x
    BY DEF KnownWhileCurrent, InMaps
  <2>1. CASE x = t
    BY <1>4, <2>1
  <2>2. CASE x # t
    <3>1. /\ \/ Active(x) /\ pc[x] # "removing"
             \/ x \in orphaned /\ alive[x] = "running"
          /\ session[x] # None /\ ~(openedIn[x] < sweeps) /\ ~Mixed(x)
      BY <1>1, <1>2, <1>4, <2>2
    <3>2. InMaps(x)
      BY <1>0, <3>1 DEF KnownWhileCurrent
    <3>3. PICK j \in Ids : pending[j] = x \/ sessions[j] = x
      BY <3>2 DEF InMaps
    <3>4. ASSUME pending[i] = x
          PROVE  FALSE
      <4>1. temp[x] = i /\ tempToReal[i] # None /\ x # None
        BY <1>0, <1>6, <3>4, CliSessionsAssumption DEF PendingInv
      <4>2. TreeOf[x] = TreeOf[t]
        BY <1>9, <4>1
      <4>3. ~Active(x)
        BY <1>3, <2>2, <4>2 DEF Mixed
      <4>4. TreeOf[i[2]] \in cleared
        BY <1>0, <1>1, <3>1, <3>4, <4>1, <4>3 DEF StaleIsSwept
      <4> QED  BY <1>1, <1>5, <4>4
    <3> QED  BY <1>1, <1>4, <3>3, <3>4
  <2> QED  BY <2>1, <2>2
<1> QED  BY <1>10, <1>11, <1>12, <1>13, <1>14, <1>15, <1>16

\* A turn that opens its session keeps them all.
LEMMA OpenStop ==
    ASSUME ProcInv, TreeInv, MapsInv, StopInv, NEW t \in Turns, Open(t)
    PROVE  StopInv'
<1>0. CliTypeOK
  BY DEF ProcInv
<1>1. /\ SharersInv' /\ IdIsOwn' /\ SharerKnows' /\ RemovedWithTurn' /\ SharedOnlyWhenFreed'
      /\ StaleIsSwept' /\ KnownWhileCurrent'
  BY <1>0, OpenShape, OpenFound, OpenNew
<1> QED  BY <1>1, OpenKeeps DEF StopInv

\* A turn that learns the id of its session: the manager moves the session to
\* it, if it still knew the session.
LEMMA RegisterStop ==
    ASSUME ProcInv, TreeInv, MapsInv, StopInv, NEW t \in Turns, Register(t)
    PROVE  StopInv'
<1> DEFINE i == temp[t]
           r == Real(t)
<1>0. /\ CliTypeOK /\ SessionsAreOwn /\ PlaceHasSession
      /\ IdsGiven /\ PendingInv /\ RegisteredInv /\ LivePending /\ Locked
      /\ CurrentInTree /\ OpenedBefore /\ SharersInv /\ IdIsOwn /\ SharerKnows
      /\ RemovedWithTurn /\ SharedOnlyWhenFreed
      /\ StaleIsSwept /\ KnownWhileCurrent /\ RemovingHasStopped /\ NoneLeftBehind /\ LeftToStop
      /\ t # None
  BY CliSessionsAssumption DEF ProcInv, MapsInv, StopInv
<1>1. /\ pc[t] = "registering" /\ lock = None /\ pc' = [pc EXCEPT ![t] = "reading"]
      /\ captured' = [captured EXCEPT ![t] = r] /\ temp' = [temp EXCEPT ![t] = None]
      /\ UNCHANGED <<lock, alive, session, openedIn, overlapped, waitsFor, current, freed, cleared,
                     sweep, sweeps, seen, orphaned, exited>>
  BY DEF Register, Goes, Processes, Stops, treeVars, sweepVars
<1>2. i \in Ids /\ r \in Ids /\ r # None /\ i # None
  BY <1>0, <1>1, RealFacts DEF PlaceHasSession, CliTypeOK
<1>3. Live(t) /\ session[t] = t
  <2>1. Live(t)
    BY <1>1 DEF TreeInv, Live, Active
  <2>2. session[t] # None
    BY <1>0, <1>1 DEF PlaceHasSession
  <2> QED  BY <1>0, <1>2, <2>1, <2>2 DEF SharersInv
<1>4. /\ \A x \in Turns : temp[x] # r /\ captured[x] # r
      /\ sessions[r] = None /\ pending[r] = None
  <2>1. ~Given(r)
    BY <1>2, RealFacts
  <2>2. \A x \in Turns : temp[x] # r /\ captured[x] # r
    BY <1>0, <1>2, <2>1 DEF IdsGiven, IdOk
  <2> QED  BY <1>0, <1>2, <2>2 DEF PendingInv, RegisteredInv, CliTypeOK, MaybeTurns
<1>5. /\ pc'[t] = "reading" /\ \A x \in Turns : x # t => pc'[x] = pc[x]
      /\ captured'[t] = r /\ temp'[t] = None
      /\ \A x \in Turns : x # t => captured'[x] = captured[x] /\ temp'[x] = temp[x]
  BY <1>0, <1>1 DEF CliTypeOK
<1>6. \A x \in Turns : Active(x)' <=> Active(x)
  BY <1>1, <1>5 DEF Active
<1>7. \A x \in Turns : pc[x] # "removing"
  BY <1>0, <1>1, CliSessionsAssumption DEF Locked
<1>8. \A x \in Turns : Mixed(x)' <=> Mixed(x)
  BY <1>1, MixedStays
<1>9. pending[i] \in {None, t}
  BY <1>0, <1>2, <1>3 DEF LivePending
<1>10. /\ \A j \in Ids : pending'[j] = IF j = i THEN None ELSE pending[j]
       /\ \A j \in Ids : sessions'[j] = IF j = r THEN pending[i] ELSE sessions[j]
       /\ \A j \in Ids : \/ tempToReal'[j] = tempToReal[j]
                         \/ j = i /\ tempToReal'[j] = r /\ pending[i] = t
  <2>1. CASE pending[i] = None
    BY <1>4, <2>1 DEF Register, managerVars
  <2>2. CASE pending[i] # None
    BY <1>0, <1>2, <1>9, <2>2 DEF Register, CliTypeOK
  <2> QED  BY <2>1, <2>2
<1>11. i # r
  BY <1>4
<1> HIDE DEF i, r
<1>12. \A y \in Turns : InMaps(y)' <=> InMaps(y)
  <2> SUFFICES ASSUME NEW y \in Turns, y # None
               PROVE  /\ \A j \in Ids : pending[j] = y \/ sessions[j] = y =>
                             \E k \in Ids : pending'[k] = y \/ sessions'[k] = y
                      /\ \A j \in Ids : pending'[j] = y \/ sessions'[j] = y =>
                             \E k \in Ids : pending[k] = y \/ sessions[k] = y
    BY CliSessionsAssumption DEF InMaps
  <2> QED  BY <1>2, <1>4, <1>9, <1>10
<1>13. CurrentInTree' /\ OpenedBefore'
  BY <1>0, <1>1 DEF CurrentInTree, OpenedBefore
<1>14. SharersInv'
  BY <1>0, <1>1, <1>5 DEF SharersInv
<1>15. IdIsOwn'
  <2> SUFFICES ASSUME NEW x \in Turns, Active(x)', IdOf(x)' # None
               PROVE  /\ pending'[IdOf(x)'] # None
                             => pending'[IdOf(x)'] = session'[x] \/ pending'[IdOf(x)'] \in overlapped'
                      /\ sessions'[IdOf(x)'] # None
                             => sessions'[IdOf(x)'] = session'[x] \/ sessions'[IdOf(x)'] \in overlapped'
    BY DEF IdIsOwn
  <2>1. CASE x = t
    <3>1. IdOf(x)' = r
      BY <1>2, <1>5, <2>1 DEF IdOf
    <3> QED  BY <1>1, <1>2, <1>3, <1>4, <1>9, <1>10, <2>1, <3>1
  <2>2. CASE x # t
    <3>1. IdOf(x)' = IdOf(x) /\ Active(x) /\ IdOf(x) \in Ids /\ IdOf(x) # r
      BY <1>0, <1>4, <1>5, <1>6, <2>2 DEF IdOf, CliTypeOK
    <3>2. /\ pending[IdOf(x)] # None => pending[IdOf(x)] = session[x] \/ pending[IdOf(x)] \in overlapped
          /\ sessions[IdOf(x)] # None => sessions[IdOf(x)] = session[x] \/ sessions[IdOf(x)] \in overlapped
      BY <1>0, <3>1, NoneAssumption DEF IdIsOwn
    <3> QED  BY <1>1, <1>10, <3>1, <3>2
  <2> QED  BY <2>1, <2>2
<1>16. SharerKnows'
  <2> SUFFICES ASSUME NEW x \in Turns, Live(x)', session'[x] \notin {None, x}, InMaps(session[x])'
               PROVE  captured'[x] # None /\ session'[x] \in {pending'[captured'[x]], sessions'[captured'[x]]}
    BY DEF SharerKnows, InMaps
  <2>1. x # t /\ Live(x) /\ session'[x] = session[x]
    BY <1>1, <1>3, <1>6 DEF Live
  <2>2. session[x] \in Turns
    BY <1>0, <1>1 DEF CliTypeOK, MaybeTurns
  <2>3. session[x] # t
    <3>1. TreeOf[session[x]] = TreeOf[x]
      BY <1>0, <2>2, CliSessionsAssumption DEF SharersInv
    <3>2. current[TreeOf[x]] = x /\ current[TreeOf[t]] = t
      BY <1>3, <2>1 DEF TreeInv
    <3> QED  BY <2>1, <3>1, <3>2
  <2>4. captured[x] # None /\ session[x] \in {pending[captured[x]], sessions[captured[x]]}
    BY <1>0, <1>1, <1>12, <2>1, <2>2 DEF SharerKnows, InMaps
  <2>5. captured[x] \in Ids /\ captured[x] # r /\ captured'[x] = captured[x]
    BY <1>0, <1>4, <1>5, <2>1, <2>4 DEF CliTypeOK
  <2> QED  BY <1>0, <1>9, <1>10, <2>1, <2>2, <2>3, <2>4, <2>5, CliSessionsAssumption
<1>17. RemovedWithTurn'
  <2> SUFFICES ASSUME NEW x \in Turns, ~exited, pc'[x] \in {"removing", "done"}, session[x] # None,
                      x \notin freed \cup orphaned
               PROVE  ~InMaps(session[x])'
    BY <1>1 DEF RemovedWithTurn, InMaps
  <2>1. pc[x] \in {"removing", "done"} /\ session[x] \in Turns
    BY <1>0, <1>5 DEF CliTypeOK, MaybeTurns
  <2>2. ~InMaps(session[x])
    BY <1>0, <2>1 DEF RemovedWithTurn
  <2>3. \A y \in Turns : (\E k \in Ids : pending'[k] = y \/ sessions'[k] = y) => InMaps(y)
    BY <1>12 DEF InMaps
  <2> QED  BY <1>1, <2>1, <2>2, <2>3 DEF InMaps
<1>18. SharedOnlyWhenFreed'
  BY <1>0, <1>1 DEF SharedOnlyWhenFreed
<1>19. StaleIsSwept'
  <2>1. \A q : Swept(q)' <=> Swept(q)
    BY <1>1 DEF Swept
  <2> SUFFICES ASSUME ~exited, NEW j \in Ids, tempToReal'[j] # None
               PROVE  /\ sessions'[tempToReal'[j]] = None => Swept(TreeOf[j[2]])
                      /\ pending'[j] # None => Swept(TreeOf[j[2]])
                      /\ pending'[j] \in orphaned /\ alive[pending'[j]] = "running"
                             => TreeOf[j[2]] \in cleared
    BY <1>1, <2>1 DEF StaleIsSwept
  <2>2. CASE j = i /\ tempToReal'[j] = r /\ pending[i] = t
    BY <1>0, <1>2, <1>10, <2>2, CliSessionsAssumption DEF CliTypeOK
  <2>3. CASE tempToReal'[j] = tempToReal[j]
    <3>1. /\ sessions[tempToReal[j]] = None => Swept(TreeOf[j[2]])
          /\ pending[j] # None => Swept(TreeOf[j[2]])
          /\ pending[j] \in orphaned /\ alive[pending[j]] = "running" => TreeOf[j[2]] \in cleared
      BY <1>0, <1>7, <2>3 DEF StaleIsSwept
    <3>2. tempToReal[j] \in Ids /\ None \notin orphaned
      BY <1>0, <2>3, CliSessionsAssumption DEF CliTypeOK
    <3> QED  BY <1>4, <1>10, <2>3, <3>1, <3>2
  <2> QED  BY <1>10, <2>2, <2>3
<1>20. KnownWhileCurrent'
  <2> SUFFICES ASSUME NEW x \in Turns, session'[x] # None, ~(openedIn'[x] < sweeps'), ~Mixed(x)',
                      \/ Active(x)' /\ pc'[x] # "removing"
                      \/ x \in orphaned' /\ alive'[x] = "running"
               PROVE  InMaps(x)'
    BY DEF KnownWhileCurrent
  <2> QED  BY <1>0, <1>1, <1>6, <1>7, <1>8, <1>12 DEF KnownWhileCurrent
<1>21. RemovingHasStopped' /\ NoneLeftBehind'
  BY <1>0, <1>1, <1>5, <1>8 DEF RemovingHasStopped, NoneLeftBehind
<1>22. LeftToStop'
  BY <1>0, <1>1, <1>8, LeftStays
<1> QED  BY <1>13, <1>14, <1>15, <1>16, <1>17, <1>18, <1>19, <1>20, <1>21, <1>22 DEF StopInv

\* A turn removes by its id the session it uses, if the manager knows it.
LEMMA OwnPlace ==
    ASSUME ProcInv, MapsInv, StopInv, NEW t \in Turns, session[t] # None, InMaps(session[t]),
           session[t] = t \/ Live(t)
    PROVE  /\ IdOf(t) \in Ids /\ IdOf(t) # None
           /\ \/ pending[IdOf(t)] = session[t]
              \/ pending[IdOf(t)] = None /\ sessions[IdOf(t)] = session[t]
<1>0. CliTypeOK /\ PendingInv /\ RegisteredInv /\ SharerKnows
  BY DEF ProcInv, MapsInv, StopInv
<1>1. CASE session[t] = t
  <2>1. PICK j \in Ids : pending[j] = t \/ sessions[j] = t
    BY <1>1 DEF InMaps
  <2>2. /\ pending[j] = t => temp[t] = j /\ captured[t] = None
        /\ sessions[j] = t => captured[t] = j /\ pending[j] = None
    BY <1>0, <1>1 DEF PendingInv, RegisteredInv
  <2> QED  BY <1>1, <2>1, <2>2, NoneAssumption DEF IdOf
<1>2. CASE session[t] # t
  <2>1. captured[t] # None /\ session[t] \in {pending[captured[t]], sessions[captured[t]]}
    BY <1>0, <1>2 DEF SharerKnows
  <2>2. captured[t] \in Ids
    BY <1>0, <2>1 DEF CliTypeOK
  <2> QED  BY <1>0, <2>1, <2>2 DEF IdOf, RegisteredInv
<1> QED  BY <1>1, <1>2

\* What the removal of a session does: the manager knows one session less, and
\* its process is told to end if it runs.
LEMMA RemoveFacts ==
    ASSUME ProcInv, MapsInv, StopInv, NEW t \in Turns, RemoveSession(t)
    PROVE  LET id == IdOf(t)
               isPending == id # None /\ pending[id] # None
               isReal == id # None /\ ~isPending /\ sessions[id] # None
               s == IF isPending THEN pending[id] ELSE sessions[id]
           IN  /\ pc[t] = "cleanup" /\ pc'[t] \in {"removing", "done"}
               /\ \A x \in Turns : x # t => pc'[x] = pc[x] /\ pc[x] # "removing"
               /\ UNCHANGED <<turnVars, treeVars, sweepVars, orphaned, exited>>
               /\ \A x \in Turns : alive'[x] = "running" => alive[x] = "running"
               /\ \A x \in Turns : alive[x] # "none" => alive'[x] # "none"
               /\ \A j \in Ids : pending'[j] = IF isPending /\ j = id THEN None ELSE pending[j]
               /\ \A j \in Ids : sessions'[j] = IF isReal /\ j = id THEN None ELSE sessions[j]
               /\ isPending \/ isReal =>
                      /\ s \in Turns /\ s # None /\ session[s] = s
                      /\ s = session[t] \/ s \in overlapped
                      /\ \A j \in Ids : pending[j] = s => isPending /\ j = id
                      /\ \A j \in Ids : sessions[j] = s => isReal /\ j = id
               /\ (isPending \/ isReal) /\ s = t /\ process[t] = t => alive'[t] # "running"
               /\ isReal => \A j \in Ids : tempToReal'[j] = id =>
                                pc'[t] = "removing" /\ waitsFor'[t].id = id
               /\ \A j \in Ids : tempToReal'[j] \in {None, tempToReal[j]}
<1> DEFINE id == IdOf(t)
           isPending == id # None /\ pending[id] # None
           isReal == id # None /\ ~isPending /\ sessions[id] # None
           s == IF isPending THEN pending[id] ELSE sessions[id]
<1>0. /\ CliTypeOK /\ SessionsAreOwn /\ ProcessIsOwn /\ WaitsForDying
      /\ PendingInv /\ RegisteredInv /\ Locked /\ AliasesAgree /\ IdIsOwn
  BY DEF ProcInv, MapsInv, StopInv
<1>1. /\ pc[t] = "cleanup" /\ lock = None
      /\ UNCHANGED <<process, turnVars, treeVars, sweepVars, orphaned, exited>>
      /\ pending' = IF isPending THEN [pending EXCEPT ![id] = None] ELSE pending
      /\ sessions' = IF isReal THEN [sessions EXCEPT ![id] = None] ELSE sessions
      /\ \/ /\ isPending \/ isReal
            /\ Running(s) /\ Kill(t, s, IF isReal THEN id ELSE None)
            /\ Goes(t, "removing")
            /\ UNCHANGED <<tempToReal, realToTemp>>
         \/ /\ (isPending \/ isReal) => ~Running(s)
            /\ IF isReal THEN Forget(id) ELSE UNCHANGED <<tempToReal, realToTemp>>
            /\ Goes(t, "done") /\ UNCHANGED <<alive, waitsFor>>
  BY DEF RemoveSession, IdOf
<1>2. id \in Ids \cup {None}
  BY <1>0 DEF IdOf, CliTypeOK
<1>3. /\ \A j \in Ids : pending'[j] = IF isPending /\ j = id THEN None ELSE pending[j]
      /\ \A j \in Ids : sessions'[j] = IF isReal /\ j = id THEN None ELSE sessions[j]
  BY <1>0, <1>1, <1>2 DEF CliTypeOK
<1>4. /\ isPending => s = pending[id] /\ id \in Ids /\ s # None
      /\ isReal => s = sessions[id] /\ id \in Ids /\ s # None
  BY <1>2
<1>5. /\ isPending \/ isReal =>
             /\ s \in Turns /\ s # None /\ session[s] = s
             /\ s = session[t] \/ s \in overlapped
  BY <1>0, <1>1, <1>4 DEF SessionsAreOwn, IdIsOwn, Active, CliTypeOK, MaybeTurns
<1>6. isPending \/ isReal =>
          /\ \A j \in Ids : pending[j] = s => isPending /\ j = id
          /\ \A j \in Ids : sessions[j] = s => isReal /\ j = id
  <2>1. \A j \in Ids : pending[j] = s /\ s # None => temp[s] = j
    BY <1>0 DEF PendingInv
  <2>2. \A j \in Ids : sessions[j] = s /\ s # None => captured[s] = j /\ temp[s] = None
    BY <1>0 DEF RegisteredInv
  <2> HIDE DEF s, id
  <2> QED  BY <1>4, <2>1, <2>2, NoneAssumption
<1> HIDE DEF s, isPending, isReal
<1>7. /\ pc'[t] \in {"removing", "done"}
      /\ \A x \in Turns : x # t => pc'[x] = pc[x] /\ pc[x] # "removing"
  BY <1>0, <1>1, CliSessionsAssumption DEF Goes, CliTypeOK, Locked
<1>8. CASE /\ isPending \/ isReal
           /\ Running(s) /\ Kill(t, s, IF isReal THEN id ELSE None)
           /\ Goes(t, "removing")
           /\ UNCHANGED <<tempToReal, realToTemp>>
  <2>1. session' = session /\ (IF isReal THEN id ELSE None) \in Ids \cup {None}
    BY <1>1, <1>2 DEF turnVars
  <2>2. /\ \A x \in Turns : alive'[x] = "running" => alive[x] = "running"
        /\ \A x \in Turns : alive'[x] = "none" <=> alive[x] = "none"
        /\ alive'[process[s]] = "dying"
        /\ waitsFor'[t].id = IF isReal THEN id ELSE None
    BY <1>0, <1>5, <1>8, <2>1, KillFacts
  <2>3. pc'[t] = "removing"
    BY <1>0, <1>8 DEF Goes, CliTypeOK
  <2> QED  BY <1>1, <1>3, <1>5, <1>6, <1>7, <1>8, <2>2, <2>3 DEF s, isPending, isReal
<1>9. CASE /\ (isPending \/ isReal) => ~Running(s)
           /\ IF isReal THEN Forget(id) ELSE UNCHANGED <<tempToReal, realToTemp>>
           /\ Goes(t, "done") /\ UNCHANGED <<alive, waitsFor>>
  <2>1. (isPending \/ isReal) /\ s = t /\ process[t] = t => alive'[t] # "running"
    BY <1>9, CliSessionsAssumption DEF Running
  <2>2. \A j \in Ids : tempToReal'[j] \in {None, tempToReal[j]}
    BY <1>0, <1>9 DEF Forget, CliTypeOK
  <2>3. ASSUME isReal, NEW j \in Ids, tempToReal'[j] = id
        PROVE  FALSE
    <3>1. id \in Ids /\ id # None /\ sessions[id] # None
      BY <1>4, <1>5, <2>3 DEF isReal
    <3>2. realToTemp[id] # None /\ realToTemp[id] \in Ids /\ tempToReal[j] = id
      BY <1>0, <2>2, <2>3, <3>1 DEF AliasesAgree, CliTypeOK
    <3>3. realToTemp[id] = j
      BY <1>0, <3>1, <3>2 DEF AliasesAgree
    <3>4. tempToReal' = [tempToReal EXCEPT ![j] = None]
      BY <1>9, <2>3, <3>2, <3>3 DEF Forget
    <3> QED  BY <1>0, <2>3, <3>1, <3>4 DEF CliTypeOK
  <2>4. \A x \in Turns : alive'[x] = alive[x]
    BY <1>9
  <2> QED  BY <1>1, <1>3, <1>5, <1>6, <1>7, <2>1, <2>2, <2>3, <2>4 DEF s, isPending, isReal
<1> QED  BY <1>1, <1>8, <1>9 DEF s, isPending, isReal

\* A turn that ends removes its session from the manager.
LEMMA RemoveStop ==
    ASSUME ProcInv, TreeInv, MapsInv, StopInv, NEW t \in Turns, RemoveSession(t)
    PROVE  StopInv'
<1> DEFINE id == IdOf(t)
           isPending == id # None /\ pending[id] # None
           isReal == id # None /\ ~isPending /\ sessions[id] # None
           s == IF isPending THEN pending[id] ELSE sessions[id]
<1>0. /\ CliTypeOK /\ SessionsAreOwn /\ PlaceHasSession /\ PlaceHasProcess
      /\ CurrentInTree /\ OpenedBefore /\ SharersInv /\ IdIsOwn /\ SharerKnows
      /\ RemovedWithTurn /\ SharedOnlyWhenFreed
      /\ StaleIsSwept /\ KnownWhileCurrent /\ RemovingHasStopped /\ NoneLeftBehind /\ LeftToStop
  BY DEF ProcInv, StopInv
<1>1. /\ pc[t] = "cleanup" /\ pc'[t] \in {"removing", "done"}
      /\ \A x \in Turns : x # t => pc'[x] = pc[x] /\ pc[x] # "removing"
      /\ UNCHANGED <<turnVars, treeVars, sweepVars, orphaned, exited>>
      /\ \A x \in Turns : alive'[x] = "running" => alive[x] = "running"
      /\ \A x \in Turns : alive[x] # "none" => alive'[x] # "none"
  BY RemoveFacts
<1>2. /\ \A j \in Ids : pending'[j] = IF isPending /\ j = id THEN None ELSE pending[j]
      /\ \A j \in Ids : sessions'[j] = IF isReal /\ j = id THEN None ELSE sessions[j]
      /\ isPending \/ isReal =>
             /\ s \in Turns /\ s # None /\ session[s] = s
             /\ s = session[t] \/ s \in overlapped
             /\ \A j \in Ids : pending[j] = s => isPending /\ j = id
             /\ \A j \in Ids : sessions[j] = s => isReal /\ j = id
  BY RemoveFacts
<1>3. /\ (isPending \/ isReal) /\ s = t /\ process[t] = t => alive'[t] # "running"
      /\ isReal => \A j \in Ids : tempToReal'[j] = id =>
                       pc'[t] = "removing" /\ waitsFor'[t].id = id
      /\ \A j \in Ids : tempToReal'[j] \in {None, tempToReal[j]}
  BY RemoveFacts
<1>4. /\ UNCHANGED <<session, temp, captured, openedIn, overlapped, current, freed, cleared, sweep,
                     sweeps, seen, orphaned, exited>>
      /\ t \notin orphaned /\ id \in Ids \cup {None}
  BY <1>0, <1>1 DEF turnVars, treeVars, sweepVars, PlaceHasSession, IdOf, CliTypeOK
<1>5. \A x \in Turns : Mixed(x)' <=> Mixed(x)
  BY <1>4, MixedStays
<1>6. \A x \in Turns : Active(x)' => Active(x)
  BY <1>1 DEF Active
<1>7. \A y \in Turns : InMaps(y)' => InMaps(y) /\ ~((isPending \/ isReal) /\ y = s)
  <2> SUFFICES ASSUME NEW y \in Turns, NEW j \in Ids, pending'[j] = y \/ sessions'[j] = y
               PROVE  (pending[j] = y \/ sessions[j] = y) /\ ~((isPending \/ isReal) /\ y = s)
    BY DEF InMaps
  <2>1. y # None
    BY CliSessionsAssumption
  <2> HIDE DEF s, id, isPending, isReal
  <2> QED  BY <1>2, <2>1
<1>8. \A y \in Turns : InMaps(y) => InMaps(y)' \/ ((isPending \/ isReal) /\ y = s)
  <2> SUFFICES ASSUME NEW y \in Turns, NEW j \in Ids, pending[j] = y \/ sessions[j] = y,
                      ~((isPending \/ isReal) /\ y = s)
               PROVE  pending'[j] = y \/ sessions'[j] = y
    BY DEF InMaps
  <2> QED  BY <1>2
<1>9. ASSUME session[t] # None, InMaps(session[t]), session[t] = t \/ Live(t)
      PROVE  (isPending \/ isReal) /\ s = session[t]
  BY <1>9, OwnPlace
<1> HIDE DEF s, isPending, isReal
<1>10. CurrentInTree' /\ OpenedBefore' /\ SharersInv' /\ SharedOnlyWhenFreed'
  BY <1>0, <1>4 DEF CurrentInTree, OpenedBefore, SharersInv, SharedOnlyWhenFreed
<1>11. IdIsOwn'
  <2> SUFFICES ASSUME NEW x \in Turns, Active(x)', IdOf(x)' # None
               PROVE  /\ pending'[IdOf(x)'] # None
                             => pending'[IdOf(x)'] = session'[x] \/ pending'[IdOf(x)'] \in overlapped'
                      /\ sessions'[IdOf(x)'] # None
                             => sessions'[IdOf(x)'] = session'[x] \/ sessions'[IdOf(x)'] \in overlapped'
    BY DEF IdIsOwn
  <2>1. IdOf(x)' = IdOf(x) /\ Active(x) /\ IdOf(x) \in Ids
    BY <1>0, <1>4, <1>6 DEF IdOf, CliTypeOK
  <2>2. /\ pending[IdOf(x)] # None => pending[IdOf(x)] = session[x] \/ pending[IdOf(x)] \in overlapped
        /\ sessions[IdOf(x)] # None => sessions[IdOf(x)] = session[x] \/ sessions[IdOf(x)] \in overlapped
    BY <1>0, <2>1, NoneAssumption DEF IdIsOwn
  <2> QED  BY <1>2, <1>4, <2>1, <2>2
<1>12. SharerKnows'
  <2> SUFFICES ASSUME NEW x \in Turns, Live(x)', session[x] \notin {None, x}, InMaps(session[x])'
               PROVE  captured[x] # None /\ session[x] \in {pending'[captured[x]], sessions'[captured[x]]}
    BY <1>4 DEF SharerKnows, InMaps
  <2>1. Live(x) /\ session[x] \in Turns
    BY <1>0, <1>4, <1>6 DEF Live, CliTypeOK, MaybeTurns
  <2>2. InMaps(session[x]) /\ ~((isPending \/ isReal) /\ session[x] = s)
    <3>1. \A y \in Turns : (\E j \in Ids : pending'[j] = y \/ sessions'[j] = y) =>
              InMaps(y) /\ ~((isPending \/ isReal) /\ y = s)
      BY <1>7 DEF InMaps
    <3> QED  BY <1>4, <2>1, <3>1 DEF InMaps
  <2>3. captured[x] \in Ids /\ captured[x] # None /\ session[x] \in {pending[captured[x]], sessions[captured[x]]}
    BY <1>0, <2>1, <2>2, NoneAssumption DEF SharerKnows, CliTypeOK
  <2>4. /\ isPending => s = pending[id]
        /\ isReal => s = sessions[id]
    BY DEF s, isPending, isReal
  <2> QED  BY <1>2, <2>1, <2>2, <2>3, <2>4
<1>13. RemovedWithTurn'
  <2> SUFFICES ASSUME NEW x \in Turns, ~exited, pc'[x] \in {"removing", "done"}, session[x] # None,
                      x \notin freed \cup orphaned, InMaps(session[x])'
               PROVE  FALSE
    BY <1>4 DEF RemovedWithTurn, InMaps
  <2>1. session[x] \in Turns
    BY <1>0 DEF CliTypeOK, MaybeTurns
  <2>2. InMaps(session[x]) /\ ~((isPending \/ isReal) /\ session[x] = s)
    <3>1. \A y \in Turns : (\E j \in Ids : pending'[j] = y \/ sessions'[j] = y) =>
              InMaps(y) /\ ~((isPending \/ isReal) /\ y = s)
      BY <1>7 DEF InMaps
    <3> QED  BY <1>4, <2>1, <3>1 DEF InMaps
  <2>3. CASE x = t
    <3>1. Live(t)
      BY <1>1, <2>3 DEF Live, Active
    <3> QED  BY <1>9, <2>2, <2>3, <3>1
  <2>4. CASE x # t
    BY <1>0, <1>1, <2>2, <2>4 DEF RemovedWithTurn
  <2> QED  BY <2>3, <2>4
<1>14. StaleIsSwept'
  <2>1. \A q : Swept(q)' <=> Swept(q)
    BY <1>4 DEF Swept
  <2> SUFFICES ASSUME ~exited, NEW j \in Ids, tempToReal'[j] # None
               PROVE  /\ sessions'[tempToReal'[j]] = None =>
                             \/ \E x \in Turns : pc'[x] = "removing" /\ waitsFor'[x].id = tempToReal'[j]
                             \/ Swept(TreeOf[j[2]])
                      /\ pending'[j] # None => Swept(TreeOf[j[2]])
                      /\ pending'[j] \in orphaned /\ alive'[pending'[j]] = "running"
                             => TreeOf[j[2]] \in cleared
    BY <1>4, <2>1 DEF StaleIsSwept
  <2>2. tempToReal'[j] = tempToReal[j] /\ tempToReal[j] \in Ids /\ tempToReal[j] # None
    BY <1>0, <1>3 DEF CliTypeOK
  <2>3. /\ sessions[tempToReal[j]] = None => Swept(TreeOf[j[2]])
        /\ pending[j] # None => Swept(TreeOf[j[2]])
        /\ pending[j] \in orphaned /\ alive[pending[j]] = "running" => TreeOf[j[2]] \in cleared
    BY <1>0, <1>1, <2>2 DEF StaleIsSwept
  <2>4. /\ pending'[j] \in {None, pending[j]} /\ pending[j] \in MaybeTurns
        /\ None \notin orphaned
    BY <1>0, <1>2, CliSessionsAssumption DEF CliTypeOK
  <2>5. pending'[j] \in orphaned /\ alive'[pending'[j]] = "running" => TreeOf[j[2]] \in cleared
    BY <1>1, <2>3, <2>4 DEF MaybeTurns
  <2>6. sessions'[tempToReal'[j]] = None =>
            \/ \E x \in Turns : pc'[x] = "removing" /\ waitsFor'[x].id = tempToReal'[j]
            \/ Swept(TreeOf[j[2]])
    BY <1>2, <1>3, <2>2, <2>3
  <2> QED  BY <2>3, <2>4, <2>5, <2>6
<1>15. KnownWhileCurrent'
  <2> SUFFICES ASSUME NEW x \in Turns, session'[x] # None, ~(openedIn'[x] < sweeps'), ~Mixed(x)',
                      \/ Active(x)' /\ pc'[x] # "removing"
                      \/ x \in orphaned' /\ alive'[x] = "running"
               PROVE  InMaps(x)'
    BY DEF KnownWhileCurrent
  <2>1. x # t
    BY <1>1, <1>4 DEF Active
  <2>2. InMaps(x)
    BY <1>0, <1>1, <1>4, <1>5, <1>6, <2>1 DEF KnownWhileCurrent
  <2>3. ~((isPending \/ isReal) /\ x = s)
    BY <1>0, <1>2, <1>4, <1>5, <2>1, MixedFacts DEF Mixed
  <2> QED  BY <1>8, <2>2, <2>3
<1>16. ASSUME alive'[t] = "running"
       PROVE  openedIn[t] < sweeps \/ Mixed(t)
  <2> SUFFICES ASSUME ~(openedIn[t] < sweeps), ~Mixed(t)
               PROVE  FALSE
    OBVIOUS
  <2>1. alive[t] = "running" /\ session[t] # None /\ process[t] = t
    BY <1>0, <1>1, <1>16 DEF PlaceHasProcess
  <2>2. session[t] = t
    BY <1>0, <2>1, MixedFacts
  <2>3. InMaps(t)
    BY <1>0, <1>1, <2>1 DEF KnownWhileCurrent, Active
  <2> QED  BY <1>3, <1>9, <1>16, <2>1, <2>2, <2>3
<1>17. RemovingHasStopped' /\ NoneLeftBehind'
  <2>1. RemovingHasStopped'
    BY <1>0, <1>1, <1>4, <1>5, <1>16 DEF RemovingHasStopped
  <2>2. NoneLeftBehind'
    BY <1>0, <1>1, <1>4, <1>5, <1>16 DEF NoneLeftBehind
  <2> QED  BY <2>1, <2>2
<1>18. LeftToStop'
  BY <1>0, <1>1, <1>4, <1>5, LeftStays
<1> QED  BY <1>10, <1>11, <1>12, <1>13, <1>14, <1>15, <1>17, <1>18 DEF StopInv

\* The end of a stop of everything: the manager knows no session, and what was
\* opened before it is the work of an earlier call.
LEMMA SweepEndStop ==
    ASSUME ProcInv, StopInv, SweepEnd
    PROVE  StopInv'
<1>0. /\ CliTypeOK
      /\ CurrentInTree /\ OpenedBefore /\ SharersInv /\ SharedOnlyWhenFreed /\ LeftToStop
  BY DEF ProcInv, StopInv
<1>1. /\ \A j \in Ids : pending'[j] = None /\ sessions'[j] = None /\ tempToReal'[j] = None
      /\ sweep' = NoSweep /\ sweeps' = sweeps + 1
      /\ UNCHANGED <<session, temp, captured, openedIn, overlapped, current, freed, seen, orphaned,
                     alive, pc>>
  BY DEF SweepEnd, Processes, turnVars, treeVars
<1>2. \A y \in Turns : ~InMaps(y)'
  BY <1>1, CliSessionsAssumption DEF InMaps
<1>3. \A x \in Turns : Mixed(x)' <=> Mixed(x)
  BY <1>1, MixedStays
<1>4. CurrentInTree' /\ SharersInv' /\ SharedOnlyWhenFreed'
  BY <1>0, <1>1 DEF CurrentInTree, SharersInv, SharedOnlyWhenFreed
<1>5. \A x \in Turns : openedIn'[x] < sweeps'
  BY <1>0, <1>1 DEF OpenedBefore, CliTypeOK
<1>6. OpenedBefore' /\ KnownWhileCurrent' /\ RemovingHasStopped' /\ NoneLeftBehind'
  <2>1. OpenedBefore'
    BY <1>0, <1>1 DEF OpenedBefore, CliTypeOK
  <2> QED  BY <1>5, <2>1 DEF KnownWhileCurrent, RemovingHasStopped, NoneLeftBehind
<1>7. IdIsOwn'
  <2>1. \A x \in Turns : IdOf(x)' # None => IdOf(x)' \in Ids
    BY <1>0, <1>1 DEF IdOf, CliTypeOK
  <2> QED  BY <1>1, <2>1 DEF IdIsOwn
<1>8. SharerKnows' /\ RemovedWithTurn'
  <2>1. \A x \in Turns : session[x] # None => session[x] \in Turns /\ session'[x] = session[x]
    BY <1>0, <1>1 DEF CliTypeOK, MaybeTurns
  <2>2. \A x \in Turns : session'[x] # None => ~(\E j \in Ids : pending'[j] = session'[x] \/ sessions'[j] = session'[x])
    BY <1>1
  <2> QED  BY <2>2 DEF SharerKnows, RemovedWithTurn, InMaps
<1>9. StaleIsSwept'
  BY <1>1 DEF StaleIsSwept
<1>10. LeftToStop'
  BY <1>0, <1>1 DEF LeftToStop, NoSweep
<1> QED  BY <1>4, <1>6, <1>7, <1>8, <1>9, <1>10 DEF StopInv

\* Before anything is opened.
LEMMA StopStarts == CliInit => StopInv
<1> SUFFICES ASSUME CliInit
             PROVE  StopInv
  OBVIOUS
<1>1. /\ \A x \in Turns : /\ session[x] = None /\ pc[x] = "idle" /\ temp[x] = None /\ captured[x] = None
                          /\ openedIn[x] = 0
      /\ \A j \in Ids : tempToReal[j] = None
      /\ \A r \in Trees : current[r] = None
      /\ sweeps = 0 /\ seen = {} /\ orphaned = {}
  BY DEF CliInit
<1>2. CurrentInTree /\ OpenedBefore /\ SharersInv /\ SharedOnlyWhenFreed
  BY <1>1 DEF CurrentInTree, OpenedBefore, SharersInv, SharedOnlyWhenFreed
<1>3. IdIsOwn /\ SharerKnows /\ RemovedWithTurn /\ StaleIsSwept
  BY <1>1 DEF IdIsOwn, SharerKnows, RemovedWithTurn, StaleIsSwept, IdOf
<1>4. KnownWhileCurrent /\ RemovingHasStopped /\ NoneLeftBehind /\ LeftToStop
  BY <1>1 DEF KnownWhileCurrent, RemovingHasStopped, NoneLeftBehind, LeftToStop
<1> QED  BY <1>2, <1>3, <1>4 DEF StopInv

\* All that is kept of the sessions.
CliInv == ProcInv /\ TreeInv /\ MapsInv /\ StopInv

\* Every step keeps it.
LEMMA CliStep == CliInv /\ [CliNext]_cliVars => CliInv'
<1> SUFFICES ASSUME ProcInv, TreeInv, MapsInv, StopInv, [CliNext]_cliVars
             PROVE  CliInv'
  BY DEF CliInv
<1>1. ProcInv' /\ TreeInv' /\ MapsInv'
  BY ProcStep, TreeStep, MapsStep
<1>2. CASE \E t \in Turns : Open(t)
  BY <1>1, <1>2, OpenStop DEF CliInv
<1>3. CASE \E t \in Turns : Register(t)
  BY <1>1, <1>3, RegisterStop DEF CliInv
<1>4. CASE \E t \in Turns : RemoveSession(t)
  BY <1>1, <1>4, RemoveStop DEF CliInv
<1>5. CASE SweepEnd
  BY <1>1, <1>5, SweepEndStop DEF CliInv
<1>6. CASE UNCHANGED cliVars
  <2>1. OtherStep
    BY <1>6 DEF OtherStep, cliVars, managerVars, turnVars, treeVars, sweepVars, Active
  <2>2. StaleIsSwept'
    <3>1. \A q : Swept(q)' <=> Swept(q)
      BY <1>6 DEF Swept, cliVars, treeVars, sweepVars
    <3>2. UNCHANGED <<pending, sessions, tempToReal, alive, pc, waitsFor, cleared, orphaned, exited>>
      BY <1>6 DEF cliVars, managerVars, treeVars
    <3> QED  BY <3>1, <3>2 DEF StopInv, StaleIsSwept
  <2>3. LeftToStop'
    <3>1. UNCHANGED <<session, overlapped, openedIn, alive, seen, sweep, sweeps>>
      BY <1>6 DEF cliVars, turnVars, sweepVars
    <3>2. \A x \in Turns : Mixed(x)' <=> Mixed(x)
      BY <3>1, MixedStays
    <3> QED  BY <3>1, <3>2, LeftStays DEF StopInv
  <2> QED  BY <1>1, <2>1, <2>2, <2>3, OtherKeeps DEF StopInv, CliInv
<1>7. CASE \/ \E t \in Turns :
                  \/ Start(t) \/ TakeCli(t) \/ Spawn(t) \/ SpawnFails(t) \/ SessionInfo(t)
                  \/ Event(t) \/ Eof(t) \/ Finish(t) \/ Dies(t) \/ Removed(t)
                  \/ Halted(t) \/ Collect(t) \/ Stop(t) \/ SweepNext(t)
           \/ \E r \in Trees : Clear(r) \/ CancelNext(r)
           \/ StopAll \/ StopSessions \/ SweepBegin \/ SweepStopped \/ Exit
  <2>1. OtherStep
    <3>1. CASE \E t \in Turns :
                  \/ Start(t) \/ TakeCli(t) \/ Spawn(t) \/ SpawnFails(t) \/ SessionInfo(t)
                  \/ Event(t) \/ Eof(t) \/ Finish(t) \/ Dies(t) \/ Removed(t)
                  \/ Halted(t) \/ Collect(t) \/ SweepNext(t)
      BY <3>1, OtherTurns
    <3>2. CASE StopAll \/ StopSessions \/ SweepBegin \/ SweepStopped \/ Exit
      BY <3>2, OtherRest
    <3>3. CASE \/ \E t \in Turns : Stop(t)
               \/ \E r \in Trees : Clear(r) \/ CancelNext(r)
      BY <3>3, CancelOther
    <3> QED  BY <1>7, <3>1, <3>2, <3>3
  <2>2. StaleIsSwept'
    <3>0. StaleIsSwept
      BY DEF StopInv
    <3>1. CASE \E t \in Turns :
                  \/ Start(t) \/ TakeCli(t) \/ Spawn(t) \/ SpawnFails(t) \/ SessionInfo(t)
                  \/ Event(t) \/ Eof(t) \/ Finish(t) \/ Dies(t)
                  \/ Halted(t) \/ Collect(t) \/ SweepNext(t)
      BY <3>0, <3>1, StaleTurns
    <3>2. CASE \E t \in Turns : Removed(t)
      BY <3>0, <3>2, RemovedStale
    <3>3. CASE StopAll \/ StopSessions \/ SweepBegin \/ SweepStopped \/ Exit
      BY <3>0, <3>3, StaleSweep
    <3>4. CASE \/ \E t \in Turns : Stop(t)
               \/ \E r \in Trees : Clear(r) \/ CancelNext(r)
      BY <3>4, CancelsStale
    <3> QED  BY <1>7, <3>1, <3>2, <3>3, <3>4
  <2>3. LeftToStop'
    BY <1>7, <2>1, OtherLeft
  <2> QED  BY <1>1, <2>1, <2>2, <2>3, OtherKeeps DEF StopInv, CliInv
<1>8. StopInv' => CliInv'
  BY <1>1 DEF CliInv
<1>9. CliNext => \/ \E t \in Turns : Open(t) \/ Register(t) \/ RemoveSession(t)
                 \/ SweepEnd
                 \/ \E t \in Turns :
                        \/ Start(t) \/ TakeCli(t) \/ Spawn(t) \/ SpawnFails(t) \/ SessionInfo(t)
                        \/ Event(t) \/ Eof(t) \/ Finish(t) \/ Dies(t) \/ Removed(t)
                        \/ Halted(t) \/ Collect(t) \/ Stop(t) \/ SweepNext(t)
                 \/ \E r \in Trees : Clear(r) \/ CancelNext(r)
                 \/ StopAll \/ StopSessions \/ SweepBegin \/ SweepStopped \/ Exit
  BY DEF CliNext
<1> QED  BY <1>2, <1>3, <1>4, <1>5, <1>6, <1>7, <1>8, <1>9

\* From the start on.
LEMMA CliStarts == CliInit => CliInv
BY ProcStarts, TreeStarts, MapsStart, StopStarts DEF CliInv

\* A turn that ends leaves no CLI behind unless a stop of everything or a
\* second cancellation came between, its maps agree, the id recorded for it is
\* its own, and a session is shared only where a stop freed the tree.
THEOREM SessionsAreKept == CliInit /\ [][CliNext]_cliVars => []SessionsKept
<1>1. CliInv => SessionsKept
  BY DEF CliInv, ProcInv, MapsInv, StopInv, SessionsKept
<1> QED  BY <1>1, CliStarts, CliStep, PTL

\* What ran when stop_all() began has been told to end when it is done, save
\* what an earlier call had lost and what changed hands.
THEOREM StopAllReaches == CliInit /\ [][CliNext]_cliVars => StopAllStops
<1>1. CliInv /\ [CliNext]_cliVars =>
          [sweeps' > sweeps => \A t \in seen : \/ alive[t] # "running"
                                               \/ openedIn[t] < sweeps \/ Mixed(t)]_cliVars
  <2> SUFFICES ASSUME CliInv, CliNext, sweeps' > sweeps, NEW t \in seen
               PROVE  alive[t] # "running" \/ openedIn[t] < sweeps \/ Mixed(t)
    OBVIOUS
  <2>1. CliTypeOK /\ LeftToStop
    BY DEF CliInv, ProcInv, StopInv
  <2>2. sweeps' # sweeps
    BY <2>1 DEF CliTypeOK
  <2>3. ASSUME NEW u \in Turns,
               \/ Start(u) \/ Open(u) \/ TakeCli(u) \/ Spawn(u) \/ SpawnFails(u)
               \/ SessionInfo(u) \/ Register(u) \/ Event(u) \/ Eof(u) \/ Finish(u)
        PROVE  FALSE
    BY <2>2, <2>3 DEF Start, Open, TakeCli, Spawn, SpawnFails, SessionInfo, Register, Event, Eof,
       Finish, Stops, sweepVars
  <2>4. ASSUME NEW u \in Turns,
               \/ Dies(u) \/ RemoveSession(u) \/ Removed(u) \/ Halted(u) \/ Collect(u)
               \/ Stop(u) \/ SweepNext(u)
        PROVE  FALSE
    BY <2>2, <2>4 DEF Dies, RemoveSession, Removed, Halted, Collect, Stop, SweepNext, Stops,
       sweepVars
  <2>5. ASSUME \/ \E r \in Trees : Clear(r) \/ CancelNext(r)
               \/ StopAll \/ StopSessions \/ SweepBegin \/ SweepStopped \/ Exit
        PROVE  FALSE
    BY <2>2, <2>5 DEF Clear, CancelNext, StopAll, StopSessions, SweepBegin, SweepStopped, Exit,
       sweepVars
  <2>6. SweepEnd
    BY <2>3, <2>4, <2>5 DEF CliNext
  <2> QED  BY <2>1, <2>6 DEF SweepEnd, LeftToStop
<1> QED  BY <1>1, CliStarts, CliStep, PTL DEF StopAllStops

-----------------------------------------------------------------------------
(* The life of the server.                                                 *)

\* The types of what ServerTypeOK leaves out.
LifeTypeOK ==
    /\ stage \in {"migrate", "settings", "create", "starting", "serving", "draining", "stopping",
                  "over", "forced", "crashed"}
    /\ config \in [v : 0..MaxEdits, needs : BOOLEAN] /\ newest \in 0..MaxEdits
    /\ cache \in {<<>>} \cup {<<f>> : f \in [v : 0..MaxEdits, needs : BOOLEAN]}
    /\ browser \in [polls : BOOLEAN, opened : Nat]
    /\ survivors \subseteq Parts /\ unstopped \subseteq Parts
    /\ restart \in BOOLEAN /\ interrupted \in BOOLEAN

\* What a server reads, and has read, is no older than the end of the one before.
ReadsFresh ==
    /\ file.v >= newest
    /\ stage \in {"migrate", "settings"} => cache = <<>>
    /\ stage = "starting" => cache # <<>>
    /\ stage \in {"create", "starting", "serving", "draining"} /\ cache # <<>> => cache[1].v >= newest
    /\ stage = "starting" /\ step = 2 => config.v >= newest
    /\ stage = "serving" => config.v >= newest

\* A task that a shutdown waited for does not run, so that what was stopped stays down.
TasksAreOver ==
    stage = "stopping" =>
        /\ step > 2 => task["messaging"] # "running"
        /\ step > 3 => task["graphify"] # "running"

\* A platform has a CLI manager, and is shown once it is on.
PlatformIsShown ==
    /\ part["platform"] \in {"made", "on"} => part["cli"] # "none"
    /\ part["platform"] = "on" => {"platform", "cli"} \subseteq published

\* A server is started again only so often, and the page opened by the first one.
CountsRight ==
    /\ IsUp /\ restart => restarts < MaxRestarts
    /\ stage \in {"migrate", "settings", "create"} /\ restarts = 0 => browser.opened = 0
    /\ browser.polls => browser.opened = 0
    /\ browser.opened <= 1

\* A client runs unsignalled only while fcc-claude waits for it.
ClientIsWatched ==
    /\ launcher \in {"none", "waiting", "killing", "gone"}
    /\ child \in {"none", "running", "killed", "exited"}
    /\ child = "running" => launcher = "waiting"
    /\ launcher = "none" => child = "none"

LifeInv ==
    /\ ServerTypeOK /\ LifeTypeOK /\ ReadsFresh /\ CleanDown /\ NothingComesUp /\ TasksAreOver
    /\ PlatformIsShown /\ CountsRight /\ ClientIsWatched

\* The steps of a shutdown.
LEMMA StepsAre ==
    /\ Len(Steps) = 8
    /\ Steps[1] = "validation" /\ Steps[2] = "messaging" /\ Steps[3] = "graphify"
    /\ Steps[4] = "platform" /\ Steps[5] = "cli" /\ Steps[6] = "graphify"
    /\ Steps[7] = "registry" /\ Steps[8] = "limiter"
  BY DEF Steps

\* The settings are read, edited or applied.
LEMMA SettingsLives == ASSUME LifeInv, Migrate \/ ReadSettings \/ Edit \/ FccInit \/ Apply PROVE LifeInv'
<1>1. ServerTypeOK'
  <2>1. CASE Migrate
    <3>1. NoFile \in [v : 0..MaxEdits, needs : BOOLEAN] /\ FirstFile \in [v : 0..MaxEdits, needs : BOOLEAN]
      BY ServerAssumption DEF NoFile, FirstFile
    <3>2. file' \in {file, NoFile, FirstFile}
      BY <2>1 DEF Migrate
    <3> QED  BY <2>1, <3>1, <3>2 DEF LifeInv, ServerTypeOK, Migrate
  <2>2. CASE ReadSettings
    BY <2>2, ServerAssumption, StepsAre
       DEF LifeInv, LifeTypeOK, ServerTypeOK, GetSettings, NoFile, FirstFile, ReadSettings
  <2>3. CASE Edit
    BY <2>3, ServerAssumption, StepsAre
       DEF LifeInv, LifeTypeOK, ServerTypeOK, GetSettings, NoFile, FirstFile, Edit
  <2>4. CASE FccInit
    BY <2>4, ServerAssumption, StepsAre
       DEF LifeInv, LifeTypeOK, ServerTypeOK, GetSettings, NoFile, FirstFile, FccInit
  <2>5. CASE Apply
    BY <2>5, ServerAssumption, StepsAre
       DEF LifeInv, LifeTypeOK, ServerTypeOK, GetSettings, NoFile, FirstFile, Apply
  <2> QED  BY <2>1, <2>2, <2>3, <2>4, <2>5
<1>2. LifeTypeOK'
  <2>1. CASE Migrate
    BY <2>1, ServerAssumption, StepsAre
       DEF LifeInv, LifeTypeOK, ServerTypeOK, CountsRight, IsUp, GetSettings, Valid, NoFile, FirstFile, Migrate
  <2>2. CASE ReadSettings
    BY <2>2, ServerAssumption, StepsAre
       DEF LifeInv, LifeTypeOK, ServerTypeOK, CountsRight, IsUp, GetSettings, Valid, NoFile, FirstFile,
           ReadSettings, Outlives
  <2>3. CASE Edit
    BY <2>3, ServerAssumption, StepsAre
       DEF LifeInv, LifeTypeOK, ServerTypeOK, CountsRight, IsUp, GetSettings, Valid, NoFile, FirstFile, Edit
  <2>4. CASE FccInit
    BY <2>4, ServerAssumption, StepsAre
       DEF LifeInv, LifeTypeOK, ServerTypeOK, CountsRight, IsUp, GetSettings, Valid, NoFile, FirstFile, FccInit
  <2>5. CASE Apply
    BY <2>5, ServerAssumption, StepsAre
       DEF LifeInv, LifeTypeOK, ServerTypeOK, CountsRight, IsUp, GetSettings, Valid, NoFile, FirstFile, Apply
  <2> QED  BY <2>1, <2>2, <2>3, <2>4, <2>5
<1>3. ReadsFresh'
  BY ServerAssumption
     DEF LifeInv, LifeTypeOK, ServerTypeOK, ReadsFresh, Migrate, ReadSettings, Edit, FccInit, Apply,
         GetSettings, Valid, NoFile, FirstFile
<1>4. CountsRight'
  BY ServerAssumption
     DEF LifeInv, LifeTypeOK, ServerTypeOK, CountsRight, IsUp, Migrate, ReadSettings, Edit, FccInit,
         Apply, GetSettings, Valid
<1>5. TasksAreOver'
  BY StepsAre
     DEF LifeInv, LifeTypeOK, ServerTypeOK, TasksAreOver, Migrate, ReadSettings, Edit, FccInit,
         Apply, GetSettings, Valid, Tasks
<1>6. NothingComesUp'
  BY StepsAre
     DEF LifeInv, LifeTypeOK, ServerTypeOK, Left, Outlives, TasksAreOver, NothingComesUp, Migrate, ReadSettings,
         Edit, FccInit, Apply, GetSettings, Valid, Parts
<1>7. CleanDown'
  BY StepsAre
     DEF LifeInv, LifeTypeOK, ServerTypeOK, Left, Outlives, NothingComesUp, CleanDown, Migrate, ReadSettings, Edit,
         FccInit, Apply, GetSettings, Valid, Parts
<1>8. PlatformIsShown'
  BY StepsAre
     DEF LifeInv, LifeTypeOK, ServerTypeOK, PlatformIsShown, Migrate, ReadSettings, Edit, FccInit,
         Apply, GetSettings, Valid, Parts, AllOff
<1>9. ClientIsWatched'
  BY DEF LifeInv, ClientIsWatched, Migrate, ReadSettings, Edit, FccInit, Apply, GetSettings, Valid
<1> QED  BY <1>1, <1>2, <1>3, <1>4, <1>5, <1>6, <1>7, <1>8, <1>9 DEF LifeInv

\* A server is made, with nothing started yet.
LEMMA CreatesLives == ASSUME LifeInv, CreateApp PROVE LifeInv'
<1>1. ServerTypeOK'
  BY ServerAssumption, StepsAre
     DEF LifeInv, LifeTypeOK, ServerTypeOK, CountsRight, IsUp, CreateApp, NoFile, FirstFile, AllOff,
         NoTasks
<1>2. LifeTypeOK'
  BY ServerAssumption, StepsAre
     DEF LifeInv, LifeTypeOK, ServerTypeOK, CountsRight, IsUp, CreateApp, NoFile, FirstFile
<1>3. ReadsFresh'
  BY ServerAssumption DEF LifeInv, LifeTypeOK, ServerTypeOK, ReadsFresh, CreateApp, NoFile, FirstFile
<1>4. CountsRight'
  BY ServerAssumption DEF LifeInv, LifeTypeOK, ServerTypeOK, CountsRight, IsUp, CreateApp
<1>5. TasksAreOver'
  BY StepsAre DEF LifeInv, LifeTypeOK, ServerTypeOK, TasksAreOver, CreateApp, Tasks
<1>6. NothingComesUp'
  BY StepsAre DEF LifeInv, LifeTypeOK, ServerTypeOK, Left, Outlives, TasksAreOver, NothingComesUp, CreateApp, Parts
<1>7. CleanDown'
  BY StepsAre DEF LifeInv, LifeTypeOK, ServerTypeOK, Left, Outlives, NothingComesUp, CleanDown, CreateApp, Parts
<1>8. PlatformIsShown'
  BY StepsAre DEF LifeInv, LifeTypeOK, ServerTypeOK, PlatformIsShown, CreateApp, Parts, AllOff
<1>9. ClientIsWatched'
  BY DEF LifeInv, ClientIsWatched, CreateApp
<1> QED  BY <1>1, <1>2, <1>3, <1>4, <1>5, <1>6, <1>7, <1>8, <1>9 DEF LifeInv

\* The runtime starts up, and reads what is cached.
LEMMA StartsLives == ASSUME LifeInv, Startup \/ Started PROVE LifeInv'
<1>1. ServerTypeOK'
  <2>1. CASE Startup
    BY <2>1, StepsAre DEF LifeInv, LifeTypeOK, ServerTypeOK, Tasks, Parts, Startup
  <2>2. CASE Started
    BY <2>2, StepsAre DEF LifeInv, LifeTypeOK, ServerTypeOK, Tasks, Parts, Started
  <2> QED  BY <2>1, <2>2
<1>2. LifeTypeOK'
  <2>1. CASE Startup
    BY <2>1, StepsAre DEF LifeInv, LifeTypeOK, ServerTypeOK, ReadsFresh, Startup
  <2>2. CASE Started
    BY <2>2, StepsAre DEF LifeInv, LifeTypeOK, ServerTypeOK, ReadsFresh, Started
  <2> QED  BY <2>1, <2>2
<1>3. ReadsFresh'
  BY ServerAssumption
     DEF LifeInv, LifeTypeOK, ServerTypeOK, ReadsFresh, Startup, Started, Publish, OnShow, NoFile,
         FirstFile
<1>4. CountsRight'
  BY ServerAssumption
     DEF LifeInv, LifeTypeOK, ServerTypeOK, CountsRight, IsUp, Startup, Started, Publish, OnShow
<1>5. TasksAreOver'
  BY StepsAre
     DEF LifeInv, LifeTypeOK, ServerTypeOK, TasksAreOver, Startup, Started, Publish, OnShow, Tasks
<1>6. NothingComesUp'
  BY StepsAre
     DEF LifeInv, LifeTypeOK, ServerTypeOK, Left, Outlives, TasksAreOver, NothingComesUp, Startup, Started, Publish,
         OnShow, Parts
<1>7. CleanDown'
  BY StepsAre
     DEF LifeInv, LifeTypeOK, ServerTypeOK, Left, Outlives, NothingComesUp, CleanDown, Startup, Started, Publish,
         OnShow, Parts
<1>8. PlatformIsShown'
  BY StepsAre
     DEF LifeInv, LifeTypeOK, ServerTypeOK, PlatformIsShown, Startup, Started, Publish, OnShow,
         Parts, AllOff
<1>9. ClientIsWatched'
  BY DEF LifeInv, ClientIsWatched, Startup, Started, Publish, OnShow
<1> QED  BY <1>1, <1>2, <1>3, <1>4, <1>5, <1>6, <1>7, <1>8, <1>9 DEF LifeInv

\* A task of the start goes on, as long as it was not waited for.
LEMMA TasksLives ==
    ASSUME LifeInv, ValidationEnds \/ NoPlatform \/ MakePlatform \/ PlatformConnects
                        \/ PlatformFails \/ MakeGraphify \/ GraphifyStarts
    PROVE  LifeInv'
<1>1. ServerTypeOK'
  <2>1. CASE ValidationEnds
    BY <2>1, StepsAre DEF LifeInv, LifeTypeOK, ServerTypeOK, TaskFrame, Tasks, Parts, ValidationEnds
  <2>2. CASE NoPlatform
    BY <2>2, StepsAre DEF LifeInv, LifeTypeOK, ServerTypeOK, TaskFrame, Tasks, Parts, NoPlatform
  <2>3. CASE MakePlatform
    <3>1. PICK l \in {"none", "on"} :
            part' = [part EXCEPT !["platform"] = "made", !["cli"] = "on", !["limiter"] = l]
      BY <2>3 DEF MakePlatform
    <3> QED  BY <2>3, <3>1 DEF LifeInv, ServerTypeOK, TaskFrame, MakePlatform
  <2>4. CASE PlatformConnects
    BY <2>4, StepsAre DEF LifeInv, LifeTypeOK, ServerTypeOK, TaskFrame, Tasks, Parts, PlatformConnects
  <2>5. CASE PlatformFails
    BY <2>5, StepsAre DEF LifeInv, LifeTypeOK, ServerTypeOK, TaskFrame, Tasks, Parts, PlatformFails
  <2>6. CASE MakeGraphify
    BY <2>6, StepsAre DEF LifeInv, LifeTypeOK, ServerTypeOK, TaskFrame, Tasks, Parts, MakeGraphify
  <2>7. CASE GraphifyStarts
    BY <2>7, StepsAre DEF LifeInv, LifeTypeOK, ServerTypeOK, TaskFrame, Tasks, Parts, GraphifyStarts
  <2> QED  BY <2>1, <2>2, <2>3, <2>4, <2>5, <2>6, <2>7
<1>2. LifeTypeOK'
  BY ServerAssumption, StepsAre
     DEF LifeInv, LifeTypeOK, ServerTypeOK, CountsRight, IsUp, ValidationEnds, NoPlatform,
         MakePlatform, PlatformConnects, PlatformFails, MakeGraphify, GraphifyStarts, Runs,
         TaskFrame, Publish, OnShow, NoFile, FirstFile
<1>3. ReadsFresh'
  BY ServerAssumption
     DEF LifeInv, LifeTypeOK, ServerTypeOK, ReadsFresh, ValidationEnds, NoPlatform, MakePlatform,
         PlatformConnects, PlatformFails, MakeGraphify, GraphifyStarts, Runs, TaskFrame, Publish,
         OnShow, NoFile, FirstFile
<1>4. CountsRight'
  BY ServerAssumption
     DEF LifeInv, LifeTypeOK, ServerTypeOK, CountsRight, IsUp, ValidationEnds, NoPlatform,
         MakePlatform, PlatformConnects, PlatformFails, MakeGraphify, GraphifyStarts, Runs,
         TaskFrame, Publish, OnShow
<1>5. TasksAreOver'
  BY StepsAre
     DEF LifeInv, LifeTypeOK, ServerTypeOK, TasksAreOver, ValidationEnds, NoPlatform, MakePlatform,
         PlatformConnects, PlatformFails, MakeGraphify, GraphifyStarts, Runs, TaskFrame, Publish,
         OnShow, Tasks
<1>6. NothingComesUp'
  BY StepsAre
     DEF LifeInv, LifeTypeOK, ServerTypeOK, Left, Outlives, TasksAreOver, NothingComesUp, ValidationEnds,
         NoPlatform, MakePlatform, PlatformConnects, PlatformFails, MakeGraphify, GraphifyStarts,
         Runs, TaskFrame, Publish, OnShow, Parts
<1>7. CleanDown'
  BY StepsAre
     DEF LifeInv, LifeTypeOK, ServerTypeOK, Left, Outlives, NothingComesUp, CleanDown, ValidationEnds, NoPlatform,
         MakePlatform, PlatformConnects, PlatformFails, MakeGraphify, GraphifyStarts, Runs,
         TaskFrame, Publish, OnShow, Parts
<1>8. PlatformIsShown'
  BY StepsAre
     DEF LifeInv, LifeTypeOK, ServerTypeOK, PlatformIsShown, ValidationEnds, NoPlatform,
         MakePlatform, PlatformConnects, PlatformFails, MakeGraphify, GraphifyStarts, Runs,
         TaskFrame, Publish, OnShow, Parts, AllOff
<1>9. ClientIsWatched'
  BY
     DEF LifeInv, ClientIsWatched, ValidationEnds, NoPlatform, MakePlatform, PlatformConnects,
         PlatformFails, MakeGraphify, GraphifyStarts, Runs, TaskFrame, Publish, OnShow
<1> QED  BY <1>1, <1>2, <1>3, <1>4, <1>5, <1>6, <1>7, <1>8, <1>9 DEF LifeInv

\* The server is asked to end, or drained, or the page is opened.
LEMMA ServingLives ==
    ASSUME LifeInv, RequestRestart \/ Interrupt \/ ForceExit \/ OpenBrowser \/ Drained
    PROVE  LifeInv'
<1>1. ServerTypeOK'
  BY ServerAssumption, StepsAre
     DEF LifeInv, LifeTypeOK, ServerTypeOK, CountsRight, IsUp, RequestRestart, Interrupt, ForceExit,
         OpenBrowser, Drained, StopFrame, AllOff, NoFile, FirstFile, AllOff, NoTasks
<1>2. LifeTypeOK'
  <2>1. CASE RequestRestart
    BY <2>1, StepsAre DEF LifeInv, LifeTypeOK, ServerTypeOK, StopFrame, RequestRestart
  <2>2. CASE Interrupt
    BY <2>2, StepsAre DEF LifeInv, LifeTypeOK, ServerTypeOK, StopFrame, Interrupt
  <2>3. CASE ForceExit
    BY <2>3, StepsAre DEF LifeInv, LifeTypeOK, ServerTypeOK, StopFrame, ForceExit, Left, Outlives
  <2>4. CASE OpenBrowser
    BY <2>4, StepsAre DEF LifeInv, LifeTypeOK, ServerTypeOK, StopFrame, OpenBrowser
  <2>5. CASE Drained
    BY <2>5, StepsAre DEF LifeInv, LifeTypeOK, ServerTypeOK, StopFrame, Drained
  <2> QED  BY <2>1, <2>2, <2>3, <2>4, <2>5
<1>3. ReadsFresh'
  BY ServerAssumption
     DEF LifeInv, LifeTypeOK, ServerTypeOK, ReadsFresh, RequestRestart, Interrupt, ForceExit,
         OpenBrowser, Drained, StopFrame, AllOff, NoFile, FirstFile
<1>4. CountsRight'
  BY ServerAssumption
     DEF LifeInv, LifeTypeOK, ServerTypeOK, CountsRight, IsUp, RequestRestart, Interrupt, ForceExit,
         OpenBrowser, Drained, StopFrame, AllOff
<1>5. TasksAreOver'
  BY StepsAre
     DEF LifeInv, LifeTypeOK, ServerTypeOK, TasksAreOver, RequestRestart, Interrupt, ForceExit,
         OpenBrowser, Drained, StopFrame, AllOff, Tasks
<1>6. NothingComesUp'
  BY StepsAre
     DEF LifeInv, LifeTypeOK, ServerTypeOK, Left, Outlives, TasksAreOver, NothingComesUp, RequestRestart, Interrupt,
         ForceExit, OpenBrowser, Drained, StopFrame, AllOff, Parts
<1>7. CleanDown'
  BY StepsAre
     DEF LifeInv, LifeTypeOK, ServerTypeOK, Left, Outlives, NothingComesUp, CleanDown, RequestRestart, Interrupt,
         ForceExit, OpenBrowser, Drained, StopFrame, AllOff, Parts
<1>8. PlatformIsShown'
  BY StepsAre
     DEF LifeInv, LifeTypeOK, ServerTypeOK, PlatformIsShown, RequestRestart, Interrupt, ForceExit,
         OpenBrowser, Drained, StopFrame, AllOff, Parts, AllOff
<1>9. ClientIsWatched'
  BY
     DEF LifeInv, ClientIsWatched, RequestRestart, Interrupt, ForceExit, OpenBrowser, Drained,
         StopFrame, AllOff
<1> QED  BY <1>1, <1>2, <1>3, <1>4, <1>5, <1>6, <1>7, <1>8, <1>9 DEF LifeInv

\* The shutdown waits for a task, and cancels it.
LEMMA WaitsLives == ASSUME LifeInv, WaitTask PROVE LifeInv'
<1>1. ServerTypeOK'
  <2>1. step \in 1..3 /\ step' = step + 1
    BY StepsAre DEF LifeInv, ServerTypeOK, WaitTask, IsWait
  <2>2. step' \in 1..Len(Steps) + 1
    BY <2>1, StepsAre
  <2>3. task' \in [Tasks -> {"none", "running", "done", "cancelled"}]
    BY DEF LifeInv, ServerTypeOK, WaitTask
  <2> QED  BY <2>2, <2>3 DEF LifeInv, ServerTypeOK, WaitTask, StopFrame
<1>2. LifeTypeOK'
  BY ServerAssumption, StepsAre
     DEF LifeInv, LifeTypeOK, ServerTypeOK, CountsRight, IsUp, WaitTask, StopFrame, IsWait, NoFile,
         FirstFile
<1>3. ReadsFresh'
  BY ServerAssumption
     DEF LifeInv, LifeTypeOK, ServerTypeOK, ReadsFresh, WaitTask, StopFrame, IsWait, NoFile,
         FirstFile
<1>4. CountsRight'
  BY ServerAssumption
     DEF LifeInv, LifeTypeOK, ServerTypeOK, CountsRight, IsUp, WaitTask, StopFrame, IsWait
<1>5. TasksAreOver'
  BY StepsAre DEF LifeInv, LifeTypeOK, ServerTypeOK, TasksAreOver, WaitTask, StopFrame, IsWait, Tasks
<1>6. NothingComesUp'
  BY StepsAre
     DEF LifeInv, LifeTypeOK, ServerTypeOK, Left, Outlives, TasksAreOver, NothingComesUp, WaitTask, StopFrame,
         IsWait, Parts
<1>7. CleanDown'
  BY StepsAre
     DEF LifeInv, LifeTypeOK, ServerTypeOK, Left, Outlives, NothingComesUp, CleanDown, WaitTask, StopFrame, IsWait,
         Parts
<1>8. PlatformIsShown'
  BY StepsAre
     DEF LifeInv, LifeTypeOK, ServerTypeOK, PlatformIsShown, WaitTask, StopFrame, IsWait, Parts,
         AllOff
<1>9. ClientIsWatched'
  BY DEF LifeInv, ClientIsWatched, WaitTask, StopFrame, IsWait
<1> QED  BY <1>1, <1>2, <1>3, <1>4, <1>5, <1>6, <1>7, <1>8, <1>9 DEF LifeInv

\* A part is stopped, or could not be.
LEMMA StopsLives == ASSUME LifeInv, StopPart PROVE LifeInv'
<1>1. ServerTypeOK'
  BY ServerAssumption, StepsAre
     DEF LifeInv, LifeTypeOK, ServerTypeOK, CountsRight, IsUp, StopPart, StopFrame, IsWait, Parts,
         NoFile, FirstFile, AllOff, NoTasks
<1>2. LifeTypeOK'
  <2>1. step \in 4..8
    BY StepsAre DEF LifeInv, ServerTypeOK, StopPart, IsWait
  <2>2. Steps[step] \in Parts
    BY <2>1, StepsAre DEF Parts
  <2>3. unstopped' \subseteq Parts
    BY <2>2 DEF LifeInv, LifeTypeOK, StopPart
  <2> QED  BY <2>3 DEF LifeInv, LifeTypeOK, StopPart, StopFrame
<1>3. ReadsFresh'
  BY ServerAssumption
     DEF LifeInv, LifeTypeOK, ServerTypeOK, ReadsFresh, StopPart, StopFrame, IsWait, Parts, NoFile,
         FirstFile
<1>4. CountsRight'
  BY ServerAssumption
     DEF LifeInv, LifeTypeOK, ServerTypeOK, CountsRight, IsUp, StopPart, StopFrame, IsWait, Parts
<1>5. TasksAreOver'
  BY StepsAre
     DEF LifeInv, LifeTypeOK, ServerTypeOK, TasksAreOver, StopPart, StopFrame, IsWait, Parts, Tasks
<1>6. NothingComesUp'
  BY StepsAre
     DEF LifeInv, LifeTypeOK, ServerTypeOK, Left, Outlives, TasksAreOver, NothingComesUp, StopPart, StopFrame,
         IsWait, Parts, Parts
<1>7. CleanDown'
  BY StepsAre
     DEF LifeInv, LifeTypeOK, ServerTypeOK, Left, Outlives, NothingComesUp, CleanDown, StopPart, StopFrame, IsWait,
         Parts, Parts
<1>8. PlatformIsShown'
  BY StepsAre
     DEF LifeInv, LifeTypeOK, ServerTypeOK, PlatformIsShown, StopPart, StopFrame, IsWait, Parts,
         Parts, AllOff
<1>9. ClientIsWatched'
  BY DEF LifeInv, ClientIsWatched, StopPart, StopFrame, IsWait, Parts
<1> QED  BY <1>1, <1>2, <1>3, <1>4, <1>5, <1>6, <1>7, <1>8, <1>9 DEF LifeInv

\* What is on when the server is down could not be stopped.
LEMMA DownLives == ASSUME LifeInv, Down PROVE LifeInv'
<1>1. ServerTypeOK'
  BY ServerAssumption, StepsAre
     DEF LifeInv, LifeTypeOK, ServerTypeOK, CountsRight, IsUp, Down, NoFile, FirstFile, AllOff,
         NoTasks
<1>2. LifeTypeOK'
  BY ServerAssumption, StepsAre
     DEF LifeInv, LifeTypeOK, ServerTypeOK, CountsRight, IsUp, Down, Left, Outlives, NoFile,
         FirstFile
<1>3. ReadsFresh'
  BY ServerAssumption DEF LifeInv, LifeTypeOK, ServerTypeOK, ReadsFresh, Down, NoFile, FirstFile
<1>4. CountsRight'
  BY ServerAssumption DEF LifeInv, LifeTypeOK, ServerTypeOK, CountsRight, IsUp, Down
<1>5. TasksAreOver'
  BY StepsAre DEF LifeInv, LifeTypeOK, ServerTypeOK, TasksAreOver, Down, Tasks
<1>6. NothingComesUp'
  BY StepsAre DEF LifeInv, LifeTypeOK, ServerTypeOK, Left, Outlives, TasksAreOver, NothingComesUp, Down, Parts
<1>7. CleanDown'
  <2>1. stage = "stopping" /\ step = 9 /\ UNCHANGED unstopped
    BY StepsAre DEF Down
  <2>2. ASSUME NEW p \in Left PROVE p \in unstopped
    <3>1. PICK i \in 4..8 : Steps[i] = p
      BY <2>2, StepsAre DEF Left, Parts
    <3> QED  BY <2>1, <2>2, <3>1 DEF LifeInv, NothingComesUp
  <2>3. survivors' \subseteq survivors \cup Left
    BY DEF Down, Outlives
  <2>4. survivors \subseteq unstopped
    BY <2>1 DEF LifeInv, CleanDown
  <2> QED  BY <2>1, <2>2, <2>3, <2>4 DEF CleanDown
<1>8. PlatformIsShown'
  BY StepsAre DEF LifeInv, LifeTypeOK, ServerTypeOK, PlatformIsShown, Down, Parts, AllOff
<1>9. ClientIsWatched'
  BY DEF LifeInv, ClientIsWatched, Down
<1> QED  BY <1>1, <1>2, <1>3, <1>4, <1>5, <1>6, <1>7, <1>8, <1>9 DEF LifeInv

\* fcc-claude and its client leave the server alone.
LEMMA ClientLives ==
    ASSUME LifeInv, StartClient \/ ChildExits \/ LauncherReturns \/ LauncherInterrupted
    PROVE  LifeInv'
<1>1. ServerTypeOK'
  BY ServerAssumption, StepsAre
     DEF LifeInv, LifeTypeOK, ServerTypeOK, CountsRight, IsUp, StartClient, ChildExits,
         LauncherReturns, LauncherInterrupted, LaunchFrame, NoFile, FirstFile, AllOff, NoTasks
<1>2. LifeTypeOK'
  BY ServerAssumption, StepsAre
     DEF LifeInv, LifeTypeOK, ServerTypeOK, CountsRight, IsUp, StartClient, ChildExits,
         LauncherReturns, LauncherInterrupted, LaunchFrame, NoFile, FirstFile
<1>3. ReadsFresh'
  BY ServerAssumption
     DEF LifeInv, LifeTypeOK, ServerTypeOK, ReadsFresh, StartClient, ChildExits, LauncherReturns,
         LauncherInterrupted, LaunchFrame, NoFile, FirstFile
<1>4. CountsRight'
  BY ServerAssumption
     DEF LifeInv, LifeTypeOK, ServerTypeOK, CountsRight, IsUp, StartClient, ChildExits,
         LauncherReturns, LauncherInterrupted, LaunchFrame
<1>5. TasksAreOver'
  BY StepsAre
     DEF LifeInv, LifeTypeOK, ServerTypeOK, TasksAreOver, StartClient, ChildExits, LauncherReturns,
         LauncherInterrupted, LaunchFrame, Tasks
<1>6. NothingComesUp'
  BY StepsAre
     DEF LifeInv, LifeTypeOK, ServerTypeOK, Left, Outlives, TasksAreOver, NothingComesUp, StartClient, ChildExits,
         LauncherReturns, LauncherInterrupted, LaunchFrame, Parts
<1>7. CleanDown'
  BY StepsAre
     DEF LifeInv, LifeTypeOK, ServerTypeOK, Left, Outlives, NothingComesUp, CleanDown, StartClient, ChildExits,
         LauncherReturns, LauncherInterrupted, LaunchFrame, Parts
<1>8. PlatformIsShown'
  BY StepsAre
     DEF LifeInv, LifeTypeOK, ServerTypeOK, PlatformIsShown, StartClient, ChildExits,
         LauncherReturns, LauncherInterrupted, LaunchFrame, Parts, AllOff
<1>9. ClientIsWatched'
  BY
     DEF LifeInv, ClientIsWatched, StartClient, ChildExits, LauncherReturns, LauncherInterrupted,
         LaunchFrame
<1> QED  BY <1>1, <1>2, <1>3, <1>4, <1>5, <1>6, <1>7, <1>8, <1>9 DEF LifeInv

\* At the start nothing was read and nothing is up.
LEMMA LifeStarts == ServerInit => LifeInv
<1> SUFFICES ASSUME ServerInit PROVE LifeInv
  OBVIOUS
<1>1. ServerTypeOK
  <2>1. file \in [v : 0..MaxEdits, needs : BOOLEAN]
    <3>1. 0 \in 0..MaxEdits /\ 1 \in 0..MaxEdits
      BY ServerAssumption
    <3>2. \A n \in 0..MaxEdits, b \in BOOLEAN : [v |-> n, needs |-> b] \in [v : 0..MaxEdits, needs : BOOLEAN]
      OBVIOUS
    <3>3. /\ [v |-> 0, needs |-> FALSE] \in [v : 0..MaxEdits, needs : BOOLEAN]
          /\ [v |-> 1, needs |-> FALSE] \in [v : 0..MaxEdits, needs : BOOLEAN]
          /\ [v |-> 1, needs |-> TRUE] \in [v : 0..MaxEdits, needs : BOOLEAN]
      BY <3>1, <3>2
    <3> QED  BY <3>3 DEF ServerInit, NoFile
  <2>2. step \in 1..Len(Steps) + 1 /\ restarts \in 0..MaxRestarts
    BY ServerAssumption, StepsAre DEF ServerInit
  <2>3. /\ task \in [Tasks -> {"none", "running", "done", "cancelled"}]
        /\ part \in [Parts -> {"none", "made", "on", "stopped"}]
    BY DEF ServerInit, NoTasks, AllOff
  <2> QED  BY <2>1, <2>2, <2>3 DEF ServerTypeOK
<1>2. LifeTypeOK
  <2>1. config \in [v : 0..MaxEdits, needs : BOOLEAN] /\ newest \in 0..MaxEdits
    BY ServerAssumption DEF ServerInit, NoFile
  <2>2. browser \in [polls : BOOLEAN, opened : Nat]
    BY DEF ServerInit
  <2>3. cache = <<>> /\ survivors = {} /\ unstopped = {} /\ restart = FALSE /\ interrupted = FALSE
    BY DEF ServerInit
  <2>4. stage \in {"migrate", "create"}
    BY DEF ServerInit
  <2> QED  BY <2>1, <2>2, <2>3, <2>4 DEF LifeTypeOK
<1>3. ReadsFresh /\ TasksAreOver
  BY DEF ServerInit, ReadsFresh, TasksAreOver, NoFile
<1>4. CleanDown /\ NothingComesUp
  BY DEF ServerInit, CleanDown, NothingComesUp
<1>5. PlatformIsShown /\ CountsRight /\ ClientIsWatched
  BY DEF ServerInit, PlatformIsShown, CountsRight, ClientIsWatched, AllOff, Parts, IsUp
<1> QED  BY <1>1, <1>2, <1>3, <1>4, <1>5 DEF LifeInv

\* A step that changes nothing keeps the invariant.
LEMMA LifeRests == ASSUME LifeInv, UNCHANGED serverVars PROVE LifeInv'
<1>1. ServerTypeOK' /\ LifeTypeOK'
  BY DEF LifeInv, serverVars, ServerTypeOK, LifeTypeOK
<1>2. ReadsFresh' /\ TasksAreOver'
  BY DEF LifeInv, serverVars, ReadsFresh, TasksAreOver
<1>3. CleanDown' /\ NothingComesUp'
  BY DEF LifeInv, serverVars, CleanDown, NothingComesUp, Left
<1>4. PlatformIsShown' /\ CountsRight' /\ ClientIsWatched'
  BY DEF LifeInv, serverVars, PlatformIsShown, CountsRight, ClientIsWatched, IsUp
<1> QED  BY <1>1, <1>2, <1>3, <1>4 DEF LifeInv

\* However often the server is edited, applied to, interrupted and started again:
\* its settings are fresh, nothing outlives it that could be stopped but Graphify's
\* child after a forced exit, messaging is seen, and the page is opened once.
THEOREM ServerLivesWell == ServerInit /\ [][ServerNext]_serverVars => []ServerLivesRight
<1>1. LifeInv /\ [ServerNext]_serverVars => LifeInv'
  BY SettingsLives, CreatesLives, StartsLives, TasksLives, ServingLives, WaitsLives, StopsLives,
     DownLives, ClientLives, LifeRests DEF ServerNext
<1>2. LifeInv => ServerLivesRight
  <2> SUFFICES ASSUME LifeInv PROVE ServerLivesRight
    OBVIOUS
  <2>1. FreshSettings /\ MessagingIsSeen
    BY DEF LifeInv, ReadsFresh, PlatformIsShown, FreshSettings, MessagingIsSeen
  <2>2. OncePerProcess
    BY DEF LifeInv, CountsRight, ClientIsWatched, OncePerProcess
  <2> QED  BY <2>1, <2>2 DEF LifeInv, ServerLivesRight
<1> QED  BY LifeStarts, <1>1, <1>2, PTL

-----------------------------------------------------------------------------
(* The platforms.                                                          *)

\* The types of what PlatformTypeOK leaves out.
PlatformTypes ==
    /\ platform \in {"telegram", "discord"} /\ scene \in {"connecting", "call", "chat"}
    /\ limiter \in BOOLEAN /\ calls \in Nat /\ arrived \in Nat
    /\ fate \in [Messages -> {"none", "ignored", "asking", "handling", "refused", "lost",
                              "transcribing", "dropped", "failed", "turn", "cleared"}]

\* A note that is cancelled is pending no longer.
CancelledIsTaken == \A m \in cancelled \cup clearing : KeysOf(m) \cap pendingVoice = {}

\* Every try but the last one was a failure that is counted.
TriesAreCounted ==
    /\ call = "trying" => calls <= tries
    /\ call = "last" => calls <= tries + 1
    /\ calls <= tries + 2

\* Discord has its limiter from the start.
DiscordIsLimited == platform = "discord" /\ link # "off" => limiter

PlatformInv ==
    /\ PlatformTypeOK /\ PlatformTypes /\ CancelHolds /\ CancelledIsTaken /\ EitherCancels
    /\ CancelledIsGone /\ TriesAreCounted /\ DiscordIsLimited /\ CallsEnd

\* The keys of a message are its own, and no other's.
LEMMA KeysDiffer ==
    /\ \A m : <<m, "own">> \in KeysOf(m) /\ <<m, "status">> \in KeysOf(m)
    /\ \A m, n : m # n => KeysOf(m) \cap KeysOf(n) = {}
    /\ \A m, S : KeysOf(m) \subseteq S <=> <<m, "own">> \in S /\ <<m, "status">> \in S
    /\ \A m, S : KeysOf(m) \cap S = {} <=> <<m, "own">> \notin S /\ <<m, "status">> \notin S
BY DEF KeysOf

\* Nothing is pending, cancelled or being cleared at first.
LEMMA PlatformStarts == ASSUME PlatformInit PROVE PlatformInv
<1>1. /\ tries = 0 /\ calls = 0 /\ arrived = 0 /\ call = "trying" /\ link = "off" /\ limiter = FALSE
      /\ pendingVoice = {} /\ clearing = {} /\ cancelled = {}
      /\ fate = [m \in Messages |-> "none"] /\ note = [m \in Messages |-> "none"]
      /\ platform \in {"telegram", "discord"} /\ scene \in {"connecting", "call", "chat"}
  BY DEF PlatformInit
<1>2. PlatformTypeOK /\ PlatformTypes
  <2>1. /\ fate \in [Messages -> {"none", "ignored", "asking", "handling", "refused", "lost",
                               "transcribing", "dropped", "failed", "turn", "cleared"}]
        /\ note \in [Messages -> {"none", "shown", "deleted"}]
    BY <1>1
  <2>2. tries \in 0..Attempts - 1 /\ calls \in Nat /\ arrived \in Nat
    BY <1>1 DEF Attempts
  <2>3. PlatformTypeOK
    BY <1>1, <2>1, <2>2 DEF PlatformTypeOK
  <2> QED  BY <1>1, <2>1, <2>2, <2>3 DEF PlatformTypes
<1>3. CancelHolds /\ CancelledIsTaken /\ EitherCancels /\ CancelledIsGone
  <2>1. \A m \in Messages : fate[m] = "none" /\ ~ KeysOf(m) \subseteq pendingVoice
    BY <1>1, KeysDiffer
  <2> QED  BY <1>1, <2>1 DEF CancelHolds, CancelledIsTaken, EitherCancels, CancelledIsGone
<1>4. TriesAreCounted /\ DiscordIsLimited /\ CallsEnd
  BY <1>1 DEF TriesAreCounted, DiscordIsLimited, CallsEnd, Attempts
<1> QED  BY <1>2, <1>3, <1>4 DEF PlatformInv

\* Further tries leave room for what was called.
LEMMA TriesGrow ==
    ASSUME NEW c \in Nat, NEW n \in Nat, NEW k \in Nat, n <= k
    PROVE  (c <= n => c <= k) /\ (c <= n + 1 => c <= k + 1) /\ (c <= n + 2 => c <= k + 2)
OBVIOUS

\* A try leaves room for one call.
LEMMA OneMoreTry ==
    ASSUME NEW c \in Nat, NEW d \in Nat, NEW n \in Nat, NEW k \in Nat, d = c + 1, k = n + 1
    PROVE  (c <= n => d <= k) /\ (c <= n + 1 => d <= k + 1) /\ (c <= n + 2 => d <= k + 2)
OBVIOUS

\* A call for which no try is left.
LEMMA LastCall ==
    ASSUME NEW c \in Nat, NEW d \in Nat, NEW n \in Nat, NEW k \in Nat, d = c + 1, k = n
    PROVE  (c <= n => d <= k + 1) /\ (c <= n + 1 => d <= k + 2)
OBVIOUS

\* Connecting touches no chat and no call.
LEMMA ConnectingKeeps ==
    ASSUME PlatformInv,
           \/ StartPlatform \/ Connects \/ ConnectFails \/ GetLimiter \/ ConnectsLate \/ StopPlatform
    PROVE  PlatformInv'
<1>0. /\ PlatformTypeOK /\ PlatformTypes /\ CancelHolds /\ CancelledIsTaken /\ EitherCancels
      /\ CancelledIsGone /\ TriesAreCounted /\ DiscordIsLimited /\ CallsEnd
  BY DEF PlatformInv
<1>1. /\ UNCHANGED <<platform, scene, call, calls, arrived, fate, note, pendingVoice, clearing, cancelled>>
      /\ scene = "connecting"
  BY DEF StartPlatform, Connects, ConnectFails, GetLimiter, ConnectsLate, StopPlatform, Connecting,
         callVars, chatVars
<1>2. tries' \in 0..Attempts - 1 /\ tries <= tries'
  BY <1>0 DEF StartPlatform, Connects, ConnectFails, GetLimiter, ConnectsLate, StopPlatform, Connecting,
         PlatformTypeOK, Attempts
<1>3. /\ limiter' \in BOOLEAN /\ (link' = "on" => limiter')
      /\ (platform = "discord" /\ link' # "off" => limiter')
  <2>0. limiter \in BOOLEAN /\ (link = "on" => limiter) /\ (platform = "discord" /\ link # "off" => limiter)
        /\ platform \in {"telegram", "discord"}
    BY <1>0 DEF PlatformTypes, DiscordIsLimited, CallsEnd
  <2>1. CASE StartPlatform
    BY <2>0, <2>1 DEF StartPlatform
  <2>2. CASE Connects
    BY <2>0, <2>2 DEF Connects
  <2>3. CASE ConnectFails
    BY <2>0, <2>3 DEF ConnectFails
  <2>4. CASE GetLimiter
    BY <2>0, <2>4 DEF GetLimiter
  <2>5. CASE ConnectsLate \/ StopPlatform
    BY <2>0, <2>5 DEF ConnectsLate, StopPlatform
  <2> QED  BY <2>1, <2>2, <2>3, <2>4, <2>5
<1>4. PlatformTypeOK' /\ PlatformTypes'
  BY <1>0, <1>1, <1>2, <1>3 DEF PlatformTypeOK, PlatformTypes
<1>5. CancelHolds' /\ CancelledIsTaken' /\ EitherCancels' /\ CancelledIsGone'
  BY <1>0, <1>1 DEF CancelHolds, CancelledIsTaken, EitherCancels, CancelledIsGone
<1>6. TriesAreCounted'
  <2>1. calls \in Nat /\ tries \in Nat /\ tries' \in Nat /\ tries <= tries'
    BY <1>0, <1>2 DEF PlatformTypeOK, PlatformTypes, Attempts
  <2>2. /\ calls <= tries => calls <= tries'
        /\ calls <= tries + 1 => calls <= tries' + 1
        /\ calls <= tries + 2 => calls <= tries' + 2
    BY <2>1, TriesGrow
  <2> QED  BY <1>0, <1>1, <2>2 DEF TriesAreCounted
<1>7. DiscordIsLimited' /\ CallsEnd'
  BY <1>0, <1>1, <1>3 DEF DiscordIsLimited, CallsEnd
<1> QED  BY <1>4, <1>5, <1>6, <1>7 DEF PlatformInv

\* A call counts what it did and, when it is to be tried again, its tries.
LEMMA CallingKeeps ==
    ASSUME PlatformInv,
           CallAnswers \/ LastCallFails \/ NetworkFails \/ NothingToDo \/ RetryAfter \/ Refused
    PROVE  PlatformInv'
<1>0. /\ PlatformTypeOK /\ PlatformTypes /\ CancelHolds /\ CancelledIsTaken /\ EitherCancels
      /\ CancelledIsGone /\ TriesAreCounted /\ DiscordIsLimited /\ CallsEnd
  BY DEF PlatformInv
<1>1. /\ UNCHANGED <<platform, scene, link, limiter, fate, note, pendingVoice, clearing, cancelled>>
      /\ call \in {"trying", "last"} /\ calls' = calls + 1 /\ arrived' \in {arrived, arrived + 1}
  BY <1>0 DEF CallAnswers, LastCallFails, NetworkFails, NothingToDo, RetryAfter, Refused, Calling, Counted,
         chatVars, PlatformTypes
<1>2. /\ tries' \in 0..Attempts - 1
      /\ \/ call' = "answered" /\ tries' = tries /\ arrived' = arrived + 1
         \/ call' \in {"raised", "none"} /\ tries' = tries
         \/ call = "trying" /\ call' = "trying" /\ tries' = tries + 1
         \/ call = "trying" /\ call' = "last" /\ tries' = tries
  BY <1>0 DEF CallAnswers, LastCallFails, NetworkFails, NothingToDo, RetryAfter, Refused, Calling, Counted,
         PlatformTypeOK, Attempts
<1>3. PlatformTypeOK' /\ PlatformTypes'
  BY <1>0, <1>1, <1>2 DEF PlatformTypeOK, PlatformTypes
<1>4. CancelHolds' /\ CancelledIsTaken' /\ EitherCancels' /\ CancelledIsGone'
  BY <1>0, <1>1 DEF CancelHolds, CancelledIsTaken, EitherCancels, CancelledIsGone
<1>5. TriesAreCounted'
  <2>1. calls \in Nat /\ calls' \in Nat /\ tries \in Nat /\ tries' \in Nat /\ calls' = calls + 1
    BY <1>0, <1>1, <1>2 DEF PlatformTypeOK, PlatformTypes, Attempts
  <2>2. CASE call = "trying" /\ call' = "trying" /\ tries' = tries + 1
    BY <1>0, <2>1, <2>2, OneMoreTry DEF TriesAreCounted
  <2>3. CASE tries' = tries /\ (call' = "last" => call = "trying") /\ call' # "trying"
    <3>1. calls <= tries + 1
      BY <1>0, <1>1, <2>1 DEF TriesAreCounted
    <3>2. calls' <= tries' + 2 /\ (calls <= tries => calls' <= tries' + 1)
      BY <2>1, <2>3, <3>1, LastCall
    <3> QED  BY <1>0, <2>3, <3>2 DEF TriesAreCounted
  <2> QED  BY <1>1, <1>2, <2>2, <2>3
<1>6. DiscordIsLimited' /\ (link' = "on" => limiter')
  BY <1>0, <1>1 DEF DiscordIsLimited, CallsEnd
<1>7. calls' <= Attempts + 1 /\ (call' = "answered" => arrived' > 0)
  BY <1>0, <1>1, <1>2, <1>5 DEF TriesAreCounted, PlatformTypes, PlatformTypeOK, Attempts
<1>8. CallsEnd'
  BY <1>6, <1>7 DEF CallsEnd
<1> QED  BY <1>3, <1>4, <1>5, <1>6, <1>8 DEF PlatformInv

\* The chat touches no connection and no call.
LEMMA ChatKeeps ==
    ASSUME PlatformInv, ChatFrame,
           fate' \in [Messages -> {"none", "ignored", "asking", "handling", "refused", "lost",
                                   "transcribing", "dropped", "failed", "turn", "cleared"}],
           note' \in [Messages -> {"none", "shown", "deleted"}],
           pendingVoice' \subseteq UNION {KeysOf(m) : m \in Messages},
           clearing' \subseteq Messages, cancelled' \subseteq Messages,
           CancelHolds', CancelledIsTaken', EitherCancels', CancelledIsGone'
    PROVE  PlatformInv'
<1>1. /\ PlatformTypeOK /\ PlatformTypes /\ TriesAreCounted /\ DiscordIsLimited /\ CallsEnd
      /\ UNCHANGED <<platform, scene, link, tries, limiter, call, calls, arrived>>
  BY DEF PlatformInv, ChatFrame, callVars
<1>2. PlatformTypeOK' /\ PlatformTypes'
  BY <1>1 DEF PlatformTypeOK, PlatformTypes
<1>3. TriesAreCounted' /\ DiscordIsLimited' /\ CallsEnd'
  BY <1>1 DEF TriesAreCounted, DiscordIsLimited, CallsEnd
<1> QED  BY <1>2, <1>3 DEF PlatformInv

\* A message goes its way; only its own fate, status message and keys change.
LEMMA MessageKeeps ==
    ASSUME PlatformInv, NEW m \in Messages,
           \/ Arrives(m) \/ VoiceIsOff(m) \/ StatusSent(m) \/ StatusFails(m)
           \/ Transcribed(m) \/ TranscriptionFails(m) \/ Handled(m) \/ HandlingFails(m)
    PROVE  PlatformInv'
<1> USE KeysDiffer
<1> DEFINE gone == cancelled \cup clearing
<1>0. /\ PlatformTypeOK /\ PlatformTypes /\ CancelHolds /\ CancelledIsTaken /\ EitherCancels
      /\ CancelledIsGone
  BY DEF PlatformInv
<1>1. ChatFrame /\ UNCHANGED <<clearing, cancelled>>
  BY DEF Arrives, VoiceIsOff, StatusSent, StatusFails, Transcribed, TranscriptionFails, Handled,
         HandlingFails
<1>2. /\ fate' = [fate EXCEPT ![m] = fate'[m]] /\ note' = [note EXCEPT ![m] = note'[m]]
      /\ \A k : k \notin KeysOf(m) => (k \in pendingVoice' <=> k \in pendingVoice)
      /\ pendingVoice' \subseteq pendingVoice \cup KeysOf(m)
      /\ \/ /\ fate[m] = "none" /\ fate'[m] \in {"ignored", "asking", "handling", "refused"}
            /\ UNCHANGED <<pendingVoice, note>>
         \/ /\ fate[m] = "asking" /\ fate'[m] = "transcribing" /\ pendingVoice' = pendingVoice \cup KeysOf(m)
         \/ /\ fate[m] = "asking" /\ fate'[m] = "lost" /\ UNCHANGED <<pendingVoice, note>>
         \/ /\ fate[m] = "transcribing" /\ fate'[m] = "handling" /\ <<m, "own">> \in pendingVoice
            /\ pendingVoice' = pendingVoice \ KeysOf(m) /\ UNCHANGED note
         \/ /\ fate[m] = "transcribing" /\ fate'[m] = "dropped" /\ <<m, "own">> \notin pendingVoice
            /\ UNCHANGED pendingVoice /\ note'[m] = "deleted"
         \/ /\ fate[m] = "transcribing" /\ fate'[m] = "failed" /\ UNCHANGED <<pendingVoice, note>>
         \/ /\ fate[m] = "handling" /\ fate'[m] \in {"turn", "failed"} /\ UNCHANGED pendingVoice
      /\ note'[m] \in {"none", "shown", "deleted"}
  <2>0. fate \in [Messages -> {"none", "ignored", "asking", "handling", "refused", "lost",
                               "transcribing", "dropped", "failed", "turn", "cleared"}]
        /\ note \in [Messages -> {"none", "shown", "deleted"}]
    BY <1>0 DEF PlatformTypeOK, PlatformTypes
  <2>1. CASE Arrives(m)
    BY <2>0, <2>1 DEF Arrives
  <2>2. CASE VoiceIsOff(m)
    BY <2>0, <2>2 DEF VoiceIsOff
  <2>3. CASE StatusSent(m)
    BY <2>0, <2>3 DEF StatusSent
  <2>4. CASE StatusFails(m)
    BY <2>0, <2>4 DEF StatusFails
  <2>5. CASE Transcribed(m)
    BY <2>0, <2>5 DEF Transcribed
  <2>6. CASE TranscriptionFails(m)
    BY <2>0, <2>6 DEF TranscriptionFails
  <2>7. CASE Handled(m)
    BY <2>0, <2>7 DEF Handled
  <2>8. CASE HandlingFails(m)
    BY <2>0, <2>8 DEF HandlingFails
  <2> QED  BY <2>1, <2>2, <2>3, <2>4, <2>5, <2>6, <2>7, <2>8
<1>3. /\ fate' \in [Messages -> {"none", "ignored", "asking", "handling", "refused", "lost",
                                 "transcribing", "dropped", "failed", "turn", "cleared"}]
      /\ note' \in [Messages -> {"none", "shown", "deleted"}]
      /\ \A n \in Messages \ {m} : fate'[n] = fate[n] /\ note'[n] = note[n]
      /\ pendingVoice' \subseteq UNION {KeysOf(n) : n \in Messages}
      /\ clearing' \subseteq Messages /\ cancelled' \subseteq Messages
  BY <1>0, <1>1, <1>2 DEF PlatformTypeOK, PlatformTypes
<1>4. \A n \in Messages \ {m} :
        /\ (<<n, "own">> \in pendingVoice' <=> <<n, "own">> \in pendingVoice)
        /\ (<<n, "status">> \in pendingVoice' <=> <<n, "status">> \in pendingVoice)
  BY <1>2
<1>5. CancelHolds'
  BY <1>0, <1>1, <1>2, <1>3 DEF CancelHolds, CancelledIsTaken, EitherCancels
<1>6. CancelledIsTaken'
  BY <1>0, <1>1, <1>2, <1>4 DEF CancelledIsTaken, CancelHolds
<1>7. EitherCancels'
  BY <1>0, <1>1, <1>2, <1>3, <1>4 DEF EitherCancels
<1>8. CancelledIsGone'
  BY <1>0, <1>1, <1>2, <1>3 DEF CancelledIsGone, CancelHolds
<1> QED  BY <1>1, <1>3, <1>5, <1>6, <1>7, <1>8, ChatKeeps

\* A user clears a message, a note or the chat.
LEMMA ClearKeeps ==
    ASSUME PlatformInv,
           \/ ClearChat
           \/ \E m \in Messages : CancelTold(m) \/ \E key \in {"own", "status"} : ClearReply(m, key)
    PROVE  PlatformInv'
<1> USE KeysDiffer
<1>0. /\ PlatformTypeOK /\ PlatformTypes /\ CancelHolds /\ CancelledIsTaken /\ EitherCancels
      /\ CancelledIsGone
  BY DEF PlatformInv
<1>1. ChatFrame
  BY DEF ClearChat, CancelTold, ClearReply
<1>2. CASE ClearChat
  <2>1. /\ UNCHANGED <<pendingVoice, clearing, cancelled>>
        /\ fate' = [m \in Messages |-> IF fate[m] = "turn" THEN "cleared" ELSE fate[m]]
        /\ note' = [m \in Messages |-> IF fate[m] = "turn" THEN "deleted" ELSE note[m]]
    BY <1>2 DEF ClearChat
  <2>2. /\ fate' \in [Messages -> {"none", "ignored", "asking", "handling", "refused", "lost",
                                   "transcribing", "dropped", "failed", "turn", "cleared"}]
        /\ note' \in [Messages -> {"none", "shown", "deleted"}]
        /\ pendingVoice' \subseteq UNION {KeysOf(n) : n \in Messages}
        /\ clearing' \subseteq Messages /\ cancelled' \subseteq Messages
    BY <1>0, <2>1 DEF PlatformTypeOK, PlatformTypes
  <2>3. CancelHolds' /\ CancelledIsTaken' /\ EitherCancels' /\ CancelledIsGone'
    BY <1>0, <2>1 DEF CancelHolds, CancelledIsTaken, EitherCancels, CancelledIsGone, PlatformTypeOK
  <2> QED  BY <1>1, <2>2, <2>3, ChatKeeps
<1>3. ASSUME NEW m \in Messages, CancelTold(m) PROVE PlatformInv'
  <2>1. /\ m \in clearing /\ clearing' = clearing \ {m} /\ cancelled' = cancelled \cup {m}
        /\ note' = [note EXCEPT ![m] = "deleted"] /\ UNCHANGED <<fate, pendingVoice>>
    BY <1>3 DEF CancelTold
  <2>2. /\ fate' \in [Messages -> {"none", "ignored", "asking", "handling", "refused", "lost",
                                   "transcribing", "dropped", "failed", "turn", "cleared"}]
        /\ note' \in [Messages -> {"none", "shown", "deleted"}]
        /\ pendingVoice' \subseteq UNION {KeysOf(n) : n \in Messages}
        /\ clearing' \subseteq Messages /\ cancelled' \subseteq Messages
    BY <1>0, <2>1 DEF PlatformTypeOK, PlatformTypes
  <2>3. cancelled' \cup clearing' = cancelled \cup clearing
    BY <2>1
  <2>4. CancelHolds' /\ CancelledIsTaken' /\ EitherCancels'
    BY <1>0, <2>1, <2>3 DEF CancelHolds, CancelledIsTaken, EitherCancels
  <2>5. CancelledIsGone'
    BY <1>0, <2>1 DEF CancelledIsGone, PlatformTypeOK
  <2> QED  BY <1>1, <2>2, <2>4, <2>5, ChatKeeps
<1>4. ASSUME NEW m \in Messages, NEW key \in {"own", "status"}, ClearReply(m, key) PROVE PlatformInv'
  <2>1. UNCHANGED cancelled
    BY <1>4 DEF ClearReply
  <2>2. CASE /\ fate[m] = "turn" /\ fate' = [fate EXCEPT ![m] = "cleared"]
             /\ note' = [note EXCEPT ![m] = "deleted"] /\ UNCHANGED <<pendingVoice, clearing>>
    <3>1. /\ fate' \in [Messages -> {"none", "ignored", "asking", "handling", "refused", "lost",
                                     "transcribing", "dropped", "failed", "turn", "cleared"}]
          /\ note' \in [Messages -> {"none", "shown", "deleted"}]
          /\ pendingVoice' \subseteq UNION {KeysOf(n) : n \in Messages}
          /\ clearing' \subseteq Messages /\ cancelled' \subseteq Messages
      BY <1>0, <2>1, <2>2 DEF PlatformTypeOK, PlatformTypes
    <3>2. CancelHolds' /\ CancelledIsTaken' /\ EitherCancels' /\ CancelledIsGone'
      BY <1>0, <2>1, <2>2
      DEF CancelHolds, CancelledIsTaken, EitherCancels, CancelledIsGone, PlatformTypeOK, PlatformTypes
    <3> QED  BY <1>1, <3>1, <3>2, ChatKeeps
  <2>3. CASE /\ <<m, key>> \in pendingVoice /\ pendingVoice' = pendingVoice \ KeysOf(m)
             /\ clearing' = clearing \cup {m} /\ UNCHANGED <<fate, note>>
    <3>1. /\ fate' \in [Messages -> {"none", "ignored", "asking", "handling", "refused", "lost",
                                     "transcribing", "dropped", "failed", "turn", "cleared"}]
          /\ note' \in [Messages -> {"none", "shown", "deleted"}]
          /\ pendingVoice' \subseteq UNION {KeysOf(n) : n \in Messages}
          /\ clearing' \subseteq Messages /\ cancelled' \subseteq Messages
      BY <1>0, <2>1, <2>3 DEF PlatformTypeOK, PlatformTypes
    <3>2. fate[m] \in {"transcribing", "failed"}
      BY <1>0, <2>3 DEF EitherCancels
    <3>3. \A n \in Messages \ {m} :
            /\ (<<n, "own">> \in pendingVoice' <=> <<n, "own">> \in pendingVoice)
            /\ (<<n, "status">> \in pendingVoice' <=> <<n, "status">> \in pendingVoice)
      BY <2>3
    <3>4. CancelHolds' /\ CancelledIsGone'
      BY <1>0, <2>1, <2>3, <3>2 DEF CancelHolds, CancelledIsGone
    <3>5. CancelledIsTaken'
      BY <1>0, <2>1, <2>3 DEF CancelledIsTaken
    <3>6. EitherCancels'
      BY <1>0, <2>1, <2>3, <3>3 DEF EitherCancels
    <3> QED  BY <1>1, <3>1, <3>4, <3>5, <3>6, ChatKeeps
  <2>4. CASE UNCHANGED <<fate, note, pendingVoice, clearing>>
    <3>1. /\ fate' \in [Messages -> {"none", "ignored", "asking", "handling", "refused", "lost",
                                     "transcribing", "dropped", "failed", "turn", "cleared"}]
          /\ note' \in [Messages -> {"none", "shown", "deleted"}]
          /\ pendingVoice' \subseteq UNION {KeysOf(n) : n \in Messages}
          /\ clearing' \subseteq Messages /\ cancelled' \subseteq Messages
      BY <1>0, <2>1, <2>4 DEF PlatformTypeOK, PlatformTypes
    <3>2. CancelHolds' /\ CancelledIsTaken' /\ EitherCancels' /\ CancelledIsGone'
      BY <1>0, <2>1, <2>4 DEF CancelHolds, CancelledIsTaken, EitherCancels, CancelledIsGone
    <3> QED  BY <1>1, <3>1, <3>2, ChatKeeps
  <2> QED  BY <1>4, <2>2, <2>3, <2>4 DEF ClearReply
<1> QED  BY <1>2, <1>3, <1>4

\* PlatformsHold for every chat, call and connection: a cancelled note never becomes a
\* turn and loses its status message, either of a note's messages cancels it, none is
\* dropped that was not cancelled, and a call is made at most four times.
THEOREM PlatformsAreRight == PlatformInit /\ [][PlatformNext]_platformVars => []PlatformsHold
<1>1. PlatformInit => PlatformInv
  BY PlatformStarts
<1>2. PlatformInv /\ [PlatformNext]_platformVars => PlatformInv'
  <2> SUFFICES ASSUME PlatformInv, [PlatformNext]_platformVars PROVE PlatformInv'
    OBVIOUS
  <2>1. CASE UNCHANGED platformVars
    BY <2>1 DEF PlatformInv, PlatformTypeOK, PlatformTypes, CancelHolds, CancelledIsTaken, EitherCancels,
                CancelledIsGone, TriesAreCounted, DiscordIsLimited, CallsEnd, platformVars, callVars, chatVars
  <2>2. CASE \/ StartPlatform \/ Connects \/ ConnectFails \/ GetLimiter \/ ConnectsLate \/ StopPlatform
    BY <2>2, ConnectingKeeps
  <2>3. CASE CallAnswers \/ LastCallFails \/ NetworkFails \/ NothingToDo \/ RetryAfter \/ Refused
    BY <2>3, CallingKeeps
  <2>4. CASE \/ ClearChat
             \/ \E m \in Messages : CancelTold(m) \/ \E key \in {"own", "status"} : ClearReply(m, key)
    BY <2>4, ClearKeeps
  <2>5. CASE \E m \in Messages :
               \/ Arrives(m) \/ VoiceIsOff(m) \/ StatusSent(m) \/ StatusFails(m)
               \/ Transcribed(m) \/ TranscriptionFails(m) \/ Handled(m) \/ HandlingFails(m)
    BY <2>5, MessageKeeps
  <2> QED  BY <2>1, <2>2, <2>3, <2>4, <2>5 DEF PlatformNext
<1>3. PlatformInv => PlatformsHold
  BY DEF PlatformInv, PlatformsHold
<1> QED  BY <1>1, <1>2, <1>3, PTL
=============================================================================
