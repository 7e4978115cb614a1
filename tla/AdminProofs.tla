---------------------------- MODULE AdminProofs ------------------------------
(***************************************************************************)
(* The properties of what the admin page and the modules change, for every *)
(* set of modules, providers, servers and pages.                           *)
(***************************************************************************)
EXTENDS ProviderRegistry, ModuleLoader, McpSettings, AdminSettings, FiniteSetTheorems, SequenceTheorems, TLAPS

-----------------------------------------------------------------------------
(* The registries of provider instances.                                   *)

\* The applies under way.
Appliers == {c \in RegCalls : rcall[c] \in {"cancel", "clear"}}

\* Every registry that is replaced was counted by an apply.
AppliesCounted == published + Cardinality(Appliers) <= version

CallsPlaced ==
    \A c \in RegCalls :
        /\ place[c] <= published /\ readAs[c] <= version
        /\ rcall[c] = "idle" => place[c] = 0

LaterEmpty == \A r \in Registries : r > published => cached[r] = {} /\ listed[r] = {}

WorkOfOneKind == \A c \in RegCalls : OfOneKindEach(work[c])

Sound(is) == \A i \in is : Fresh(i) \/ Late(i)

\* Until an apply that took the published registry has ended it may hold
\* providers of earlier settings; and so may a call that lists them.
StaleOnlyWhileApplied ==
    \/ \E c \in Appliers : place[c] = published
    \/ /\ Sound(cached[published])
       /\ \/ \E c \in RegCalls : failing[c]
          \/ /\ Sound(listed[published])
             /\ \A c \in RegCalls :
                   rcall[c] = "list" /\ place[c] = published => Sound(work[c])

\* What an apply is about to drop is what it cleans up, or lost already.
AppliersHold ==
    \A c \in Appliers :
        /\ rcall[c] = "clear" => open \cap cached[place[c]] \subseteq work[c] \cup lost
        /\ place[c] # published => open \cap cached[published] \subseteq lost

RegInv ==
    /\ RegTypeOK /\ NothingLeaked /\ AppliesCounted /\ CallsPlaced /\ LaterEmpty
    /\ WorkOfOneKind /\ StaleOnlyWhileApplied /\ AppliersHold

Instances == [kind : Kinds, settings : 0..MaxApplies, late : BOOLEAN]

\* What a call does that takes instances from the registry r: those it makes
\* are of the settings of now, or known to be late.
Grows(c, r) ==
    /\ made' \in Seq(Instances) /\ Len(made) <= Len(made')
    /\ \A i \in Made : made'[i] = made[i]
    /\ \A i \in New : made'[i].settings = version \/ made'[i].late
    /\ cached' = [cached EXCEPT ![r] = @ \cup New]
    /\ \A i, j \in cached[r] \cup New : made'[i].kind = made'[j].kind => i = j
    /\ \E w : /\ work' = [work EXCEPT ![c] = w]
              /\ w \subseteq 1..Len(made')
              /\ \A i, j \in w : made'[i].kind = made'[j].kind => i = j
              /\ rcall'[c] = "list" => w \subseteq cached[r] \cup New

\* get() makes what is missing.
LEMMA GetGrows ==
    ASSUME RegInv, NEW c \in RegCalls, NEW r \in Registries, NEW ks \in SUBSET Kinds,
           NEW v \in 0..version, Get(c, r, ks, v)
    PROVE  Grows(c, r)
<1>0. /\ made \in Seq(Instances) /\ version \in 0..MaxApplies /\ MaxApplies \in Nat
      /\ cached \in [Registries -> SUBSET Made] /\ OfOneKindEach(cached[r])
      /\ work \in [RegCalls -> SUBSET Made]
  BY RegistryAssumption DEF RegInv, RegTypeOK, Instances
<1> DEFINE missing == ks \ {made[i].kind : i \in cached[r]}
           m == Len(made)
           n == Cardinality(missing)
<1>1. n \in Nat /\ m \in Nat
  <2>1. IsFiniteSet(missing)
    BY RegistryAssumption, FS_Subset
  <2> QED  BY <1>0, <2>1, FS_CardinalityType
<1>c. PICK flag \in BOOLEAN : flag = (v < version)
  <2>1. (v < version) \in BOOLEAN
    BY <1>0
  <2> QED  BY <2>1, Zenon
<1>2. PICK order \in [m + 1 .. m + n -> missing] :
         /\ \A i, j \in m + 1 .. m + n : order[i] = order[j] => i = j
         /\ made' = made \o [x \in 1..n |-> [kind |-> order[m + x], settings |-> v, late |-> flag]]
         /\ cached' = [cached EXCEPT ![r] = @ \cup (m + 1 .. m + n)]
         /\ work' = [work EXCEPT ![c] = Of(cached[r], ks) \cup (m + 1 .. m + n)]
  <2>1. PICK order \in [m + 1 .. m + n -> missing] :
           /\ \A i, j \in m + 1 .. m + n : order[i] = order[j] => i = j
           /\ made' = made \o [x \in 1..n |-> [kind |-> order[m + x], settings |-> v, late |-> v < version]]
           /\ cached' = [cached EXCEPT ![r] = @ \cup (m + 1 .. m + n)]
           /\ work' = [work EXCEPT ![c] = Of(cached[r], ks) \cup (m + 1 .. m + n)]
    BY DEF Get, Works
  <2>2. made' = made \o [x \in 1..n |-> [kind |-> order[m + x], settings |-> v, late |-> flag]]
    BY <1>c, <2>1, Zenon
  <2> QED  BY <2>1, <2>2
<1> HIDE DEF m, n
<1>3. \A i \in cached[r] : made[i].kind \notin missing
  OBVIOUS
<1>4. missing \subseteq Kinds /\ cached[r] \subseteq 1..m
  BY <1>0 DEF Made, m
<1> HIDE DEF missing
<1> DEFINE tail == [x \in 1..n |-> [kind |-> order[m + x], settings |-> v, late |-> flag]]
<1>5. tail \in Seq(Instances) /\ Len(tail) = n
  <2>1. ASSUME NEW x \in 1..n PROVE tail[x] \in Instances
    <3>1. m + x \in m + 1 .. m + n
      BY <1>1
    <3>2. order[m + x] \in Kinds /\ flag \in BOOLEAN /\ v \in 0..MaxApplies
      BY <1>0, <1>2, <1>4, <3>1
    <3> QED  BY <3>2 DEF Instances
  <2> QED  BY <1>1, <2>1
<1>a. made' = made \o tail
  BY <1>2
<1>6. /\ made' \in Seq(Instances) /\ Len(made') = m + n
      /\ \A i \in 1..m : made'[i] = made[i]
      /\ \A i \in m + 1 .. m + n : made'[i] = tail[i - m]
  <2> HIDE DEF tail
  <2>1. /\ made \o tail \in Seq(Instances) /\ Len(made \o tail) = m + n
        /\ \A i \in 1..m + n : (made \o tail)[i] = IF i <= m THEN made[i] ELSE tail[i - m]
    <3>1. made \in Seq(Instances) /\ tail \in Seq(Instances) /\ Len(made) = m /\ Len(tail) = n
      BY <1>0, <1>5 DEF m
    <3>2. /\ made \o tail \in Seq(Instances) /\ Len(made \o tail) = Len(made) + Len(tail)
          /\ \A i \in 1..Len(made) + Len(tail) :
               (made \o tail)[i] = IF i <= Len(made) THEN made[i] ELSE tail[i - Len(made)]
      BY <3>1, ConcatProperties
    <3>3. Len(made) + Len(tail) = m + n
      BY <3>1
    <3>4. ASSUME NEW i \in 1..m + n
          PROVE  (made \o tail)[i] = IF i <= m THEN made[i] ELSE tail[i - m]
      BY <3>1, <3>2, <3>3
    <3>5. made \o tail \in Seq(Instances) /\ Len(made \o tail) = m + n
      BY <3>2, <3>3
    <3> QED  BY <3>4, <3>5
  <2>2. /\ \A i \in 1..m : i \in 1..m + n /\ i <= m
        /\ \A i \in m + 1 .. m + n : i \in 1..m + n /\ ~(i <= m)
    BY <1>1
  <2>3. /\ \A i \in 1..m : (made \o tail)[i] = made[i]
        /\ \A i \in m + 1 .. m + n : (made \o tail)[i] = tail[i - m]
    BY <2>1, <2>2
  <2> QED  BY <1>a, <2>1, <2>3
<1>7. \A i \in m + 1 .. m + n : made'[i] = [kind |-> order[i], settings |-> v, late |-> flag]
  <2> SUFFICES ASSUME NEW i \in m + 1 .. m + n
               PROVE  made'[i] = [kind |-> order[i], settings |-> v, late |-> flag]
    OBVIOUS
  <2>1. i - m \in 1..n /\ m + (i - m) = i
    BY <1>1
  <2> QED  BY <1>6, <2>1
<1> HIDE DEF tail
<1>b. \A i \in m + 1 .. m + n :
         made'[i].kind = order[i] /\ (made'[i].settings = version \/ made'[i].late)
  <2> SUFFICES ASSUME NEW i \in m + 1 .. m + n
               PROVE  made'[i].kind = order[i] /\ (made'[i].settings = version \/ made'[i].late)
    OBVIOUS
  <2>1. made'[i] = [kind |-> order[i], settings |-> v, late |-> flag]
    BY <1>7
  <2>a. made'[i].kind = order[i] /\ made'[i].settings = v /\ made'[i].late = flag
    BY <2>1
  <2>3. v = version \/ v < version
    BY <1>0
  <2>4. v = version \/ flag = TRUE
    BY <1>c, <2>3
  <2> QED  BY <2>a, <2>4
<1>8. New = m + 1 .. m + n
  BY <1>6 DEF New, m
<1>9. \A i, j \in cached[r] \cup New : made'[i].kind = made'[j].kind => i = j
  <2> SUFFICES ASSUME NEW i \in cached[r] \cup New, NEW j \in cached[r] \cup New,
                      made'[i].kind = made'[j].kind
               PROVE  i = j
    OBVIOUS
  <2>1. \A x \in cached[r] : made'[x].kind = made[x].kind /\ made'[x].kind \notin missing
    BY <1>3, <1>4, <1>6
  <2>2. \A x \in New : made'[x].kind = order[x] /\ made'[x].kind \in missing
    BY <1>2, <1>b, <1>8
  <2>3. \A x, y \in New : order[x] = order[y] => x = y
    BY <1>2, <1>8
  <2>4. \A x, y \in cached[r] : made[x].kind = made[y].kind => x = y
    BY <1>0 DEF OfOneKindEach
  <2> QED  BY <2>1, <2>2, <2>3, <2>4
<1>10. \A i \in New : made'[i].settings = version \/ made'[i].late
  BY <1>b, <1>8
<1>11. /\ Of(cached[r], ks) \cup New \subseteq cached[r] \cup New
       /\ cached[r] \cup New \subseteq 1..Len(made')
  BY <1>1, <1>4, <1>6, <1>8 DEF Of
<1>12. /\ Len(made) <= Len(made') /\ \A i \in Made : made'[i] = made[i]
  BY <1>1, <1>6 DEF Made, m
<1> DEFINE w == Of(cached[r], ks) \cup New
<1>13. /\ w \subseteq 1..Len(made') /\ w \subseteq cached[r] \cup New
       /\ \A i, j \in w : made'[i].kind = made'[j].kind => i = j
  BY <1>9, <1>11
<1>14. work' = [work EXCEPT ![c] = w] /\ cached' = [cached EXCEPT ![r] = @ \cup New]
  BY <1>2, <1>8
<1> HIDE DEF w
<1> QED  BY <1>6, <1>9, <1>10, <1>12, <1>13, <1>14 DEF Grows

\* Nor does a call grow the registry that makes nothing.
LEMMA NoneGrows ==
    ASSUME RegInv, NEW c \in RegCalls, NEW r \in Registries, UNCHANGED <<made, cached>>,
           \/ work' = [work EXCEPT ![c] = {}]
           \/ UNCHANGED work,
           rcall'[c] # "list"
    PROVE  Grows(c, r)
<1>0. /\ made \in Seq(Instances) /\ cached \in [Registries -> SUBSET Made]
      /\ work \in [RegCalls -> SUBSET Made] /\ OfOneKindEach(cached[r]) /\ OfOneKindEach(work[c])
  BY DEF RegInv, RegTypeOK, Instances, WorkOfOneKind
<1>1. New = {} /\ Len(made) \in Nat
  BY <1>0 DEF New
<1>2. cached' = [cached EXCEPT ![r] = @ \cup New]
  BY <1>0, <1>1
<1>3. PICK w \in SUBSET Made : work' = [work EXCEPT ![c] = w] /\ OfOneKindEach(w)
  <2>1. CASE work' = [work EXCEPT ![c] = {}]
    <3>1. {} \in SUBSET Made /\ OfOneKindEach({})
      BY DEF OfOneKindEach
    <3> QED  BY <2>1, <3>1
  <2>2. CASE UNCHANGED work
    BY <2>2, <1>0
  <2> QED  BY <2>1, <2>2
<1>4. \A i, j \in w : made'[i].kind = made'[j].kind => i = j
  BY <1>3 DEF OfOneKindEach
<1>5. \A i, j \in cached[r] \cup New : made'[i].kind = made'[j].kind => i = j
  BY <1>0, <1>1 DEF OfOneKindEach
<1>6. w \subseteq 1..Len(made') /\ (rcall'[c] = "list" => w \subseteq cached[r] \cup New)
  BY <1>3 DEF Made
<1>7. /\ made' \in Seq(Instances) /\ Len(made) <= Len(made')
      /\ \A i \in Made : made'[i] = made[i]
      /\ \A i \in New : made'[i].settings = version \/ made'[i].late
  BY <1>0, <1>1
<1> QED  BY <1>2, <1>3, <1>4, <1>5, <1>6, <1>7 DEF Grows

\* A call that takes instances from a registry keeps the invariant.
LEMMA GrowKeeps ==
    ASSUME RegInv, NEW c \in RegCalls, NEW r \in Registries, r <= published, Grows(c, r),
           NEW closed \in SUBSET Made, NEW unclosed \in SUBSET Made,
           Opened(closed), Lost(r, unclosed),
           rcall[c] \notin {"cancel", "clear"},
           rcall[c] = "evict" => work[c] \subseteq closed \cup unclosed,
           NEW pc \in {"using", "list", "done"}, RegAt(c, pc),
           UNCHANGED <<version, published, failing, listed>>,
           NEW p \in {place[c], published}, place' = [place EXCEPT ![c] = p],
           pc = "list" => p = r,
           NEW v \in {readAs[c], version}, readAs' = [readAs EXCEPT ![c] = v],
           warming' \in {warming, {c}}
    PROVE  RegInv'
<1>a. /\ made \in Seq(Instances) /\ made' \in Seq(Instances) /\ Len(made) <= Len(made')
      /\ Len(made) \in Nat /\ Len(made') \in Nat
  <2>1. made \in Seq(Instances)
    BY DEF RegInv, RegTypeOK, Instances
  <2>2. made' \in Seq(Instances) /\ Len(made) <= Len(made')
    BY DEF Grows
  <2> QED  BY <2>1, <2>2
<1>0. /\ version \in 0..MaxApplies /\ published \in 0..MaxApplies /\ MaxApplies \in Nat
      /\ cached \in [Registries -> SUBSET Made] /\ listed \in [Registries -> SUBSET Made]
      /\ open \subseteq Made /\ lost \subseteq Made
      /\ work \in [RegCalls -> SUBSET Made] /\ place \in [RegCalls -> Registries]
      /\ readAs \in [RegCalls -> 0..MaxApplies] /\ failing \in [RegCalls -> BOOLEAN]
      /\ rcall \in [RegCalls -> {"idle", "read", "using", "evict", "list", "cancel", "clear", "done"}]
      /\ warming \in {{}} \cup {{d} : d \in RegCalls}
  BY RegistryAssumption DEF RegInv, RegTypeOK, Registries
<1>1. /\ Made = 1..Len(made) /\ Made' = 1..Len(made') /\ Made \subseteq Made'
      /\ New = Made' \ Made
      /\ \A i \in Made : made'[i] = made[i]
  BY <1>a DEF Made, New, Grows
<1>2. PICK w \in SUBSET Made' :
         /\ work' = [work EXCEPT ![c] = w]
         /\ \A i, j \in w : made'[i].kind = made'[j].kind => i = j
         /\ pc = "list" => w \subseteq cached[r] \cup New
  <2>1. rcall'[c] = pc
    BY <1>0 DEF RegAt
  <2>2. PICK w : /\ work' = [work EXCEPT ![c] = w]
                 /\ w \subseteq 1..Len(made')
                 /\ \A i, j \in w : made'[i].kind = made'[j].kind => i = j
                 /\ rcall'[c] = "list" => w \subseteq cached[r] \cup New
    BY DEF Grows
  <2> QED  BY <1>1, <2>1, <2>2
<1>3. /\ rcall' = [rcall EXCEPT ![c] = pc] /\ rcall'[c] = pc /\ work'[c] = w /\ place'[c] = p
      /\ \A d \in RegCalls \ {c} : rcall'[d] = rcall[d] /\ work'[d] = work[d] /\ place'[d] = place[d]
  BY <1>0, <1>2 DEF RegAt
<1>4. /\ cached' = [cached EXCEPT ![r] = @ \cup New] /\ cached'[r] = cached[r] \cup New
      /\ \A q \in Registries \ {r} : cached'[q] = cached[q]
  BY <1>0 DEF Grows
<1>5. /\ open' = (open \ closed) \cup New
      /\ lost \cup unclosed \subseteq lost'
      /\ lost' \subseteq lost \cup unclosed \cup New
      /\ Overlooked(r) => New \subseteq lost'
  BY DEF Opened, Lost
<1>6. Appliers' = Appliers /\ c \notin Appliers
  BY <1>3 DEF Appliers
<1>7. /\ \A q \in Registries : cached[q] \subseteq Made /\ listed[q] \subseteq Made
      /\ \A d \in RegCalls : work[d] \subseteq Made
  BY <1>0
<1>8. RegTypeOK'
  <2>1. ASSUME NEW q \in Registries PROVE OfOneKindEach(cached[q])' /\ OfOneKindEach(listed[q])'
    <3>1. OfOneKindEach(cached[q]) /\ OfOneKindEach(listed[q])
      BY DEF RegInv, RegTypeOK
    <3>2. OfOneKindEach(listed[q])'
      BY <1>1, <1>7, <3>1 DEF OfOneKindEach
    <3>3. CASE q = r
      BY <1>4, <3>2, <3>3 DEF OfOneKindEach, Grows
    <3>4. CASE q # r
      BY <1>1, <1>4, <1>7, <3>1, <3>2, <3>4 DEF OfOneKindEach
    <3> QED  BY <3>3, <3>4
  <2>2. cached' \in [Registries -> SUBSET Made']
    BY <1>0, <1>1, <1>4
  <2>3. listed' \in [Registries -> SUBSET Made']
    BY <1>0, <1>1
  <2>4. open' \subseteq Made' /\ lost' \subseteq Made'
    <3>1. open \subseteq Made' /\ lost \subseteq Made' /\ unclosed \subseteq Made' /\ New \subseteq Made'
      BY <1>0, <1>1
    <3> QED  BY <1>5, <3>1
  <2>5. work' \in [RegCalls -> SUBSET Made']
    BY <1>0, <1>1, <1>2
  <2>6. place' \in [RegCalls -> Registries] /\ readAs' \in [RegCalls -> 0..MaxApplies]
    BY <1>0 DEF Registries
  <2>7. rcall' \in [RegCalls -> {"idle", "read", "using", "evict", "list", "cancel", "clear", "done"}]
    BY <1>0, <1>3
  <2>8. warming' \in {{}} \cup {{d} : d \in RegCalls}
    BY <1>0
  <2> QED  BY <1>a, <1>0, <2>1, <2>2, <2>3, <2>4, <2>5, <2>6, <2>7, <2>8 DEF RegTypeOK, Registries, Instances
<1>9. NothingLeaked'
  <2> SUFFICES ASSUME NEW i \in open', i \notin cached'[published], i \notin lost'
               PROVE  \E d \in RegCalls : rcall'[d] \in {"evict", "clear"} /\ i \in work'[d]
    BY DEF NothingLeaked
  <2>1. i \notin New
    <3>1. CASE r = published
      BY <1>4, <3>1
    <3>2. CASE r # published
      BY <1>5, <3>2 DEF Overlooked
    <3> QED  BY <3>1, <3>2
  <2>2. i \in open /\ i \notin closed /\ i \notin unclosed /\ i \notin lost /\ i \notin cached[published]
    BY <1>0, <1>4, <1>5, <2>1 DEF Registries
  <2>3. PICK d \in RegCalls : rcall[d] \in {"evict", "clear"} /\ i \in work[d]
    BY <2>2 DEF RegInv, NothingLeaked
  <2>4. d # c
    BY <2>2, <2>3
  <2> QED  BY <1>3, <2>3, <2>4
<1>10. AppliesCounted' /\ LaterEmpty'
  <2>1. AppliesCounted'
    BY <1>6 DEF RegInv, AppliesCounted
  <2>2. \A q \in Registries : q > published => cached'[q] = {} /\ listed[q] = {}
    BY <1>0, <1>4 DEF RegInv, LaterEmpty, Registries
  <2> QED  BY <2>1, <2>2 DEF LaterEmpty
<1>11. CallsPlaced'
  BY <1>0, <1>3 DEF RegInv, CallsPlaced
<1>12. WorkOfOneKind'
  <2> SUFFICES ASSUME NEW d \in RegCalls PROVE OfOneKindEach(work[d])'
    BY DEF WorkOfOneKind
  <2>1. CASE d = c
    BY <1>2, <1>3, <2>1 DEF OfOneKindEach
  <2>2. CASE d # c
    BY <1>1, <1>3, <1>7, <2>2 DEF RegInv, WorkOfOneKind, OfOneKindEach
  <2> QED  BY <2>1, <2>2
<1>13. StaleOnlyWhileApplied'
  <2>1. \A d \in Appliers : d # c /\ place'[d] = place[d]
    BY <1>3, <1>6 DEF Appliers
  <2>2. CASE \E d \in Appliers : place[d] = published
    BY <1>6, <2>1, <2>2 DEF StaleOnlyWhileApplied
  <2>3. CASE Sound(cached[published])
    <3>1. \A i \in New : Fresh(i)' \/ Late(i)'
      BY DEF Grows, Fresh, Late
    <3>2. \A S \in SUBSET Made : Sound(S) => \A i \in S : Fresh(i)' \/ Late(i)'
      BY <1>1 DEF Sound, Fresh, Late
    <3>3. Sound(cached[published])'
      BY <1>0, <1>4, <1>7, <2>3, <3>1, <3>2 DEF Sound, Registries
    <3>4. CASE \E d \in RegCalls : failing[d]
      BY <3>3, <3>4 DEF StaleOnlyWhileApplied
    <3>5. CASE /\ Sound(listed[published])
               /\ \A d \in RegCalls : rcall[d] = "list" /\ place[d] = published => Sound(work[d])
      <4>1. Sound(listed[published])'
        BY <1>0, <1>7, <3>2, <3>5 DEF Sound, Registries
      <4>2. ASSUME NEW d \in RegCalls, rcall'[d] = "list", place'[d] = published
            PROVE  Sound(work[d])'
        <5>1. CASE d = c
          BY <1>2, <1>3, <1>4, <3>3, <4>2, <5>1 DEF Sound
        <5>2. CASE d # c
          BY <1>3, <1>7, <3>2, <3>5, <4>2, <5>2 DEF Sound
        <5> QED  BY <5>1, <5>2
      <4> QED  BY <3>3, <4>1, <4>2 DEF StaleOnlyWhileApplied
    <3> QED  BY <2>2, <3>4, <3>5 DEF RegInv, StaleOnlyWhileApplied
  <2> QED  BY <2>2, <2>3 DEF RegInv, StaleOnlyWhileApplied
<1>14. AppliersHold'
  <2>a. \A d \in Appliers : d # c /\ rcall'[d] = rcall[d] /\ place'[d] = place[d] /\ work'[d] = work[d]
    BY <1>3, <1>6 DEF Appliers
  <2> SUFFICES ASSUME NEW d \in Appliers
               PROVE  /\ rcall[d] = "clear" => open' \cap cached'[place[d]] \subseteq work[d] \cup lost'
                      /\ place[d] # published => open' \cap cached'[published] \subseteq lost'
    BY <1>6, <2>a DEF AppliersHold
  <2>0. d \in RegCalls /\ rcall[d] \in {"cancel", "clear"} /\ place[d] \in Registries /\ published \in Registries
    BY <1>0 DEF Appliers, Registries
  <2>1. rcall[d] = "clear" => Overlooked(r)
    BY <2>0 DEF Overlooked
  <2>2. place[d] # r => Overlooked(r)
    BY <2>0 DEF Overlooked
  <2>3. /\ rcall[d] = "clear" => open \cap cached[place[d]] \subseteq work[d] \cup lost
        /\ place[d] # published => open \cap cached[published] \subseteq lost
    BY DEF RegInv, AppliersHold
  <2>4. \A q \in Registries : open' \cap cached'[q] \subseteq (open \cap cached[q]) \cup New
    BY <1>1, <1>4, <1>5, <1>7
  <2>5. \A q \in Registries : q # r => open' \cap cached'[q] \subseteq open \cap cached[q]
    BY <1>1, <1>4, <1>5, <1>7
  <2>6. rcall[d] = "clear" => open' \cap cached'[place[d]] \subseteq work[d] \cup lost'
    BY <1>5, <2>0, <2>1, <2>3, <2>4
  <2>7. place[d] # published => open' \cap cached'[published] \subseteq lost'
    <3>1. CASE r = published
      BY <1>5, <2>0, <2>2, <2>3, <2>4, <3>1
    <3>2. CASE r # published
      BY <1>5, <2>0, <2>3, <2>5, <3>2
    <3> QED  BY <3>1, <3>2
  <2> QED  BY <2>6, <2>7
<1> QED  BY <1>8, <1>9, <1>10, <1>11, <1>12, <1>13, <1>14 DEF RegInv

\* Before the settings first change no apply is under way.
LEMMA NoApplyYet ==
    ASSUME RegInv, version = 0
    PROVE  published = 0 /\ Appliers = {}
<1>1. IsFiniteSet(Appliers) /\ Cardinality(Appliers) \in Nat
  BY RegistryAssumption, FS_Subset, FS_CardinalityType DEF Appliers
<1>2. published \in Nat /\ published + Cardinality(Appliers) <= 0
  BY RegistryAssumption DEF RegInv, RegTypeOK, AppliesCounted, Registries
<1>3. published = 0 /\ Cardinality(Appliers) = 0
  BY <1>1, <1>2
<1> QED  BY <1>1, <1>3, FS_EmptySet

\* The query of a provider's models grows the registry, or leaves it.
LEMMA QueryGrows ==
    ASSUME RegInv, NEW c \in RegCalls, NEW r \in Registries, NEW ks \in SUBSET Kinds,
           NEW v \in 0..version, Query(c, r, ks, v)
    PROVE  Grows(c, r) /\ \E pc \in {"list", "done"} : RegAt(c, pc)
<1>1. CASE Get(c, r, ks, v) /\ RegAt(c, "list")
  BY <1>1, GetGrows
<1>2. CASE RegAt(c, "done") /\ Works(c, {}) /\ UNCHANGED <<made, cached>>
  <2>1. rcall'[c] # "list"
    BY <1>2 DEF RegAt, RegInv, RegTypeOK
  <2> QED  BY <1>2, <2>1, NoneGrows DEF Works
<1> QED  BY <1>1, <1>2 DEF Query

\* A request resolves its provider by the settings it read.
LEMMA ResolveKeeps ==
    ASSUME RegInv, NEW c \in RegCalls, ResolveProvider(c) PROVE RegInv'
<1>0. /\ published \in Registries /\ published <= published /\ rcall[c] = "read"
      /\ readAs[c] \in 0..version /\ {} \in SUBSET Made
      /\ place' = [place EXCEPT ![c] = place[c]] /\ readAs' = [readAs EXCEPT ![c] = readAs[c]]
  BY RegistryAssumption DEF RegInv, RegTypeOK, CallsPlaced, ResolveProvider, Registries
<1>1. PICK pc \in {"using", "done"} : RegAt(c, pc) /\ Grows(c, published)
  <2>1. ASSUME NEW k \in Kinds, Get(c, published, {k}, readAs[c]), RegAt(c, "using")
        PROVE  Grows(c, published)
    BY <1>0, <2>1, GetGrows
  <2>2. CASE RegAt(c, "done") /\ UNCHANGED <<made, cached, work>>
    <3>1. rcall'[c] # "list"
      BY <2>2 DEF RegAt, RegInv, RegTypeOK
    <3> QED  BY <1>0, <2>2, <3>1, NoneGrows
  <2> QED  BY <2>1, <2>2 DEF ResolveProvider
<1>2. /\ Opened({}) /\ Lost(published, {}) /\ warming' = warming
      /\ UNCHANGED <<version, published, failing, listed>>
  BY DEF ResolveProvider, SameSettings
<1> QED  BY <1>0, <1>1, <1>2, GrowKeeps

\* A test goes on once the instance it evicted is cleaned up, or was not.
LEMMA EvictedKeeps ==
    ASSUME RegInv, NEW c \in RegCalls, NEW k \in Kinds, Evicted(c, k) PROVE RegInv'
<1>0. /\ place[c] \in Registries /\ place[c] <= published /\ rcall[c] = "evict"
      /\ readAs[c] \in 0..version /\ work[c] \in SUBSET Made
      /\ place' = [place EXCEPT ![c] = place[c]] /\ readAs' = [readAs EXCEPT ![c] = readAs[c]]
  BY RegistryAssumption DEF RegInv, RegTypeOK, CallsPlaced, Evicted, Registries
<1>1. PICK closed \in {work[c], {}} :
         /\ Query(c, place[c], {k}, readAs[c])
         /\ Opened(closed) /\ Lost(place[c], work[c] \ closed)
  BY DEF Evicted
<1>2. PICK pc \in {"list", "done"} : RegAt(c, pc) /\ Grows(c, place[c])
  BY <1>0, <1>1, QueryGrows
<1>3. /\ closed \in SUBSET Made /\ work[c] \ closed \in SUBSET Made
      /\ work[c] \subseteq closed \cup (work[c] \ closed)
  BY <1>0
<1>4. warming' = warming /\ UNCHANGED <<version, published, failing, listed>>
  BY DEF Evicted, SameSettings
<1> QED  BY <1>0, <1>1, <1>2, <1>3, <1>4, GrowKeeps

\* A test, or a refresh of the model lists, takes the published registry.
LEMMA ListsKeeps ==
    ASSUME RegInv, NEW c \in RegCalls, NEW ks \in SUBSET Kinds, Lists(c, ks) PROVE RegInv'
<1>0. /\ published \in Registries /\ published <= published /\ rcall[c] = "idle"
      /\ version \in 0..version /\ {} \in SUBSET Made
      /\ place' = [place EXCEPT ![c] = published] /\ readAs' = [readAs EXCEPT ![c] = version]
  BY RegistryAssumption DEF RegInv, RegTypeOK, Lists, Registries
<1>1. Query(c, published, ks, version) /\ Opened({}) /\ Lost(published, {})
  BY DEF Lists
<1>2. PICK pc \in {"list", "done"} : RegAt(c, pc) /\ Grows(c, published)
  BY <1>0, <1>1, QueryGrows
<1>3. warming' = warming /\ UNCHANGED <<version, published, failing, listed>>
  BY DEF Lists, SameSettings
<1> QED  BY <1>0, <1>1, <1>2, <1>3, GrowKeeps

\* What the start lists runs before any apply.
LEMMA StartKeeps ==
    ASSUME RegInv, NEW c \in RegCalls, StartRefresh(c) \/ ValidateConfigured(c) PROVE RegInv'
<1>0. /\ version = 0 /\ rcall[c] = "idle" /\ UNCHANGED <<lost, place, readAs>> /\ Opened({})
      /\ UNCHANGED <<version, published, failing, listed>> /\ warming' \in {warming, {c}}
      /\ \E ks \in SUBSET Kinds : Query(c, 0, ks, 0)
  BY DEF StartRefresh, ValidateConfigured, Starting, SameSettings
<1>1. published = 0 /\ Appliers = {} /\ 0 \in Registries /\ 0 \in 0..version
  BY <1>0, NoApplyYet, RegistryAssumption DEF Registries
<1>2. ~Overlooked(0)
  BY <1>1 DEF Overlooked, Appliers
<1>3. Lost(0, {})
  BY <1>0, <1>2 DEF Lost
<1>4. PICK pc \in {"list", "done"} : RegAt(c, pc) /\ Grows(c, 0)
  BY <1>0, <1>1, QueryGrows
<1>5. /\ place[c] = 0 /\ 0 <= published /\ {} \in SUBSET Made
      /\ place' = [place EXCEPT ![c] = place[c]] /\ readAs' = [readAs EXCEPT ![c] = readAs[c]]
  BY <1>0, <1>1 DEF RegInv, RegTypeOK, CallsPlaced
<1> QED  BY <1>0, <1>1, <1>3, <1>4, <1>5, GrowKeeps

\* A call that makes, closes and publishes nothing keeps the invariant.
LEMMA QuietKeeps ==
    ASSUME RegInv, NEW c \in RegCalls, rcall[c] \notin {"cancel", "clear", "evict"},
           UNCHANGED <<made, open, lost, version, published, failing, warming>>,
           NEW pc \in {"read", "evict", "done"}, RegAt(c, pc),
           NEW w \in SUBSET Made, OfOneKindEach(w), Works(c, w),
           cached' \in [Registries -> SUBSET Made], listed' \in [Registries -> SUBSET Made],
           \A q \in Registries : cached'[q] \subseteq cached[q] /\ OfOneKindEach(listed'[q]),
           cached[published] \subseteq cached'[published] \cup w,
           pc = "evict" \/ cached' = cached,
           \A q \in Registries : q > published => listed'[q] = {},
           \/ \E d \in Appliers : place[d] = published
           \/ \E d \in RegCalls : failing[d]
           \/ Sound(listed'[published]),
           NEW p \in {place[c], published}, place' = [place EXCEPT ![c] = p],
           NEW v \in {readAs[c], version}, readAs' = [readAs EXCEPT ![c] = v]
    PROVE  RegInv'
<1>0. /\ version \in 0..MaxApplies /\ published \in 0..MaxApplies /\ MaxApplies \in Nat
      /\ cached \in [Registries -> SUBSET Made] /\ work \in [RegCalls -> SUBSET Made]
      /\ place \in [RegCalls -> Registries] /\ readAs \in [RegCalls -> 0..MaxApplies]
      /\ rcall \in [RegCalls -> {"idle", "read", "using", "evict", "list", "cancel", "clear", "done"}]
  BY RegistryAssumption DEF RegInv, RegTypeOK, Registries
<1>1. Made' = Made /\ Registries = 0..MaxApplies
  BY DEF Made, Registries
<1>2. /\ rcall'[c] = pc /\ work'[c] = w /\ place'[c] = p
      /\ \A d \in RegCalls \ {c} : rcall'[d] = rcall[d] /\ work'[d] = work[d] /\ place'[d] = place[d]
  BY <1>0 DEF RegAt, Works
<1>3. Appliers' = Appliers /\ c \notin Appliers
  BY <1>2 DEF Appliers
<1>4. RegTypeOK'
  <2>1. \A q \in Registries : OfOneKindEach(cached[q])' /\ OfOneKindEach(listed[q])'
    BY DEF RegInv, RegTypeOK, OfOneKindEach
  <2>2. work' \in [RegCalls -> SUBSET Made']
    BY <1>0, <1>1 DEF Works
  <2>3. rcall' \in [RegCalls -> {"idle", "read", "using", "evict", "list", "cancel", "clear", "done"}]
    BY <1>0 DEF RegAt
  <2>4. place' \in [RegCalls -> Registries] /\ readAs' \in [RegCalls -> 0..MaxApplies]
    BY <1>0, <1>1
  <2> QED  BY <1>0, <1>1, <2>1, <2>2, <2>3, <2>4 DEF RegInv, RegTypeOK, Registries
<1>5. NothingLeaked'
  <2> SUFFICES ASSUME NEW i \in open, i \notin cached'[published], i \notin lost
               PROVE  \E d \in RegCalls : rcall'[d] \in {"evict", "clear"} /\ i \in work'[d]
    BY DEF NothingLeaked
  <2>1. CASE i \in cached[published]
    BY <1>2, <2>1
  <2>2. CASE i \notin cached[published]
    <3>1. PICK d \in RegCalls : rcall[d] \in {"evict", "clear"} /\ i \in work[d]
      BY <2>2 DEF RegInv, NothingLeaked
    <3> QED  BY <1>2, <3>1
  <2> QED  BY <2>1, <2>2
<1>6. AppliesCounted' /\ LaterEmpty'
  <2>1. AppliesCounted'
    BY <1>3 DEF RegInv, AppliesCounted
  <2>2. \A q \in Registries : q > published => cached'[q] = {}
    BY DEF RegInv, LaterEmpty
  <2> QED  BY <2>1, <2>2 DEF LaterEmpty
<1>7. CallsPlaced'
  BY <1>0, <1>1, <1>2 DEF RegInv, CallsPlaced
<1>8. WorkOfOneKind'
  BY <1>2 DEF RegInv, WorkOfOneKind, OfOneKindEach
<1>9. StaleOnlyWhileApplied'
  <2>1. CASE \E d \in Appliers : place[d] = published
    <3>1. \A d \in Appliers : place'[d] = place[d]
      BY <1>2, <1>3 DEF Appliers
    <3> QED  BY <1>3, <2>1, <3>1 DEF StaleOnlyWhileApplied
  <2>2. CASE ~ \E d \in Appliers : place[d] = published
    <3>1. Sound(cached[published])'
      BY <1>0, <1>1, <2>2 DEF RegInv, StaleOnlyWhileApplied, Sound, Fresh, Late
    <3>2. CASE \E d \in RegCalls : failing[d]
      BY <3>1, <3>2 DEF StaleOnlyWhileApplied
    <3>3. CASE ~ \E d \in RegCalls : failing[d]
      <4>1. Sound(listed[published])'
        BY <2>2, <3>3 DEF Sound, Fresh, Late
      <4>2. ASSUME NEW d \in RegCalls, rcall'[d] = "list", place'[d] = published
            PROVE  Sound(work[d])'
        <5>1. rcall[d] = "list" /\ place[d] = published /\ work'[d] = work[d]
          BY <1>2, <4>2
        <5>2. Sound(work[d])
          BY <2>2, <3>3, <5>1 DEF RegInv, StaleOnlyWhileApplied
        <5> QED  BY <5>1, <5>2 DEF Sound, Fresh, Late
      <4> QED  BY <3>1, <4>1, <4>2 DEF StaleOnlyWhileApplied
    <3> QED  BY <3>2, <3>3
  <2> QED  BY <2>1, <2>2
<1>10. AppliersHold'
  <2>1. ASSUME NEW d \in Appliers
        PROVE  /\ rcall[d] = "clear" => open \cap cached'[place[d]] \subseteq work[d] \cup lost
               /\ place[d] # published => open \cap cached'[published] \subseteq lost
    <3>1. place[d] \in Registries /\ published \in Registries
      BY <1>0, <1>1 DEF Appliers
    <3> QED  BY <3>1 DEF RegInv, AppliersHold
  <2>2. \A d \in Appliers : rcall'[d] = rcall[d] /\ place'[d] = place[d] /\ work'[d] = work[d]
    BY <1>2, <1>3 DEF Appliers
  <2> QED  BY <1>3, <2>1, <2>2 DEF AppliersHold
<1> QED  BY <1>4, <1>5, <1>6, <1>7, <1>8, <1>9, <1>10 DEF RegInv

\* A request reads its settings, and ends.
LEMMA ArrivesKeeps ==
    ASSUME RegInv, NEW c \in RegCalls, Arrives(c) \/ RequestEnds(c) PROVE RegInv'
<1>0. /\ published \in Registries
      /\ cached \in [Registries -> SUBSET Made] /\ listed \in [Registries -> SUBSET Made]
      /\ work \in [RegCalls -> SUBSET Made] /\ place \in [RegCalls -> Registries]
      /\ \A q \in Registries : OfOneKindEach(listed[q])
      /\ OfOneKindEach(work[c]) /\ OfOneKindEach({})
      /\ \A q \in Registries : q > published => listed[q] = {}
      /\ readAs \in [RegCalls -> 0..MaxApplies]
  BY DEF RegInv, RegTypeOK, WorkOfOneKind, LaterEmpty, OfOneKindEach
<1>1. \/ \E d \in Appliers : place[d] = published
      \/ \E d \in RegCalls : failing[d]
      \/ Sound(listed[published])
  BY DEF RegInv, StaleOnlyWhileApplied
<1>2. /\ UNCHANGED <<made, open, lost, version, published, failing, warming, cached, listed>>
      /\ place' = [place EXCEPT ![c] = place[c]] /\ rcall[c] \notin {"cancel", "clear", "evict"}
  BY <1>0 DEF Arrives, RequestEnds, SameSettings
<1>3. PICK pc \in {"read", "done"}, w \in {work[c], {}}, v \in {readAs[c], version} :
         RegAt(c, pc) /\ Works(c, w) /\ readAs' = [readAs EXCEPT ![c] = v]
  BY <1>0 DEF Arrives, RequestEnds, Works
<1> QED  BY <1>0, <1>1, <1>2, <1>3, QuietKeeps

\* The instance a test pops is the test's to clean up.
LEMMA EvictKeeps ==
    ASSUME RegInv, NEW c \in RegCalls, NEW k \in Kinds, Evict(c, k) PROVE RegInv'
<1> DEFINE w == Of(cached[published], {k})
<1>0. /\ published \in Registries
      /\ cached \in [Registries -> SUBSET Made] /\ listed \in [Registries -> SUBSET Made]
      /\ \A q \in Registries : OfOneKindEach(listed[q]) /\ OfOneKindEach(cached[q])
      /\ \A q \in Registries : q > published => listed[q] = {}
  BY DEF RegInv, RegTypeOK, LaterEmpty
<1>1. \/ \E d \in Appliers : place[d] = published
      \/ \E d \in RegCalls : failing[d]
      \/ Sound(listed[published])
  BY DEF RegInv, StaleOnlyWhileApplied
<1>2. w \subseteq cached[published] /\ w \in SUBSET Made /\ OfOneKindEach(w)
  BY <1>0 DEF Of, OfOneKindEach
<1>3. /\ UNCHANGED <<made, open, lost, version, published, failing, warming>>
      /\ place' = [place EXCEPT ![c] = published] /\ readAs' = [readAs EXCEPT ![c] = version]
      /\ rcall[c] \notin {"cancel", "clear", "evict"} /\ RegAt(c, "evict") /\ Works(c, w)
      /\ cached' = [cached EXCEPT ![published] = @ \ w]
      /\ listed' = [listed EXCEPT ![published] = @ \ Of(@, {k})]
  BY DEF Evict, SameSettings
<1> HIDE DEF w
<1>4. /\ cached' \in [Registries -> SUBSET Made]
      /\ \A q \in Registries : cached'[q] \subseteq cached[q]
      /\ cached[published] \subseteq cached'[published] \cup w
  BY <1>0, <1>3
<1>5. /\ listed' \in [Registries -> SUBSET Made]
      /\ \A q \in Registries : listed'[q] \subseteq listed[q]
  BY <1>0, <1>3
<1>6. /\ \A q \in Registries : OfOneKindEach(listed'[q])
      /\ \A q \in Registries : q > published => listed'[q] = {}
      /\ Sound(listed[published]) => Sound(listed'[published])
  BY <1>0, <1>5 DEF OfOneKindEach, Sound
<1> QED  BY <1>1, <1>2, <1>3, <1>4, <1>6, <1>5, QuietKeeps

\* The lists that were answered are of the instances of the call.
LEMMA ListedKeeps ==
    ASSUME RegInv, NEW c \in RegCalls, Listed(c) PROVE RegInv'
<1>0. /\ published \in Registries /\ place \in [RegCalls -> Registries] /\ place[c] <= published
      /\ cached \in [Registries -> SUBSET Made] /\ listed \in [Registries -> SUBSET Made]
      /\ work[c] \in SUBSET Made /\ OfOneKindEach(work[c]) /\ OfOneKindEach({})
      /\ readAs \in [RegCalls -> 0..MaxApplies]
      /\ \A q \in Registries : OfOneKindEach(listed[q])
      /\ \A q \in Registries : q > published => listed[q] = {}
  BY DEF RegInv, RegTypeOK, CallsPlaced, WorkOfOneKind, LaterEmpty, OfOneKindEach
<1>1. PICK is \in SUBSET (work[c] \cap open) :
         listed' = [listed EXCEPT ![place[c]] =
                        {i \in @ : \A j \in is : made[i].kind # made[j].kind} \cup is]
  BY DEF Listed
<1> DEFINE kept == {i \in listed[place[c]] : \A j \in is : made[i].kind # made[j].kind}
<1>2. /\ UNCHANGED <<made, open, lost, version, published, failing, warming, cached>>
      /\ place' = [place EXCEPT ![c] = place[c]] /\ readAs' = [readAs EXCEPT ![c] = readAs[c]]
      /\ rcall[c] = "list" /\ RegAt(c, "done") /\ Works(c, {})
  BY <1>0 DEF Listed, SameSettings
<1>3. /\ listed'[place[c]] = kept \cup is
      /\ \A q \in Registries : q # place[c] => listed'[q] = listed[q]
      /\ kept \subseteq listed[place[c]] /\ is \subseteq work[c] /\ place[c] \in Registries
  BY <1>0, <1>1
<1>4. OfOneKindEach(kept \cup is)
  <2> SUFFICES ASSUME NEW i \in kept \cup is, NEW j \in kept \cup is, made[i].kind = made[j].kind
               PROVE  i = j
    BY DEF OfOneKindEach
  <2> QED  BY <1>0, <1>3 DEF OfOneKindEach
<1> HIDE DEF kept
<1>5. listed' \in [Registries -> SUBSET Made] /\ \A q \in Registries : OfOneKindEach(listed'[q])
  <2>1. kept \cup is \in SUBSET Made
    BY <1>0, <1>3
  <2>2. listed' = [listed EXCEPT ![place[c]] = kept \cup is]
    BY <1>0, <1>1 DEF kept
  <2> QED  BY <1>0, <1>3, <1>4, <2>1, <2>2
<1>6. \A q \in Registries : q > published => listed'[q] = {}
  <2>1. \A q \in Registries : q > published => q # place[c]
    BY <1>0 DEF Registries
  <2> QED  BY <1>0, <1>3, <2>1
<1>7. \/ \E d \in Appliers : place[d] = published
      \/ \E d \in RegCalls : failing[d]
      \/ Sound(listed'[published])
  <2>1. CASE /\ Sound(listed[published])
             /\ \A d \in RegCalls : rcall[d] = "list" /\ place[d] = published => Sound(work[d])
    <3>1. CASE place[c] = published
      BY <1>2, <1>3, <2>1, <3>1 DEF Sound
    <3>2. CASE place[c] # published
      BY <1>0, <1>3, <2>1, <3>2
    <3> QED  BY <3>1, <3>2
  <2> QED  BY <2>1 DEF RegInv, StaleOnlyWhileApplied
<1> QED  BY <1>0, <1>2, <1>5, <1>6, <1>7, QuietKeeps

\* How an apply is counted: it comes with its settings, and ends.
Counted(c) ==
    \/ rcall[c] = "idle" /\ version < MaxApplies /\ version' = version + 1
    \/ c \in Appliers /\ version' = version

\* An apply that drops the instances of its registry keeps the invariant.
LEMMA ReplaceKeeps ==
    ASSUME RegInv, NEW c \in RegCalls, NEW r \in Registries, r <= published, NEW failed \in BOOLEAN,
           Replace(c, r, failed), Counted(c), place' = [place EXCEPT ![c] = r],
           UNCHANGED <<made, readAs, warming>>,
           open' \subseteq open, lost \subseteq lost', lost' \subseteq Made,
           open' \cap cached[published] \subseteq lost',
           rcall[c] = "clear" => open' \cap work[c] \subseteq lost',
           failed => c \in Appliers /\ r = place[c],
           failing' \in [RegCalls -> BOOLEAN], failed => failing'[c],
           \A d \in RegCalls : failing[d] => failing'[d]
    PROVE  RegInv'
<1>0. /\ version \in 0..MaxApplies /\ published \in 0..MaxApplies /\ MaxApplies \in Nat
      /\ cached \in [Registries -> SUBSET Made] /\ listed \in [Registries -> SUBSET Made]
      /\ open \subseteq Made /\ work \in [RegCalls -> SUBSET Made]
      /\ place \in [RegCalls -> Registries] /\ readAs \in [RegCalls -> 0..MaxApplies]
      /\ rcall \in [RegCalls -> {"idle", "read", "using", "evict", "list", "cancel", "clear", "done"}]
  BY RegistryAssumption DEF RegInv, RegTypeOK, Registries
<1>1. Made' = Made /\ Registries = 0..MaxApplies
  BY DEF Made, Registries
<1>2. /\ rcall'[c] = "done" /\ work'[c] = {} /\ place'[c] = r
      /\ \A d \in RegCalls \ {c} : rcall'[d] = rcall[d] /\ work'[d] = work[d] /\ place'[d] = place[d]
      /\ cached'[r] = {} /\ listed'[r] = {}
      /\ \A q \in Registries \ {r} : cached'[q] = cached[q] /\ listed'[q] = listed[q]
      /\ published' = IF failed THEN published ELSE published + 1
  BY <1>0 DEF Replace, RegAt, Works
<1>3. Appliers' = Appliers \ {c}
  BY <1>2 DEF Appliers
<1>4. published' + Cardinality(Appliers') <= version' /\ Cardinality(Appliers') \in Nat
  <2>1. /\ IsFiniteSet(Appliers) /\ Cardinality(Appliers) \in Nat
        /\ IsFiniteSet(Appliers') /\ Cardinality(Appliers') \in Nat
    BY <1>3, RegistryAssumption, FS_Subset, FS_CardinalityType DEF Appliers
  <2>2. published + Cardinality(Appliers) <= version
    BY DEF RegInv, AppliesCounted
  <2>3. CASE c \in Appliers
    <3>1. Cardinality(Appliers') = Cardinality(Appliers) - 1
      BY <1>3, <2>1, <2>3, FS_RemoveElement
    <3>2. version' = version
      BY <2>3 DEF Counted, Appliers
    <3> QED  BY <1>0, <1>2, <2>1, <2>2, <3>1, <3>2
  <2>4. CASE c \notin Appliers
    <3>1. Appliers' = Appliers /\ version' = version + 1 /\ failed = FALSE
      BY <1>3, <2>4 DEF Counted
    <3> QED  BY <1>0, <1>2, <2>1, <2>2, <3>1
  <2> QED  BY <2>3, <2>4
<1>5. version \in 0..version' /\ version' \in 0..MaxApplies /\ published' \in 0..MaxApplies
  <2>1. version \in 0..version' /\ version' \in 0..MaxApplies
    BY <1>0 DEF Counted
  <2> QED  BY <1>0, <1>2, <1>4, <2>1
<1>6. RegTypeOK'
  <2>1. ASSUME NEW q \in Registries PROVE OfOneKindEach(cached[q])' /\ OfOneKindEach(listed[q])'
    <3>1. OfOneKindEach(cached[q]) /\ OfOneKindEach(listed[q])
      BY DEF RegInv, RegTypeOK
    <3>2. CASE q = r
      BY <1>2, <3>2 DEF OfOneKindEach
    <3>3. CASE q # r
      BY <1>2, <3>1, <3>3 DEF OfOneKindEach
    <3> QED  BY <3>2, <3>3
  <2>2. cached' \in [Registries -> SUBSET Made'] /\ listed' \in [Registries -> SUBSET Made']
    BY <1>0, <1>1 DEF Replace
  <2>3. work' \in [RegCalls -> SUBSET Made']
    BY <1>0, <1>1 DEF Replace, Works
  <2>4. rcall' \in [RegCalls -> {"idle", "read", "using", "evict", "list", "cancel", "clear", "done"}]
    BY <1>0 DEF Replace, RegAt
  <2>5. place' \in [RegCalls -> Registries] /\ open' \subseteq Made' /\ lost' \subseteq Made'
    BY <1>0, <1>1
  <2> QED  BY <1>1, <1>5, <2>1, <2>2, <2>3, <2>4, <2>5 DEF RegInv, RegTypeOK, Registries
<1>7. NothingLeaked'
  <2> SUFFICES ASSUME NEW i \in open', i \notin lost'
               PROVE  \E d \in RegCalls : rcall'[d] \in {"evict", "clear"} /\ i \in work'[d]
    BY DEF NothingLeaked
  <2>1. i \in open /\ i \notin lost /\ i \notin cached[published]
    OBVIOUS
  <2>2. PICK d \in RegCalls : rcall[d] \in {"evict", "clear"} /\ i \in work[d]
    BY <2>1 DEF RegInv, NothingLeaked
  <2>3. d # c
    <3>1. rcall[c] # "evict"
      BY DEF Counted, Appliers
    <3> QED  BY <2>2, <3>1
  <2> QED  BY <1>2, <2>2, <2>3
<1>8. AppliesCounted' /\ LaterEmpty'
  <2>1. \A q \in Registries : q > published' => cached'[q] = {} /\ listed'[q] = {}
    <3>1. \A q \in Registries : q > published' => q > published
      BY <1>0, <1>1, <1>2
    <3> QED  BY <1>2, <3>1 DEF RegInv, LaterEmpty
  <2> QED  BY <1>4, <2>1 DEF AppliesCounted, LaterEmpty
<1>9. CallsPlaced'
  <2> SUFFICES ASSUME NEW d \in RegCalls
               PROVE  /\ place'[d] <= published' /\ readAs[d] <= version'
                      /\ rcall'[d] = "idle" => place'[d] = 0
    BY DEF CallsPlaced
  <2>1. place[d] <= published /\ readAs[d] <= version /\ (rcall[d] = "idle" => place[d] = 0)
    BY DEF RegInv, CallsPlaced
  <2>2. place[d] \in Nat /\ readAs[d] \in Nat /\ r \in Nat /\ published <= published'
    BY <1>0, <1>1, <1>2
  <2> QED  BY <1>0, <1>1, <1>2, <1>5, <2>1, <2>2
<1>10. WorkOfOneKind'
  BY <1>2 DEF RegInv, WorkOfOneKind, OfOneKindEach
<1>11. StaleOnlyWhileApplied'
  <2>1. CASE failed
    <3>1. \E d \in RegCalls : failing'[d]
      BY <2>1
    <3>2. version' = version /\ published' = published /\ r = place[c]
      BY <1>2, <2>1 DEF Counted, Appliers
    <3>3. CASE r = published
      <4>1. Sound(cached[published])'
        BY <1>2, <3>2, <3>3 DEF Sound
      <4> QED  BY <3>1, <4>1 DEF StaleOnlyWhileApplied
    <3>4. CASE r # published /\ \E d \in Appliers : place[d] = published
      <4>1. PICK d \in Appliers : place[d] = published
        BY <3>4
      <4>2. d \in Appliers' /\ place'[d] = published'
        BY <1>2, <1>3, <3>2, <3>4, <4>1 DEF Appliers
      <4> QED  BY <4>2 DEF StaleOnlyWhileApplied
    <3>5. CASE r # published /\ Sound(cached[published])
      <4>1. Sound(cached[published])'
        BY <1>0, <1>1, <1>2, <3>2, <3>5 DEF Sound, Fresh, Late
      <4> QED  BY <3>1, <4>1 DEF StaleOnlyWhileApplied
    <3> QED  BY <3>3, <3>4, <3>5 DEF RegInv, StaleOnlyWhileApplied
  <2>2. CASE ~failed
    <3>1. published' = published + 1 /\ published' \in Registries
      BY <1>1, <1>2, <1>5, <2>2
    <3>2. cached'[published'] = {} /\ listed'[published'] = {}
      <4>1. published' > published /\ published' # r
        BY <1>0, <1>1, <3>1
      <4>2. cached[published'] = {} /\ listed[published'] = {}
        BY <3>1, <4>1 DEF RegInv, LaterEmpty
      <4> QED  BY <1>2, <3>1, <4>1, <4>2
    <3>3. \A d \in RegCalls : place'[d] # published'
      <4>1. \A d \in RegCalls : place[d] <= published /\ place[d] \in Nat
        BY <1>0, <1>1 DEF RegInv, CallsPlaced
      <4> QED  BY <1>0, <1>1, <1>2, <3>1, <4>1
    <3> QED  BY <3>2, <3>3 DEF StaleOnlyWhileApplied, Sound
  <2> QED  BY <2>1, <2>2
<1>12. AppliersHold'
  <2>a. \A d \in Appliers' :
          d \in Appliers /\ d # c /\ rcall'[d] = rcall[d] /\ place'[d] = place[d] /\ work'[d] = work[d]
    BY <1>2, <1>3 DEF Appliers
  <2>1. ASSUME NEW d \in Appliers, d # c
        PROVE  /\ rcall[d] = "clear" => open' \cap cached'[place[d]] \subseteq work[d] \cup lost'
               /\ place[d] # published' => open' \cap cached'[published'] \subseteq lost'
    <3>1. place[d] \in Registries /\ place[d] <= published
      BY <1>0 DEF Appliers, RegInv, CallsPlaced
    <3>2. \A q \in Registries : cached'[q] \subseteq cached[q]
      BY <1>2
    <3>3. rcall[d] = "clear" => open' \cap cached'[place[d]] \subseteq work[d] \cup lost'
      BY <3>1, <3>2 DEF RegInv, AppliersHold
    <3>4. CASE failed
      <4>1. published' = published /\ published \in Registries
        BY <1>0, <1>1, <1>2, <3>4
      <4> QED  BY <3>2, <3>3, <4>1
    <3>5. CASE ~failed
      <4>1. published' \in Registries /\ published' > published
        BY <1>0, <1>1, <1>2, <1>5, <3>5
      <4>2. cached'[published'] = {}
        BY <3>2, <4>1 DEF RegInv, LaterEmpty
      <4> QED  BY <3>3, <4>2
    <3> QED  BY <3>4, <3>5
  <2> QED  BY <2>a, <2>1 DEF AppliersHold
<1> QED  BY <1>6, <1>7, <1>8, <1>9, <1>10, <1>11, <1>12 DEF RegInv

\* An apply that goes on keeps the invariant.
LEMMA ApplyGoesOn ==
    ASSUME RegInv, NEW c \in RegCalls, NEW r \in Registries, r <= published,
           Counted(c), r = IF rcall[c] = "idle" THEN published ELSE place[c],
           place' = [place EXCEPT ![c] = r],
           UNCHANGED <<made, cached, listed, published, readAs, warming>>,
           rcall'[c] \in {"cancel", "clear"}, work'[c] \in SUBSET Made, OfOneKindEach(work'[c]),
           rcall' \in [RegCalls -> {"idle", "read", "using", "evict", "list", "cancel", "clear", "done"}],
           work' \in [RegCalls -> SUBSET Made],
           \A d \in RegCalls \ {c} : \/ rcall'[d] = rcall[d] /\ work'[d] = work[d]
                                     \/ rcall[d] = "list" /\ rcall'[d] = "done" /\ work'[d] = {},
           open' \subseteq open, lost \subseteq lost', lost' \subseteq Made,
           rcall[c] = "clear" => rcall'[c] = "clear" /\ open' \cap work[c] \subseteq work'[c] \cup lost',
           rcall'[c] = "clear" => open' \cap cached[r] \subseteq work'[c] \cup lost',
           r # published => open \cap cached[published] \subseteq lost,
           failing' \in [RegCalls -> BOOLEAN], \A d \in RegCalls : failing[d] => failing'[d]
    PROVE  RegInv'
<1>0. /\ version \in 0..MaxApplies /\ published \in 0..MaxApplies /\ MaxApplies \in Nat
      /\ cached \in [Registries -> SUBSET Made]
      /\ open \subseteq Made /\ work \in [RegCalls -> SUBSET Made]
      /\ place \in [RegCalls -> Registries] /\ readAs \in [RegCalls -> 0..MaxApplies]
  BY RegistryAssumption DEF RegInv, RegTypeOK, Registries
<1>1. Made' = Made /\ Registries = 0..MaxApplies
  BY DEF Made, Registries
<1>2. place'[c] = r /\ \A d \in RegCalls \ {c} : place'[d] = place[d]
  BY <1>0
<1>3. Appliers' = Appliers \cup {c}
  BY DEF Appliers
<1>4. AppliesCounted'
  <2>1. IsFiniteSet(Appliers) /\ Cardinality(Appliers) \in Nat
    BY RegistryAssumption, FS_Subset, FS_CardinalityType DEF Appliers
  <2>2. published + Cardinality(Appliers) <= version
    BY DEF RegInv, AppliesCounted
  <2>3. CASE c \in Appliers
    <3>1. Appliers' = Appliers /\ version' = version
      BY <1>3, <2>3 DEF Counted, Appliers
    <3> QED  BY <2>2, <3>1 DEF AppliesCounted
  <2>4. CASE c \notin Appliers
    <3>1. Cardinality(Appliers') = Cardinality(Appliers) + 1
      BY <1>3, <2>1, <2>4, FS_AddElement
    <3>2. version' = version + 1
      BY <2>4 DEF Counted
    <3> QED  BY <1>0, <2>1, <2>2, <3>1, <3>2 DEF AppliesCounted
  <2> QED  BY <2>3, <2>4
<1>5. version \in 0..version' /\ version' \in 0..MaxApplies
  BY <1>0 DEF Counted
<1>6. RegTypeOK'
  <2>1. \A q \in Registries : OfOneKindEach(cached[q])' /\ OfOneKindEach(listed[q])'
    BY DEF RegInv, RegTypeOK, OfOneKindEach
  <2>2. place' \in [RegCalls -> Registries] /\ open' \subseteq Made'
    BY <1>0, <1>1
  <2> QED  BY <1>1, <1>5, <2>1, <2>2 DEF RegInv, RegTypeOK, Registries
<1>7. NothingLeaked'
  <2> SUFFICES ASSUME NEW i \in open', i \notin lost', i \notin cached[published]
               PROVE  \E d \in RegCalls : rcall'[d] \in {"evict", "clear"} /\ i \in work'[d]
    BY DEF NothingLeaked
  <2>1. PICK d \in RegCalls : rcall[d] \in {"evict", "clear"} /\ i \in work[d]
    BY DEF RegInv, NothingLeaked
  <2>2. CASE d = c
    <3>1. rcall[c] # "evict"
      BY DEF Counted, Appliers
    <3> QED  BY <2>1, <2>2, <3>1
  <2>3. CASE d # c
    BY <2>1, <2>3
  <2> QED  BY <2>2, <2>3
<1>8. LaterEmpty'
  BY DEF RegInv, LaterEmpty
<1>9. CallsPlaced'
  <2> SUFFICES ASSUME NEW d \in RegCalls
               PROVE  /\ place'[d] <= published /\ readAs[d] <= version'
                      /\ rcall'[d] = "idle" => place'[d] = 0
    BY DEF CallsPlaced
  <2>1. place[d] <= published /\ readAs[d] <= version /\ (rcall[d] = "idle" => place[d] = 0)
    BY DEF RegInv, CallsPlaced
  <2>2. readAs[d] \in Nat /\ readAs[d] <= version'
    BY <1>0, <1>5, <2>1
  <2> QED  BY <1>2, <2>1, <2>2
<1>10. WorkOfOneKind'
  BY DEF RegInv, WorkOfOneKind, OfOneKindEach
<1>11. StaleOnlyWhileApplied'
  <2>1. CASE rcall[c] = "idle"
    BY <1>2, <1>3, <2>1 DEF StaleOnlyWhileApplied
  <2>2. CASE rcall[c] # "idle"
    <3>1. version' = version /\ c \in Appliers /\ Appliers' = Appliers
      BY <1>3, <2>2 DEF Counted
    <3>2. CASE \E d \in Appliers : place[d] = published
      <4>1. PICK d \in Appliers : place[d] = published
        BY <3>2
      <4>2. CASE d # c
        BY <1>2, <3>1, <4>1, <4>2 DEF StaleOnlyWhileApplied, Appliers
      <4>3. CASE d = c
        BY <1>2, <2>2, <3>1, <4>1, <4>3 DEF StaleOnlyWhileApplied
      <4> QED  BY <4>1, <4>2, <4>3
    <3>3. CASE Sound(cached[published]) /\ \E d \in RegCalls : failing[d]
      <4>1. Sound(cached[published])'
        BY <3>1, <3>3 DEF Sound, Fresh, Late
      <4> QED  BY <3>3, <4>1 DEF StaleOnlyWhileApplied
    <3>4. CASE /\ Sound(cached[published]) /\ Sound(listed[published])
               /\ \A d \in RegCalls : rcall[d] = "list" /\ place[d] = published => Sound(work[d])
      <4>1. Sound(cached[published])' /\ Sound(listed[published])'
        BY <3>1, <3>4 DEF Sound, Fresh, Late
      <4>2. ASSUME NEW d \in RegCalls, rcall'[d] = "list", place'[d] = published
            PROVE  Sound(work[d])'
        <5>1. d # c /\ rcall[d] = "list" /\ place[d] = published /\ work'[d] = work[d]
          BY <1>2, <4>2
        <5> QED  BY <3>1, <3>4, <5>1 DEF Sound, Fresh, Late
      <4> QED  BY <4>1, <4>2 DEF StaleOnlyWhileApplied
    <3> QED  BY <3>2, <3>3, <3>4 DEF RegInv, StaleOnlyWhileApplied
  <2> QED  BY <2>1, <2>2
<1>12. AppliersHold'
  <2>a. ASSUME NEW d \in Appliers, d # c
        PROVE  rcall'[d] = rcall[d] /\ place'[d] = place[d] /\ work'[d] = work[d]
    BY <1>2, <2>a DEF Appliers
  <2>1. ASSUME NEW d \in Appliers, d # c
        PROVE  /\ rcall[d] = "clear" => open' \cap cached[place[d]] \subseteq work[d] \cup lost'
               /\ place[d] # published => open' \cap cached[published] \subseteq lost'
    BY DEF RegInv, AppliersHold
  <2> QED  BY <1>2, <1>3, <2>a, <2>1 DEF AppliersHold
<1> QED  BY <1>4, <1>6, <1>7, <1>8, <1>9, <1>10, <1>11, <1>12 DEF RegInv

\* An apply begins: it cancels the refresh, cleans up, or replaces at once.
LEMMA SettingsApplyKeeps ==
    ASSUME RegInv, NEW c \in RegCalls, Apply(c) PROVE RegInv'
<1>0. /\ published \in Registries /\ published <= published /\ rcall[c] = "idle"
      /\ cached \in [Registries -> SUBSET Made] /\ lost \subseteq Made
      /\ work \in [RegCalls -> SUBSET Made] /\ failing \in [RegCalls -> BOOLEAN]
      /\ OfOneKindEach(cached[published]) /\ OfOneKindEach(work[c])
      /\ rcall \in [RegCalls -> {"idle", "read", "using", "evict", "list", "cancel", "clear", "done"}]
  BY RegistryAssumption DEF RegInv, RegTypeOK, WorkOfOneKind, Apply, Registries
<1>1. /\ Counted(c) /\ place' = [place EXCEPT ![c] = published]
      /\ UNCHANGED <<made, open, readAs, failing, warming, lost>>
  BY <1>0 DEF Apply, Counted
<1>2. CASE Refreshing = {} /\ cached[published] = {}
  <2>1. Replace(c, published, FALSE)
    BY <1>2 DEF Apply, BeginCleanUp
  <2>2. open' \cap cached[published] \subseteq lost' /\ FALSE \in BOOLEAN
    BY <1>2
  <2> QED  BY <1>0, <1>1, <2>1, <2>2, ReplaceKeeps
<1>3. CASE Refreshing = {} /\ cached[published] # {}
  <2>1. /\ rcall' = [rcall EXCEPT ![c] = "clear"] /\ work' = [work EXCEPT ![c] = cached[published]]
        /\ UNCHANGED <<cached, listed, published>>
    BY <1>3 DEF Apply, BeginCleanUp, RegAt, Works
  <2>2. /\ rcall'[c] = "clear" /\ work'[c] = cached[published] /\ cached[published] \in SUBSET Made
        /\ \A d \in RegCalls \ {c} : rcall'[d] = rcall[d] /\ work'[d] = work[d]
        /\ rcall' \in [RegCalls -> {"idle", "read", "using", "evict", "list", "cancel", "clear", "done"}]
        /\ work' \in [RegCalls -> SUBSET Made]
    BY <1>0, <2>1
  <2>3. open' \cap cached[published] \subseteq work'[c] \cup lost' /\ open' \subseteq open
    BY <1>1, <2>2
  <2> QED  BY <1>0, <1>1, <2>1, <2>2, <2>3, ApplyGoesOn
<1>4. CASE Refreshing # {}
  <2>1. /\ rcall' = [d \in RegCalls |-> IF d \in Refreshing THEN "done"
                                        ELSE IF d = c THEN "cancel" ELSE rcall[d]]
        /\ work' = [d \in RegCalls |-> IF d \in Refreshing THEN {} ELSE work[d]]
        /\ UNCHANGED <<cached, listed, published>>
    BY <1>4 DEF Apply
  <2>2. c \notin Refreshing /\ \A d \in Refreshing : rcall[d] = "list"
    BY <1>0 DEF Refreshing
  <2>3. /\ rcall'[c] = "cancel" /\ work'[c] = work[c] /\ work[c] \in SUBSET Made
        /\ \A d \in RegCalls \ {c} : \/ rcall'[d] = rcall[d] /\ work'[d] = work[d]
                                     \/ rcall[d] = "list" /\ rcall'[d] = "done" /\ work'[d] = {}
        /\ rcall' \in [RegCalls -> {"idle", "read", "using", "evict", "list", "cancel", "clear", "done"}]
        /\ work' \in [RegCalls -> SUBSET Made]
    BY <1>0, <2>1, <2>2
  <2> QED  BY <1>0, <1>1, <2>1, <2>3, ApplyGoesOn
<1> QED  BY <1>2, <1>3, <1>4

\* The refresh is over and the clean-up begins.
LEMMA CancelledKeeps ==
    ASSUME RegInv, NEW c \in RegCalls, RefreshCancelled(c) PROVE RegInv'
<1>0. /\ place[c] \in Registries /\ place[c] <= published /\ rcall[c] = "cancel"
      /\ cached \in [Registries -> SUBSET Made] /\ lost \subseteq Made
      /\ work \in [RegCalls -> SUBSET Made] /\ failing \in [RegCalls -> BOOLEAN]
      /\ OfOneKindEach(cached[place[c]]) /\ place \in [RegCalls -> Registries]
      /\ rcall \in [RegCalls -> {"idle", "read", "using", "evict", "list", "cancel", "clear", "done"}]
  BY DEF RegInv, RegTypeOK, CallsPlaced, RefreshCancelled
<1>1. /\ Counted(c) /\ c \in Appliers /\ place' = [place EXCEPT ![c] = place[c]]
      /\ UNCHANGED <<made, open, readAs, failing, warming, lost>>
  BY <1>0 DEF RefreshCancelled, Counted, Appliers
<1>2. place[c] # published => open \cap cached[published] \subseteq lost
  BY <1>1 DEF RegInv, AppliersHold
<1>3. CASE cached[place[c]] = {}
  <2>1. Replace(c, place[c], FALSE)
    BY <1>3 DEF RefreshCancelled, BeginCleanUp
  <2>2. open' \cap cached[published] \subseteq lost' /\ FALSE \in BOOLEAN
    BY <1>1, <1>2, <1>3
  <2> QED  BY <1>0, <1>1, <2>1, <2>2, ReplaceKeeps
<1>4. CASE cached[place[c]] # {}
  <2>1. /\ rcall' = [rcall EXCEPT ![c] = "clear"] /\ work' = [work EXCEPT ![c] = cached[place[c]]]
        /\ UNCHANGED <<cached, listed, published>>
    BY <1>4 DEF RefreshCancelled, BeginCleanUp, RegAt, Works
  <2>2. /\ rcall'[c] = "clear" /\ work'[c] = cached[place[c]] /\ cached[place[c]] \in SUBSET Made
        /\ \A d \in RegCalls \ {c} : rcall'[d] = rcall[d] /\ work'[d] = work[d]
        /\ rcall' \in [RegCalls -> {"idle", "read", "using", "evict", "list", "cancel", "clear", "done"}]
        /\ work' \in [RegCalls -> SUBSET Made]
    BY <1>0, <2>1
  <2>3. open' \cap cached[place[c]] \subseteq work'[c] \cup lost' /\ open' \subseteq open
    BY <1>1, <2>2
  <2> QED  BY <1>0, <1>1, <1>2, <2>1, <2>2, <2>3, ApplyGoesOn
<1> QED  BY <1>3, <1>4

\* One instance is cleaned up, or fails to be.
LEMMA CleanUpKeeps ==
    ASSUME RegInv, NEW c \in RegCalls, NEW i \in Made, CleanUp(c, i) PROVE RegInv'
<1>0. /\ place[c] \in Registries /\ place[c] <= published /\ rcall[c] = "clear" /\ i \in work[c]
      /\ lost \subseteq Made /\ work[c] \subseteq Made /\ OfOneKindEach(work[c])
      /\ work \in [RegCalls -> SUBSET Made] /\ failing \in [RegCalls -> BOOLEAN]
      /\ place \in [RegCalls -> Registries]
      /\ rcall \in [RegCalls -> {"idle", "read", "using", "evict", "list", "cancel", "clear", "done"}]
  BY DEF RegInv, RegTypeOK, CallsPlaced, WorkOfOneKind, CleanUp
<1>1. /\ Counted(c) /\ c \in Appliers /\ place' = [place EXCEPT ![c] = place[c]]
      /\ UNCHANGED <<made, readAs, warming>>
  BY <1>0 DEF CleanUp, Counted, Appliers
<1>2. PICK error \in BOOLEAN :
         /\ open' = IF error THEN open ELSE open \ {i}
         /\ lost' = IF error THEN lost \cup {i} ELSE lost
         /\ failing' = [failing EXCEPT ![c] = @ \/ error]
  BY DEF CleanUp
<1>3. /\ open' \subseteq open /\ lost \subseteq lost' /\ lost' \subseteq Made
      /\ i \in open' => i \in lost'
  BY <1>0, <1>2
<1>4. failing' \in [RegCalls -> BOOLEAN] /\ \A d \in RegCalls : failing[d] => failing'[d]
  <2>1. (failing[c] \/ error) \in BOOLEAN
    BY Zenon
  <2>2. PICK f \in BOOLEAN : failing' = [failing EXCEPT ![c] = f] /\ (failing[c] => f)
    BY <1>0, <1>2, <2>1, Zenon
  <2> QED  BY <1>0, <2>2
<1>5. /\ open \cap cached[place[c]] \subseteq work[c] \cup lost
      /\ place[c] # published => open \cap cached[published] \subseteq lost
  BY <1>0, <1>1 DEF RegInv, AppliersHold
<1>6. CASE work[c] = {i}
  <2>1. Replace(c, place[c], failing'[c]) /\ failing'[c] \in BOOLEAN
    BY <1>4, <1>6 DEF CleanUp
  <2>2. open' \cap work[c] \subseteq lost' /\ open' \cap cached[published] \subseteq lost'
    BY <1>3, <1>5, <1>6
  <2>3. PICK failed \in BOOLEAN : failed = failing'[c]
    BY <2>1
  <2>4. Replace(c, place[c], failed) /\ (failed => failing'[c])
    BY <2>1, <2>3
  <2> QED  BY <1>0, <1>1, <1>3, <1>4, <2>2, <2>4, ReplaceKeeps
<1>7. CASE work[c] # {i}
  <2>1. work' = [work EXCEPT ![c] = work[c] \ {i}] /\ UNCHANGED <<cached, listed, published, rcall>>
    BY <1>7 DEF CleanUp, Works
  <2>2. /\ work'[c] = work[c] \ {i} /\ work'[c] \in SUBSET Made /\ OfOneKindEach(work'[c])
        /\ \A d \in RegCalls \ {c} : rcall'[d] = rcall[d] /\ work'[d] = work[d]
        /\ work' \in [RegCalls -> SUBSET Made]
    BY <1>0, <2>1 DEF OfOneKindEach
  <2>3. /\ open' \cap work[c] \subseteq work'[c] \cup lost'
        /\ open' \cap cached[place[c]] \subseteq work'[c] \cup lost'
    BY <1>3, <1>5, <2>2
  <2> QED  BY <1>0, <1>1, <1>3, <1>4, <1>5, <2>1, <2>2, <2>3, ApplyGoesOn
<1> QED  BY <1>6, <1>7

\* There is one registry, and it is empty.
LEMMA RegStarts == RegInit => RegInv
<1> SUFFICES ASSUME RegInit PROVE RegInv
  OBVIOUS
<1>1. Made = {} /\ Len(made) = 0 /\ Appliers = {} /\ 0 \in Registries /\ MaxApplies \in Nat
  BY RegistryAssumption DEF RegInit, Made, Appliers, Registries
<1>2. RegTypeOK
  BY <1>1 DEF RegInit, RegTypeOK, OfOneKindEach, Registries
<1>3. AppliesCounted
  BY <1>1, FS_EmptySet DEF RegInit, AppliesCounted
<1>4. NothingLeaked /\ CallsPlaced /\ LaterEmpty /\ WorkOfOneKind /\ StaleOnlyWhileApplied /\ AppliersHold
  BY <1>1 DEF RegInit, NothingLeaked, CallsPlaced, LaterEmpty, WorkOfOneKind, OfOneKindEach,
              StaleOnlyWhileApplied, Sound, AppliersHold, Registries
<1> QED  BY <1>2, <1>3, <1>4 DEF RegInv

\* However requests, tests, refreshes and applies of the settings overlap: once
\* an apply has ended the published registry serves providers of the settings of
\* now, and no connection that nobody will close is left open.
THEOREM RegistryIsKept == RegInit /\ [][RegNext]_regVars => []RegistryKept
<1>1. RegInv /\ [RegNext]_regVars => RegInv'
  <2> SUFFICES ASSUME RegInv, [RegNext]_regVars PROVE RegInv'
    OBVIOUS
  <2>1. CASE UNCHANGED regVars
    BY <2>1 DEF regVars, RegInv, RegTypeOK, NothingLeaked, AppliesCounted, CallsPlaced, LaterEmpty,
                WorkOfOneKind, StaleOnlyWhileApplied, AppliersHold, Appliers, OfOneKindEach, Sound,
                Fresh, Late, Made
  <2>2. CASE RegNext
    <3>1. PICK c \in RegCalls :
             \/ Arrives(c) \/ ResolveProvider(c) \/ RequestEnds(c) \/ Listed(c) \/ Apply(c)
             \/ StartRefresh(c) \/ ValidateConfigured(c) \/ RefreshCancelled(c)
             \/ \E k \in Kinds : Evict(c, k) \/ Evicted(c, k)
             \/ \E ks \in (SUBSET Kinds) \ {{}} : Lists(c, ks)
             \/ \E i \in Made : CleanUp(c, i)
      BY <2>2 DEF RegNext
    <3> QED  BY <3>1, ArrivesKeeps, ResolveKeeps, ListedKeeps, SettingsApplyKeeps, StartKeeps,
                CancelledKeeps, EvictKeeps, EvictedKeeps, ListsKeeps, CleanUpKeeps
  <2> QED  BY <2>1, <2>2
<1>2. RegInv => RegistryKept
  <2> SUFFICES ASSUME RegInv PROVE FreshRegistry
    BY DEF RegInv, RegistryKept
  <2>1. Applying \/ ~ \E c \in Appliers : place[c] = published
    BY DEF Applying, Appliers
  <2> QED  BY <2>1 DEF RegInv, StaleOnlyWhileApplied, FreshRegistry, Sound
<1> QED  BY <1>1, <1>2, RegStarts, PTL

-----------------------------------------------------------------------------
(* Custom modules.                                                         *)

\* The hooks that ran are those of the first modules, in order; those that
\* shut down are the last of them, in the reverse order.
HooksInOrder ==
    /\ stage = "load" =>
         /\ file \in 1..Modules + 1 /\ Len(loadedMods) < file
         /\ hooksRun = <<>> /\ hooksDown = <<>>
    /\ stage # "load" => Len(loadedMods) <= Modules
    /\ stage = "starting" =>
         /\ file \in 1..Len(loadedMods) + 1 /\ Len(hooksRun) = file - 1
         /\ \A i \in 1..Len(hooksRun) : hooksRun[i] = loadedMods[i]
         /\ hooksDown = <<>>
    /\ stage \in {"up", "down"} =>
         /\ Len(hooksRun) = Len(loadedMods)
         /\ \A i \in 1..Len(hooksRun) : hooksRun[i] = loadedMods[i]
    /\ stage = "up" => hooksDown = <<>>
    /\ stage = "down" => /\ file \in 0..Len(loadedMods)
                         /\ file > 0 => Len(hooksDown) = Len(loadedMods) - file
    /\ Len(hooksDown) <= Len(hooksRun)
    /\ \A i \in 1..Len(hooksDown) : hooksDown[i] = hooksRun[Len(hooksRun) + 1 - i]

ModInv == ModuleTypeOK /\ CatalogAgrees /\ PlatformKept /\ HooksInOrder

\* A prefix of the reverse is the reverse of a suffix.
LEMMA MirrorFacts ==
    ASSUME NEW S, NEW s \in Seq(S), NEW t \in Seq(S), Len(t) <= Len(s),
           \A i \in 1..Len(t) : t[i] = s[Len(s) + 1 - i]
    PROVE  \E n \in 0..Len(s) : t = SubSeq(Reverse(s), 1, n)
<1>1. Len(s) \in Nat /\ Len(t) \in Nat
  OBVIOUS
<1>2. /\ Reverse(s) \in Seq(S) /\ Len(Reverse(s)) = Len(s)
      /\ \A i \in 1..Len(s) : Reverse(s)[i] = s[Len(s) + 1 - i]
  <2>1. \A i \in 1..Len(s) : (Len(s) - i) + 1 \in 1..Len(s) /\ (Len(s) - i) + 1 = Len(s) + 1 - i
    BY <1>1
  <2>2. Reverse(s) \in [1..Len(s) -> S]
    BY <2>1 DEF Reverse
  <2>3. Reverse(s) \in Seq(S) /\ Len(Reverse(s)) = Len(s)
    BY <1>1, <2>2
  <2> QED  BY <2>1, <2>3 DEF Reverse
<1> DEFINE r == Reverse(s)
<1> HIDE DEF r
<1>3. SubSeq(r, 1, Len(t)) = t
  <2>1. r \in Seq(S) /\ Len(r) = Len(s) /\ \A i \in 1..Len(s) : r[i] = s[Len(s) + 1 - i]
    BY <1>2 DEF r
  <2>2. SubSeq(r, 1, Len(t)) \in Seq(S) /\ Len(SubSeq(r, 1, Len(t))) = Len(t)
    BY <1>1, <2>1
  <2>3. \A i \in 1..Len(t) : SubSeq(r, 1, Len(t))[i] = t[i]
    BY <1>1, <2>1
  <2> QED  BY <2>2, <2>3
<1>4. Len(t) \in 0..Len(s) /\ t = SubSeq(Reverse(s), 1, Len(t))
  BY <1>1, <1>3 DEF r
<1> QED  BY <1>4

\* Adding to a table of declarations.
LEMMA AddFacts ==
    ASSUME NEW table, NEW names, NEW m
    PROVE  /\ DOMAIN Add(table, names, m) = DOMAIN table \cup names
           /\ \A k \in names : Add(table, names, m)[k] = m
           /\ \A k \in DOMAIN table \ names : Add(table, names, m)[k] = table[k]
           /\ Range(Add(table, names, m)) \subseteq Range(table) \cup {m}
BY DEF Add, Range

\* A module finds its providers free, and takes the platforms that are free.
LEMMA LoadModuleKeeps ==
    ASSUME ModInv, LoadModule PROVE ModInv'
<1>0. /\ ModuleTypeOK /\ CatalogAgrees /\ PlatformKept /\ HooksInOrder
      /\ file \in Nat /\ Modules \in Nat /\ loadedMods \in Seq(ModuleIds)
  BY ModuleAssumption DEF ModInv, ModuleTypeOK
<1>1. PICK desc \in SUBSET AnyKind, fact \in SUBSET AnyKind : RegisterProviders(file, desc, fact)
  BY DEF LoadModule
<1>2. PICK names \in SUBSET Platforms : RegisterPlatforms(file, names)
  BY DEF LoadModule
<1>3. /\ stage = "load" /\ file <= Modules /\ file' = file + 1
      /\ loadedMods' = Append(loadedMods, file)
      /\ counter' \in {counter, file} /\ handlers' \in {handlers, Append(handlers, file)}
      /\ UNCHANGED <<stage, hooksRun, hooksDown>>
  BY DEF LoadModule
<1>4. file \in ModuleIds /\ file \in Owners /\ file # Builtin
  BY <1>0, <1>3 DEF HooksInOrder, ModuleIds, Owners, Builtin
<1> DEFINE ids == Accepted(desc, fact)
           free == Registrable(names)
<1>5. /\ ids \cap desc = ids /\ ids \cap fact = ids /\ ids \subseteq AnyKind
      /\ ids \cap DOMAIN catalog = {}
  BY DEF Accepted
<1>6. free \subseteq Platforms /\ free \cap DOMAIN platforms = {}
  BY DEF Registrable
<1> HIDE DEF ids, free
<1>7. /\ catalog' = Add(catalog, ids, file) /\ factories' = Add(factories, ids, file)
      /\ supported' = [k \in AnyKind |-> IF k \in ids /\ supported[k] = 0 THEN 1 ELSE supported[k]]
  BY <1>1, <1>5 DEF RegisterProviders, ids
<1>8. /\ platforms' = Add(platforms, free, file)
      /\ registeredP' = registeredP \cup [name : free, by : {file}]
  BY <1>2 DEF RegisterPlatforms, free
<1>9. /\ DOMAIN catalog' = DOMAIN catalog \cup ids
      /\ DOMAIN catalog' \subseteq AnyKind /\ Range(catalog') \subseteq Owners
  <2>1. /\ DOMAIN Add(catalog, ids, file) = DOMAIN catalog \cup ids
        /\ Range(Add(catalog, ids, file)) \subseteq Range(catalog) \cup {file}
    BY AddFacts
  <2>2. DOMAIN catalog \subseteq AnyKind /\ Range(catalog) \subseteq Owners
    BY <1>0 DEF ModuleTypeOK
  <2> QED  BY <1>4, <1>5, <1>7, <2>1, <2>2
<1>10. /\ DOMAIN platforms' = DOMAIN platforms \cup free
       /\ \A p \in free : platforms'[p] = file
       /\ \A p \in DOMAIN platforms \ free : platforms'[p] = platforms[p]
       /\ DOMAIN platforms' \subseteq Platforms /\ Range(platforms') \subseteq Owners
  <2>1. /\ DOMAIN Add(platforms, free, file) = DOMAIN platforms \cup free
        /\ \A p \in free : Add(platforms, free, file)[p] = file
        /\ \A p \in DOMAIN platforms \ free : Add(platforms, free, file)[p] = platforms[p]
        /\ Range(Add(platforms, free, file)) \subseteq Range(platforms) \cup {file}
    BY AddFacts
  <2>2. DOMAIN platforms \subseteq Platforms /\ Range(platforms) \subseteq Owners
    BY <1>0 DEF ModuleTypeOK
  <2> QED  BY <1>4, <1>6, <1>8, <2>1, <2>2
<1>11. catalog' = factories'
  BY <1>0, <1>7 DEF CatalogAgrees
<1>12. \A r \in registeredP' : \/ r \in registeredP
                               \/ r.name \in free /\ r.by = file /\ r = [name |-> r.name, by |-> file]
  BY <1>8
<1>a. ModuleTypeOK'
  <2>1. handlers' \in Seq(ModuleIds) /\ loadedMods' \in Seq(ModuleIds)
    <3>1. handlers \in Seq(ModuleIds) /\ Append(handlers, file) \in Seq(ModuleIds)
      BY <1>0, <1>4 DEF ModuleTypeOK
    <3>2. Append(loadedMods, file) \in Seq(ModuleIds)
      BY <1>0, <1>4
    <3> QED  BY <1>3, <3>1, <3>2
  <2>2. supported' \in [AnyKind -> Nat]
    BY <1>0, <1>7 DEF ModuleTypeOK
  <2>3. registeredP' \subseteq [name : Platforms, by : ModuleIds]
    BY <1>0, <1>4, <1>6, <1>8 DEF ModuleTypeOK
  <2>4. counter' \in Owners /\ file' \in 0..Modules + 1
    BY <1>0, <1>3, <1>4 DEF ModuleTypeOK
  <2> QED  BY <1>0, <1>3, <1>9, <1>10, <1>11, <2>1, <2>2, <2>3, <2>4 DEF ModuleTypeOK
<1>b. CatalogAgrees'
  BY <1>0, <1>5, <1>7, <1>9, <1>11 DEF CatalogAgrees
<1>c. PlatformKept'
  <2> SUFFICES ASSUME NEW r \in registeredP'
               PROVE  /\ r.name \in DOMAIN platforms'
                      /\ \A q \in registeredP' : q.name = r.name => q = r
                      /\ platforms'[r.name] = r.by
                         \/ (r.name = BuiltinPlatform /\ platforms'[r.name] = Builtin)
    BY DEF PlatformKept
  <2>1. \A q \in registeredP : q.name \in DOMAIN platforms /\ q.name \notin free
    BY <1>0, <1>6 DEF PlatformKept
  <2>2. CASE r \in registeredP
    BY <2>1, <2>2, <1>0, <1>10, <1>12 DEF PlatformKept
  <2>3. CASE r.name \in free /\ r.by = file /\ r = [name |-> r.name, by |-> file]
    <3>1. \A q \in registeredP' : q.name = r.name => q = r
      BY <2>1, <2>3, <1>12
    <3> QED  BY <2>3, <3>1, <1>10
  <2> QED  BY <2>2, <2>3, <1>12
<1>d. HooksInOrder'
  <2>1. Len(loadedMods') = Len(loadedMods) + 1 /\ Len(loadedMods) \in Nat
    BY <1>0, <1>3, <1>4
  <2> QED  BY <1>0, <1>3, <2>1 DEF HooksInOrder
<1> QED  BY <1>a, <1>b, <1>c, <1>d DEF ModInv

\* The hooks, the built-in platforms, and the end.
LEMMA HooksKeep ==
    ASSUME ModInv,
           \/ LoadFails \/ StartHooks \/ StartupHook \/ Started \/ BuiltinPlatforms
           \/ Shutdown \/ ShutdownHook \/ ShutdownTimeout
    PROVE  ModInv'
<1>0. /\ ModuleTypeOK /\ CatalogAgrees /\ PlatformKept /\ HooksInOrder
      /\ file \in Nat /\ Modules \in Nat /\ loadedMods \in Seq(ModuleIds) /\ Len(loadedMods) \in Nat
      /\ hooksRun \in Seq(ModuleIds) /\ hooksDown \in Seq(ModuleIds)
      /\ Len(hooksRun) \in Nat /\ Len(hooksDown) \in Nat
  BY ModuleAssumption DEF ModInv, ModuleTypeOK
<1>1. /\ UNCHANGED <<catalog, factories, supported, counter, handlers, registeredP, loadedMods>>
      /\ platforms' = platforms \/ BuiltinPlatforms
  BY DEF LoadFails, StartHooks, StartupHook, Started, BuiltinPlatforms, Shutdown, ShutdownHook,
         ShutdownTimeout, Tables
<1>2. DOMAIN platforms' \subseteq Platforms /\ Range(platforms') \subseteq Owners /\ PlatformKept'
  <2>1. CASE platforms' = platforms
    BY <1>0, <1>1, <2>1 DEF ModuleTypeOK, PlatformKept
  <2>2. CASE BuiltinPlatforms
    <3>1. platforms' = Add(platforms, {BuiltinPlatform}, Builtin)
      BY <2>2 DEF BuiltinPlatforms
    <3>2. /\ DOMAIN platforms' = DOMAIN platforms \cup {BuiltinPlatform}
          /\ platforms'[BuiltinPlatform] = Builtin
          /\ \A p \in DOMAIN platforms \ {BuiltinPlatform} : platforms'[p] = platforms[p]
          /\ DOMAIN platforms' \subseteq Platforms /\ Range(platforms') \subseteq Owners
      <4> DEFINE names == {BuiltinPlatform}
      <4>1. /\ DOMAIN Add(platforms, names, Builtin) = DOMAIN platforms \cup names
            /\ \A p \in names : Add(platforms, names, Builtin)[p] = Builtin
            /\ \A p \in DOMAIN platforms \ names : Add(platforms, names, Builtin)[p] = platforms[p]
            /\ Range(Add(platforms, names, Builtin)) \subseteq Range(platforms) \cup {Builtin}
        BY AddFacts
      <4>2. DOMAIN platforms \subseteq Platforms /\ Range(platforms) \subseteq Owners /\ Builtin \in Owners
        BY <1>0 DEF ModuleTypeOK, Owners
      <4> QED  BY <3>1, <4>1, <4>2, ModuleAssumption
    <3> QED  BY <1>0, <1>1, <3>2 DEF PlatformKept
  <2> QED  BY <1>1, <2>1, <2>2
<1>3. CatalogAgrees'
  BY <1>0, <1>1 DEF CatalogAgrees
<1>4. /\ stage' \in {"load", "starting", "up", "down", "reset"} /\ file' \in 0..Modules + 1
      /\ hooksRun' \in Seq(ModuleIds) /\ hooksDown' \in Seq(ModuleIds) /\ HooksInOrder'
  <2>1. CASE LoadFails \/ StartHooks \/ Started \/ BuiltinPlatforms \/ Shutdown \/ ShutdownTimeout
    <3>1. CASE LoadFails \/ StartHooks
      BY <3>1, <1>0 DEF LoadFails, StartHooks, ModuleTypeOK, HooksInOrder, Tables
    <3>2. CASE Started \/ BuiltinPlatforms
      BY <3>2, <1>0 DEF Started, BuiltinPlatforms, ModuleTypeOK, HooksInOrder, Tables
    <3>3. CASE Shutdown \/ ShutdownTimeout
      BY SMTT(30), <3>3, <1>0 DEF Shutdown, ShutdownTimeout, ModuleTypeOK, HooksInOrder, Tables
    <3> QED  BY <2>1, <3>1, <3>2, <3>3
  <2>2. CASE StartupHook
    <3>1. /\ stage = "starting" /\ file <= Len(loadedMods) /\ file' = file + 1 /\ stage' = stage
          /\ hooksRun' = Append(hooksRun, loadedMods[file]) /\ hooksDown' = hooksDown
          /\ file \in 1..Len(loadedMods)
      BY <2>2, <1>0 DEF StartupHook, HooksInOrder
    <3>2. loadedMods[file] \in ModuleIds
      BY <1>0, <3>1
    <3>3. /\ hooksRun' \in Seq(ModuleIds) /\ Len(hooksRun') = Len(hooksRun) + 1
          /\ hooksRun'[Len(hooksRun) + 1] = loadedMods[file]
          /\ \A i \in 1..Len(hooksRun) : hooksRun'[i] = hooksRun[i]
      BY <1>0, <3>1, <3>2
    <3>4. HooksInOrder'
      BY <1>0, <1>1, <3>1, <3>3 DEF HooksInOrder
    <3> QED  BY <1>0, <3>1, <3>3, <3>4 DEF ModuleTypeOK, HooksInOrder
  <2>3. CASE ShutdownHook
    <3>1. /\ stage = "down" /\ file > 0 /\ file' = file - 1 /\ stage' = stage
          /\ hooksDown' = Append(hooksDown, loadedMods[file]) /\ hooksRun' = hooksRun
          /\ file \in 1..Len(loadedMods) /\ Len(hooksDown) = Len(loadedMods) - file
          /\ Len(hooksRun) = Len(loadedMods) /\ hooksRun[file] = loadedMods[file]
      BY <2>3, <1>0 DEF ShutdownHook, HooksInOrder
    <3>2. loadedMods[file] \in ModuleIds
      BY <1>0, <3>1
    <3>3. /\ hooksDown' \in Seq(ModuleIds) /\ Len(hooksDown') = Len(hooksDown) + 1
          /\ hooksDown'[Len(hooksDown) + 1] = hooksRun[Len(hooksRun) + 1 - (Len(hooksDown) + 1)]
          /\ \A i \in 1..Len(hooksDown) : hooksDown'[i] = hooksDown[i]
      BY <1>0, <3>1, <3>2
    <3>4. HooksInOrder'
      BY <1>0, <1>1, <3>1, <3>3 DEF HooksInOrder
    <3> QED  BY <1>0, <3>1, <3>3, <3>4 DEF ModuleTypeOK, HooksInOrder
  <2> QED  BY <2>1, <2>2, <2>3
<1>5. ModuleTypeOK'
  BY <1>0, <1>1, <1>2, <1>4 DEF ModuleTypeOK
<1> QED  BY <1>2, <1>3, <1>4, <1>5 DEF ModInv

\* What the modules registered is taken back.
LEMMA ResetKeeps ==
    ASSUME ModInv, Reset PROVE ModInv'
<1>0. /\ ModuleTypeOK /\ CatalogAgrees /\ HooksInOrder
  BY DEF ModInv
<1> DEFINE mine == {k \in DOMAIN catalog : catalog[k] # Builtin}
           out == {r.name : r \in registeredP}
<1>1. /\ stage' = "reset" /\ catalog' = [k \in DOMAIN catalog \ mine |-> catalog[k]]
      /\ factories' = [k \in DOMAIN factories \ mine |-> factories[k]]
      /\ supported' = [k \in AnyKind |-> IF k \in mine /\ supported[k] > 0
                                         THEN supported[k] - 1 ELSE supported[k]]
      /\ counter' = Builtin /\ handlers' = <<>> /\ loadedMods' = <<>>
      /\ platforms' = [p \in DOMAIN platforms \ out |-> platforms[p]]
      /\ registeredP' = {} /\ UNCHANGED <<file, hooksRun, hooksDown>>
  BY DEF Reset
<1>2. mine \subseteq DOMAIN catalog
  OBVIOUS
<1> HIDE DEF mine, out
<1>3. /\ DOMAIN catalog' \subseteq AnyKind /\ Range(catalog') \subseteq Owners /\ catalog' = factories'
      /\ DOMAIN platforms' \subseteq Platforms /\ Range(platforms') \subseteq Owners
      /\ DOMAIN catalog' = DOMAIN catalog \ mine
  BY <1>0, <1>1 DEF ModuleTypeOK, CatalogAgrees, Range
<1>4. supported' \in [AnyKind -> Nat] /\ CatalogAgrees'
  BY <1>0, <1>1, <1>2, <1>3 DEF ModuleTypeOK, CatalogAgrees
<1>5. ModuleTypeOK'
  <2>1. handlers' \in Seq(ModuleIds) /\ loadedMods' \in Seq(ModuleIds)
    BY <1>1
  <2>2. /\ counter' \in Owners /\ registeredP' \subseteq [name : Platforms, by : ModuleIds]
        /\ stage' \in {"load", "starting", "up", "down", "reset"}
    BY <1>1 DEF Owners
  <2> QED  BY <1>0, <1>1, <1>3, <1>4, <2>1, <2>2 DEF ModuleTypeOK
<1>6. PlatformKept'
  BY <1>1 DEF PlatformKept
<1>7. HooksInOrder'
  BY <1>0, <1>1, ModuleAssumption DEF HooksInOrder
<1> QED  BY <1>4, <1>5, <1>6, <1>7 DEF ModInv

\* The server comes with one provider.
LEMMA ModStarts == ModuleInit => ModInv
<1> SUFFICES ASSUME ModuleInit PROVE ModInv
  OBVIOUS
<1>1. /\ stage = "load" /\ file = 1 /\ loadedMods = <<>> /\ handlers = <<>> /\ hooksRun = <<>>
      /\ hooksDown = <<>> /\ counter = Builtin /\ registeredP = {} /\ platforms = <<>>
      /\ catalog = [k \in {BuiltinKind} |-> Builtin] /\ factories = catalog
      /\ supported = [k \in AnyKind |-> IF k = BuiltinKind THEN 1 ELSE 0]
  BY DEF ModuleInit, Owned
<1>2. ModuleTypeOK
  <2>1. DOMAIN platforms = {}
    BY <1>1
  <2>2. DOMAIN platforms \subseteq Platforms /\ Range(platforms) \subseteq Owners
    BY <2>1 DEF Range
  <2>3. DOMAIN catalog \subseteq AnyKind /\ Range(catalog) \subseteq Owners
    BY <1>1 DEF Range, AnyKind, Owners
  <2> QED  BY <1>1, <2>2, <2>3, ModuleAssumption DEF ModuleTypeOK, Owners
<1>3. CatalogAgrees /\ PlatformKept
  BY <1>1 DEF CatalogAgrees, PlatformKept
<1>4. HooksInOrder
  BY <1>1, ModuleAssumption DEF HooksInOrder
<1> QED  BY <1>2, <1>3, <1>4 DEF ModInv

\* What the modules registered stays theirs: providers with both halves,
\* platforms under the first who took their names, and hooks that are shut
\* down in the reverse of the order in which they started.
THEOREM ModulesAreKept == ModuleInit /\ [][ModuleNext]_modVars => []ModulesKept
<1>1. ModInv /\ [ModuleNext]_modVars => ModInv'
  <2> SUFFICES ASSUME ModInv, [ModuleNext]_modVars PROVE ModInv'
    OBVIOUS
  <2>1. CASE UNCHANGED modVars
    BY <2>1 DEF modVars, ModInv, ModuleTypeOK, CatalogAgrees, PlatformKept, HooksInOrder
  <2> QED  BY <2>1, LoadModuleKeeps, HooksKeep, ResetKeeps DEF ModuleNext
<1>2. ModInv => ModulesKept
  <2> SUFFICES ASSUME ModInv PROVE HooksMirrored
    BY DEF ModInv, ModulesKept
  <2>1. /\ hooksRun \in Seq(ModuleIds) /\ hooksDown \in Seq(ModuleIds)
        /\ Len(hooksDown) <= Len(hooksRun)
        /\ \A i \in 1..Len(hooksDown) : hooksDown[i] = hooksRun[Len(hooksRun) + 1 - i]
    BY DEF ModInv, ModuleTypeOK, HooksInOrder
  <2> QED  BY <2>1, MirrorFacts DEF HooksMirrored
<1> QED  BY <1>1, <1>2, ModStarts, PTL

-----------------------------------------------------------------------------
(* The file of the MCP router.                                             *)

McInv ==
    /\ McpKept
    /\ \A l \in McpLists : DOMAIN given[l] = DOMAIN mcpFile[l]
    /\ Masked \notin Range(ofModules)

\* The tables are functions from some of the names.
LEMMA TableFacts ==
    /\ \A t \in McpTables : DOMAIN t \subseteq Names /\ \A n \in DOMAIN t : t[n] \in Stored
    /\ \A t \in Remotes : DOMAIN t \subseteq Names /\ \A n \in DOMAIN t : t[n] \in Secrets \cup {Blank}
    /\ \A S \in SUBSET Names : [S -> Stored] \subseteq McpTables
<1>1. ASSUME NEW t \in McpTables
      PROVE  DOMAIN t \subseteq Names /\ \A n \in DOMAIN t : t[n] \in Stored
  <2>1. PICK S \in SUBSET Names : t \in [S -> Stored]
    BY DEF McpTables
  <2> QED  BY <2>1
<1>2. ASSUME NEW t \in Remotes
      PROVE  DOMAIN t \subseteq Names /\ \A n \in DOMAIN t : t[n] \in Secrets \cup {Blank}
  <2>1. PICK S \in SUBSET Names : t \in [S -> Secrets \cup {Blank}]
    BY DEF Remotes
  <2> QED  BY <2>1
<1>3. \A S \in SUBSET Names : [S -> Stored] \subseteq McpTables
  BY DEF McpTables
<1> QED  BY <1>1, <1>2, <1>3

\* What a table is shown as.
LEMMA ShownFacts ==
    ASSUME NEW t \in McpTables PROVE MaskServers(t) \in McpTables
<1>1. DOMAIN t \in SUBSET Names /\ MaskServers(t) \in [DOMAIN t -> Stored]
  BY TableFacts DEF MaskServers, Stored
<1> QED  BY <1>1, TableFacts

\* A table of some of the names.
IsTable(t) == DOMAIN t \subseteq Names /\ \A n \in DOMAIN t : t[n] \in Stored

\* Of two tables the servers of the first win.
LEMMA MergeFacts ==
    ASSUME NEW t, NEW u, IsTable(t), IsTable(u)
    PROVE  /\ Merged(t, u) \in McpTables /\ DOMAIN Merged(t, u) = DOMAIN t \cup DOMAIN u
           /\ \A n \in DOMAIN t \cup DOMAIN u : Merged(t, u)[n] = IF n \in DOMAIN t THEN t[n] ELSE u[n]
<1>1. Merged(t, u) = [n \in DOMAIN t \cup DOMAIN u |-> IF n \in DOMAIN t THEN t[n] ELSE u[n]]
  BY DEF Merged
<1>2. DOMAIN t \cup DOMAIN u \in SUBSET Names /\ Merged(t, u) \in [DOMAIN t \cup DOMAIN u -> Stored]
  BY <1>1 DEF IsTable
<1>3. Merged(t, u) \in McpTables
  BY <1>2, TableFacts
<1> QED  BY <1>1, <1>3

\* A page is opened.
LEMMA OpenKeeps ==
    ASSUME McInv, NEW p \in Pages, Open(p) PROVE McInv'
<1>1. /\ McTypeOK /\ mcpFile \in [McpLists -> McpTables] /\ ofModules \in McpTables
      /\ UNCHANGED <<mcpFile, ofModules, given, blanked>>
  BY DEF McInv, McpKept, McTypeOK, Open
<1> DEFINE page == [l \in McpLists |-> MaskServers(
               IF l = "servers" THEN Merged(mcpFile[l], ofModules) ELSE mcpFile[l])]
<1>2. ASSUME NEW l \in McpLists
      PROVE  MaskServers(IF l = "servers" THEN Merged(mcpFile[l], ofModules) ELSE mcpFile[l]) \in McpTables
  <2>1. mcpFile[l] \in McpTables
    BY <1>1
  <2>2. Merged(mcpFile[l], ofModules) \in McpTables
    BY <1>1, <2>1, TableFacts, MergeFacts DEF IsTable
  <2> QED  BY <2>1, <2>2, ShownFacts
<1>3. page \in [McpLists -> McpTables]
  BY <1>2
<1>4. shown' = [shown EXCEPT ![p] = page]
  BY DEF Open
<1> HIDE DEF page
<1>5. shown' \in [Pages -> {<<>>} \cup [McpLists -> McpTables]]
  BY <1>1, <1>3, <1>4 DEF McTypeOK
<1> QED  BY <1>1, <1>5 DEF McInv, McpKept, McTypeOK, McMaskNeverStored, SecretsAreGiven

\* A page is applied: a mask stands for what the file has under that name.
LEMMA ApplyKeeps ==
    ASSUME McInv, NEW p \in Pages, ApplyPage(p) PROVE McInv'
<1>0. /\ McTypeOK /\ McMaskNeverStored /\ SecretsAreGiven
      /\ mcpFile \in [McpLists -> McpTables] /\ given \in [McpLists -> McpTables]
      /\ \A l \in McpLists : DOMAIN given[l] = DOMAIN mcpFile[l]
      /\ UNCHANGED <<ofModules, shown>>
  BY DEF McInv, McpKept, McTypeOK, ApplyPage
<1> DEFINE Sees(new, l, n) == IF new[l][n] # Masked THEN new[l][n]
                              ELSE IF n \in DOMAIN given[l] THEN given[l][n] ELSE Blank
<1>1. PICK new \in [McpLists -> McpTables] :
         /\ mcpFile' = [l \in McpLists |-> Resolved(l, new[l])]
         /\ given' = [l \in McpLists |-> [n \in DOMAIN new[l] |-> Sees(new, l, n)]]
         /\ blanked' = {x \in McpLists \X Names :
                           /\ x[2] \in DOMAIN new[x[1]] /\ new[x[1]][x[2]] = Masked
                           /\ x \in blanked \/ x[2] \notin DOMAIN mcpFile[x[1]]}
  <2>1. PICK a \in McpTables, b \in McpTables :
           LET new == [l \in McpLists |-> IF l = "servers" THEN a ELSE b] IN
           /\ mcpFile' = [l \in McpLists |-> Resolved(l, new[l])]
           /\ given' = [l \in McpLists |-> [n \in DOMAIN new[l] |-> Sees(new, l, n)]]
           /\ blanked' = {x \in McpLists \X Names :
                             /\ x[2] \in DOMAIN new[x[1]] /\ new[x[1]][x[2]] = Masked
                             /\ x \in blanked \/ x[2] \notin DOMAIN mcpFile[x[1]]}
    BY Zenon DEF ApplyPage, Sent
  <2> DEFINE new == [l \in McpLists |-> IF l = "servers" THEN a ELSE b]
  <2>2. new \in [McpLists -> McpTables]
    OBVIOUS
  <2> QED  BY <2>1, <2>2
<1>2. ASSUME NEW l \in McpLists
      PROVE  /\ DOMAIN mcpFile'[l] = DOMAIN new[l] /\ DOMAIN given'[l] = DOMAIN new[l]
             /\ \A n \in DOMAIN new[l] :
                  /\ given'[l][n] = Sees(new, l, n)
                  /\ mcpFile'[l][n] = IF new[l][n] # Masked THEN new[l][n]
                                      ELSE IF n \in DOMAIN mcpFile[l] THEN mcpFile[l][n] ELSE Blank
             /\ DOMAIN new[l] \subseteq Names /\ \A n \in DOMAIN new[l] : new[l][n] \in Stored
             /\ DOMAIN mcpFile[l] \subseteq Names /\ \A n \in DOMAIN mcpFile[l] : mcpFile[l][n] \in Stored
             /\ \A n \in DOMAIN given[l] : given[l][n] \in Stored
             /\ \A n \in DOMAIN mcpFile[l] : mcpFile[l][n] # Masked
  <2>1. mcpFile'[l] = Resolved(l, new[l]) /\ given'[l] = [n \in DOMAIN new[l] |-> Sees(new, l, n)]
    BY <1>1
  <2>2. new[l] \in McpTables /\ mcpFile[l] \in McpTables /\ given[l] \in McpTables
    BY <1>0, <1>1
  <2>3. \A n \in DOMAIN mcpFile[l] : mcpFile[l][n] # Masked
    BY <1>0 DEF McMaskNeverStored, Range
  <2> HIDE DEF Sees
  <2> QED  BY <2>1, <2>2, <2>3, TableFacts DEF Resolved
<1>3. ASSUME NEW l \in McpLists
      PROVE  /\ mcpFile'[l] \in McpTables /\ given'[l] \in McpTables /\ Masked \notin Range(mcpFile'[l])
             /\ DOMAIN given'[l] = DOMAIN mcpFile'[l]
             /\ \A n \in DOMAIN mcpFile'[l] : mcpFile'[l][n] = given'[l][n] \/ <<l, n>> \in blanked'
  <2>1. Blank \in Stored /\ Blank # Masked
    BY McpAssumption DEF Stored
  <2>2. \A n \in DOMAIN new[l] : mcpFile'[l][n] \in Stored /\ given'[l][n] \in Stored
    BY <1>2, <2>1
  <2>3. mcpFile'[l] \in [DOMAIN new[l] -> Stored] /\ given'[l] \in [DOMAIN new[l] -> Stored]
    <3>1. mcpFile'[l] = [n \in DOMAIN new[l] |-> mcpFile'[l][n]]
      BY <1>1 DEF Resolved
    <3>2. given'[l] = [n \in DOMAIN new[l] |-> given'[l][n]]
      BY <1>1
    <3> QED  BY <2>2, <3>1, <3>2
  <2>4. \A n \in DOMAIN new[l] : mcpFile'[l][n] # Masked
    BY <1>2, <2>1
  <2>5. ASSUME NEW n \in DOMAIN new[l]
        PROVE  mcpFile'[l][n] = given'[l][n] \/ <<l, n>> \in blanked'
    <3>1. CASE new[l][n] # Masked
      BY <3>1, <1>2
    <3>2. CASE new[l][n] = Masked
      <4>1. <<l, n>> \in McpLists \X Names
        BY <1>2
      <4>2. <<l, n>> \in blanked' <=> <<l, n>> \in blanked \/ n \notin DOMAIN mcpFile[l]
        BY <1>1, <3>2, <4>1
      <4>3. n \in DOMAIN mcpFile[l] => mcpFile[l][n] = given[l][n] \/ <<l, n>> \in blanked
        BY <1>0 DEF SecretsAreGiven
      <4> QED  BY <1>0, <1>2, <3>2, <4>2, <4>3
    <3> QED  BY <3>1, <3>2
  <2> QED  BY <1>2, <2>3, <2>4, <2>5, TableFacts DEF Range
<1>4. /\ mcpFile' \in [McpLists -> McpTables] /\ given' \in [McpLists -> McpTables]
      /\ blanked' \subseteq McpLists \X Names
  <2>1. mcpFile' = [l \in McpLists |-> mcpFile'[l]] /\ given' = [l \in McpLists |-> given'[l]]
    BY <1>1
  <2>2. \A l \in McpLists : mcpFile'[l] \in McpTables /\ given'[l] \in McpTables
    BY <1>3
  <2> QED  BY <1>1, <2>1, <2>2
<1>5. McTypeOK'
  BY <1>0, <1>4 DEF McTypeOK
<1>6. McMaskNeverStored' /\ SecretsAreGiven'
  BY <1>3 DEF McMaskNeverStored, SecretsAreGiven
<1>7. \A l \in McpLists : DOMAIN given'[l] = DOMAIN mcpFile'[l]
  BY <1>3
<1>8. Masked \notin Range(ofModules')
  BY <1>0 DEF McInv
<1> QED  BY <1>5, <1>6, <1>7, <1>8 DEF McInv, McpKept

\* The servers of another host are added to the shared ones.
LEMMA ImportKeeps ==
    ASSUME McInv, Import PROVE McInv'
<1> DEFINE s == "shared_servers"
<1>0. /\ McTypeOK /\ McMaskNeverStored /\ SecretsAreGiven /\ s \in McpLists
      /\ mcpFile \in [McpLists -> McpTables] /\ given \in [McpLists -> McpTables]
      /\ \A l \in McpLists : DOMAIN given[l] = DOMAIN mcpFile[l]
      /\ UNCHANGED <<ofModules, shown>>
  BY DEF McInv, McpKept, McTypeOK, Import, McpLists
<1>1. PICK remote \in Remotes, kept \in SUBSET DOMAIN mcpFile[s] :
         /\ mcpFile' = [mcpFile EXCEPT ![s] = Merged(Restrict(mcpFile[s], kept), remote)]
         /\ given' = [given EXCEPT ![s] = Merged(Restrict(given[s], kept), remote)]
         /\ blanked' = blanked \ ({s} \X (Names \ kept))
  BY <1>0 DEF Import
<1>a. PICK old, ago : old = Restrict(mcpFile[s], kept) /\ ago = Restrict(given[s], kept)
  OBVIOUS
<1>2. /\ DOMAIN old = kept /\ DOMAIN ago = kept /\ kept \subseteq Names
      /\ \A n \in kept : old[n] = mcpFile[s][n] /\ ago[n] = given[s][n]
      /\ \A n \in kept : old[n] \in Stored /\ ago[n] \in Stored /\ old[n] # Masked
      /\ \A n \in kept : old[n] = ago[n] \/ <<s, n>> \in blanked
  <2>1. mcpFile[s] \in McpTables /\ given[s] \in McpTables /\ DOMAIN given[s] = DOMAIN mcpFile[s]
    BY <1>0
  <2>2. /\ \A n \in DOMAIN mcpFile[s] : mcpFile[s][n] \in Stored /\ given[s][n] \in Stored
        /\ DOMAIN mcpFile[s] \subseteq Names
    BY <2>1, TableFacts
  <2>3. \A n \in DOMAIN mcpFile[s] : mcpFile[s][n] # Masked
    BY <1>0 DEF McMaskNeverStored, Range
  <2>4. \A n \in DOMAIN mcpFile[s] : mcpFile[s][n] = given[s][n] \/ <<s, n>> \in blanked
    BY <1>0 DEF SecretsAreGiven
  <2> QED  BY <1>a, <2>1, <2>2, <2>3, <2>4 DEF Restrict
<1>3. /\ DOMAIN remote \subseteq Names
      /\ \A n \in DOMAIN remote : remote[n] \in Stored /\ remote[n] # Masked
  <2>1. \A n \in DOMAIN remote : remote[n] \in Secrets \cup {Blank}
    BY TableFacts
  <2> QED  BY <2>1, TableFacts, McpAssumption DEF Stored
<1>4. /\ Merged(old, remote) \in McpTables /\ Merged(ago, remote) \in McpTables
      /\ DOMAIN Merged(old, remote) = kept \cup DOMAIN remote
      /\ DOMAIN Merged(ago, remote) = kept \cup DOMAIN remote
      /\ \A n \in kept \cup DOMAIN remote :
           /\ Merged(old, remote)[n] = IF n \in kept THEN old[n] ELSE remote[n]
           /\ Merged(ago, remote)[n] = IF n \in kept THEN ago[n] ELSE remote[n]
  <2>1. IsTable(old) /\ IsTable(ago) /\ IsTable(remote)
    BY <1>2, <1>3 DEF IsTable
  <2>2. /\ Merged(old, remote) \in McpTables
        /\ DOMAIN Merged(old, remote) = DOMAIN old \cup DOMAIN remote
        /\ \A n \in DOMAIN old \cup DOMAIN remote :
             Merged(old, remote)[n] = IF n \in DOMAIN old THEN old[n] ELSE remote[n]
    BY <2>1, MergeFacts DEF Merged
  <2>3. /\ Merged(ago, remote) \in McpTables
        /\ DOMAIN Merged(ago, remote) = DOMAIN ago \cup DOMAIN remote
        /\ \A n \in DOMAIN ago \cup DOMAIN remote :
             Merged(ago, remote)[n] = IF n \in DOMAIN ago THEN ago[n] ELSE remote[n]
    BY <2>1, MergeFacts DEF Merged
  <2> QED  BY <1>2, <2>2, <2>3
<1>5. /\ mcpFile'[s] = Merged(old, remote) /\ given'[s] = Merged(ago, remote)
      /\ \A l \in McpLists \ {s} : mcpFile'[l] = mcpFile[l] /\ given'[l] = given[l]
      /\ mcpFile' \in [McpLists -> McpTables] /\ given' \in [McpLists -> McpTables]
  BY <1>0, <1>1, <1>a, <1>4
<1>6. /\ \A n \in kept : <<s, n>> \in blanked => <<s, n>> \in blanked'
      /\ \A l \in McpLists \ {s} : \A n \in Names : <<l, n>> \in blanked => <<l, n>> \in blanked'
      /\ blanked' \subseteq blanked
  BY <1>1
<1>7. McTypeOK'
  BY <1>0, <1>5, <1>6 DEF McTypeOK
<1>8. McMaskNeverStored'
  <2> SUFFICES ASSUME NEW l \in McpLists, NEW n \in DOMAIN mcpFile'[l] PROVE mcpFile'[l][n] # Masked
    BY DEF McMaskNeverStored, Range
  <2>1. CASE l = s
    BY <2>1, <1>2, <1>3, <1>4, <1>5
  <2>2. CASE l # s
    <3>1. mcpFile'[l] = mcpFile[l]
      BY <2>2, <1>5
    <3> QED  BY <3>1, <1>0 DEF McMaskNeverStored, Range
  <2> QED  BY <2>1, <2>2
<1>9. SecretsAreGiven'
  <2> SUFFICES ASSUME NEW l \in McpLists, NEW n \in DOMAIN mcpFile'[l]
               PROVE  mcpFile'[l][n] = given'[l][n] \/ <<l, n>> \in blanked'
    BY DEF SecretsAreGiven
  <2>1. CASE l = s
    BY <2>1, <1>2, <1>4, <1>5, <1>6
  <2>2. CASE l # s
    <3>1. mcpFile'[l] = mcpFile[l] /\ given'[l] = given[l] /\ mcpFile[l] \in McpTables
      BY <2>2, <1>0, <1>5
    <3>2. n \in Names
      BY <3>1, TableFacts
    <3> QED  BY <2>2, <3>1, <3>2, <1>0, <1>6 DEF SecretsAreGiven
  <2> QED  BY <2>1, <2>2
<1>10. \A l \in McpLists : DOMAIN given'[l] = DOMAIN mcpFile'[l]
  BY <1>0, <1>4, <1>5
<1>11. Masked \notin Range(ofModules')
  BY <1>0 DEF McInv
<1> QED  BY <1>7, <1>8, <1>9, <1>10, <1>11 DEF McInv, McpKept

\* The file starts empty.
LEMMA McStarts == McInit => McInv
<1> SUFFICES ASSUME McInit PROVE McInv
  OBVIOUS
<1>1. <<>> \in McpTables
  <2>1. <<>> \in [{} -> Stored]
    OBVIOUS
  <2>2. {} \in SUBSET Names
    OBVIOUS
  <2> QED  BY <2>1, <2>2, TableFacts
<1>2. /\ mcpFile = [l \in McpLists |-> <<>>] /\ given = mcpFile /\ blanked = {}
      /\ shown = [p \in Pages |-> <<>>]
  BY DEF McInit
<1>3. ofModules \in McpTables /\ Masked \notin Range(ofModules)
  <2>1. PICK S \in SUBSET Names : ofModules \in [S -> Secrets]
    BY DEF McInit
  <2>2. ofModules \in [S -> Stored]
    BY <2>1 DEF Stored
  <2> QED  BY <2>1, <2>2, TableFacts, McpAssumption DEF Range
<1>4. McTypeOK
  BY <1>1, <1>2, <1>3 DEF McTypeOK
<1>5. McMaskNeverStored /\ SecretsAreGiven
  BY <1>2 DEF McMaskNeverStored, SecretsAreGiven, Range
<1> QED  BY <1>2, <1>3, <1>4, <1>5 DEF McInv, McpKept

\* Whatever pages, masks and imports are applied in whatever order, a server
\* keeps the secret it was last given, and never the mask.
THEOREM McpIsKept == McInit /\ [][McNext]_mcVars => []McpKept
<1>1. McInv /\ [McNext]_mcVars => McInv'
  <2> SUFFICES ASSUME McInv, [McNext]_mcVars PROVE McInv'
    OBVIOUS
  <2>1. CASE UNCHANGED mcVars
    BY <2>1 DEF mcVars, McInv, McpKept, McTypeOK, McMaskNeverStored, SecretsAreGiven
  <2> QED  BY <2>1, OpenKeeps, ApplyKeeps, ImportKeeps DEF McNext
<1>2. McInv => McpKept
  BY DEF McInv
<1> QED  BY <1>1, <1>2, McStarts, PTL

-----------------------------------------------------------------------------
(* The settings.                                                           *)

\* A layer has keys only, and texts; the template has every key.
LEMMA LayersAre == ASSUME NEW l PROVE l \in Layers <=> l \in [DOMAIN l -> Texts] /\ DOMAIN l \subseteq Keys
<1>1. ASSUME l \in Layers PROVE l \in [DOMAIN l -> Texts] /\ DOMAIN l \subseteq Keys
  BY <1>1 DEF Layers
<1>2. ASSUME l \in [DOMAIN l -> Texts], DOMAIN l \subseteq Keys PROVE l \in Layers
  <2>1. [DOMAIN l -> Texts] \in {[ks -> Texts] : ks \in SUBSET Keys}
    BY <1>2
  <2> QED  BY <1>2, <2>1 DEF Layers
<1> QED  BY <1>1, <1>2

\* A layer over a full one is full.
LEMMA OverIsFull ==
    ASSUME NEW low \in [Keys -> Texts], NEW high \in Layers
    PROVE  /\ Over(low, high) \in [Keys -> Texts]
           /\ \A k \in Keys : Over(low, high)[k] = IF k \in DOMAIN high THEN high[k] ELSE low[k]
  BY LayersAre DEF Over

\* What a key is worth: the highest layer that sets it.
LEMMA ValueIs ==
    ASSUME CfgTypeOK
    PROVE  /\ Value \in [Keys -> Texts]
           /\ \A k \in Keys : Value[k] = IF k \in DOMAIN outer THEN outer[k]
                                         ELSE IF k \in DOMAIN managed THEN managed[k]
                                         ELSE IF k \in DOMAIN repo THEN repo[k] ELSE template[k]
<1>1. template \in [Keys -> Texts] /\ repo \in Layers /\ managed \in Layers /\ outer \in Layers
  BY DEF CfgTypeOK
<1> DEFINE one == Over(template, repo)
           two == Over(one, managed)
<1>2. /\ one \in [Keys -> Texts]
      /\ \A k \in Keys : one[k] = IF k \in DOMAIN repo THEN repo[k] ELSE template[k]
  BY <1>1, OverIsFull
<1> HIDE DEF one
<1>3. /\ two \in [Keys -> Texts]
      /\ \A k \in Keys : two[k] = IF k \in DOMAIN managed THEN managed[k] ELSE one[k]
  BY <1>1, <1>2, OverIsFull
<1> HIDE DEF two
<1>4. /\ Over(two, outer) \in [Keys -> Texts]
      /\ \A k \in Keys : Over(two, outer)[k] = IF k \in DOMAIN outer THEN outer[k] ELSE two[k]
  BY <1>1, <1>3, OverIsFull
<1>5. Value = Over(two, outer)
  BY DEF Value, two, one
<1> QED  BY <1>2, <1>3, <1>4, <1>5

\* The layers under a write: every key keeps its value, but for those that the
\* managed file, when there is one, did not have.
LEMMA BaseIs ==
    ASSUME CfgTypeOK
    PROVE  /\ Base \in [Keys -> Texts]
           /\ \A k \in Keys \ Locked : k \in DOMAIN managed \/ managed = <<>> => Base[k] = Value[k]
<1>1. template \in [Keys -> Texts] /\ managed \in Layers
  BY DEF CfgTypeOK
<1>2. CASE managed # <<>>
  <2>1. Base = Over(template, managed)
    BY <1>2 DEF Base
  <2> QED  BY <1>1, <1>2, <2>1, OverIsFull, ValueIs DEF Locked
<1>3. CASE managed = <<>>
  <2>1. Base = [k \in Keys |-> IF k \in Locked THEN template[k] ELSE Value[k]]
    BY <1>3 DEF Base
  <2> QED  BY <1>1, <2>1, ValueIs
<1> QED  BY <1>2, <1>3

\* What is written for an update: a text for every key, never the mask.
LEMMA TargetIs ==
    ASSUME CfgTypeOK, NEW u \in Updates
    PROVE  /\ Target(u) \in [Keys -> Texts] /\ DOMAIN u \subseteq Keys
           /\ \A k \in Keys \ Locked :
                 \/ k \in DOMAIN u /\ u[k] # Mask /\ Target(u)[k] = u[k]
                 \/ k \in DOMAIN u /\ u[k] = Mask /\ Target(u)[k] = Base[k]
                 \/ k \notin DOMAIN u /\ Target(u)[k] = Base[k]
<1>1. PICK ks \in SUBSET Keys : u \in {w \in [ks -> Texts \cup {Mask}] :
                      \A k \in ks : w[k] = Mask => k \in Secret /\ Value[k] # Empty}
  BY DEF Updates
<1>2. /\ u \in [ks -> Texts \cup {Mask}] /\ DOMAIN u = ks
      /\ \A k \in ks : u[k] = Mask => k \in Secret
  BY <1>1
<1>3. \A k \in Keys : Base[k] \in Texts
  BY BaseIs
<1>4. \A k \in Keys : Target(u)[k] =
        IF k \in DOMAIN u \ Locked /\ ~(k \in Secret /\ u[k] = Mask) THEN u[k] ELSE Base[k]
  BY DEF Target
<1>5. Target(u) \in [Keys -> Texts]
  <2>1. \A k \in Keys : Target(u)[k] \in Texts
    BY <1>2, <1>3, <1>4
  <2> QED  BY <2>1 DEF Target
<1> QED  BY <1>2, <1>4, <1>5

\* What a write does to the values: it sets every key that is not locked.
LEMMA WriteGives ==
    ASSUME CfgTypeOK, NEW u \in Updates, Written(u)
    PROVE  /\ managed' \in [Keys -> Texts] /\ managed' \in Layers /\ outer' = outer
           /\ template' \in [Keys -> Texts] /\ repo' \in Layers /\ outer' \in Layers
           /\ asked' = DOMAIN u /\ DOMAIN u \subseteq Keys
           /\ Value' \in [Keys -> Texts]
           /\ Value' = EffectiveForValidation(Target(u)) /\ Valid(Value')
           /\ \A k \in Keys : Value'[k] = IF k \in Locked THEN Value[k] ELSE Target(u)[k]
<1>1. /\ template \in [Keys -> Texts] /\ repo \in Layers /\ outer \in Layers
      /\ managed' = Target(u) /\ template' = template /\ repo' = repo /\ outer' = outer
      /\ asked' = DOMAIN u /\ Valid(EffectiveForValidation(Target(u)))
  BY DEF CfgTypeOK, Written
<1>2. managed' \in [Keys -> Texts] /\ DOMAIN u \subseteq Keys
  BY <1>1, TargetIs
<1>3. managed' \in Layers
  BY <1>2, LayersAre
<1> DEFINE one == Over(template, repo)
           two == Over(one, Target(u))
<1>4. one \in [Keys -> Texts]
  BY <1>1, OverIsFull
<1> HIDE DEF one
<1>5. two \in [Keys -> Texts] /\ two = Target(u)
  <2>1. /\ two \in [Keys -> Texts]
        /\ \A k \in Keys : two[k] = IF k \in DOMAIN Target(u) THEN Target(u)[k] ELSE one[k]
    BY <1>1, <1>3, <1>4, OverIsFull
  <2>2. Target(u) \in [Keys -> Texts]
    BY <1>1, <1>2
  <2> QED  BY <2>1, <2>2
<1> HIDE DEF two
<1>6. Value' = Over(two, outer)
  BY <1>1 DEF Value, two, one
<1>7. Value' = EffectiveForValidation(Target(u))
  BY <1>5, <1>6 DEF EffectiveForValidation
<1>8. /\ Value' \in [Keys -> Texts]
      /\ \A k \in Keys : Value'[k] = IF k \in DOMAIN outer THEN outer[k] ELSE Target(u)[k]
  BY <1>1, <1>5, <1>6, OverIsFull
<1>9. \A k \in Keys : k \in Locked => Value[k] = outer[k]
  BY ValueIs DEF Locked
<1> QED  BY <1>1, <1>2, <1>3, <1>7, <1>8, <1>9 DEF Locked

\* The keys an update does not name keep their value, unless the managed file was
\* there and did not have them.
LEMMA WriteKeepsOthers ==
    ASSUME CfgTypeOK, NEW u \in Updates, Written(u),
           NEW k \in Keys \ DOMAIN u, k \in DOMAIN managed \/ managed = <<>>
    PROVE  Value'[k] = Value[k]
<1>1. CASE k \in Locked
  BY <1>1, WriteGives
<1>2. CASE k \notin Locked
  BY <1>2, WriteGives, TargetIs, BaseIs
<1> QED  BY <1>1, <1>2

\* A field whose value an update changed is reported or was not named.
LEMMA ChangeIsKnown ==
    ASSUME CfgTypeOK, NEW u \in Updates, Written(u), NEW k \in Manual, Value'[k] # Value[k]
    PROVE  k \in ChangedPending(u, Target(u)) \cup Unnamed(u)
<1>1. k \in Keys /\ Mask \notin Texts
  BY SettingsAssumption DEF Keys
<1>2. k \notin Locked /\ Value'[k] = Target(u)[k] /\ Value[k] \in Texts
  BY <1>1, WriteGives, ValueIs
<1>3. CASE k \in DOMAIN u
  <2>1. u[k] # Value[k]
    BY <1>1, <1>2, <1>3, TargetIs
  <2> QED  BY <1>3, <2>1 DEF ChangedPending
<1>4. CASE k \notin DOMAIN u
  BY <1>1, <1>4 DEF Unnamed
<1> QED  BY <1>3, <1>4

CfgInv == CfgTypeOK /\ NothingUntold

\* What a step of the settings does.
CfgStep ==
    /\ CfgInv'
    /\ managed' # managed => Valid(Value')
    /\ managed' # managed =>
           \A k \in Keys \ asked' : k \in DOMAIN managed \/ managed = <<>> => Value'[k] = Value[k]

\* Each of the three ways to apply an update is a write.
LEMMA WriteSteps ==
    ASSUME CfgTypeOK, NEW u \in Updates, Written(u)
    PROVE  /\ Valid(Value')
           /\ \A k \in Keys \ asked' : k \in DOMAIN managed \/ managed = <<>> => Value'[k] = Value[k]
  BY WriteGives, WriteKeepsOthers

\* An apply reports what it changed, or counts it as unnamed.
LEMMA ApplyKeepsSettings == ASSUME CfgInv, ApplyUpdate PROVE CfgStep
<1> USE DEF CfgInv
<1>1. PICK u \in Updates :
        /\ Written(u) /\ pending' = ChangedPending(u, Target(u))
        /\ told' = told \cup ChangedPending(u, Target(u))
        /\ aside' = aside \cup Unnamed(u) /\ cache' = Value' /\ UNCHANGED running
  BY DEF ApplyUpdate
<1>2. CfgTypeOK'
  <2>1. ChangedPending(u, Target(u)) \subseteq Manual /\ Unnamed(u) \subseteq Keys
    BY DEF ChangedPending, Unnamed
  <2> QED  BY <1>1, <2>1, WriteGives DEF CfgTypeOK
<1>3. NothingUntold'
  <2> SUFFICES ASSUME NEW k \in Manual, Value'[k] # running'[k] PROVE k \in told' \cup aside'
    BY DEF NothingUntold
  <2>1. CASE Value'[k] = Value[k]
    BY <1>1, <2>1 DEF NothingUntold
  <2>2. CASE Value'[k] # Value[k]
    BY <1>1, <2>2, ChangeIsKnown
  <2> QED  BY <2>1, <2>2
<1> QED  BY <1>1, <1>2, <1>3, WriteSteps DEF CfgStep

\* After a restart nothing differs from what runs.
LEMMA RestartKeepsSettings == ASSUME CfgInv, ApplyAndRestart PROVE CfgStep
<1> USE DEF CfgInv
<1>1. PICK u \in Updates : Written(u)
  BY DEF ApplyAndRestart
<1>2. running' = Value' /\ cache' = Value' /\ pending' = {} /\ told' = {} /\ aside' = {}
  BY DEF ApplyAndRestart
<1>3. CfgTypeOK'
  BY <1>1, <1>2, WriteGives DEF CfgTypeOK
<1>4. NothingUntold'
  BY <1>2 DEF NothingUntold
<1> QED  BY <1>1, <1>3, <1>4, WriteSteps DEF CfgStep

\* An apply that failed after its write reports nothing: every key is set aside.
LEMMA HalfKeepsSettings == ASSUME CfgInv, ApplyHalf PROVE CfgStep
<1> USE DEF CfgInv
<1>1. PICK u \in Updates : Written(u)
  BY DEF ApplyHalf
<1>2. aside' = Keys /\ UNCHANGED <<running, cache, pending, told>>
  BY DEF ApplyHalf
<1>3. CfgTypeOK'
  BY <1>1, <1>2, WriteGives DEF CfgTypeOK
<1>4. NothingUntold'
  BY <1>2 DEF NothingUntold, Keys
<1> QED  BY <1>1, <1>3, <1>4, WriteSteps DEF CfgStep

\* A process that is started again runs on what it reads.
LEMMA RelaunchKeepsSettings == ASSUME CfgInv, Relaunch PROVE CfgStep
<1>1. /\ UNCHANGED <<template, repo, managed>> /\ outer' \in Layers /\ asked' = {}
      /\ running' = Value' /\ cache' = Value'
      /\ pending' = {} /\ told' = {} /\ aside' = {}
  BY DEF Relaunch
<1>2. Value' \in [Keys -> Texts]
  <2>1. template \in [Keys -> Texts] /\ repo \in Layers /\ managed \in Layers
    BY DEF CfgInv, CfgTypeOK
  <2> DEFINE one == Over(template, repo)
             two == Over(one, managed)
  <2>2. one \in [Keys -> Texts]
    BY <2>1, OverIsFull
  <2> HIDE DEF one
  <2>3. two \in [Keys -> Texts]
    BY <2>1, <2>2, OverIsFull
  <2> HIDE DEF two
  <2>4. Value' = Over(two, outer')
    BY <1>1 DEF Value, two, one
  <2> QED  BY <1>1, <2>3, <2>4, OverIsFull
<1>3. CfgTypeOK'
  BY <1>1, <1>2 DEF CfgInv, CfgTypeOK
<1>4. NothingUntold'
  BY <1>1 DEF NothingUntold
<1> QED  BY <1>1, <1>3, <1>4 DEF CfgStep, CfgInv

\* At the start the process runs on what it read.
LEMMA SettingsStart == CfgInit => CfgInv
<1> SUFFICES ASSUME CfgInit PROVE CfgInv
  OBVIOUS
<1>1. template \in [Keys -> Texts]
  BY SettingsAssumption DEF CfgInit
<1>2. /\ repo \in Layers /\ managed \in Layers /\ outer \in Layers
      /\ running = Value /\ cache = Value /\ pending = {} /\ told = {} /\ asked = {} /\ aside = {}
  BY DEF CfgInit
<1>3. Value \in [Keys -> Texts]
  <2> DEFINE one == Over(template, repo)
             two == Over(one, managed)
  <2>2. one \in [Keys -> Texts]
    BY <1>1, <1>2, OverIsFull
  <2> HIDE DEF one
  <2>3. two \in [Keys -> Texts]
    BY <1>2, <2>2, OverIsFull
  <2> HIDE DEF two
  <2>4. Value = Over(two, outer)
    BY DEF Value, two, one
  <2> QED  BY <1>2, <2>3, <2>4, OverIsFull
<1>4. NothingUntold
  BY <1>2 DEF NothingUntold
<1> QED  BY <1>1, <1>2, <1>3, <1>4 DEF CfgInv, CfgTypeOK

\* Every step keeps the invariant and does no more than the action properties allow.
LEMMA SettingsSteps == CfgInv /\ [CfgNext]_cfgVars => CfgStep
<1> SUFFICES ASSUME CfgInv, [CfgNext]_cfgVars PROVE CfgStep
  OBVIOUS
<1>1. CASE UNCHANGED cfgVars
  BY <1>1 DEF cfgVars, CfgInv, CfgStep, CfgTypeOK, NothingUntold, Value
<1> QED
  BY <1>1, ApplyKeepsSettings, RestartKeepsSettings, HalfKeepsSettings, RelaunchKeepsSettings DEF CfgNext

\* A text of the managed file or the cache is never the mask.
LEMMA NoMaskInTexts == CfgTypeOK => MaskNeverStored
  BY SettingsAssumption, LayersAre DEF CfgTypeOK, MaskNeverStored, Range

\* Whatever pages send, whatever the files and the environment say: the mask is
\* not stored, a write is valid and keeps the other keys, and a setting that
\* differs from the running one was told.
THEOREM SettingsAreKept == CfgInit /\ [][CfgNext]_cfgVars => SettingsKept
<1>1. CfgInv /\ [CfgNext]_cfgVars => CfgInv'
  BY SettingsSteps DEF CfgStep
<1>2. CfgInv => CfgTypeOK /\ MaskNeverStored /\ NothingUntold
  BY NoMaskInTexts DEF CfgInv
<1>3. CfgInv /\ [CfgNext]_cfgVars => [managed' # managed => Valid(Value')]_cfgVars
  BY SettingsSteps DEF CfgStep
<1>4. CfgInv /\ [CfgNext]_cfgVars =>
        [managed' # managed =>
           \A k \in Keys \ asked' :
               k \in DOMAIN managed \/ managed = <<>> => Value'[k] = Value[k]]_cfgVars
  BY SettingsSteps DEF CfgStep
<1> QED
  BY SettingsStart, <1>1, <1>2, <1>3, <1>4, PTL DEF SettingsKept, StartsAgain, OthersKept
=============================================================================
