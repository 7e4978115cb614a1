----------------------- MODULE PersistentTreesProofs ------------------------
(***************************************************************************)
(* The properties of PersistentTrees, for every set of conversations and   *)
(* messages and every number of timers, restarts and failed writes.        *)
(* Then that of Transcript, which says what the chat shows of one turn of  *)
(* such a conversation, for every set of ids and every limit.              *)
(***************************************************************************)
EXTENDS PersistentTrees, Transcript, FiniteSetTheorems, WellFoundedInduction, TLAPS

-----------------------------------------------------------------------------
(* The inductive invariant.                                                *)

\* d has all the turns that c holds as completed, but for the trees of R ...
BelowBut(R, c, d) == \A r \in Roots \ R : Completed(c, r) \subseteq Completed(d, r)

\* ... that were removed.
Below(c, d) == BelowBut(removed, c, d)

\* All that a tree is held as, in memory, on its way to the disk and there.
Held == {tree, trees, file} \cup {inFlight[i].trees : i \in DOMAIN inFlight}

OwnNodes ==
    /\ \A c \in Held, r \in Roots : c[r] # NoTree =>
         \A n \in DOMAIN c[r] : n \in received /\ RootOf[n] = r
    /\ \A n \in received : RootOf[n] \in received

\* A process that is down holds nothing.
DownIsEmpty ==
    mode = "down" =>
        /\ trees = Nothing /\ tree = Nothing /\ inFlight = <<>>
        /\ known = {} /\ live = {} /\ ~dirty /\ waiting = 0 /\ fired = 0

\* The timer of the handle waits, and saves what is dirty.
TimersInv == (handle = "waiting" => waiting > 0) /\ DirtyHasTimer

\* A clean store is being written, or has been, and then all that is still
\* being written is late.
PendingInv ==
    mode # "down" /\ ~dirty =>
        \/ BeingWritten
        \/ (trees = file \/ overtaken) /\ \A i \in DOMAIN inFlight : inFlight[i].late

\* Whatever is older than a late write is late.
LateFirst == \A i, j \in DOMAIN inFlight : i < j /\ inFlight[j].late => inFlight[i].late

\* The event loop waits for one write at a time: the flush of a shutdown, or
\* a clear_all(), after which everything is empty.
LoopWrites ==
    /\ \A i, j \in DOMAIN inFlight : inFlight[i].by = "loop" /\ inFlight[j].by = "loop" => i = j
    /\ \A i \in DOMAIN inFlight : inFlight[i].by = "loop" /\ mode # "flushing" =>
           /\ known = {} /\ trees = Nothing
           /\ \A j \in DOMAIN inFlight : i <= j => inFlight[j].trees = Nothing
           /\ \A n \in live : RootOf[n] \in outlived

LiveNotCompleted == \A n \in live : InTree(n) => State(n) # "completed"

\* Every copy of the trees is below every newer one.
CopiesInOrder ==
    mode # "down" =>
        /\ Below(trees, tree) /\ Below(file, trees)
        /\ \A i \in DOMAIN inFlight :
             /\ Below(inFlight[i].trees, trees)
             /\ ~inFlight[i].late => Below(file, inFlight[i].trees)
             /\ \A j \in DOMAIN inFlight : i < j => Below(inFlight[i].trees, inFlight[j].trees)

\* A tree that is held anywhere is known or was removed.
KnownOrRemoved ==
    mode # "down" =>
        /\ \A r \in Roots \ (known \cup removed) :
             /\ trees[r] = NoTree /\ file[r] = NoTree
             /\ flushed # NoTree => flushed[r] = NoTree
             /\ \A i \in DOMAIN inFlight : inFlight[i].trees[r] = NoTree
        /\ \A n \in live : RootOf[n] \in known \cup removed

\* Nothing but a late write can bring a wiped tree back.
WipedInv ==
    \A r \in wiped \ outlived :
        /\ r \in received /\ r \notin known /\ trees[r] = NoTree /\ file[r] = NoTree
        /\ \A n \in live : RootOf[n] # r
        /\ \A i \in DOMAIN inFlight : inFlight[i].late \/ inFlight[i].trees[r] = NoTree

\* What a shutdown flushed is in every copy taken since.
FlushInv ==
    flushed # NoTree =>
        /\ mode \in {"flushing", "flushed", "quiet"} => Below(flushed, trees)
        /\ mode = "flushing" => \A i \in DOMAIN inFlight :
                                  inFlight[i].by = "loop" => Below(flushed, inFlight[i].trees)
        /\ mode \in {"flushed", "quiet"} => \A i \in DOMAIN inFlight :
                                  inFlight[i].late \/ Below(flushed, inFlight[i].trees)
        /\ mode \in {"flushed", "quiet", "down"} => overtaken \/ Below(flushed, file)

PTInv ==
    /\ TypeOK /\ OwnNodes /\ DownIsEmpty /\ TimersInv /\ PendingInv /\ LateFirst /\ LoopWrites
    /\ WaitsForTask /\ LiveNotCompleted /\ CopiesInOrder /\ KnownOrRemoved /\ WipedInv /\ FlushInv

-----------------------------------------------------------------------------
(* Trees, and the writes on their way to the disk.                         *)

\* What can be saved: the trees with at least one node.
LEMMA DataFacts ==
    /\ Data = TreeData /\ NoTree \notin Data /\ Contents = [Roots -> Data \cup {NoTree}]
    /\ Nothing \in Contents
    /\ \A d \in Data : DOMAIN d \in SUBSET Nodes /\ DOMAIN d # {} /\ \A n \in DOMAIN d : d[n] \in States
    /\ \A S \in (SUBSET Nodes) \ {{}} : [S -> States] \subseteq Data
<1>1. Data = TreeData /\ NoTree \notin Data /\ Contents = [Roots -> Data \cup {NoTree}] /\ Nothing \in Contents
  BY PersistentTreesAssumption, SessionStoreAssumption DEF Contents, Nothing
<1>2. ASSUME NEW d \in TreeData
      PROVE  DOMAIN d \in SUBSET Nodes /\ DOMAIN d # {} /\ \A n \in DOMAIN d : d[n] \in States
  <2>1. PICK S \in (SUBSET Nodes) \ {{}} : d \in [S -> States]
    BY DEF TreeData
  <2>2. DOMAIN d = S /\ \A n \in S : d[n] \in States
    BY <2>1
  <2>3. S \in SUBSET Nodes /\ S # {}
    BY <2>1
  <2>4. \A n \in DOMAIN d : d[n] \in States
    BY <2>2
  <2> QED  BY <2>2, <2>3, <2>4
<1>3. \A S \in (SUBSET Nodes) \ {{}} : [S -> States] \subseteq TreeData
  BY DEF TreeData
<1> QED  BY <1>1, <1>2, <1>3

\* Every message belongs to one conversation, and opens its own or none.
LEMMA RootsAreNodes ==
    /\ \A n \in Nodes : RootOf[n] \in Roots
    /\ \A r \in Roots : r \in Nodes /\ RootOf[r] = r
BY PersistentTreesAssumption

\* The writes that are left when the one at i is over, in their order.
LEMMA WithoutFacts ==
    ASSUME NEW S, NEW s \in Seq(S), NEW i \in DOMAIN s
    PROVE  /\ Without(s, i) \in Seq(S)
           /\ i # Len(s) => Without(s, i) # <<>> /\ Without(s, i)[Len(Without(s, i))] = s[Len(s)]
           /\ \E at \in [DOMAIN Without(s, i) -> DOMAIN s \ {i}] :
                /\ \A j \in DOMAIN Without(s, i) : Without(s, i)[j] = s[at[j]]
                /\ \A j, k \in DOMAIN Without(s, i) : j < k => at[j] < at[k]
<1> DEFINE t == Without(s, i)
           a == SubSeq(s, 1, i - 1)
           b == SubSeq(s, i + 1, Len(s))
<1>1. i \in 1..Len(s) /\ Len(s) \in Nat
  OBVIOUS
<1>2. a \in Seq(S) /\ Len(a) = i - 1 /\ \A j \in 1..(i - 1) : a[j] = s[j]
  BY <1>1
<1>3. b \in Seq(S) /\ Len(b) = Len(s) - i /\ \A j \in 1..(Len(s) - i) : b[j] = s[i + j]
  BY <1>1
<1>4. t = a \o b
  BY DEF Without
<1> HIDE DEF a, b, t
<1>5. /\ t \in Seq(S) /\ Len(t) = Len(s) - 1
      /\ \A j \in 1..Len(t) : t[j] = IF j < i THEN a[j] ELSE b[j - (i - 1)]
  BY <1>1, <1>2, <1>3, <1>4
<1> DEFINE at == [j \in 1..Len(t) |-> IF j < i THEN j ELSE j + 1]
<1>6. /\ at \in [1..Len(t) -> 1..Len(s)] /\ \A j \in 1..Len(t) : at[j] # i
      /\ \A j, k \in 1..Len(t) : j < k => at[j] < at[k]
  BY <1>1, <1>5
<1>7. ASSUME NEW j \in 1..Len(t) PROVE t[j] = s[at[j]]
  <2>1. CASE j < i
    BY <2>1, <1>1, <1>2, <1>5
  <2>2. CASE ~(j < i)
    <3>1. j - (i - 1) \in 1..(Len(s) - i) /\ i + (j - (i - 1)) = j + 1
      BY <2>2, <1>1, <1>5
    <3> QED  BY <2>2, <3>1, <1>3, <1>5
  <2> QED  BY <2>1, <2>2
<1>8. DOMAIN t = 1..Len(t) /\ DOMAIN s = 1..Len(s)
  BY <1>5
<1>9. at \in [DOMAIN t -> DOMAIN s \ {i}]
  BY <1>6, <1>8
<1> HIDE DEF at
<1>10. \E f \in [DOMAIN t -> DOMAIN s \ {i}] :
         /\ \A j \in DOMAIN t : t[j] = s[f[j]]
         /\ \A j, k \in DOMAIN t : j < k => f[j] < f[k]
  <2> WITNESS at \in [DOMAIN t -> DOMAIN s \ {i}]
  <2> QED  BY <1>6, <1>7, <1>8
<1>11. i # Len(s) => t # <<>> /\ t[Len(t)] = s[Len(s)]
  <2> SUFFICES ASSUME i # Len(s) PROVE Len(t) \in 1..Len(t) /\ t[Len(t)] = s[Len(s)]
    BY <1>5
  <2>1. Len(t) \in 1..Len(t) /\ ~(Len(t) < i) /\ Len(t) + 1 = Len(s)
    BY <1>1, <1>5
  <2> QED  BY <2>1, <1>7 DEF at
<1> QED  BY <1>5, <1>10, <1>11 DEF t

\* A write reaches the file: what was taken before it is late.
LEMMA LandFacts ==
    ASSUME inFlight \in Seq(Writes), NEW i \in DOMAIN inFlight, WriteLands(i)
    PROVE  /\ inFlight' \in Seq(Writes)
           /\ i # Len(inFlight) =>
                inFlight' # <<>> /\ inFlight'[Len(inFlight')].trees = inFlight[Len(inFlight)].trees
           /\ \E at \in [DOMAIN inFlight' -> DOMAIN inFlight \ {i}] :
                /\ \A j \in DOMAIN inFlight' :
                     /\ inFlight'[j].by = inFlight[at[j]].by /\ inFlight'[j].trees = inFlight[at[j]].trees
                     /\ inFlight'[j].late <=> inFlight[at[j]].late \/ at[j] < i
                /\ \A j, k \in DOMAIN inFlight' : j < k => at[j] < at[k]
<1> DEFINE s == MarkLate(inFlight, i)
<1>1. /\ DOMAIN s = DOMAIN inFlight
      /\ \A j \in DOMAIN inFlight : s[j] = [inFlight[j] EXCEPT !.late = @ \/ j < i]
  BY DEF MarkLate
<1>2. \A j \in DOMAIN inFlight :
         /\ inFlight[j] \in Writes /\ s[j] \in Writes
         /\ s[j].by = inFlight[j].by /\ s[j].trees = inFlight[j].trees
         /\ s[j].late <=> inFlight[j].late \/ j < i
  <2> TAKE j \in DOMAIN inFlight
  <2>1. inFlight[j] \in Writes
    OBVIOUS
  <2>2. PICK w \in Writes : w = inFlight[j]
    BY <2>1
  <2>3. s[j] = [w EXCEPT !.late = @ \/ j < i]
    BY <1>1, <2>2
  <2>4. (w.late \/ j < i) \in BOOLEAN
    BY DEF Writes
  <2> HIDE DEF s
  <2> QED  BY <2>2, <2>3, <2>4 DEF Writes
<1>3. s \in Seq(Writes)
  <2>1. s = [j \in 1..Len(inFlight) |-> s[j]]
    BY <1>1 DEF MarkLate
  <2>2. \A j \in 1..Len(inFlight) : s[j] \in Writes
    BY <1>2
  <2> HIDE DEF s
  <2>3. s \in [1..Len(inFlight) -> Writes]
    BY <2>1, <2>2
  <2> QED  BY <2>3
<1>4. inFlight' = Without(s, i)
  BY DEF WriteLands
<1> HIDE DEF s
<1>5. i \in DOMAIN s
  BY <1>1
<1>6. /\ inFlight' \in Seq(Writes)
      /\ i # Len(s) => inFlight' # <<>> /\ inFlight'[Len(inFlight')] = s[Len(s)]
      /\ \E at \in [DOMAIN inFlight' -> DOMAIN s \ {i}] :
           /\ \A j \in DOMAIN inFlight' : inFlight'[j] = s[at[j]]
           /\ \A j, k \in DOMAIN inFlight' : j < k => at[j] < at[k]
  <2>1. /\ Without(s, i) \in Seq(Writes)
        /\ i # Len(s) => Without(s, i) # <<>> /\ Without(s, i)[Len(Without(s, i))] = s[Len(s)]
        /\ \E at \in [DOMAIN Without(s, i) -> DOMAIN s \ {i}] :
             /\ \A j \in DOMAIN Without(s, i) : Without(s, i)[j] = s[at[j]]
             /\ \A j, k \in DOMAIN Without(s, i) : j < k => at[j] < at[k]
    BY <1>3, <1>5, WithoutFacts
  <2> QED  BY <1>4, <2>1
<1>7. PICK at \in [DOMAIN inFlight' -> DOMAIN s \ {i}] :
         /\ \A j \in DOMAIN inFlight' : inFlight'[j] = s[at[j]]
         /\ \A j, k \in DOMAIN inFlight' : j < k => at[j] < at[k]
  BY <1>6
<1>8. \A j \in DOMAIN inFlight' : at[j] \in DOMAIN inFlight
  BY <1>1, <1>7
<1>9. at \in [DOMAIN inFlight' -> DOMAIN inFlight \ {i}]
  BY <1>1, <1>7
<1>10. \A j \in DOMAIN inFlight' :
         /\ inFlight'[j].by = inFlight[at[j]].by /\ inFlight'[j].trees = inFlight[at[j]].trees
         /\ inFlight'[j].late <=> inFlight[at[j]].late \/ at[j] < i
  BY <1>2, <1>7, <1>8
<1>11. i # Len(inFlight) =>
        inFlight' # <<>> /\ inFlight'[Len(inFlight')].trees = inFlight[Len(inFlight)].trees
  <2>1. Len(s) = Len(inFlight) /\ DOMAIN inFlight = 1..Len(inFlight) /\ Len(inFlight) \in Nat
    BY <1>1, <1>3
  <2>2. Len(inFlight) \in DOMAIN inFlight
    BY <2>1
  <2> QED  BY <1>2, <1>6, <2>1, <2>2
<1> QED  BY <1>6, <1>7, <1>9, <1>10, <1>11

\* A write fails: the others stay as they were.
LEMMA FailFacts ==
    ASSUME inFlight \in Seq(Writes), NEW i \in DOMAIN inFlight, WriteFails(i)
    PROVE  /\ inFlight' \in Seq(Writes)
           /\ \E at \in [DOMAIN inFlight' -> DOMAIN inFlight \ {i}] :
                /\ \A j \in DOMAIN inFlight' : inFlight'[j] = inFlight[at[j]]
                /\ \A j, k \in DOMAIN inFlight' : j < k => at[j] < at[k]
<1>1. /\ Without(inFlight, i) \in Seq(Writes)
      /\ \E at \in [DOMAIN Without(inFlight, i) -> DOMAIN inFlight \ {i}] :
           /\ \A j \in DOMAIN Without(inFlight, i) : Without(inFlight, i)[j] = inFlight[at[j]]
           /\ \A j, k \in DOMAIN Without(inFlight, i) : j < k => at[j] < at[k]
  BY WithoutFacts
<1> QED  BY <1>1 DEF WriteFails

\* A new snapshot goes to the end of the writes.
LEMMA AppendFacts ==
    ASSUME inFlight \in Seq(Writes), NEW w \in Writes, inFlight' = Append(inFlight, w)
    PROVE  /\ inFlight' \in Seq(Writes) /\ Len(inFlight') \in DOMAIN inFlight'
           /\ inFlight'[Len(inFlight')] = w /\ inFlight' # <<>>
           /\ DOMAIN inFlight \subseteq DOMAIN inFlight'
           /\ \A j \in DOMAIN inFlight : inFlight'[j] = inFlight[j] /\ j < Len(inFlight')
           /\ \A j \in DOMAIN inFlight' : j \in DOMAIN inFlight \/ j = Len(inFlight')
OBVIOUS

\* The order of copies.
LEMMA BelowFacts ==
    /\ \A c : Below(c, c)
    /\ \A c, d, e : Below(c, d) /\ Below(d, e) => Below(c, e)
BY DEF Below, BelowBut

\* What is completed in a tree is read off that tree alone.
LEMMA SameCompleted ==
    ASSUME NEW c, NEW d, NEW r, c[r] = d[r]
    PROVE  Completed(c, r) = Completed(d, r)
<1> DEFINE C(t) == IF t = NoTree THEN {} ELSE {n \in DOMAIN t : t[n] = "completed"}
<1>1. Completed(c, r) = C(c[r]) /\ Completed(d, r) = C(d[r])
  BY Zenon DEF Completed
<1> HIDE DEF C
<1> QED  BY <1>1

-----------------------------------------------------------------------------
(* Handlers.                                                               *)

\* A handler changes trees and saves them while nothing is written by the
\* event loop: the invariant follows from what it does to each tree.
LEMMA HandlerKeeps ==
    ASSUME PTInv, Runs, UNCHANGED <<mode, file, inFlight, overtaken, wiped, outlived, flushed, bounds>>,
           Schedule \/ UNCHANGED storeVars,
           tree' \in Contents, trees' \in Contents, OwnNodes',
           known' \subseteq Roots, live' \subseteq received', captured' \subseteq live',
           received \subseteq received', received' \subseteq Nodes, silent' \subseteq received',
           clearing' \subseteq Roots, unsaved' \subseteq Roots,
           global' \in {"none", "stop", "clear", "deleting"},
           removed \subseteq removed', removed' \subseteq Roots,
           known \subseteq known' \cup removed', known' \cap (wiped \ outlived) = {},
           \A n \in live' : n \in live \/ RootOf[n] \in known',
           \A r \in Roots \ removed' : Completed(tree, r) \subseteq Completed(tree', r),
           \A r \in Roots : \/ trees'[r] = trees[r]
                            \/ trees'[r] = NoTree /\ r \in removed'
                            \/ trees'[r] = tree'[r] /\ (r \in known' \/ \E n \in live : r = RootOf[n]),
           WaitsForTask', LiveNotCompleted'
    PROVE  PTInv'
<1>0. /\ TypeOK /\ TimersInv /\ PendingInv /\ LateFirst /\ LoopWrites
      /\ CopiesInOrder /\ KnownOrRemoved /\ WipedInv /\ FlushInv
  BY DEF PTInv
<1>1. /\ mode # "down"
      /\ \A i \in DOMAIN inFlight : inFlight[i].by # "loop"
      /\ mode \in {"up", "flushed", "quiet"} /\ StoreTypeOK
  BY <1>0 DEF Runs, LoopRuns, TypeOK
<1>2. /\ trees' # trees => dirty'
      /\ \/ UNCHANGED <<trees, dirty, handle, waiting, fired, failed>>
         \/ dirty' /\ handle' = "waiting" /\ waiting' > 0 /\ waiting' \in Nat /\ fired' = fired
            /\ failed' = FALSE /\ dirty' = TRUE
  BY <1>0, <1>1, SessionStoreAssumption DEF Schedule, storeVars, timers, TimersInv, StoreTypeOK
<1>a. TypeOK'
  <2>1. StoreTypeOK'
    BY <1>1, <1>2 DEF StoreTypeOK
  <2> QED  BY <1>0, <2>1 DEF TypeOK, bounds
<1>b. DownIsEmpty'
  BY <1>1 DEF DownIsEmpty
<1>c. TimersInv'
  BY <1>0, <1>1, <1>2 DEF TimersInv, DirtyHasTimer, StoreTypeOK
<1>d. PendingInv' /\ LateFirst'
  BY <1>0, <1>2 DEF PendingInv, BeingWritten, LateFirst
<1>e. LoopWrites'
  BY <1>1 DEF LoopWrites
<1>f. CopiesInOrder'
  <2>1. \A c, d : Below(c, d) => Below(c, d)'
    BY DEF Below, BelowBut, Completed
  <2>2. Below(trees, tree) /\ \A r \in Roots \ removed' : r \notin removed
    BY <1>0, <1>1 DEF CopiesInOrder
  <2>3. \A r \in Roots \ removed' : /\ Completed(trees, r) \subseteq Completed(trees', r)
                                    /\ Completed(trees', r) \subseteq Completed(tree', r)
    <3> TAKE r \in Roots \ removed'
    <3>1. Completed(trees, r) \subseteq Completed(tree, r) /\ Completed(tree, r) \subseteq Completed(tree', r)
      BY <2>2 DEF Below, BelowBut
    <3>2. trees'[r] = trees[r] \/ trees'[r] = tree'[r]
      OBVIOUS
    <3>3. Completed(trees', r) = Completed(trees, r) \/ Completed(trees', r) = Completed(tree', r)
      BY <3>2, SameCompleted
    <3> QED  BY <3>1, <3>3
  <2>4. \A c : Below(c, trees) => \A r \in Roots \ removed' : Completed(c, r) \subseteq Completed(trees', r)
    BY <2>2, <2>3 DEF Below, BelowBut
  <2>5. /\ Below(file, trees)
        /\ \A i \in DOMAIN inFlight :
             /\ Below(inFlight[i].trees, trees)
             /\ ~inFlight[i].late => Below(file, inFlight[i].trees)
             /\ \A j \in DOMAIN inFlight : i < j => Below(inFlight[i].trees, inFlight[j].trees)
    BY <1>0, <1>1 DEF CopiesInOrder
  <2> QED  BY <2>2, <2>3, <2>4, <2>5 DEF CopiesInOrder, Below, BelowBut
<1>g. KnownOrRemoved'
  <2>1. \A n \in live : RootOf[n] \in known' \cup removed'
    BY <1>0, <1>1 DEF KnownOrRemoved
  <2>2. \A n \in live' : RootOf[n] \in known' \cup removed'
    BY <2>1
  <2>3. ASSUME NEW r \in Roots \ (known' \cup removed')
        PROVE  /\ trees[r] = NoTree /\ file[r] = NoTree
               /\ flushed # NoTree => flushed[r] = NoTree
               /\ \A i \in DOMAIN inFlight : inFlight[i].trees[r] = NoTree
    <3>1. r \in Roots \ (known \cup removed)
      OBVIOUS
    <3> QED  BY <3>1, <1>0, <1>1 DEF KnownOrRemoved
  <2>4. \A r \in Roots \ (known' \cup removed') : trees'[r] = NoTree
    BY <2>1, <2>3
  <2> QED  BY <2>2, <2>3, <2>4 DEF KnownOrRemoved
<1>h. WipedInv'
  <2> SUFFICES ASSUME NEW r \in wiped \ outlived
               PROVE  /\ r \in received' /\ r \notin known' /\ trees'[r] = NoTree /\ file[r] = NoTree
                      /\ \A n \in live' : RootOf[n] # r
                      /\ \A i \in DOMAIN inFlight : inFlight[i].late \/ inFlight[i].trees[r] = NoTree
    BY DEF WipedInv
  <2>1. /\ r \in received /\ trees[r] = NoTree /\ file[r] = NoTree
        /\ \A n \in live : RootOf[n] # r
        /\ \A i \in DOMAIN inFlight : inFlight[i].late \/ inFlight[i].trees[r] = NoTree
    BY <1>0 DEF WipedInv
  <2>2. r \notin known' /\ r \in Roots
    BY <1>0 DEF TypeOK
  <2> QED  BY <2>1, <2>2
<1>i. FlushInv'
  <2> SUFFICES ASSUME flushed # NoTree PROVE FlushInv'
    BY DEF FlushInv
  <2>1. \A c, d : Below(c, d) => Below(c, d)'
    BY DEF Below, BelowBut, Completed
  <2>2. Below(flushed, trees) => Below(flushed, trees)'
    <3> SUFFICES ASSUME Below(flushed, trees), NEW r \in Roots \ removed'
                 PROVE  Completed(flushed, r) \subseteq Completed(trees', r)
      BY DEF Below, BelowBut
    <3>1. Completed(flushed, r) \subseteq Completed(trees, r)
      BY DEF Below, BelowBut
    <3>2. Completed(trees, r) \subseteq Completed(tree, r)
      BY <1>0, <1>1 DEF CopiesInOrder, Below, BelowBut
    <3>3. trees'[r] = trees[r] \/ trees'[r] = tree'[r]
      OBVIOUS
    <3>4. Completed(trees', r) = Completed(trees, r) \/ Completed(trees', r) = Completed(tree', r)
      BY <3>3, SameCompleted
    <3> QED  BY <3>1, <3>2, <3>4
  <2> QED  BY <1>0, <1>1, <2>1, <2>2 DEF FlushInv
<1> QED  BY <1>a, <1>b, <1>c, <1>d, <1>e, <1>f, <1>g, <1>h, <1>i DEF PTInv

-----------------------------------------------------------------------------
(* Timers, the disk and the process.                                       *)

\* A timer goes on: what it takes down is what is in memory.
LEMMA TimerKeeps ==
    ASSUME PTInv, Timer PROVE PTInv'
<1>0. /\ TypeOK /\ OwnNodes /\ DownIsEmpty /\ TimersInv /\ PendingInv /\ LateFirst /\ LoopWrites
      /\ WaitsForTask /\ LiveNotCompleted /\ CopiesInOrder /\ KnownOrRemoved /\ WipedInv /\ FlushInv
  BY DEF PTInv
<1>1. /\ UNCHANGED <<trees, file, overtaken, failed, mode, tree, known, received, live, captured,
                     clearing, global, unsaved, restarts, failures, silent, removed, outlived,
                     wiped, flushed>>
      /\ StoreTypeOK /\ inFlight \in Seq(Writes) /\ trees \in Contents
  BY <1>0 DEF Timer, Frame, TimerFires, TimerSnapshots, bounds, history, trees3, turns, clears,
              TypeOK, StoreTypeOK
<1>2. mode # "down"
  BY <1>0, <1>1 DEF DownIsEmpty, Timer, TimerFires, TimerSnapshots
<1>3. \A c, d : Below(c, d) <=> Below(c, d)'
  BY <1>1 DEF Below, BelowBut, Completed
<1>4. WaitsForTask' /\ LiveNotCompleted'
  BY <1>0, <1>1 DEF WaitsForTask, LiveNotCompleted, InTree, Unfinished, State, Members
<1>5. CASE inFlight' = inFlight
  <2>1. TypeOK' /\ TimersInv' /\ PendingInv'
    <3>1. CASE TimerFires
      <4>1. StoreTypeOK'
        BY <1>1, <1>5, <3>1 DEF TimerFires, StoreTypeOK
      <4>2. TimersInv'
        BY <1>0, <1>1, <3>1 DEF TimerFires, TimersInv, DirtyHasTimer, StoreTypeOK
      <4>3. PendingInv'
        BY <1>0, <1>1, <3>1 DEF TimerFires, PendingInv, BeingWritten
      <4> QED  BY <1>0, <1>1, <4>1, <4>2, <4>3 DEF TypeOK
    <3>2. CASE TimerSnapshots
      <4>1. ~dirty
        <5>1. Append(inFlight, [by |-> "timer", trees |-> trees, late |-> FALSE]) # inFlight
          BY <1>1, AppendFacts DEF Writes
        <5> QED  BY <5>1, <1>5, <3>2 DEF TimerSnapshots
      <4>2. StoreTypeOK'
        <5>1. dirty' \in BOOLEAN /\ overtaken' \in BOOLEAN /\ failed' \in BOOLEAN
          BY <1>1, <3>2 DEF TimerSnapshots, StoreTypeOK
        <5>2. handle' \in {"none", "waiting", "fired"} /\ waiting' \in Nat /\ fired' \in Nat
          BY <1>1, <3>2 DEF TimerSnapshots, StoreTypeOK
        <5> QED  BY <1>1, <1>5, <5>1, <5>2 DEF StoreTypeOK
      <4>3. TimersInv'
        BY <1>0, <1>1, <3>2 DEF TimerSnapshots, TimersInv, DirtyHasTimer
      <4>4. PendingInv'
        BY <1>0, <1>1, <1>5, <4>1 DEF PendingInv, BeingWritten
      <4> QED  BY <1>0, <1>1, <4>2, <4>3, <4>4 DEF TypeOK
    <3> QED  BY <3>1, <3>2 DEF Timer
  <2>2. OwnNodes' /\ DownIsEmpty' /\ LateFirst' /\ LoopWrites'
    BY <1>0, <1>1, <1>2, <1>5 DEF OwnNodes, Held, DownIsEmpty, LateFirst, LoopWrites
  <2>3. CopiesInOrder' /\ KnownOrRemoved' /\ WipedInv' /\ FlushInv'
    BY <1>0, <1>1, <1>3, <1>5 DEF CopiesInOrder, KnownOrRemoved, WipedInv, FlushInv
  <2> QED  BY <1>4, <2>1, <2>2, <2>3 DEF PTInv
<1>6. CASE inFlight' # inFlight
  <2> DEFINE w == [by |-> "timer", trees |-> trees, late |-> FALSE]
             n == Len(inFlight')
  <2>1. inFlight' = Append(inFlight, w) /\ ~dirty' /\ handle' = "none" /\ waiting' = waiting
        /\ dirty' = FALSE /\ fired' = fired - 1 /\ fired > 0
    BY <1>6 DEF Timer, TimerFires, TimerSnapshots
  <2>2. w \in Writes /\ w.by = "timer" /\ w.trees = trees /\ ~w.late
    BY <1>1 DEF Writes
  <2> HIDE DEF w
  <2>3. /\ inFlight' \in Seq(Writes) /\ n \in DOMAIN inFlight' /\ inFlight'[n] = w /\ inFlight' # <<>>
        /\ \A j \in DOMAIN inFlight : inFlight'[j] = inFlight[j] /\ j < n /\ j \in DOMAIN inFlight'
        /\ \A j \in DOMAIN inFlight' : j \in DOMAIN inFlight \/ j = n
    BY <1>1, <2>1, <2>2, AppendFacts
  <2>4. PendingInv'
    BY <1>1, <2>2, <2>3 DEF PendingInv, BeingWritten
  <2> HIDE DEF n
  <2>5. TypeOK' /\ TimersInv'
    <3>1. StoreTypeOK'
      <4>1. dirty' \in BOOLEAN /\ overtaken' \in BOOLEAN /\ failed' \in BOOLEAN
        BY <1>1, <2>1 DEF StoreTypeOK
      <4>2. handle' \in {"none", "waiting", "fired"} /\ waiting' \in Nat /\ fired' \in Nat
        BY <1>1, <2>1 DEF StoreTypeOK
      <4> QED  BY <1>1, <2>3, <4>1, <4>2 DEF StoreTypeOK
    <3>2. TimersInv'
      BY <2>1 DEF TimersInv, DirtyHasTimer
    <3> QED  BY <1>0, <1>1, <3>1, <3>2 DEF TypeOK
  <2>6. OwnNodes'
    <3>1. Held' = Held
      BY <1>1, <2>2, <2>3 DEF Held
    <3> QED  BY <1>0, <1>1, <3>1 DEF OwnNodes
  <2>7. DownIsEmpty'
    BY <1>1, <1>2 DEF DownIsEmpty
  <2>8. LateFirst'
    <3> SUFFICES ASSUME NEW i \in DOMAIN inFlight', NEW j \in DOMAIN inFlight', i < j, inFlight'[j].late
                 PROVE  inFlight'[i].late
      BY DEF LateFirst
    <3>1. j \in DOMAIN inFlight
      BY <2>2, <2>3
    <3>2. i \in DOMAIN inFlight
      BY <2>3, <3>1
    <3> QED  BY <1>0, <2>3, <3>1, <3>2 DEF LateFirst
  <2>9. LoopWrites'
    <3>1. \A i \in DOMAIN inFlight' : inFlight'[i].by = "loop" => i \in DOMAIN inFlight /\ inFlight[i].by = "loop"
      BY <2>2, <2>3
    <3>2. \A i, j \in DOMAIN inFlight' : inFlight'[i].by = "loop" /\ inFlight'[j].by = "loop" => i = j
      BY <1>0, <3>1 DEF LoopWrites
    <3>3. ASSUME NEW i \in DOMAIN inFlight', inFlight'[i].by = "loop", mode # "flushing"
          PROVE  /\ known = {} /\ trees = Nothing /\ \A m \in live : RootOf[m] \in outlived
                 /\ \A j \in DOMAIN inFlight' : i <= j => inFlight'[j].trees = Nothing
      BY <1>0, <2>2, <2>3, <3>1, <3>3 DEF LoopWrites
    <3> QED  BY <1>1, <3>2, <3>3 DEF LoopWrites
  <2>10. CopiesInOrder'
    <3>1. /\ Below(trees, tree) /\ Below(file, trees)
          /\ \A i \in DOMAIN inFlight :
               /\ Below(inFlight[i].trees, trees)
               /\ ~inFlight[i].late => Below(file, inFlight[i].trees)
               /\ \A j \in DOMAIN inFlight : i < j => Below(inFlight[i].trees, inFlight[j].trees)
      BY <1>0, <1>2 DEF CopiesInOrder
    <3>2. ASSUME NEW i \in DOMAIN inFlight'
          PROVE  /\ Below(inFlight'[i].trees, trees)
                 /\ ~inFlight'[i].late => Below(file, inFlight'[i].trees)
                 /\ \A j \in DOMAIN inFlight' : i < j => Below(inFlight'[i].trees, inFlight'[j].trees)
      <4>1. CASE i = n
        <5>1. \A j \in DOMAIN inFlight' : ~(n < j)
          BY <2>3
        <5> QED  BY <4>1, <5>1, <2>2, <2>3, <3>1, BelowFacts
      <4>2. CASE i # n
        BY <4>2, <2>2, <2>3, <3>1
      <4> QED  BY <4>1, <4>2
    <3> QED  BY <1>1, <1>3, <3>1, <3>2 DEF CopiesInOrder
  <2>11. KnownOrRemoved'
    BY <1>0, <1>1, <2>2, <2>3 DEF KnownOrRemoved
  <2>12. WipedInv'
    BY <1>0, <1>1, <2>2, <2>3 DEF WipedInv
  <2>13. FlushInv'
    BY <1>0, <1>1, <1>3, <2>2, <2>3 DEF FlushInv
  <2> QED  BY <1>4, <2>4, <2>5, <2>6, <2>7, <2>8, <2>9, <2>10, <2>11, <2>12, <2>13 DEF PTInv
<1> QED  BY <1>5, <1>6

\* A write reaches the file: what comes after it is above it, and what came
\* before it is late from now on.
LEMMA LandsKeeps ==
    ASSUME PTInv, NEW i \in DOMAIN inFlight, Lands(i) PROVE PTInv'
<1> DEFINE w == inFlight[i]
<1>0. /\ TypeOK /\ OwnNodes /\ DownIsEmpty /\ TimersInv /\ PendingInv /\ LateFirst /\ LoopWrites
      /\ WaitsForTask /\ LiveNotCompleted /\ CopiesInOrder /\ KnownOrRemoved /\ WipedInv /\ FlushInv
  BY DEF PTInv
<1>1. /\ UNCHANGED <<trees, dirty, handle, waiting, fired, failed, tree, known, received, live,
                     captured, clearing, global, unsaved, restarts, failures, silent, removed,
                     outlived, flushed>>
      /\ StoreTypeOK /\ inFlight \in Seq(Writes) /\ w \in Writes
      /\ WriteLands(i) /\ file' = w.trees /\ overtaken' = w.late
      /\ mode' = IF w.by = "loop" /\ mode = "flushing" THEN "flushed" ELSE mode
      /\ wiped' = IF w.by = "loop" /\ mode # "flushing" THEN received \cap Roots
                  ELSE IF w.late THEN {r \in wiped : w.trees[r] = NoTree} ELSE wiped
  BY <1>0 DEF Lands, GoOn, Frame, WriteLands, timers, bounds, history, trees3, turns, clears,
              TypeOK, StoreTypeOK
<1>2. mode # "down" /\ mode' # "down"
  BY <1>0, <1>1 DEF DownIsEmpty
<1>3. \A c, d : Below(c, d) <=> Below(c, d)'
  BY <1>1 DEF Below, BelowBut, Completed
<1>4. w.trees \in Contents /\ w.late \in BOOLEAN
  BY <1>1 DEF Writes
<1>5. /\ inFlight' \in Seq(Writes)
      /\ \E at \in [DOMAIN inFlight' -> DOMAIN inFlight \ {i}] :
           /\ \A j \in DOMAIN inFlight' :
                /\ inFlight'[j].by = inFlight[at[j]].by /\ inFlight'[j].trees = inFlight[at[j]].trees
                /\ inFlight'[j].late <=> inFlight[at[j]].late \/ at[j] < i
           /\ \A j, k \in DOMAIN inFlight' : j < k => at[j] < at[k]
  BY <1>1, LandFacts
<1>6. PICK at \in [DOMAIN inFlight' -> DOMAIN inFlight \ {i}] :
           /\ \A j \in DOMAIN inFlight' :
                /\ inFlight'[j].by = inFlight[at[j]].by /\ inFlight'[j].trees = inFlight[at[j]].trees
                /\ inFlight'[j].late <=> inFlight[at[j]].late \/ at[j] < i
           /\ \A j, k \in DOMAIN inFlight' : j < k => at[j] < at[k]
  BY <1>5
<1>7. /\ \A j \in DOMAIN inFlight' : at[j] \in DOMAIN inFlight /\ at[j] # i
      /\ DOMAIN inFlight \subseteq Nat /\ DOMAIN inFlight' \subseteq Nat
  BY <1>1, <1>5, <1>6
<1>8. \A j \in DOMAIN inFlight' : ~inFlight'[j].late => ~inFlight[at[j]].late /\ i < at[j]
  BY <1>6, <1>7
<1>9. /\ Below(trees, tree) /\ Below(file, trees)
      /\ \A j \in DOMAIN inFlight :
           /\ Below(inFlight[j].trees, trees)
           /\ \A k \in DOMAIN inFlight : j < k => Below(inFlight[j].trees, inFlight[k].trees)
  BY <1>0, <1>2 DEF CopiesInOrder
<1> HIDE DEF w
<1>a. TypeOK'
  <2>1. StoreTypeOK'
    <3>1. dirty' \in BOOLEAN /\ overtaken' \in BOOLEAN /\ failed' \in BOOLEAN
      BY <1>1, <1>4 DEF StoreTypeOK
    <3> QED  BY <1>1, <1>4, <1>5, <3>1 DEF StoreTypeOK
  <2>2. mode' \in Modes /\ wiped' \subseteq Roots
    BY <1>0, <1>1 DEF TypeOK, Modes
  <2> QED  BY <1>0, <1>1, <2>1, <2>2 DEF TypeOK
<1>b. OwnNodes'
  <2>1. Held' \subseteq Held
    BY <1>1, <1>6, <1>7 DEF Held, w
  <2> QED  BY <1>0, <1>1, <2>1 DEF OwnNodes
<1>c. DownIsEmpty' /\ TimersInv'
  BY <1>0, <1>1, <1>2 DEF DownIsEmpty, TimersInv, DirtyHasTimer
<1>d. PendingInv'
  <2> SUFFICES ASSUME ~dirty
               PROVE  \/ BeingWritten'
                      \/ (trees = file' \/ overtaken') /\ \A j \in DOMAIN inFlight' : inFlight'[j].late
    BY <1>1 DEF PendingInv
  <2>1. CASE \A j \in DOMAIN inFlight : inFlight[j].late
    <3>1. overtaken' /\ \A j \in DOMAIN inFlight' : inFlight'[j].late
      BY <2>1, <1>1, <1>6, <1>7 DEF w
    <3> QED  BY <3>1
  <2>2. CASE BeingWritten /\ i = Len(inFlight)
    <3>1. trees = file'
      BY <2>2, <1>1 DEF BeingWritten, w
    <3>2. \A j \in DOMAIN inFlight' : inFlight'[j].late
      BY <2>2, <1>1, <1>6, <1>7
    <3> QED  BY <3>1, <3>2
  <2>3. CASE BeingWritten /\ i # Len(inFlight)
    <3>1. Len(inFlight) \in DOMAIN inFlight /\ i < Len(inFlight) /\ Len(inFlight) \in Nat
      BY <2>3, <1>1
    <3>2. inFlight' # <<>> /\ inFlight'[Len(inFlight')].trees = inFlight[Len(inFlight)].trees
      BY <2>3, <1>1, LandFacts
    <3> QED  BY <2>3, <3>2, <1>1 DEF BeingWritten
  <2> QED  BY <2>1, <2>2, <2>3, <1>0, <1>2 DEF PendingInv
<1>e. LateFirst'
  <2> SUFFICES ASSUME NEW j \in DOMAIN inFlight', NEW k \in DOMAIN inFlight', j < k, inFlight'[k].late
               PROVE  inFlight'[j].late
    BY DEF LateFirst
  <2>1. at[j] < at[k] /\ (inFlight[at[k]].late \/ at[k] < i)
    BY <1>6
  <2>2. inFlight[at[j]].late \/ at[j] < i
    BY <2>1, <1>0, <1>7 DEF LateFirst
  <2> QED  BY <2>2, <1>6
<1>f. LoopWrites'
  <2>1. \A j, k \in DOMAIN inFlight' : at[j] = at[k] => j = k
    BY <1>6, <1>7
  <2>2. \A j, k \in DOMAIN inFlight' : inFlight'[j].by = "loop" /\ inFlight'[k].by = "loop" => j = k
    BY <2>1, <1>0, <1>6, <1>7 DEF LoopWrites
  <2>3. ASSUME NEW j \in DOMAIN inFlight', inFlight'[j].by = "loop", mode' # "flushing"
        PROVE  /\ known = {} /\ trees = Nothing /\ \A n \in live : RootOf[n] \in outlived
               /\ \A k \in DOMAIN inFlight' : j <= k => inFlight'[k].trees = Nothing
    <3>1. inFlight[at[j]].by = "loop"
      BY <2>3, <1>6
    <3>2. w.by # "loop" /\ mode # "flushing"
      BY <3>1, <2>3, <1>0, <1>1, <1>7 DEF LoopWrites, w
    <3>3. \A k \in DOMAIN inFlight' : j <= k => at[j] <= at[k]
      BY <1>6, <1>7
    <3> QED  BY <3>1, <3>2, <3>3, <1>0, <1>6, <1>7 DEF LoopWrites
  <2> QED  BY <2>2, <2>3, <1>1 DEF LoopWrites
<1>g. WaitsForTask' /\ LiveNotCompleted'
  BY <1>0, <1>1 DEF WaitsForTask, LiveNotCompleted, InTree, Unfinished, State, Members
<1>h. CopiesInOrder'
  <2>1. Below(w.trees, trees)
    BY <1>9 DEF w
  <2>2. ASSUME NEW j \in DOMAIN inFlight'
        PROVE  /\ Below(inFlight'[j].trees, trees)
               /\ ~inFlight'[j].late => Below(w.trees, inFlight'[j].trees)
               /\ \A k \in DOMAIN inFlight' : j < k => Below(inFlight'[j].trees, inFlight'[k].trees)
    BY <1>6, <1>7, <1>8, <1>9 DEF w
  <2> QED  BY <2>1, <2>2, <1>1, <1>3, <1>9 DEF CopiesInOrder
<1>i. KnownOrRemoved'
  BY <1>0, <1>1, <1>2, <1>6, <1>7 DEF KnownOrRemoved, w
<1>j. WipedInv'
  <2> SUFFICES ASSUME NEW r \in wiped' \ outlived
               PROVE  /\ r \in received /\ r \notin known /\ trees[r] = NoTree /\ w.trees[r] = NoTree
                      /\ \A n \in live : RootOf[n] # r
                      /\ \A j \in DOMAIN inFlight' : inFlight'[j].late \/ inFlight'[j].trees[r] = NoTree
    BY <1>1 DEF WipedInv
  <2>1. CASE w.by = "loop" /\ mode # "flushing"
    <3>1. r \in received /\ r \in Roots
      BY <2>1, <1>1
    <3>2. /\ known = {} /\ trees = Nothing /\ \A n \in live : RootOf[n] \in outlived
          /\ \A j \in DOMAIN inFlight : i <= j => inFlight[j].trees = Nothing
      BY <2>1, <1>0 DEF LoopWrites, w
    <3>3. w.trees = Nothing /\ Nothing[r] = NoTree
      BY <3>1, <3>2, <1>7 DEF w, Nothing
    <3>4. \A j \in DOMAIN inFlight' : inFlight'[j].late \/ inFlight'[j].trees[r] = NoTree
      BY <3>2, <3>3, <1>6, <1>7, <1>8
    <3> QED  BY <3>1, <3>2, <3>3, <3>4
  <2>2. CASE ~(w.by = "loop" /\ mode # "flushing")
    <3>1. r \in wiped /\ (w.late => w.trees[r] = NoTree)
      BY <2>2, <1>1
    <3>2. /\ r \in received /\ r \notin known /\ trees[r] = NoTree
          /\ \A n \in live : RootOf[n] # r
          /\ \A j \in DOMAIN inFlight : inFlight[j].late \/ inFlight[j].trees[r] = NoTree
      BY <3>1, <1>0 DEF WipedInv
    <3> QED  BY <3>1, <3>2, <1>6, <1>7 DEF w
  <2> QED  BY <2>1, <2>2
<1>k. FlushInv'
  <2> SUFFICES ASSUME flushed # NoTree
               PROVE  /\ mode' \in {"flushing", "flushed", "quiet"} => Below(flushed, trees)
                      /\ mode' = "flushing" => \A j \in DOMAIN inFlight' :
                            inFlight'[j].by = "loop" => Below(flushed, inFlight'[j].trees)
                      /\ mode' \in {"flushed", "quiet"} => \A j \in DOMAIN inFlight' :
                            inFlight'[j].late \/ Below(flushed, inFlight'[j].trees)
                      /\ mode' \in {"flushed", "quiet", "down"} => w.late \/ Below(flushed, w.trees)
    BY <1>1, <1>3 DEF FlushInv
  <2>1. CASE w.by = "loop" /\ mode = "flushing"
    <3>1. mode' = "flushed" /\ Below(flushed, trees) /\ Below(flushed, w.trees)
      BY <2>1, <1>0, <1>1 DEF FlushInv, w
    <3>2. \A j \in DOMAIN inFlight' : ~inFlight'[j].late => Below(w.trees, inFlight'[j].trees)
      BY <1>6, <1>7, <1>8, <1>9 DEF w
    <3> QED  BY <3>1, <3>2, BelowFacts
  <2>2. CASE ~(w.by = "loop" /\ mode = "flushing")
    BY <2>2, <1>0, <1>1, <1>2, <1>6, <1>7 DEF FlushInv, w
  <2> QED  BY <2>1, <2>2
<1> QED  BY <1>a, <1>b, <1>c, <1>d, <1>e, <1>f, <1>g, <1>h, <1>i, <1>j, <1>k DEF PTInv

\* A write fails: the others are as they were, and the store is dirty.
LEMMA FailsKeeps ==
    ASSUME PTInv, NEW i \in DOMAIN inFlight, Fails(i) PROVE PTInv'
<1>0. /\ TypeOK /\ OwnNodes /\ DownIsEmpty /\ TimersInv /\ PendingInv /\ LateFirst /\ LoopWrites
      /\ WaitsForTask /\ LiveNotCompleted /\ CopiesInOrder /\ KnownOrRemoved /\ WipedInv /\ FlushInv
  BY DEF PTInv
<1>1. /\ UNCHANGED <<trees, file, overtaken, handle, waiting, fired, tree, known, received, live,
                     captured, clearing, global, unsaved, restarts, silent, removed, outlived, wiped>>
      /\ StoreTypeOK /\ inFlight \in Seq(Writes) /\ WriteFails(i) /\ dirty' = TRUE /\ failed' = TRUE
      /\ failures < MaxFailures /\ failures' = failures + 1
      /\ mode' = IF inFlight[i].by = "loop" /\ mode = "flushing" THEN "flushed" ELSE mode
      /\ flushed' = IF inFlight[i].by = "loop" THEN NoTree ELSE flushed
  BY <1>0 DEF Fails, GoOn, Frame, WriteFails, timers, bounds, history, trees3, turns, clears,
              TypeOK, StoreTypeOK
<1>2. mode # "down" /\ mode' # "down"
  BY <1>0, <1>1 DEF DownIsEmpty
<1>3. \A c, d : Below(c, d) <=> Below(c, d)'
  BY <1>1 DEF Below, BelowBut, Completed
<1>5. /\ inFlight' \in Seq(Writes)
      /\ \E at \in [DOMAIN inFlight' -> DOMAIN inFlight \ {i}] :
           /\ \A j \in DOMAIN inFlight' : inFlight'[j] = inFlight[at[j]]
           /\ \A j, k \in DOMAIN inFlight' : j < k => at[j] < at[k]
  BY <1>1, FailFacts
<1>6. PICK at \in [DOMAIN inFlight' -> DOMAIN inFlight \ {i}] :
           /\ \A j \in DOMAIN inFlight' : inFlight'[j] = inFlight[at[j]]
           /\ \A j, k \in DOMAIN inFlight' : j < k => at[j] < at[k]
  BY <1>5
<1>7. /\ \A j \in DOMAIN inFlight' : at[j] \in DOMAIN inFlight /\ at[j] # i
      /\ DOMAIN inFlight \subseteq Nat /\ DOMAIN inFlight' \subseteq Nat
  BY <1>1, <1>5, <1>6
<1>a. TypeOK'
  <2>1. StoreTypeOK'
    <3>1. dirty' \in BOOLEAN /\ overtaken' \in BOOLEAN /\ failed' \in BOOLEAN
      BY <1>1 DEF StoreTypeOK
    <3> QED  BY <1>1, <1>5, <3>1 DEF StoreTypeOK
  <2>2. mode' \in Modes /\ failures' \in 0..MaxFailures /\ flushed' \in Contents \cup {NoTree}
    BY <1>0, <1>1, PersistentTreesAssumption DEF TypeOK, Modes
  <2> QED  BY <1>0, <1>1, <2>1, <2>2 DEF TypeOK
<1>b. OwnNodes'
  <2>1. Held' \subseteq Held
    BY <1>1, <1>6, <1>7 DEF Held
  <2> QED  BY <1>0, <1>1, <2>1 DEF OwnNodes
<1>c. DownIsEmpty' /\ TimersInv' /\ PendingInv'
  BY <1>0, <1>1, <1>2 DEF DownIsEmpty, TimersInv, DirtyHasTimer, PendingInv
<1>d. LateFirst'
  BY <1>0, <1>6, <1>7 DEF LateFirst
<1>e. LoopWrites'
  <2>1. \A j, k \in DOMAIN inFlight' : at[j] = at[k] => j = k
    BY <1>6, <1>7
  <2>2. \A j, k \in DOMAIN inFlight' : inFlight'[j].by = "loop" /\ inFlight'[k].by = "loop" => j = k
    BY <2>1, <1>0, <1>6, <1>7 DEF LoopWrites
  <2>3. ASSUME NEW j \in DOMAIN inFlight', inFlight'[j].by = "loop", mode' # "flushing"
        PROVE  /\ known = {} /\ trees = Nothing /\ \A n \in live : RootOf[n] \in outlived
               /\ \A k \in DOMAIN inFlight' : j <= k => inFlight'[k].trees = Nothing
    <3>1. inFlight[at[j]].by = "loop"
      BY <2>3, <1>6
    <3>2. inFlight[i].by # "loop" /\ mode # "flushing"
      BY <3>1, <2>3, <1>0, <1>1, <1>7 DEF LoopWrites
    <3>3. \A k \in DOMAIN inFlight' : j <= k => at[j] <= at[k]
      BY <1>6, <1>7
    <3> QED  BY <3>1, <3>2, <3>3, <1>0, <1>6, <1>7 DEF LoopWrites
  <2> QED  BY <2>2, <2>3, <1>1 DEF LoopWrites
<1>f. WaitsForTask' /\ LiveNotCompleted'
  BY <1>0, <1>1 DEF WaitsForTask, LiveNotCompleted, InTree, Unfinished, State, Members
<1>g. CopiesInOrder'
  <2>1. /\ Below(trees, tree) /\ Below(file, trees)
        /\ \A j \in DOMAIN inFlight :
             /\ Below(inFlight[j].trees, trees)
             /\ ~inFlight[j].late => Below(file, inFlight[j].trees)
             /\ \A k \in DOMAIN inFlight : j < k => Below(inFlight[j].trees, inFlight[k].trees)
    BY <1>0, <1>2 DEF CopiesInOrder
  <2>2. ASSUME NEW j \in DOMAIN inFlight'
        PROVE  /\ Below(inFlight'[j].trees, trees)
               /\ ~inFlight'[j].late => Below(file, inFlight'[j].trees)
               /\ \A k \in DOMAIN inFlight' : j < k => Below(inFlight'[j].trees, inFlight'[k].trees)
    BY <2>1, <1>6, <1>7
  <2> QED  BY <2>1, <2>2, <1>1, <1>3 DEF CopiesInOrder
<1>h. KnownOrRemoved'
  BY <1>0, <1>1, <1>2, <1>6, <1>7 DEF KnownOrRemoved
<1>i. WipedInv'
  BY <1>0, <1>1, <1>6, <1>7 DEF WipedInv
<1>j. FlushInv'
  <2> SUFFICES ASSUME flushed' # NoTree
               PROVE  /\ mode' \in {"flushing", "flushed", "quiet"} => Below(flushed', trees)
                      /\ mode' = "flushing" => \A j \in DOMAIN inFlight' :
                            inFlight'[j].by = "loop" => Below(flushed', inFlight'[j].trees)
                      /\ mode' \in {"flushed", "quiet"} => \A j \in DOMAIN inFlight' :
                            inFlight'[j].late \/ Below(flushed', inFlight'[j].trees)
                      /\ mode' \in {"flushed", "quiet", "down"} => overtaken \/ Below(flushed', file)
    BY <1>1, <1>3 DEF FlushInv
  <2>1. flushed' = flushed /\ inFlight[i].by # "loop" /\ mode' = mode
    BY <1>1
  <2> QED  BY <2>1, <1>0, <1>6, <1>7 DEF FlushInv
<1> QED  BY <1>a, <1>b, <1>c, <1>d, <1>e, <1>f, <1>g, <1>h, <1>i, <1>j DEF PTInv

\* What Flush does to the store while the event loop writes nothing.
LEMMA FlushFacts ==
    ASSUME PTInv, LoopRuns, NEW c \in Contents, Flush(c)
    PROVE  /\ StoreTypeOK' /\ trees' = c /\ TimersInv' /\ PendingInv' /\ LateFirst'
           /\ UNCHANGED <<fired, file, overtaken, failed>>
           /\ \E n \in DOMAIN inFlight' :
                /\ inFlight'[n].by = "loop" /\ inFlight'[n].trees = c /\ ~inFlight'[n].late
                /\ \A j \in DOMAIN inFlight : /\ inFlight'[j] = inFlight[j] /\ j < n
                                              /\ j \in DOMAIN inFlight' /\ inFlight[j].by # "loop"
                /\ \A j \in DOMAIN inFlight' : j \in DOMAIN inFlight \/ j = n
                /\ \A j \in DOMAIN inFlight' : ~(n < j)
<1> DEFINE w == [by |-> "loop", trees |-> c, late |-> FALSE]
           n == Len(inFlight')
<1>0. TypeOK /\ StoreTypeOK /\ TimersInv /\ LateFirst /\ inFlight \in Seq(Writes)
  BY DEF PTInv, TypeOK, StoreTypeOK
<1>1. /\ trees' = c /\ dirty' = FALSE /\ handle' = "none" /\ inFlight' = Append(inFlight, w)
      /\ waiting' = IF handle = "waiting" THEN waiting - 1 ELSE waiting
      /\ UNCHANGED <<fired, file, overtaken, failed>>
  BY DEF Flush
<1>2. w \in Writes /\ w.by = "loop" /\ w.trees = c /\ ~w.late
  BY DEF Writes
<1> HIDE DEF w
<1>3. /\ inFlight' \in Seq(Writes) /\ n \in DOMAIN inFlight' /\ inFlight'[n] = w /\ inFlight' # <<>>
      /\ \A j \in DOMAIN inFlight : inFlight'[j] = inFlight[j] /\ j < n /\ j \in DOMAIN inFlight'
      /\ \A j \in DOMAIN inFlight' : j \in DOMAIN inFlight \/ j = n
  BY <1>0, <1>1, <1>2, AppendFacts
<1>4. StoreTypeOK'
  <2>1. dirty' \in BOOLEAN /\ overtaken' \in BOOLEAN /\ failed' \in BOOLEAN
    BY <1>0, <1>1 DEF StoreTypeOK
  <2>2. waiting' \in Nat
    BY <1>0, <1>1 DEF StoreTypeOK, TimersInv
  <2> QED  BY <1>0, <1>1, <1>3, <2>1, <2>2 DEF StoreTypeOK
<1>5. TimersInv'
  BY <1>1 DEF TimersInv, DirtyHasTimer
<1>6. PendingInv'
  BY <1>1, <1>2, <1>3 DEF PendingInv, BeingWritten
<1>7. LateFirst'
  <2> SUFFICES ASSUME NEW i \in DOMAIN inFlight', NEW j \in DOMAIN inFlight', i < j, inFlight'[j].late
               PROVE  inFlight'[i].late
    BY DEF LateFirst
  <2>1. j \in DOMAIN inFlight
    BY <1>2, <1>3
  <2>2. i \in DOMAIN inFlight
    BY <1>3, <2>1
  <2> QED  BY <1>0, <1>3, <2>1, <2>2 DEF LateFirst
<1>8. \A j \in DOMAIN inFlight : inFlight[j].by # "loop"
  BY DEF LoopRuns
<1>9. \A j \in DOMAIN inFlight' : ~(n < j)
  BY <1>3
<1> HIDE DEF n
<1> QED  BY <1>1, <1>2, <1>3, <1>4, <1>5, <1>6, <1>7, <1>8, <1>9

\* A shutdown flushes what is in memory.
LEMMA ShutdownKeeps ==
    ASSUME PTInv, Shutdown PROVE PTInv'
<1>0. /\ TypeOK /\ OwnNodes /\ DownIsEmpty /\ LoopWrites
      /\ WaitsForTask /\ LiveNotCompleted /\ CopiesInOrder /\ KnownOrRemoved /\ WipedInv /\ FlushInv
  BY DEF PTInv
<1>1. /\ mode = "up" /\ mode' = "flushing" /\ flushed' = trees /\ Flush(trees) /\ LoopRuns
      /\ UNCHANGED <<tree, known, received, live, captured, clearing, global, unsaved, restarts,
                     failures, silent, removed, outlived, wiped>>
      /\ trees \in Contents
  BY <1>0 DEF Shutdown, Runs, FlushPendingSave, Frame, bounds, trees3, turns, clears, TypeOK, StoreTypeOK
<1>2. /\ StoreTypeOK' /\ trees' = trees /\ TimersInv' /\ PendingInv' /\ LateFirst'
      /\ UNCHANGED <<fired, file, overtaken, failed>>
  BY <1>1, FlushFacts
<1>3. PICK n \in DOMAIN inFlight' :
        /\ inFlight'[n].by = "loop" /\ inFlight'[n].trees = trees /\ ~inFlight'[n].late
        /\ \A j \in DOMAIN inFlight : /\ inFlight'[j] = inFlight[j] /\ j < n
                                      /\ j \in DOMAIN inFlight' /\ inFlight[j].by # "loop"
        /\ \A j \in DOMAIN inFlight' : j \in DOMAIN inFlight \/ j = n
        /\ \A j \in DOMAIN inFlight' : ~(n < j)
  BY <1>1, FlushFacts
<1>4. \A c, d : Below(c, d) <=> Below(c, d)'
  BY <1>1 DEF Below, BelowBut, Completed
<1>a. TypeOK'
  BY <1>0, <1>1, <1>2 DEF TypeOK, Modes
<1>b. OwnNodes'
  <2>1. Held' = Held
    BY <1>1, <1>2, <1>3 DEF Held
  <2> QED  BY <1>0, <1>1, <2>1 DEF OwnNodes
<1>c. DownIsEmpty' /\ LoopWrites'
  BY <1>1, <1>3 DEF DownIsEmpty, LoopWrites
<1>d. WaitsForTask' /\ LiveNotCompleted'
  BY <1>0, <1>1 DEF WaitsForTask, LiveNotCompleted, InTree, Unfinished, State, Members
<1>e. CopiesInOrder'
  <2>1. /\ Below(trees, tree) /\ Below(file, trees)
        /\ \A i \in DOMAIN inFlight :
             /\ Below(inFlight[i].trees, trees)
             /\ ~inFlight[i].late => Below(file, inFlight[i].trees)
             /\ \A j \in DOMAIN inFlight : i < j => Below(inFlight[i].trees, inFlight[j].trees)
    BY <1>0, <1>1 DEF CopiesInOrder
  <2>2. ASSUME NEW i \in DOMAIN inFlight'
        PROVE  /\ Below(inFlight'[i].trees, trees)
               /\ ~inFlight'[i].late => Below(file, inFlight'[i].trees)
               /\ \A j \in DOMAIN inFlight' : i < j => Below(inFlight'[i].trees, inFlight'[j].trees)
    <3>1. CASE i = n
      BY <3>1, <1>3, <2>1, BelowFacts
    <3>2. CASE i # n
      BY <3>2, <1>3, <2>1
    <3> QED  BY <3>1, <3>2
  <2> QED  BY <1>1, <1>2, <1>4, <2>1, <2>2 DEF CopiesInOrder
<1>f. KnownOrRemoved' /\ WipedInv'
  BY <1>0, <1>1, <1>2, <1>3 DEF KnownOrRemoved, WipedInv
<1>g. FlushInv'
  <2>1. BelowBut(removed', trees, trees)
    BY DEF BelowBut
  <2>2. \A i \in DOMAIN inFlight' : inFlight'[i].by = "loop" => inFlight'[i].trees = trees
    BY <1>3
  <2> QED  BY <1>1, <1>2, <2>1, <2>2 DEF FlushInv, Below
<1> QED  BY <1>2, <1>a, <1>b, <1>c, <1>d, <1>e, <1>f, <1>g DEF PTInv

\* A global /clear empties the store: every tree it held was known, and is
\* removed from now on.
LEMMA ChatClearedKeeps ==
    ASSUME PTInv, ChatCleared PROVE PTInv'
<1>0. /\ TypeOK /\ OwnNodes /\ DownIsEmpty /\ LoopWrites
      /\ WaitsForTask /\ LiveNotCompleted /\ CopiesInOrder /\ KnownOrRemoved /\ WipedInv /\ FlushInv
  BY DEF PTInv
<1>1. /\ mode \in {"up", "flushed", "quiet"} /\ LoopRuns /\ Flush(Nothing)
      /\ global' = "none" /\ known' = {} /\ removed' = removed \cup known
      /\ outlived' = outlived \cup {RootOf[n] : n \in live}
      /\ UNCHANGED <<mode, tree, received, live, captured, clearing, unsaved, restarts,
                     failures, silent, wiped, flushed>>
      /\ Nothing \in Contents /\ \A r \in Roots : Nothing[r] = NoTree
  BY DataFacts DEF ChatCleared, Runs, ClearAll, bounds, turns, Nothing
<1>2. /\ StoreTypeOK' /\ trees' = Nothing /\ TimersInv' /\ PendingInv' /\ LateFirst'
      /\ UNCHANGED <<fired, file, overtaken, failed>>
  BY <1>1, FlushFacts
<1>3. PICK n \in DOMAIN inFlight' :
        /\ inFlight'[n].by = "loop" /\ inFlight'[n].trees = Nothing /\ ~inFlight'[n].late
        /\ \A j \in DOMAIN inFlight : /\ inFlight'[j] = inFlight[j] /\ j < n
                                      /\ j \in DOMAIN inFlight' /\ inFlight[j].by # "loop"
        /\ \A j \in DOMAIN inFlight' : j \in DOMAIN inFlight \/ j = n
        /\ \A j \in DOMAIN inFlight' : ~(n < j)
  BY <1>1, FlushFacts
<1>4. \A c, d : Below(c, d) => BelowBut(removed', c, d)
  BY <1>1 DEF Below, BelowBut
<1>5. \A c : (\A r \in Roots \ (known \cup removed) : c[r] = NoTree) => BelowBut(removed', c, Nothing)
  BY <1>1 DEF BelowBut, Completed
<1>6. \A r \in Roots \ (known \cup removed) :
        /\ trees[r] = NoTree /\ file[r] = NoTree /\ (flushed # NoTree => flushed[r] = NoTree)
        /\ \A i \in DOMAIN inFlight : inFlight[i].trees[r] = NoTree
  BY <1>0, <1>1 DEF KnownOrRemoved
<1>7. \A n1 \in live : n1 \in Nodes
  BY <1>0 DEF TypeOK
<1>a. TypeOK'
  BY <1>0, <1>1, <1>2, <1>7, RootsAreNodes DEF TypeOK
<1>b. OwnNodes'
  <2> SUFFICES ASSUME NEW c \in Held', NEW r \in Roots, c[r] # NoTree
               PROVE  \A m \in DOMAIN c[r] : m \in received /\ RootOf[m] = r
    BY <1>0, <1>1 DEF OwnNodes
  <2>1. c \in Held
    BY <1>1, <1>2, <1>3 DEF Held
  <2> QED  BY <2>1, <1>0 DEF OwnNodes
<1>c. DownIsEmpty'
  BY <1>1 DEF DownIsEmpty
<1>d. LoopWrites'
  <2>1. \A i \in DOMAIN inFlight' : inFlight'[i].by = "loop" => i = n
    BY <1>3
  <2>2. \A j \in DOMAIN inFlight' : n <= j => j = n
    BY <1>2, <1>3 DEF StoreTypeOK
  <2>3. \A m \in live : RootOf[m] \in outlived'
    BY <1>1
  <2> QED  BY <1>1, <1>2, <1>3, <2>1, <2>2, <2>3 DEF LoopWrites
<1>e. WaitsForTask' /\ LiveNotCompleted'
  BY <1>0, <1>1 DEF WaitsForTask, LiveNotCompleted, InTree, State, Members
<1>f. CopiesInOrder'
  <2>1. \A i, j \in DOMAIN inFlight : i < j => Below(inFlight[i].trees, inFlight[j].trees)
    BY <1>0, <1>1 DEF CopiesInOrder
  <2>2. \A i \in DOMAIN inFlight : ~inFlight[i].late => Below(file, inFlight[i].trees)
    BY <1>0, <1>1 DEF CopiesInOrder
  <2>3. BelowBut(removed', Nothing, tree) /\ BelowBut(removed', file, Nothing)
    BY <1>1, <1>5, <1>6 DEF BelowBut, Completed
  <2>4. \A i \in DOMAIN inFlight : BelowBut(removed', inFlight[i].trees, Nothing)
    BY <1>5, <1>6
  <2>5. ASSUME NEW i \in DOMAIN inFlight'
        PROVE  /\ BelowBut(removed', inFlight'[i].trees, Nothing)
               /\ ~inFlight'[i].late => BelowBut(removed', file, inFlight'[i].trees)
               /\ \A j \in DOMAIN inFlight' : i < j => BelowBut(removed', inFlight'[i].trees, inFlight'[j].trees)
    <3>1. BelowBut(removed', Nothing, Nothing)
      BY DEF BelowBut
    <3> QED  BY <1>3, <1>4, <2>1, <2>2, <2>3, <2>4, <3>1
  <2> QED  BY <1>1, <1>2, <2>3, <2>5 DEF CopiesInOrder, Below
<1>g. KnownOrRemoved'
  BY <1>0, <1>1, <1>2, <1>3, <1>6 DEF KnownOrRemoved
<1>h. WipedInv'
  <2>1. wiped' \ outlived' \subseteq wiped \ outlived /\ wiped \subseteq Roots
    BY <1>0, <1>1 DEF TypeOK
  <2> QED  BY <2>1, <1>0, <1>1, <1>2, <1>3 DEF WipedInv
<1>i. FlushInv'
  <2> SUFFICES ASSUME flushed # NoTree PROVE FlushInv'
    BY <1>1 DEF FlushInv
  <2>1. BelowBut(removed', flushed, Nothing)
    BY <1>5, <1>6
  <2> QED  BY <2>1, <1>0, <1>1, <1>2, <1>3, <1>4 DEF FlushInv, Below
<1> QED  BY <1>2, <1>a, <1>b, <1>c, <1>d, <1>e, <1>f, <1>g, <1>h, <1>i DEF PTInv

\* The platform stops.
LEMMA PlatformStopsKeeps ==
    ASSUME PTInv, PlatformStops PROVE PTInv'
<1>0. /\ TypeOK /\ OwnNodes /\ DownIsEmpty /\ TimersInv /\ PendingInv /\ LateFirst /\ LoopWrites
      /\ WaitsForTask /\ LiveNotCompleted /\ CopiesInOrder /\ KnownOrRemoved /\ WipedInv /\ FlushInv
  BY DEF PTInv
<1>1. /\ mode = "flushed" /\ mode' = "quiet" /\ LoopRuns
      /\ UNCHANGED <<trees, dirty, handle, waiting, fired, inFlight, file, overtaken, failed, tree, known,
                     received, live, captured, clearing, global, unsaved, restarts, failures, silent,
                     removed, outlived, wiped, flushed>>
  BY DEF PlatformStops, Runs, Frame, storeVars, timers, bounds, history, trees3, turns, clears
<1>2. TypeOK'
  BY <1>0, <1>1 DEF TypeOK, StoreTypeOK, Modes
<1>3. OwnNodes' /\ DownIsEmpty' /\ TimersInv' /\ PendingInv' /\ LateFirst'
  BY <1>0, <1>1 DEF OwnNodes, Held, DownIsEmpty, TimersInv, DirtyHasTimer, PendingInv, BeingWritten, LateFirst
<1>4. LoopWrites'
  BY <1>0, <1>1 DEF LoopWrites, LoopRuns
<1>5. WaitsForTask' /\ LiveNotCompleted'
  BY <1>0, <1>1 DEF WaitsForTask, LiveNotCompleted, InTree, Unfinished, State, Members
<1>6. CopiesInOrder' /\ KnownOrRemoved' /\ WipedInv'
  BY <1>0, <1>1 DEF CopiesInOrder, Below, KnownOrRemoved, WipedInv
<1>7. FlushInv'
  BY <1>0, <1>1 DEF FlushInv, Below
<1> QED  BY <1>2, <1>3, <1>4, <1>5, <1>6, <1>7 DEF PTInv

\* The process ends: only the file is left, and what was flushed to it.
LEMMA DiesKeeps ==
    ASSUME PTInv, Exit \/ Crash PROVE PTInv'
<1>0. /\ TypeOK /\ OwnNodes /\ WipedInv /\ FlushInv
  BY DEF PTInv
<1>1. /\ trees' = Nothing /\ dirty' = FALSE /\ failed' = FALSE /\ handle' = "none" /\ waiting' = 0
      /\ fired' = 0 /\ inFlight' = <<>> /\ mode' = "down" /\ tree' = Nothing /\ known' = {}
      /\ live' = {} /\ captured' = {} /\ clearing' = {} /\ global' = "none" /\ unsaved' = {}
      /\ UNCHANGED <<file, overtaken, received, restarts, failures, silent, removed, outlived, wiped>>
      /\ flushed' = NoTree \/ (flushed' = flushed /\ mode = "quiet")
      /\ Nothing \in Contents /\ \A r \in Roots : Nothing[r] = NoTree
  BY DataFacts DEF Exit, Crash, Dies, StoreDies, bounds, Nothing
<1>2. inFlight' \in Seq(Writes) /\ DOMAIN inFlight' = {}
  BY <1>1
<1>a. TypeOK'
  <2>1. StoreTypeOK'
    <3>1. dirty' \in BOOLEAN /\ failed' \in BOOLEAN /\ overtaken' \in BOOLEAN
      BY <1>0, <1>1 DEF TypeOK, StoreTypeOK
    <3> QED  BY <1>0, <1>1, <1>2, <3>1 DEF TypeOK, StoreTypeOK
  <2>2. flushed' \in Contents \cup {NoTree} /\ mode' \in Modes
    BY <1>0, <1>1 DEF TypeOK, Modes
  <2> QED  BY <1>0, <1>1, <2>1, <2>2 DEF TypeOK
<1>b. OwnNodes'
  <2>1. Held' = {Nothing, file}
    BY <1>1, <1>2 DEF Held
  <2>2. file \in Held
    BY DEF Held
  <2> QED  BY <1>0, <1>1, <2>1, <2>2 DEF OwnNodes
<1>c. DownIsEmpty' /\ TimersInv' /\ PendingInv' /\ LateFirst' /\ LoopWrites'
  BY <1>1, <1>2 DEF DownIsEmpty, TimersInv, DirtyHasTimer, PendingInv, LateFirst, LoopWrites
<1>d. WaitsForTask' /\ LiveNotCompleted' /\ CopiesInOrder' /\ KnownOrRemoved'
  BY <1>1 DEF WaitsForTask, LiveNotCompleted, CopiesInOrder, KnownOrRemoved
<1>e. WipedInv'
  BY <1>0, <1>1, <1>2 DEF WipedInv, TypeOK
<1>f. FlushInv'
  <2>1. flushed' # NoTree => overtaken \/ Below(flushed, file)
    BY <1>0, <1>1 DEF FlushInv
  <2> QED  BY <2>1, <1>1 DEF FlushInv, Below
<1> QED  BY <1>a, <1>b, <1>c, <1>d, <1>e, <1>f DEF PTInv

\* What a restart makes of a tree.
LEMMA CleanedFacts ==
    ASSUME NEW d \in Data \cup {NoTree}
    PROVE  /\ Cleaned(d) \in Data \cup {NoTree} /\ (Cleaned(d) = NoTree <=> d = NoTree)
           /\ d # NoTree =>
                /\ DOMAIN Cleaned(d) = DOMAIN d
                /\ \A n \in DOMAIN d : /\ Cleaned(d)[n] \notin {"pending", "in_progress"}
                                       /\ d[n] = "completed" <=> Cleaned(d)[n] = "completed"
<1>1. CASE d = NoTree
  BY <1>1, DataFacts DEF Cleaned
<1>2. CASE d # NoTree
  <2>1. DOMAIN d \in (SUBSET Nodes) \ {{}} /\ \A n \in DOMAIN d : d[n] \in States
    BY <1>2, DataFacts
  <2>2. Cleaned(d) = [n \in DOMAIN d |-> IF d[n] \in {"pending", "in_progress"} THEN "error" ELSE d[n]]
    BY <1>2 DEF Cleaned
  <2>3. Cleaned(d) \in [DOMAIN d -> States]
    BY <2>1, <2>2 DEF States
  <2>4. Cleaned(d) \in Data
    BY <2>1, <2>3, DataFacts
  <2>5. \A n \in DOMAIN d : /\ Cleaned(d)[n] \notin {"pending", "in_progress"}
                            /\ d[n] = "completed" <=> Cleaned(d)[n] = "completed"
    BY <2>1, <2>2
  <2>6. DOMAIN Cleaned(d) = DOMAIN d
    BY <2>2
  <2> QED  BY <1>2, <2>4, <2>5, <2>6, DataFacts
<1> QED  BY <1>1, <1>2

\* A new process finds the completed turns of the file, and no other turn
\* that would wait for a task.
LEMMA RestartKeeps ==
    ASSUME PTInv, Restart PROVE PTInv'
<1> DEFINE restored == [r \in Roots |-> Cleaned(file[r])]
<1>0. TypeOK /\ OwnNodes /\ DownIsEmpty /\ WipedInv /\ file \in Contents
  BY DEF PTInv, TypeOK, StoreTypeOK
<1>1. /\ mode = "down" /\ restarts < MaxRestarts /\ restarts' = restarts + 1 /\ mode' = "up"
      /\ tree' = restored /\ trees' = restored /\ known' = {r \in Roots : file[r] # NoTree}
      /\ dirty' = (restored # file)
      /\ handle' = IF restored # file THEN "waiting" ELSE "none"
      /\ waiting' = IF restored # file THEN 1 ELSE 0
      /\ overtaken' = FALSE /\ flushed' = NoTree
      /\ UNCHANGED <<fired, inFlight, file, failed, received, live, captured, clearing, global,
                     unsaved, failures, silent, removed, outlived, wiped>>
  BY DEF Restart, StoreLoads, turns, clears
<1>2. /\ trees = Nothing /\ inFlight = <<>> /\ known = {} /\ live = {} /\ fired = 0 /\ DOMAIN inFlight = {}
  BY <1>0, <1>1 DEF DownIsEmpty
<1>3. \A r \in Roots : restored[r] = Cleaned(file[r]) /\ file[r] \in Data \cup {NoTree}
  BY <1>0, DataFacts
<1>4. restored \in Contents
  BY <1>3, CleanedFacts, DataFacts
<1> HIDE DEF restored
<1>5. \A r \in Roots : /\ restored[r] = NoTree <=> file[r] = NoTree
                       /\ file[r] # NoTree =>
                            /\ DOMAIN restored[r] = DOMAIN file[r]
                            /\ \A n \in DOMAIN file[r] :
                                 /\ restored[r][n] \notin {"pending", "in_progress"}
                                 /\ file[r][n] = "completed" <=> restored[r][n] = "completed"
  BY <1>3, CleanedFacts
<1>6. \A r \in Roots : Completed(restored, r) = Completed(file, r)
  BY <1>5 DEF Completed
<1>a. TypeOK'
  <2>1. StoreTypeOK'
    <3>1. dirty' \in BOOLEAN /\ overtaken' \in BOOLEAN /\ failed' \in BOOLEAN
      BY <1>0, <1>1 DEF TypeOK, StoreTypeOK
    <3>2. handle' \in {"none", "waiting", "fired"} /\ waiting' \in Nat
      BY <1>1
    <3> QED  BY <1>0, <1>1, <1>4, <3>1, <3>2 DEF TypeOK, StoreTypeOK
  <2>2. restarts' \in 0..MaxRestarts /\ mode' \in Modes
    BY <1>0, <1>1, PersistentTreesAssumption DEF TypeOK, Modes
  <2> QED  BY <1>0, <1>1, <1>4, <2>1, <2>2 DEF TypeOK
<1>b. OwnNodes'
  <2>1. file \in Held /\ Held' = {restored, file}
    BY <1>1, <1>2 DEF Held
  <2> QED  BY <2>1, <1>0, <1>1, <1>5 DEF OwnNodes
<1>c. TimersInv'
  <2>1. CASE restored # file
    <3>1. waiting' = 1 /\ fired' = 0
      BY <2>1, <1>1, <1>2
    <3> QED  BY <3>1 DEF TimersInv, DirtyHasTimer
  <2>2. CASE restored = file
    <3>1. dirty' = FALSE /\ handle' = "none"
      BY <2>2, <1>1
    <3> QED  BY <3>1 DEF TimersInv, DirtyHasTimer
  <2> QED  BY <2>1, <2>2
<1>d. DownIsEmpty' /\ PendingInv' /\ LateFirst' /\ LoopWrites'
  BY <1>1, <1>2 DEF DownIsEmpty, PendingInv, LateFirst, LoopWrites
<1>e. WaitsForTask'
  <2> SUFFICES ASSUME NEW r \in Roots, file[r] # NoTree, NEW n \in Members(r)'
               PROVE  ~Unfinished(n)'
    BY <1>1 DEF WaitsForTask
  <2>1. n \in DOMAIN file[r]
    BY <1>1, <1>5 DEF Members
  <2>2. RootOf[n] = r
    BY <2>1, <1>0 DEF OwnNodes, Held
  <2> QED  BY <2>1, <2>2, <1>1, <1>5 DEF Unfinished, State
<1>f. LiveNotCompleted'
  BY <1>1, <1>2 DEF LiveNotCompleted
<1>g. CopiesInOrder'
  <2>1. BelowBut(removed, restored, restored) /\ BelowBut(removed, file, restored)
    BY <1>6 DEF BelowBut
  <2> QED  BY <1>1, <1>2, <2>1 DEF CopiesInOrder, Below
<1>h. KnownOrRemoved'
  BY <1>1, <1>2, <1>5 DEF KnownOrRemoved
<1>i. WipedInv'
  <2>1. wiped \subseteq Roots
    BY <1>0 DEF TypeOK
  <2> QED  BY <2>1, <1>0, <1>1, <1>2, <1>5 DEF WipedInv
<1>j. FlushInv'
  BY <1>1 DEF FlushInv
<1> QED  BY <1>a, <1>b, <1>c, <1>d, <1>e, <1>f, <1>g, <1>h, <1>i, <1>j DEF PTInv

-----------------------------------------------------------------------------
(* What each handler does to the trees.                                    *)

\* The members of a tree are its own messages, received before.
LEMMA MemberFacts ==
    ASSUME PTInv, NEW r \in Roots
    PROVE  /\ tree[r] # NoTree <=> Members(r) # {}
           /\ tree[r] # NoTree => tree[r] \in [Members(r) -> States]
           /\ \A n \in Members(r) : n \in received /\ RootOf[n] = r /\ State(n) = tree[r][n]
<1>1. tree[r] \in Data \cup {NoTree} /\ OwnNodes /\ tree \in Held
  BY DataFacts DEF PTInv, TypeOK, Held
<1>2. CASE tree[r] = NoTree
  BY <1>2 DEF Members
<1>3. CASE tree[r] # NoTree
  <2>1. Members(r) = DOMAIN tree[r] /\ tree[r] \in TreeData
    BY <1>1, <1>3, DataFacts DEF Members
  <2>2. PICK S \in SUBSET Nodes : tree[r] \in [S -> States]
    BY <2>1 DEF TreeData
  <2>3. tree[r] \in [Members(r) -> States] /\ Members(r) # {}
    BY <1>1, <1>3, <2>1, <2>2, DataFacts
  <2>4. \A n \in Members(r) : n \in received /\ RootOf[n] = r
    BY <1>1, <1>3, <2>1 DEF OwnNodes
  <2> QED  BY <1>3, <2>3, <2>4 DEF State
<1> QED  BY <1>2, <1>3

\* Trees are replaced, by others on their own messages.
LEMMA TreesReplaced ==
    ASSUME PTInv, UNCHANGED <<file, inFlight>>, received \subseteq received', received' \subseteq Nodes,
           \A n \in received' : RootOf[n] \in received',
           NEW t, NEW s,
           tree' = [r \in Roots |-> t[r]], trees' = [r \in Roots |-> s[r]],
           \A r \in Roots : \/ t[r] = tree[r] \/ t[r] = NoTree
                            \/ \E S \in SUBSET received' : /\ S # {} /\ t[r] \in [S -> States]
                                                            /\ \A n \in S : RootOf[n] = r,
           \A r \in Roots : s[r] \in {trees[r], t[r], NoTree}
    PROVE  tree' \in Contents /\ trees' \in Contents /\ OwnNodes'
<1>0. OwnNodes /\ tree \in Contents /\ trees \in Contents
  BY DEF PTInv, TypeOK, StoreTypeOK
<1>1. ASSUME NEW r \in Roots
      PROVE  /\ t[r] \in Data \cup {NoTree} /\ s[r] \in Data \cup {NoTree}
             /\ t[r] # NoTree => \A n \in DOMAIN t[r] : n \in received' /\ RootOf[n] = r
  <2>1. tree[r] \in Data \cup {NoTree} /\ trees[r] \in Data \cup {NoTree}
    BY <1>0, DataFacts
  <2>2. CASE t[r] = tree[r] \/ t[r] = NoTree
    BY <2>1, <2>2, <1>0 DEF OwnNodes, Held
  <2>3. CASE \E S \in SUBSET received' : /\ S # {} /\ t[r] \in [S -> States]
                                         /\ \A n \in S : RootOf[n] = r
    <3>1. PICK S \in SUBSET received' : S # {} /\ t[r] \in [S -> States] /\ \A n \in S : RootOf[n] = r
      BY <2>3
    <3>2. S \in (SUBSET Nodes) \ {{}} /\ DOMAIN t[r] = S
      BY <3>1
    <3>3. t[r] \in Data
      BY <3>1, <3>2, DataFacts
    <3>4. \A n \in DOMAIN t[r] : n \in received' /\ RootOf[n] = r
      BY <3>1, <3>2
    <3> QED  BY <2>1, <3>3, <3>4
  <2> QED  BY <2>2, <2>3
<1>2. tree' \in Contents /\ trees' \in Contents
  BY <1>1, DataFacts
<1>3. OwnNodes'
  <2> SUFFICES ASSUME NEW c \in Held', NEW r \in Roots, c[r] # NoTree
               PROVE  \A n \in DOMAIN c[r] : n \in received' /\ RootOf[n] = r
    BY DEF OwnNodes
  <2>1. \A d \in Held : d[r] # NoTree => \A n \in DOMAIN d[r] : n \in received' /\ RootOf[n] = r
    BY <1>0 DEF OwnNodes
  <2>2. c \in Held \/ c = tree' \/ c = trees'
    BY DEF Held
  <2>3. trees \in Held /\ tree'[r] = t[r] /\ trees'[r] = s[r]
    BY DEF Held
  <2> QED  BY <1>1, <2>1, <2>2, <2>3
<1> QED  BY <1>2, <1>3

\* One tree gets some of its nodes marked, none of them completed before,
\* and is saved or not.
LEMMA MarkKeeps ==
    ASSUME PTInv, Runs, NEW r \in Roots, tree[r] # NoTree, NEW S, NEW s \in States,
           \A n \in S \cap Members(r) : s = "completed" \/ tree[r][n] # "completed",
           tree' = [tree EXCEPT ![r] = Marked(r, S, s)],
           \/ SaveTree(r, Marked(r, S, s)) /\ (r \in known \/ \E n \in live : RootOf[n] = r)
           \/ UNCHANGED storeVars,
           UNCHANGED <<mode, known, received, clears, bounds, removed, outlived, wiped, flushed>>,
           live' \subseteq live, captured' \subseteq live', silent \subseteq silent', silent' \subseteq received,
           \A n \in live \ live' : n \in silent' \/ (RootOf[n] = r /\ (r \notin known \/ (s \in {"error", "completed"} /\ n \in S))),
           s = "pending" => S \subseteq live' \cup silent',
           s = "in_progress" => S \subseteq live' \cup silent',
           s = "completed" => S \cap live' = {}
    PROVE  PTInv'
<1> DEFINE t == Marked(r, S, s)
<1>0. /\ TypeOK /\ WaitsForTask /\ LiveNotCompleted /\ KnownOrRemoved /\ WipedInv
      /\ tree \in Contents /\ trees \in Contents /\ inFlight' = inFlight /\ file' = file /\ overtaken' = overtaken
  BY DEF PTInv, TypeOK, StoreTypeOK, SaveTree, SaveTrees, Schedule, storeVars
<1>1. /\ tree[r] \in [Members(r) -> States] /\ Members(r) # {} /\ Members(r) \subseteq received
      /\ \A n \in Members(r) : RootOf[n] = r
  BY MemberFacts
<1>2. /\ t \in [Members(r) -> States] /\ t # NoTree
      /\ \A n \in Members(r) : t[n] = IF n \in S THEN s ELSE tree[r][n]
  <2>1. t = [n \in Members(r) |-> IF n \in S THEN s ELSE tree[r][n]]
    BY DEF Marked
  <2>2. t \in [Members(r) -> States]
    BY <1>1, <2>1
  <2>3. t # NoTree
    <3>1. Members(r) \in (SUBSET Nodes) \ {{}}
      BY <1>0, <1>1 DEF TypeOK
    <3> QED  BY <2>2, <3>1, DataFacts
  <2> QED  BY <1>1, <2>1, <2>2, <2>3
<1> HIDE DEF t
<1>3. /\ tree' = [q \in Roots |-> IF q = r THEN t ELSE tree[q]]
      /\ trees' = [q \in Roots |-> trees'[q]] /\ \A q \in Roots : trees'[q] \in {trees[q], tree'[q]}
      /\ \A q \in Roots : trees'[q] # trees[q] => q = r /\ (r \in known \/ \E n \in live : RootOf[n] = r)
      /\ Schedule \/ UNCHANGED storeVars
  <2>1. tree' = [q \in Roots |-> IF q = r THEN t ELSE tree[q]]
    BY <1>0, DataFacts DEF t
  <2>2. trees \in [Roots -> Data \cup {NoTree}]
    BY <1>0, DataFacts
  <2>3. CASE SaveTree(r, t) /\ (r \in known \/ \E n \in live : RootOf[n] = r)
    <3>1. trees' = [trees EXCEPT ![r] = t] /\ Schedule
      BY <2>3 DEF SaveTree, SaveTrees
    <3> QED  BY <2>1, <2>2, <2>3, <3>1
  <2>4. CASE UNCHANGED storeVars
    <3>1. trees' = trees
      BY <2>4 DEF storeVars
    <3> QED  BY <2>1, <2>2, <2>4, <3>1
  <2> QED  BY <2>3, <2>4 DEF t
<1>4. tree' \in Contents /\ trees' \in Contents /\ OwnNodes'
  <2> DEFINE f == [q \in Roots |-> IF q = r THEN t ELSE tree[q]]
  <2>1. \A q \in Roots : \/ f[q] = tree[q] \/ f[q] = NoTree
                         \/ \E N \in SUBSET received' : /\ N # {} /\ f[q] \in [N -> States]
                                                        /\ \A n \in N : RootOf[n] = q
    BY <1>1, <1>2
  <2>2. \A q \in Roots : trees'[q] \in {trees[q], f[q], NoTree}
    BY <1>3
  <2>3. tree' = [q \in Roots |-> f[q]]
    BY <1>3
  <2>4. /\ received \subseteq received' /\ received' \subseteq Nodes /\ UNCHANGED <<file, inFlight>>
        /\ \A n \in received' : RootOf[n] \in received'
    BY <1>0 DEF TypeOK, PTInv, OwnNodes
  <2> HIDE DEF f
  <2> QED  BY <1>3, <2>1, <2>2, <2>3, <2>4, TreesReplaced
<1>5. \A q \in Roots : Members(q)' = Members(q)
  BY <1>1, <1>2, <1>3 DEF Members
<1>6. \A n \in Nodes : /\ InTree(n)' = InTree(n)
                       /\ InTree(n) => State(n)' = IF RootOf[n] = r /\ n \in S THEN s ELSE State(n)
  BY <1>1, <1>2, <1>3, <1>5, RootsAreNodes DEF InTree, State
<1>7. WaitsForTask'
  <2> SUFFICES ASSUME NEW q \in known, NEW n \in Members(q), Unfinished(n)'
               PROVE  n \in live' \cup silent'
    BY <1>0, <1>5 DEF WaitsForTask, TypeOK
  <2>1. q \in Roots /\ n \in received /\ RootOf[n] = q /\ n \in Nodes /\ InTree(n)
    BY <1>0, MemberFacts DEF TypeOK, InTree
  <2>2. CASE q = r /\ n \in S
    <3>1. s \in {"pending", "in_progress"}
      BY <2>1, <2>2, <1>6 DEF Unfinished
    <3> QED  BY <2>2, <3>1
  <2>3. CASE ~(q = r /\ n \in S)
    <3>1. Unfinished(n)
      BY <2>1, <2>3, <1>6 DEF Unfinished
    <3>2. n \in live \cup silent
      BY <3>1, <1>0 DEF WaitsForTask
    <3> QED  BY <2>1, <2>3, <3>2
  <2> QED  BY <2>2, <2>3
<1>8. LiveNotCompleted'
  <2> SUFFICES ASSUME NEW n \in live', InTree(n)' PROVE State(n)' # "completed"
    BY DEF LiveNotCompleted
  <2>1. n \in live /\ n \in Nodes
    BY <1>0 DEF TypeOK
  <2> QED  BY <2>1, <1>0, <1>6 DEF LiveNotCompleted
<1>9. \A q \in Roots : Completed(tree, q) \subseteq Completed(tree', q)
  <2> TAKE q \in Roots
  <2>1. CASE q = r
    <3>1. tree'[r] = t /\ DOMAIN t = Members(r) /\ DOMAIN tree[r] = Members(r)
      BY <1>1, <1>2, <1>3
    <3>2. \A n \in Members(r) : tree[r][n] = "completed" => t[n] = "completed"
      BY <1>2
    <3> QED  BY <2>1, <3>1, <3>2, <1>2 DEF Completed
  <2>2. CASE q # r
    <3>1. tree'[q] = tree[q]
      BY <2>2, <1>3
    <3> QED  BY <3>1, SameCompleted
  <2> QED  BY <2>1, <2>2
<1>10. \A q \in Roots : \/ trees'[q] = trees[q]
                        \/ trees'[q] = tree'[q] /\ (q \in known' \/ \E n \in live : q = RootOf[n])
  BY <1>3
<1>11. /\ live' \subseteq received' /\ known' \subseteq Roots /\ received' \subseteq Nodes
       /\ silent' \subseteq received' /\ clearing' \subseteq Roots /\ unsaved' \subseteq Roots
       /\ global' \in {"none", "stop", "clear", "deleting"} /\ removed' \subseteq Roots
       /\ UNCHANGED <<mode, file, inFlight, overtaken, wiped, outlived, flushed, bounds>>
  BY <1>0 DEF TypeOK, clears
<1>12. known' \cap (wiped \ outlived) = {}
  BY <1>0 DEF WipedInv
<1> QED  BY <1>3, <1>4, <1>7, <1>8, <1>9, <1>10, <1>11, <1>12, HandlerKeeps

\* A handler that changes no tree, and saves none that is not known.
LEMMA QuietKeeps ==
    ASSUME PTInv, Runs, Schedule \/ UNCHANGED storeVars,
           UNCHANGED <<file, inFlight, overtaken, mode, tree, known, received, bounds,
                       removed, outlived, wiped, flushed>>,
           NEW s, trees' = [r \in Roots |-> s[r]],
           \A r \in Roots : s[r] = trees[r] \/ (s[r] = tree[r] /\ r \in known),
           clearing' \subseteq Roots, unsaved' \subseteq Roots,
           global' \in {"none", "stop", "clear", "deleting"},
           live' \subseteq live, captured' \subseteq live', silent \subseteq silent', silent' \subseteq received,
           \A n \in live \ live' : n \in silent' \/ RootOf[n] \notin known
    PROVE  PTInv'
<1>1. /\ TypeOK /\ OwnNodes /\ WaitsForTask /\ LiveNotCompleted /\ WipedInv
      /\ tree \in Contents /\ trees \in Contents
  BY DEF PTInv, TypeOK, StoreTypeOK
<1>2. trees' \in Contents
  BY <1>1, DataFacts
<1>3. OwnNodes'
  <2>1. \A c \in Held' : c \in Held \/ c = trees'
    BY DEF Held
  <2>2. tree \in Held /\ trees \in Held /\ \A r \in Roots : trees'[r] = trees[r] \/ trees'[r] = tree[r]
    BY DEF Held
  <2> QED  BY <1>1, <2>1, <2>2 DEF OwnNodes
<1>4. WaitsForTask'
  <2> SUFFICES ASSUME NEW r \in known, NEW n \in Members(r), Unfinished(n) PROVE n \in live' \cup silent'
    BY DEF WaitsForTask, Members, Unfinished, InTree, State
  <2>1. n \in live \cup silent /\ RootOf[n] = r
    BY <1>1, MemberFacts DEF WaitsForTask, TypeOK
  <2> QED  BY <2>1
<1>5. LiveNotCompleted'
  BY <1>1 DEF LiveNotCompleted, InTree, State, Members
<1>6. known \cap (wiped \ outlived) = {}
  BY <1>1 DEF WipedInv
<1>7. live' \subseteq received' /\ received' \subseteq Nodes /\ known' \subseteq Roots /\ removed' \subseteq Roots
  BY <1>1 DEF TypeOK
<1>8. \A r \in Roots : trees'[r] = trees[r] \/ (trees'[r] = tree'[r] /\ r \in known')
  OBVIOUS
<1>9. \A r \in Roots \ removed' : Completed(tree, r) \subseteq Completed(tree', r)
  OBVIOUS
<1> QED  BY <1>1, <1>2, <1>3, <1>4, <1>5, <1>6, <1>7, <1>8, <1>9, HandlerKeeps

\* The trees of S are cancelled, and saved or not.
LEMMA CancelKeeps ==
    ASSUME PTInv, Runs, Schedule \/ UNCHANGED storeVars,
           NEW S \in SUBSET known, CancelTrees(S),
           UNCHANGED <<file, inFlight, overtaken, mode, known, received, bounds, history>>,
           NEW s, trees' = [r \in Roots |-> s[r]],
           \A r \in Roots : s[r] = trees[r] \/ (s[r] = tree'[r] /\ r \in S),
           clearing' \subseteq Roots, unsaved' \subseteq Roots,
           global' \in {"none", "stop", "clear", "deleting"}
    PROVE  PTInv'
<1> DEFINE t(r) == IF r \in S /\ tree[r] # NoTree THEN Marked(r, Cancelled(r), "error") ELSE tree[r]
<1>1. /\ TypeOK /\ OwnNodes /\ WaitsForTask /\ LiveNotCompleted /\ WipedInv /\ known \subseteq Roots
      /\ tree \in Contents /\ trees \in Contents
      /\ UNCHANGED <<silent, removed, outlived, wiped, flushed>>
  BY DEF PTInv, TypeOK, StoreTypeOK, history
<1>2. /\ tree' = [r \in Roots |-> t(r)]
      /\ live' = live \ UNION {Members(r) : r \in S} /\ captured' = captured \ UNION {Members(r) : r \in S}
  BY DEF CancelTrees, EndTurns
<1>3. ASSUME NEW r \in Roots
      PROVE  /\ tree'[r] = NoTree <=> tree[r] = NoTree
             /\ tree[r] # NoTree => tree'[r] \in [Members(r) -> States]
             /\ \A n \in Members(r) :
                  tree'[r][n] = IF r \in S /\ tree[r][n] \in {"pending", "in_progress"}
                                THEN "error" ELSE tree[r][n]
  <2>1. /\ tree[r] # NoTree => tree[r] \in [Members(r) -> States]
        /\ \A n \in Members(r) : InTree(n) /\ State(n) = tree[r][n]
        /\ tree[r] = NoTree <=> Members(r) = {}
    BY MemberFacts DEF InTree
  <2>2. CASE r \in S /\ tree[r] # NoTree
    <3>1. tree'[r] = [n \in Members(r) |-> IF n \in Cancelled(r) THEN "error" ELSE tree[r][n]]
      BY <1>2, <2>2 DEF Marked
    <3>2. \A n \in Members(r) : n \in Cancelled(r) <=> tree[r][n] \in {"pending", "in_progress"}
      BY <2>1 DEF Cancelled, Unfinished
    <3>3. tree'[r] \in [Members(r) -> States]
      BY <2>1, <2>2, <3>1 DEF States
    <3>4. tree'[r] # NoTree
      <4>1. Members(r) \subseteq Nodes /\ Members(r) # {}
        BY <1>1, <2>1, <2>2, MemberFacts DEF TypeOK
      <4> QED  BY <3>3, <4>1, DataFacts
    <3> QED  BY <2>2, <3>1, <3>2, <3>3, <3>4
  <2>3. CASE ~(r \in S /\ tree[r] # NoTree)
    <3>1. tree'[r] = tree[r] /\ (r \in S => Members(r) = {})
      BY <1>2, <2>1, <2>3
    <3> QED  BY <2>1, <3>1
  <2> QED  BY <2>2, <2>3
<1> HIDE DEF t
<1>4. tree' \in Contents /\ trees' \in Contents /\ OwnNodes'
  <2> DEFINE f == [r \in Roots |-> t(r)]
  <2>1. tree' = [r \in Roots |-> f[r]] /\ \A r \in Roots : f[r] = tree'[r]
    BY <1>2
  <2> HIDE DEF f
  <2>2. ASSUME NEW r \in Roots
        PROVE  \/ f[r] = tree[r] \/ f[r] = NoTree
               \/ \E N \in SUBSET received' : /\ N # {} /\ f[r] \in [N -> States]
                                              /\ \A n \in N : RootOf[n] = r
    <3> SUFFICES ASSUME tree[r] # NoTree
                 PROVE  \E N \in SUBSET received' : /\ N # {} /\ f[r] \in [N -> States]
                                                    /\ \A n \in N : RootOf[n] = r
      BY <1>3, <2>1
    <3>1. Members(r) \in SUBSET received' /\ Members(r) # {} /\ \A n \in Members(r) : RootOf[n] = r
      BY MemberFacts
    <3> QED  BY <1>3, <2>1, <3>1
  <2>3. \A r \in Roots : s[r] \in {trees[r], f[r], NoTree}
    BY <2>1
  <2>4. /\ received \subseteq received' /\ received' \subseteq Nodes /\ UNCHANGED <<file, inFlight>>
        /\ \A n \in received' : RootOf[n] \in received'
    BY <1>1 DEF TypeOK, OwnNodes
  <2> QED  BY <2>1, <2>2, <2>3, <2>4, TreesReplaced
<1>5. \A r \in Roots : Members(r)' = Members(r)
  <2> TAKE r \in Roots
  <2>1. CASE tree[r] = NoTree
    BY <2>1, <1>3 DEF Members
  <2>2. CASE tree[r] # NoTree
    <3>1. DOMAIN tree'[r] = Members(r) /\ tree'[r] # NoTree
      BY <2>2, <1>3
    <3> QED  BY <3>1 DEF Members
  <2> QED  BY <2>1, <2>2
<1>6. \A n \in Nodes : /\ InTree(n)' = InTree(n)
                       /\ InTree(n) => State(n)' = IF RootOf[n] \in S /\ State(n) \in {"pending", "in_progress"}
                                                   THEN "error" ELSE State(n)
  BY <1>3, <1>5, RootsAreNodes DEF InTree, State
<1>7. WaitsForTask'
  <2> SUFFICES ASSUME NEW r \in known, NEW n \in Members(r), Unfinished(n)'
               PROVE  n \in live' \cup silent'
    BY <1>1, <1>5 DEF WaitsForTask
  <2>1. n \in Nodes /\ RootOf[n] = r /\ InTree(n) /\ r \in Roots
    BY <1>1, MemberFacts DEF TypeOK, InTree
  <2>2. Unfinished(n) /\ r \notin S
    BY <2>1, <1>6 DEF Unfinished
  <2>3. n \in live \cup silent
    BY <2>2, <1>1 DEF WaitsForTask
  <2>4. \A q \in S : n \notin Members(q)
    BY <1>1, <2>1, <2>2, MemberFacts
  <2> QED  BY <2>3, <2>4, <1>1, <1>2
<1>8. LiveNotCompleted'
  <2> SUFFICES ASSUME NEW n \in live', InTree(n)' PROVE State(n)' # "completed"
    BY DEF LiveNotCompleted
  <2>1. n \in live /\ n \in Nodes
    BY <1>1, <1>2 DEF TypeOK
  <2> QED  BY <2>1, <1>1, <1>6 DEF LiveNotCompleted
<1>9. \A r \in Roots : Completed(tree, r) \subseteq Completed(tree', r)
  <2> TAKE r \in Roots
  <2>1. CASE tree[r] = NoTree
    BY <2>1 DEF Completed
  <2>2. CASE tree[r] # NoTree
    <3>1. DOMAIN tree'[r] = Members(r) /\ DOMAIN tree[r] = Members(r) /\ tree'[r] # NoTree
      BY <2>2, <1>3, MemberFacts
    <3>2. \A n \in Members(r) : tree[r][n] = "completed" => tree'[r][n] = "completed"
      BY <1>3
    <3> QED  BY <2>2, <3>1, <3>2 DEF Completed
  <2> QED  BY <2>1, <2>2
<1>10. \A r \in Roots : trees'[r] = trees[r] \/ (trees'[r] = tree'[r] /\ r \in known')
  OBVIOUS
<1>11. /\ live' \subseteq received' /\ known' \subseteq Roots /\ received' \subseteq Nodes
       /\ captured' \subseteq live' /\ silent' \subseteq received' /\ removed' \subseteq Roots
       /\ \A n \in live' : n \in live
  BY <1>1, <1>2 DEF TypeOK
<1>12. known' \cap (wiped \ outlived) = {}
  BY <1>1 DEF WipedInv
<1> QED  BY <1>1, <1>4, <1>7, <1>8, <1>9, <1>10, <1>11, <1>12, HandlerKeeps

-----------------------------------------------------------------------------
(* Every step keeps the invariant.                                         *)

\* A message opens a conversation, or replies in a known one.
LEMMA ReceiveKeeps ==
    ASSUME PTInv, NEW n \in Nodes, Receive(n) PROVE PTInv'
<1> DEFINE r == RootOf[n]
           S == Members(r) \cup {n}
           t == [m \in S |-> IF m = n THEN "pending" ELSE tree[r][m]]
<1>0. /\ TypeOK /\ OwnNodes /\ WaitsForTask /\ LiveNotCompleted /\ WipedInv /\ known \subseteq Roots
      /\ tree \in Contents /\ trees \in Contents
  BY DEF PTInv, TypeOK, StoreTypeOK
<1>1. /\ Runs /\ n \notin received /\ (n = r \/ (r \in known /\ r \in Members(r))) /\ r \in Roots
      /\ received' = received \cup {n} /\ live' = live \cup {n} /\ known' = known \cup {r}
      /\ tree' = [tree EXCEPT ![r] = t] /\ trees' = [trees EXCEPT ![r] = t] /\ Schedule
      /\ UNCHANGED <<mode, captured, clearing, global, unsaved, bounds, silent, removed, outlived,
                     wiped, flushed, file, inFlight, overtaken>>
  BY RootsAreNodes DEF Receive, UpdateAndSave, SaveTree, SaveTrees, Schedule, clears, history
<1>2. /\ n \notin Members(r) /\ (tree[r] # NoTree <=> Members(r) # {})
      /\ tree[r] # NoTree => tree[r] \in [Members(r) -> States]
      /\ \A m \in Members(r) : m \in received /\ RootOf[m] = r /\ State(m) = tree[r][m]
  BY <1>1, MemberFacts
<1>3. t \in [S -> States] /\ S \subseteq received' /\ S # {} /\ \A m \in S : RootOf[m] = r
  BY <1>1, <1>2 DEF States
<1>4. t # NoTree
  <2>1. S \in (SUBSET Nodes) \ {{}}
    BY <1>0, <1>2 DEF TypeOK
  <2> QED  BY <1>3, <2>1, DataFacts
<1>5. \A m \in S : t[m] = IF m = n THEN "pending" ELSE tree[r][m]
  OBVIOUS
<1>6. DOMAIN t = S
  OBVIOUS
<1> HIDE DEF t
<1>7. /\ tree' = [q \in Roots |-> IF q = r THEN t ELSE tree[q]]
      /\ trees' = [q \in Roots |-> IF q = r THEN t ELSE trees[q]]
  BY <1>0, <1>1, DataFacts
<1>8. r \in received'
  BY <1>0, <1>1, <1>2
<1>9. tree' \in Contents /\ trees' \in Contents /\ OwnNodes'
  <2> DEFINE f == [q \in Roots |-> IF q = r THEN t ELSE tree[q]]
             g == [q \in Roots |-> IF q = r THEN t ELSE trees[q]]
  <2>1. \A q \in Roots : \/ f[q] = tree[q] \/ f[q] = NoTree
                         \/ \E N \in SUBSET received' : /\ N # {} /\ f[q] \in [N -> States]
                                                        /\ \A m \in N : RootOf[m] = q
    <3> TAKE q \in Roots
    <3>1. CASE q = r
      <4>1. f[q] = t
        BY <3>1
      <4>2. S \in SUBSET received'
        BY <1>3
      <4> QED  BY <3>1, <4>1, <4>2, <1>3
    <3>2. CASE q # r
      BY <3>2
    <3> QED  BY <3>1, <3>2
  <2>2. \A q \in Roots : g[q] \in {trees[q], f[q], NoTree}
    OBVIOUS
  <2>3. tree' = [q \in Roots |-> f[q]] /\ trees' = [q \in Roots |-> g[q]]
    BY <1>7
  <2>4. /\ received \subseteq received' /\ received' \subseteq Nodes /\ UNCHANGED <<file, inFlight>>
        /\ \A m \in received' : RootOf[m] \in received'
    BY <1>0, <1>1, <1>8 DEF TypeOK, OwnNodes
  <2> HIDE DEF f, g
  <2> QED  BY <2>1, <2>2, <2>3, <2>4, TreesReplaced
<1>10. /\ Members(r)' = S /\ \A q \in Roots \ {r} : Members(q)' = Members(q)
  BY <1>1, <1>4, <1>6, <1>7 DEF Members
<1>11. \A m \in Nodes : m # n => /\ InTree(m)' = InTree(m)
                                 /\ InTree(m) => State(m)' = State(m)
  <2> TAKE m \in Nodes
  <2> SUFFICES ASSUME m # n PROVE InTree(m)' = InTree(m) /\ (InTree(m) => State(m)' = State(m))
    OBVIOUS
  <2>1. RootOf[m] \in Roots
    BY RootsAreNodes
  <2>2. CASE RootOf[m] = r
    <3>1. InTree(m)' <=> m \in S
      BY <2>2, <1>1, <1>10 DEF InTree
    <3>2. InTree(m) => State(m)' = t[m] /\ State(m) = tree[r][m] /\ m \in S
      BY <2>2, <1>1, <1>7 DEF InTree, State
    <3> QED  BY <2>2, <3>1, <3>2, <1>5 DEF InTree
  <2>3. CASE RootOf[m] # r
    BY <2>1, <2>3, <1>7, <1>10 DEF InTree, State
  <2> QED  BY <2>2, <2>3
<1>12. State(n)' = "pending"
  BY <1>1, <1>5, <1>7 DEF State
<1>13. WaitsForTask'
  <2> SUFFICES ASSUME NEW q \in known', NEW m \in Members(q)', Unfinished(m)', m # n
               PROVE  m \in live \cup silent
    BY <1>1 DEF WaitsForTask
  <2>1. q \in Roots /\ m \in Members(q) /\ m \in Nodes
    BY <1>0, <1>1, <1>10, MemberFacts DEF TypeOK
  <2>2. Unfinished(m)
    BY <2>1, <1>11 DEF Unfinished
  <2>3. q \in known
    <3>1. CASE q = r /\ n = r
      <4>1. r \in received
        BY <2>1, <3>1, <1>0, MemberFacts DEF OwnNodes
      <4> QED  BY <3>1, <4>1, <1>1
    <3> QED  BY <3>1, <1>1
  <2> QED  BY <2>1, <2>2, <2>3, <1>0 DEF WaitsForTask
<1>14. LiveNotCompleted'
  <2> SUFFICES ASSUME NEW m \in live', InTree(m)' PROVE State(m)' # "completed"
    BY DEF LiveNotCompleted
  <2>1. m \in Nodes
    BY <1>0, <1>1 DEF TypeOK
  <2> QED  BY <2>1, <1>0, <1>1, <1>11, <1>12 DEF LiveNotCompleted
<1>15. \A q \in Roots : Completed(tree, q) \subseteq Completed(tree', q)
  <2> TAKE q \in Roots
  <2>1. CASE q = r /\ tree[r] # NoTree
    <3>1. DOMAIN tree[r] = Members(r) /\ tree'[r] = t
      BY <1>2, <1>7, <2>1
    <3>2. \A m \in Members(r) : m \in S /\ t[m] = tree[r][m]
      BY <1>2, <1>5
    <3> QED  BY <2>1, <3>1, <3>2, <1>4, <1>6 DEF Completed
  <2>2. CASE q = r /\ tree[r] = NoTree
    BY <2>2 DEF Completed
  <2>3. CASE q # r
    <3>1. tree'[q] = tree[q]
      BY <2>3, <1>7
    <3> QED  BY <3>1, SameCompleted
  <2> QED  BY <2>1, <2>2, <2>3
<1>16. \A q \in Roots : trees'[q] = trees[q] \/ (trees'[q] = tree'[q] /\ q \in known')
  BY <1>1, <1>7
<1>17. known' \cap (wiped \ outlived) = {}
  BY <1>0, <1>1 DEF WipedInv
<1>18. /\ live' \subseteq received' /\ known' \subseteq Roots /\ received' \subseteq Nodes
       /\ captured' \subseteq live' /\ silent' \subseteq received' /\ removed' \subseteq Roots
       /\ clearing' \subseteq Roots /\ unsaved' \subseteq Roots /\ received \subseteq received'
       /\ global' \in {"none", "stop", "clear", "deleting"}
       /\ known \subseteq known' \cup removed' /\ removed \subseteq removed'
       /\ \A m \in live' : m \in live \/ RootOf[m] \in known'
  BY <1>0, <1>1 DEF TypeOK
<1> QED  BY <1>1, <1>9, <1>13, <1>14, <1>15, <1>16, <1>17, <1>18, HandlerKeeps

\* A task with no tree left to mark is over, and so is one whose CLI told no
\* session.
LEMMA EndsQuietly ==
    ASSUME PTInv, Runs, NEW n \in live, EndTurns({n}),
           UNCHANGED <<storeVars, mode, tree, known, received, clears, bounds, removed, outlived,
                       wiped, flushed>>,
           \/ silent' = silent \cup {n}
           \/ silent' = silent /\ RootOf[n] \notin known
    PROVE  PTInv'
<1>1. /\ TypeOK /\ trees \in [Roots -> Data \cup {NoTree}]
  BY DataFacts DEF PTInv, TypeOK, StoreTypeOK
<1>2. /\ live' \subseteq live /\ captured' \subseteq live' /\ silent \subseteq silent' /\ silent' \subseteq received
      /\ \A m \in live \ live' : m \in silent' \/ RootOf[m] \notin known
  BY <1>1 DEF EndTurns, TypeOK
<1>3. /\ clearing' \subseteq Roots /\ unsaved' \subseteq Roots
      /\ global' \in {"none", "stop", "clear", "deleting"}
  BY <1>1 DEF TypeOK, clears
<1>4. trees' = [r \in Roots |-> trees[r]] /\ UNCHANGED <<file, inFlight, overtaken>>
  BY <1>1 DEF storeVars
<1> QED  BY <1>2, <1>3, <1>4, QuietKeeps

\* What the handlers of a turn do.
LEMMA TurnKeeps ==
    ASSUME PTInv, NEW n \in Nodes,
           Start(n) \/ SessionInfo(n) \/ CliError(n) \/ CliExit(n) \/ TaskFails(n) \/ Stop(n)
    PROVE  PTInv'
<1> DEFINE r == RootOf[n]
<1>0. /\ TypeOK /\ LiveNotCompleted /\ r \in Roots /\ captured \subseteq live /\ silent \subseteq received
  BY RootsAreNodes DEF PTInv, TypeOK
<1>1. /\ tree[r] # NoTree <=> Members(r) # {}
      /\ \A m \in Members(r) : m \in received /\ RootOf[m] = r /\ State(m) = tree[r][m] /\ InTree(m)
  BY <1>0, MemberFacts DEF InTree
<1>2. Runs /\ InTree(n) /\ tree[r] # NoTree
  BY <1>1 DEF Start, SessionInfo, CliError, CliExit, TaskFails, Stop, Running, InTree, Unfinished
<1>3. n \in live => tree[r][n] # "completed"
  BY <1>0, <1>1, <1>2 DEF LiveNotCompleted, InTree, State
<1>K. ASSUME NEW S, NEW s \in {"in_progress", "error", "completed"},
             \A m \in S : s = "completed" \/ tree[r][m] # "completed",
             tree' = [tree EXCEPT ![r] = Marked(r, S, s)],
             \/ SaveTree(r, Marked(r, S, s)) /\ (r \in known \/ n \in live)
             \/ UNCHANGED storeVars,
             UNCHANGED <<mode, known, received, clears, bounds, silent, removed, outlived, wiped, flushed>>,
             live' \subseteq live, captured' \subseteq live',
             s = "in_progress" => S \subseteq live',
             \A m \in live \ live' : /\ s \in {"error", "completed"}
                                     /\ RootOf[m] = r /\ (r \notin known \/ m \in S),
             s = "completed" => S \cap live' = {}
      PROVE  PTInv'
  <2>1. s \in States
    BY <1>K DEF States
  <2>2. /\ \A m \in S \cap Members(r) : s = "completed" \/ tree[r][m] # "completed"
        /\ \/ SaveTree(r, Marked(r, S, s)) /\ (r \in known \/ \E m \in live : RootOf[m] = r)
           \/ UNCHANGED storeVars
    BY <1>K
  <2>3. \A m \in live \ live' :
          \/ m \in silent'
          \/ RootOf[m] = r /\ (r \notin known \/ (s \in {"error", "completed"} /\ m \in S))
    BY <1>K
  <2>4. /\ silent \subseteq silent' /\ silent' \subseteq received
        /\ s # "pending" /\ (s = "in_progress" => S \subseteq live' \cup silent')
    BY <1>0, <1>K
  <2>5. UNCHANGED <<mode, known, received, clears, bounds, removed, outlived, wiped, flushed>>
    BY <1>K
  <2> HIDE DEF r
  <2> QED  BY <1>0, <1>2, <1>K, <2>1, <2>2, <2>3, <2>4, <2>5, MarkKeeps
<1>4. ASSUME Start(n) PROVE PTInv'
  <2>1. CASE r \in known
    <3>1. /\ tree' = [tree EXCEPT ![r] = Marked(r, {n}, "in_progress")] /\ n \in live
          /\ UNCHANGED <<storeVars, live, captured, mode, known, received, clears, bounds, silent,
                         removed, outlived, wiped, flushed>>
      BY <1>4, <2>1 DEF Start, Update, history
    <3>2. /\ \A m \in {n} : tree[r][m] # "completed"
          /\ live \ live' = {} /\ {n} \subseteq live' /\ live' \subseteq live /\ captured' \subseteq live'
      BY <1>0, <1>3, <3>1
    <3> QED  BY <3>1, <3>2, <1>K
  <2>2. CASE r \notin known
    BY <1>2, <1>4, <2>2, EndsQuietly DEF Start, history
  <2> QED  BY <2>1, <2>2
<1>5. ASSUME SessionInfo(n) PROVE PTInv'
  <2>1. /\ tree' = [tree EXCEPT ![r] = Marked(r, {n}, "in_progress")] /\ n \in live
        /\ SaveTree(r, Marked(r, {n}, "in_progress")) /\ captured' = captured \cup {n}
        /\ UNCHANGED <<live, mode, known, received, clears, bounds, silent, removed, outlived,
                       wiped, flushed>>
    BY <1>5 DEF SessionInfo, Running, UpdateAndSave, history
  <2>2. /\ \A m \in {n} : tree[r][m] # "completed"
        /\ live \ live' = {} /\ {n} \subseteq live' /\ live' \subseteq live /\ captured' \subseteq live'
    BY <1>0, <1>3, <2>1
  <2> QED  BY <2>1, <2>2, <1>K
<1>6. ASSUME NEW S \in {{}, {n}}, MarkError(n, S), n \in live,
             UNCHANGED <<mode, known, received, clears, bounds, history>>
      PROVE  PTInv'
  <2> DEFINE F == IF r \in known THEN {n} \cup PendingChildren(n) ELSE {}
  <2>1. /\ tree' = [tree EXCEPT ![r] = Marked(r, F, "error")]
        /\ live' = live \ (S \cup (F \ {n})) /\ captured' = captured \ (S \cup (F \ {n}))
        /\ UNCHANGED <<storeVars, silent, removed, outlived, wiped, flushed>>
    BY <1>6 DEF MarkError, Update, EndTurns, history
  <2>2. \A m \in PendingChildren(n) : m \in Members(r) /\ tree[r][m] = "pending" /\ RootOf[m] = r
    BY <1>1, RootsAreNodes DEF PendingChildren
  <2>3. \A m \in F : tree[r][m] # "completed" /\ RootOf[m] = r
    BY <1>3, <1>6, <2>2
  <2>4. \A m \in live \ live' : RootOf[m] = r /\ (r \notin known \/ m \in F)
    BY <1>6, <2>1, <2>2
  <2>5. live' \subseteq live /\ captured' \subseteq live'
    BY <1>0, <2>1
  <2> HIDE DEF F
  <2> QED  BY <1>6, <2>1, <2>3, <2>4, <2>5, <1>K
<1>7. ASSUME CliError(n) \/ TaskFails(n) PROVE PTInv'
  BY <1>6, <1>7 DEF CliError, TaskFails, Running
<1>8. ASSUME CliExit(n) PROVE PTInv'
  <2>1. n \in live /\ EndTurns({n})
    BY <1>8 DEF CliExit, Running
  <2>2. CASE n \in captured
    <3>1. /\ tree' = [tree EXCEPT ![r] = Marked(r, {n}, "completed")]
          /\ SaveTree(r, Marked(r, {n}, "completed")) /\ live' = live \ {n} /\ captured' = captured \ {n}
          /\ UNCHANGED <<mode, known, received, clears, bounds, silent, removed, outlived, wiped, flushed>>
      BY <1>8, <2>2 DEF CliExit, UpdateAndSave, EndTurns
    <3> QED  BY <1>0, <2>1, <3>1, <1>K
  <2>3. CASE n \notin captured
    BY <1>2, <1>8, <2>1, <2>3, EndsQuietly DEF CliExit
  <2> QED  BY <2>2, <2>3
<1>9. ASSUME Stop(n) PROVE PTInv'
  <2>1. /\ tree' = [tree EXCEPT ![r] = Marked(r, {n}, "error")] /\ r \in known /\ Unfinished(n)
        /\ SaveTree(r, Marked(r, {n}, "error")) /\ live' = live \ {n} /\ captured' = captured \ {n}
        /\ UNCHANGED <<mode, known, received, clears, bounds, silent, removed, outlived, wiped, flushed>>
    BY <1>9 DEF Stop, UpdateAndSave, EndTurns, history
  <2>2. tree[r][n] # "completed"
    BY <2>1 DEF Unfinished, State
  <2> QED  BY <1>0, <2>1, <2>2, <1>K
<1> QED  BY <1>4, <1>5, <1>7, <1>8, <1>9

\* What the commands do.
LEMMA CommandKeeps ==
    ASSUME PTInv,
           \/ \E r \in Roots : ClearTree(r) \/ TreeCleared(r)
           \/ \E command \in Commands : StopAll(command)
           \/ AllStopped
    PROVE  PTInv'
<1>0. /\ TypeOK /\ OwnNodes /\ WaitsForTask /\ LiveNotCompleted /\ WipedInv /\ known \subseteq Roots
      /\ tree \in [Roots -> Data \cup {NoTree}] /\ trees \in [Roots -> Data \cup {NoTree}]
      /\ clearing \subseteq Roots /\ unsaved \subseteq Roots
      /\ global \in {"none", "stop", "clear", "deleting"}
  BY DataFacts DEF PTInv, TypeOK, StoreTypeOK
<1>1. ASSUME NEW r \in Roots, ClearTree(r) PROVE PTInv'
  <2>1. /\ Runs /\ CancelTrees({r}) /\ r \in known /\ clearing' = clearing \cup {r}
        /\ UNCHANGED <<mode, known, received, global, unsaved, bounds, history>>
    BY <1>1 DEF ClearTree
  <2>2. /\ Schedule \/ UNCHANGED storeVars
        /\ UNCHANGED <<file, inFlight, overtaken>>
        /\ trees' = trees \/ trees' = [trees EXCEPT ![r] = tree'[r]]
    BY <1>1 DEF ClearTree, SaveTree, SaveTrees, Schedule, storeVars
  <2> DEFINE s == [q \in Roots |-> trees'[q]]
  <2>3. trees' = [q \in Roots |-> s[q]] /\ \A q \in Roots : s[q] = trees'[q]
    BY <1>0, <2>2
  <2>4. \A q \in Roots : s[q] = trees[q] \/ (s[q] = tree'[q] /\ q \in {r})
    BY <1>0, <2>2
  <2> HIDE DEF s
  <2>5. {r} \in SUBSET known /\ clearing' \subseteq Roots /\ unsaved' \subseteq Roots
        /\ global' \in {"none", "stop", "clear", "deleting"}
    BY <1>0, <2>1
  <2> QED  BY <2>1, <2>2, <2>3, <2>4, <2>5, CancelKeeps
<1>2. ASSUME NEW command \in Commands, StopAll(command) PROVE PTInv'
  <2>1. /\ Runs /\ CancelTrees(known) /\ unsaved' \subseteq known /\ global' = command
        /\ UNCHANGED <<storeVars, mode, known, received, clearing, bounds, history>>
    BY <1>2 DEF StopAll
  <2>2. /\ UNCHANGED <<file, inFlight, overtaken>> /\ trees' = [q \in Roots |-> trees[q]]
    BY <1>0, <2>1 DEF storeVars
  <2>3. global' \in {"none", "stop", "clear", "deleting"}
    BY <2>1, PersistentTreesAssumption
  <2>4. known \in SUBSET known /\ clearing' \subseteq Roots /\ unsaved' \subseteq Roots
    BY <1>0, <2>1
  <2>5. \A q \in Roots : trees[q] = trees[q] \/ (trees[q] = tree'[q] /\ q \in known)
    OBVIOUS
  <2> QED  BY <2>1, <2>2, <2>3, <2>4, <2>5, CancelKeeps
<1>3. ASSUME AllStopped PROVE PTInv'
  <2> DEFINE s == [q \in Roots |-> trees'[q]]
  <2>1. /\ Runs /\ unsaved' = {} /\ global' \in {"deleting", "none"}
        /\ UNCHANGED <<mode, tree, known, received, live, captured, clearing, bounds, silent,
                       removed, outlived, wiped, flushed>>
    BY <1>3 DEF AllStopped, trees3, turns, history
  <2>2. /\ Schedule \/ UNCHANGED storeVars
        /\ UNCHANGED <<file, inFlight, overtaken>>
        /\ \/ trees' = trees
           \/ trees' = [q \in Roots |-> IF q \in unsaved \cap known THEN tree[q] ELSE trees[q]]
    BY <1>3 DEF AllStopped, SaveTrees, Schedule, storeVars
  <2>3. trees' = [q \in Roots |-> s[q]]
    BY <1>0, <2>2
  <2>4. \A q \in Roots : s[q] = trees[q] \/ (s[q] = tree[q] /\ q \in known)
    BY <1>0, <2>2
  <2>5. /\ clearing' \subseteq Roots /\ unsaved' \subseteq Roots
        /\ global' \in {"none", "stop", "clear", "deleting"}
    BY <1>0, <2>1
  <2>6. /\ live' \subseteq live /\ captured' \subseteq live' /\ silent \subseteq silent'
        /\ silent' \subseteq received /\ live \ live' = {}
    BY <1>0, <2>1 DEF TypeOK
  <2> HIDE DEF s
  <2> QED  BY <2>1, <2>2, <2>3, <2>4, <2>5, <2>6, QuietKeeps
<1>4. ASSUME NEW r \in Roots, TreeCleared(r) PROVE PTInv'
  <2>1. CASE r \notin known
    <3>1. /\ Runs /\ clearing' = clearing \ {r}
          /\ UNCHANGED <<storeVars, tree, known, live, captured, removed, mode, received, global,
                         unsaved, bounds, silent, outlived, wiped, flushed>>
      BY <1>4, <2>1 DEF TreeCleared, trees3
    <3>2. UNCHANGED <<file, inFlight, overtaken>> /\ trees' = [q \in Roots |-> trees[q]]
      BY <1>0, <3>1 DEF storeVars
    <3>3. /\ clearing' \subseteq Roots /\ unsaved' \subseteq Roots
          /\ global' \in {"none", "stop", "clear", "deleting"}
          /\ live' \subseteq live /\ captured' \subseteq live' /\ silent \subseteq silent'
          /\ silent' \subseteq received /\ live \ live' = {}
      BY <1>0, <3>1 DEF TypeOK
    <3> QED  BY <3>1, <3>2, <3>3, QuietKeeps
  <2>2. CASE r \in known
    <3> DEFINE f == [q \in Roots |-> IF q = r THEN NoTree ELSE tree[q]]
               g == [q \in Roots |-> IF q = r THEN NoTree ELSE trees[q]]
    <3>1. /\ Runs /\ clearing' = clearing \ {r} /\ tree' = [tree EXCEPT ![r] = NoTree]
          /\ live' = live \ Members(r) /\ captured' = captured \ Members(r)
          /\ trees' = [trees EXCEPT ![r] = NoTree] /\ Schedule
          /\ known' = known \ {r} /\ removed' = removed \cup {r}
          /\ UNCHANGED <<mode, received, global, unsaved, bounds, silent, outlived, wiped, flushed>>
      BY <1>4, <2>2 DEF TreeCleared, EndTurns, RemoveTree, SaveTree, SaveTrees
    <3>2. UNCHANGED <<file, inFlight, overtaken>>
      BY <3>1 DEF Schedule
    <3>3. tree' = [q \in Roots |-> f[q]] /\ trees' = [q \in Roots |-> g[q]]
      BY <1>0, <3>1
    <3>4. /\ tree'[r] = NoTree /\ trees'[r] = NoTree
          /\ \A q \in Roots \ {r} : tree'[q] = tree[q] /\ trees'[q] = trees[q]
      BY <1>0, <3>1
    <3>5. /\ \A q \in Roots : f[q] = tree[q] \/ f[q] = NoTree
          /\ \A q \in Roots : g[q] \in {trees[q], f[q], NoTree}
      OBVIOUS
    <3>6. /\ received \subseteq received' /\ received' \subseteq Nodes
          /\ \A m \in received' : RootOf[m] \in received'
      BY <1>0, <3>1 DEF TypeOK, OwnNodes
    <3> HIDE DEF f, g
    <3>7. tree' \in Contents /\ trees' \in Contents /\ OwnNodes'
      BY <3>2, <3>3, <3>5, <3>6, TreesReplaced
    <3>8. Members(r)' = {} /\ \A q \in Roots \ {r} : Members(q)' = Members(q)
      BY <3>4 DEF Members
    <3>9. \A m \in Nodes : /\ InTree(m)' <=> InTree(m) /\ RootOf[m] # r
                           /\ InTree(m)' => State(m)' = State(m)
      BY <3>4, <3>8, RootsAreNodes DEF InTree, State
    <3>10. WaitsForTask'
      <4> SUFFICES ASSUME NEW q \in known', NEW m \in Members(q)', Unfinished(m)'
                   PROVE  m \in live' \cup silent'
        BY DEF WaitsForTask
      <4>1. q \in known /\ q \in Roots \ {r} /\ m \in Members(q) /\ m \in Nodes /\ RootOf[m] = q
        BY <1>0, <3>1, <3>8, MemberFacts DEF TypeOK
      <4>2. m \in live \cup silent
        BY <4>1, <3>9, <1>0 DEF Unfinished, WaitsForTask
      <4>3. m \notin Members(r)
        BY <4>1, MemberFacts
      <4> QED  BY <4>2, <4>3, <3>1
    <3>11. LiveNotCompleted'
      <4> SUFFICES ASSUME NEW m \in live', InTree(m)' PROVE State(m)' # "completed"
        BY DEF LiveNotCompleted
      <4>1. m \in live /\ m \in Nodes
        BY <1>0, <3>1 DEF TypeOK
      <4> QED  BY <4>1, <1>0, <3>9 DEF LiveNotCompleted
    <3>12. \A q \in Roots \ removed' : Completed(tree, q) \subseteq Completed(tree', q)
      BY <3>1, <3>4, SameCompleted
    <3>13. \A q \in Roots : trees'[q] = trees[q] \/ (trees'[q] = NoTree /\ q \in removed')
      BY <3>1, <3>4
    <3>14. known' \cap (wiped \ outlived) = {}
      BY <1>0, <3>1 DEF WipedInv
    <3>15. /\ live' \subseteq received' /\ known' \subseteq Roots /\ removed' \subseteq Roots
           /\ captured' \subseteq live' /\ silent' \subseteq received' /\ clearing' \subseteq Roots
           /\ unsaved' \subseteq Roots /\ global' \in {"none", "stop", "clear", "deleting"}
           /\ known \subseteq known' \cup removed' /\ removed \subseteq removed'
           /\ \A m \in live' : m \in live
      BY <1>0, <3>1 DEF TypeOK
    <3> QED  BY <3>1, <3>2, <3>6, <3>7, <3>10, <3>11, <3>12, <3>13, <3>14, <3>15, HandlerKeeps
  <2> QED  BY <2>1, <2>2
<1> QED  BY <1>1, <1>2, <1>3, <1>4

\* The invariant holds before anything was received.
LEMMA InitKeeps == Init => PTInv
<1> SUFFICES ASSUME Init PROVE PTInv
  OBVIOUS
<1>1. /\ trees = Nothing /\ file = Nothing /\ dirty = FALSE /\ overtaken = FALSE /\ failed = FALSE
      /\ handle = "none" /\ waiting = 0 /\ fired = 0 /\ inFlight = <<>> /\ mode = "up"
      /\ tree = Nothing /\ known = {} /\ received = {} /\ live = {} /\ captured = {}
      /\ clearing = {} /\ global = "none" /\ unsaved = {} /\ restarts = 0 /\ failures = 0
      /\ silent = {} /\ removed = {} /\ outlived = {} /\ wiped = {} /\ flushed = NoTree
      /\ Nothing \in Contents /\ \A r \in Roots : Nothing[r] = NoTree
  BY DataFacts DEF Init, StoreInit, Nothing
<1>2. inFlight \in Seq(Writes) /\ DOMAIN inFlight = {}
  BY <1>1
<1>3. TypeOK
  <2>1. StoreTypeOK
    BY <1>1, <1>2 DEF StoreTypeOK
  <2> QED  BY <1>1, <2>1, PersistentTreesAssumption DEF TypeOK, Modes
<1>4. OwnNodes /\ DownIsEmpty /\ TimersInv /\ PendingInv
  BY <1>1, <1>2 DEF OwnNodes, Held, DownIsEmpty, TimersInv, DirtyHasTimer, PendingInv
<1>5. LateFirst /\ LoopWrites /\ WaitsForTask /\ LiveNotCompleted
  BY <1>1, <1>2 DEF LateFirst, LoopWrites, WaitsForTask, LiveNotCompleted
<1>6. CopiesInOrder
  BY <1>1, <1>2, BelowFacts DEF CopiesInOrder
<1>7. KnownOrRemoved /\ WipedInv /\ FlushInv
  BY <1>1, <1>2 DEF KnownOrRemoved, WipedInv, FlushInv
<1> QED  BY <1>3, <1>4, <1>5, <1>6, <1>7 DEF PTInv

\* Every step keeps the invariant, one action at a time.
LEMMA NextKeeps == PTInv /\ [Next]_vars => PTInv'
<1> SUFFICES ASSUME PTInv, [Next]_vars PROVE PTInv'
  OBVIOUS
<1>1. CASE UNCHANGED vars
  <2>1. UNCHANGED <<trees, dirty, handle, waiting, fired, inFlight, file, overtaken, failed, mode, tree,
                    known, received, live, captured, clearing, global, unsaved, restarts, failures,
                    silent, removed, outlived, wiped, flushed>>
    BY <1>1 DEF vars, storeVars, timers, trees3, turns, clears, bounds, history
  <2>2. TypeOK' /\ OwnNodes' /\ DownIsEmpty' /\ TimersInv' /\ PendingInv' /\ LateFirst' /\ LoopWrites'
    BY <2>1 DEF PTInv, TypeOK, StoreTypeOK, OwnNodes, Held, DownIsEmpty, TimersInv, DirtyHasTimer,
                PendingInv, BeingWritten, LateFirst, LoopWrites
  <2>3. WaitsForTask' /\ LiveNotCompleted'
    BY <2>1 DEF PTInv, WaitsForTask, LiveNotCompleted, InTree, Unfinished, State, Members
  <2>4. CopiesInOrder' /\ KnownOrRemoved' /\ WipedInv' /\ FlushInv'
    BY <2>1 DEF PTInv, CopiesInOrder, KnownOrRemoved, WipedInv, FlushInv, Below, BelowBut, Completed
  <2> QED  BY <2>2, <2>3, <2>4 DEF PTInv
<1>2. CASE \E n \in Nodes : \/ Receive(n) \/ Start(n) \/ SessionInfo(n) \/ CliError(n)
                            \/ CliExit(n) \/ TaskFails(n) \/ Stop(n)
  BY <1>2, ReceiveKeeps, TurnKeeps
<1>3. CASE \/ \E r \in Roots : ClearTree(r) \/ TreeCleared(r)
           \/ \E command \in Commands : StopAll(command)
           \/ AllStopped
  BY <1>3, CommandKeeps
<1>4. CASE ChatCleared
  BY <1>4, ChatClearedKeeps
<1>5. CASE Timer
  BY <1>5, TimerKeeps
<1>6. CASE \E i \in DOMAIN inFlight : Lands(i) \/ Fails(i)
  BY <1>6, LandsKeeps, FailsKeeps
<1>7. CASE Shutdown \/ PlatformStops \/ Exit \/ Crash \/ Restart
  BY <1>7, ShutdownKeeps, PlatformStopsKeeps, DiesKeeps, RestartKeeps
<1> QED  BY <1>1, <1>2, <1>3, <1>4, <1>5, <1>6, <1>7 DEF Next

-----------------------------------------------------------------------------
(* The properties.                                                         *)

\* The invariant has the four properties of the store in it.
LEMMA KeptFollows == PTInv => StoreKept
<1> SUFFICES ASSUME PTInv PROVE StoreKept
  OBVIOUS
<1>1. TypeOK /\ WaitsForTask
  BY DEF PTInv
<1>2. NothingForgotten
  BY DEF PTInv, PendingInv, TimersInv, NothingForgotten, SavedOrPending
<1>3. ClearedForGood
  BY DEF PTInv, WipedInv, ClearedForGood
<1>4. FlushSurvives
  BY DEF PTInv, FlushInv, FlushSurvives, Below, BelowBut
<1> QED  BY <1>1, <1>2, <1>3, <1>4 DEF StoreKept

\* The session file and the bridge: nothing is left unsaved without a timer,
\* no message waits for a task that does not exist, a cleared chat stays
\* cleared, and what a shutdown flushed is there for the next process.
THEOREM StoreIsKept == Spec => []StoreKept
<1>1. Spec => []PTInv
  BY InitKeeps, NextKeeps, PTL DEF Spec
<1> QED  BY <1>1, KeptFollows, PTL

\* The file changes only when a write lands, and only a late write is not
\* above what the file held.
LEMMA FileGrows ==
    ASSUME PTInv, [Next]_vars
    PROVE  NoneLost
<1>1. CASE file' = file
  BY <1>1 DEF NoneLost
<1>2. ASSUME NEW i \in DOMAIN inFlight, Lands(i) PROVE NoneLost
  <2>1. file' = inFlight[i].trees /\ overtaken' = inFlight[i].late
    BY <1>2 DEF Lands, WriteLands
  <2>2. mode # "down"
    BY DEF PTInv, DownIsEmpty
  <2>3. ~inFlight[i].late => Below(file, inFlight[i].trees)
    BY <2>2 DEF PTInv, CopiesInOrder
  <2> QED  BY <2>1, <2>3 DEF Below, BelowBut, NoneLost
<1>3. file' = file \/ \E i \in DOMAIN inFlight : Lands(i)
  <2>1. CASE UNCHANGED vars
    BY <2>1 DEF vars, storeVars
  <2>2. CASE \E n \in Nodes : \/ Receive(n) \/ Start(n) \/ SessionInfo(n) \/ CliError(n)
                              \/ CliExit(n) \/ TaskFails(n) \/ Stop(n)
    BY <2>2 DEF Receive, Start, SessionInfo, CliError, CliExit, TaskFails, Stop, MarkError, Update,
                UpdateAndSave, SaveTree, SaveTrees, Schedule, storeVars
  <2>3. CASE \/ \E r \in Roots : ClearTree(r) \/ TreeCleared(r)
             \/ \E command \in Commands : StopAll(command)
             \/ AllStopped
    BY <2>3 DEF ClearTree, TreeCleared, StopAll, AllStopped, RemoveTree, SaveTree, SaveTrees,
                Schedule, storeVars
  <2>4. CASE ChatCleared \/ Timer \/ Shutdown
    BY <2>4 DEF ChatCleared, ClearAll, Timer, TimerFires, TimerSnapshots, Shutdown,
                FlushPendingSave, Flush
  <2>5. CASE \E i \in DOMAIN inFlight : Lands(i) \/ Fails(i)
    BY <2>5 DEF Fails, WriteFails
  <2>6. CASE PlatformStops \/ Exit \/ Crash \/ Restart
    BY <2>6 DEF PlatformStops, Exit, Crash, Dies, StoreDies, Restart, StoreLoads, storeVars
  <2> QED  BY <2>1, <2>2, <2>3, <2>4, <2>5, <2>6 DEF Next
<1> QED  BY <1>1, <1>2, <1>3

\* No write, failed write, crash or restart takes a completed turn from the
\* file, but for the one race of the store: an older snapshot landing late.
THEOREM CompletedStays == Spec => CompletedStaysSaved
<1>1. Spec => []PTInv
  BY InitKeeps, NextKeeps, PTL DEF Spec
<1>2. PTInv /\ [Next]_vars => [NoneLost]_vars
  BY FileGrows
<1> QED  BY <1>1, <1>2, PTL DEF Spec, CompletedStaysSaved

-----------------------------------------------------------------------------
(* What the chat shows of a turn.                                          *)

Kinds == Content \cup {"subagent", "tool", "error"}
SegmentSet == [kind : Kinds, parts : Seq(Nat)]
BlockSet == {NoBlock} \cup [kind : Content \cup {"call"}, index : Slots]
TaskSet == {<<>>} \cup TaskIds
MadeUp(n) == <<"__task", n>>
StackSet == [id : TaskIds \cup {MadeUp(n) : n \in Nat}, seg : Nat]
OpenSet == [Content -> [Slots -> Nat]]

TextsOf(segs) == {i \in 1..Len(segs) : segs[i].kind \in Content}
SaidIn(segs) == (UNION {Range(segs[i].parts) : i \in TextsOf(segs)}) \ {0}

\* Pieces come in ascending order, and the first n are made.
Ascends(segs) ==
    /\ \A i \in TextsOf(segs) : \A p, q \in 1..Len(segs[i].parts) : p < q => segs[i].parts[p] < segs[i].parts[q]
    /\ \A i, j \in TextsOf(segs) : i < j =>
          \A p \in 1..Len(segs[i].parts), q \in 1..Len(segs[j].parts) : segs[i].parts[p] < segs[j].parts[q]
Within(segs, n) == \A i \in TextsOf(segs) : \A p \in 1..Len(segs[i].parts) : segs[i].parts[p] <= n
SegmentsRight(segs, n) == segs \in Seq(SegmentSet) /\ Ascends(segs) /\ Within(segs, n)

\* What is open is there; the stack has the segments of Tasks.
OpenRight(opn, segs) == opn \in OpenSet /\ \A k \in Content, i \in Slots : opn[k][i] \in 0..Len(segs)
StackRight(stk, segs) ==
    /\ stk \in Seq(StackSet)
    /\ \A i \in 1..Len(stk) : stk[i].seg \in 1..Len(segs) /\ segs[stk[i].seg].kind = "subagent"

\* The block that is streamed goes to the newest text.
IsNewest(segs, s) == s \in TextsOf(segs) /\ \A j \in TextsOf(segs) : j <= s
BlockRight(segs, opn, blk, stk) ==
    blk.kind \in Content /\ stk = <<>> => IsNewest(segs, opn[blk.kind][blk.index])

\* A CLI that leaves out the starts has nothing open but the block.
StartRight(om, tls, opn, blk) ==
    om = "start" => tls = {} /\ \A k \in Content, i \in Slots : opn[k][i] # 0 => blk = [kind |-> k, index |-> i]

\* As long as results come in the order of nesting, the stack has the Tasks that
\* have none.
Nests(stk, tks) ==
    /\ Len(stk) = Len(tks)
    /\ \A i \in 1..Len(tks) : stk[i].id = IF tks[i] = <<>> THEN MadeUp(i) ELSE tks[i]

\* In any order: of the ids that extend the one at j, there are no more from there
\* on than Tasks without a result.
Extending(stk, j, x) == {k \in j..Len(stk) : IsPrefix(x, stk[k].id)}
Awaiting(tks, x) == {i \in 1..Len(tks) : IsPrefix(x, tks[i])}
Least(x) == x \in TaskIds /\ \A y \in TaskIds : IsPrefix(y, x) => y = x
StillOpen(stk, tks) ==
    \A j \in 1..Len(stk) : \A x :
        Least(x) /\ stk[j].id = x => Cardinality(Extending(stk, j, x)) <= Cardinality(Awaiting(tks, x))

TextTyped ==
    /\ omit \in {"start", "stop", "nothing"} /\ openTools \subseteq Slots /\ toolIds \subseteq ToolIds
    /\ block \in BlockSet /\ tasks \in Seq(TaskSet) /\ nested \in BOOLEAN
    /\ made \in 0..MaxEvents /\ visible \subseteq 1..made
TextInv ==
    /\ TextTyped /\ SegmentsRight(segments, made) /\ OpenRight(open, segments) /\ StackRight(stack, segments)
    /\ (nested => SaidIn(segments) = visible /\ Nests(stack, tasks))
    /\ BlockRight(segments, open, block, stack) /\ StartRight(omit, openTools, open, block)
    /\ StillOpen(stack, tasks) /\ EndIsShown

\* The least of some numbers.
LEMMA LeastOf ==
    ASSUME NEW T, T \subseteq Nat, T # {}
    PROVE  \E x \in T : \A y \in T : ~(y < x)
<1>1. \E x \in T : \A y \in T : ~(<<y, x>> \in OpToRel(<, Nat))
  BY NatLessThanWellFounded, WFMin, Zenon
<1> QED
  BY <1>1 DEF OpToRel

\* A set that holds 0, and each number up to n whose predecessor it holds, holds
\* every one of them.
LEMMA UpTo ==
    ASSUME NEW n \in Nat, NEW S, 0 \in S, \A i \in 1..n : i - 1 \in S => i \in S
    PROVE  0..n \subseteq S
<1> DEFINE Bad == {i \in 0..n : i \notin S}
<1>1. ASSUME Bad # {} PROVE FALSE
  <2>1. Bad \subseteq Nat
    OBVIOUS
  <2>2. PICK x \in Bad : \A y \in Bad : ~(y < x)
    <3> HIDE DEF Bad
    <3> QED
      BY <1>1, <2>1, LeastOf
  <2>3. x \in 1..n /\ x - 1 \in 0..n /\ x - 1 < x
    BY <2>2
  <2> QED
    BY <2>2, <2>3
<1> QED
  BY <1>1

\* The least and the greatest of some numbers up to n.
LEMMA Extremes ==
    ASSUME NEW n \in Nat, NEW S, S \subseteq 1..n, S # {}
    PROVE  /\ Min(S) \in S /\ \A y \in S : Min(S) <= y
           /\ Max(S) \in S /\ \A y \in S : y <= Max(S)
<1>1. \E x \in S : \A y \in S : x =< y
  <2>1. PICK x \in S : \A y \in S : ~(y < x)
    <3>1. S \subseteq Nat
      OBVIOUS
    <3> QED
      BY <3>1, LeastOf
  <2> QED
    BY <2>1
<1>2. \E x \in S : \A y \in S : x >= y
  <2> DEFINE T == {n - y : y \in S}
  <2>1. T \subseteq Nat /\ T # {}
    <3>1. \A y \in S : n - y \in Nat
      OBVIOUS
    <3> QED
      BY <3>1
  <2> HIDE DEF T
  <2>2. PICK z \in T : \A y \in T : ~(y < z)
    BY <2>1, LeastOf
  <2>3. PICK x \in S : z = n - x
    BY DEF T
  <2>4. ASSUME NEW y \in S PROVE x >= y
    <3>1. n - y \in T
      BY DEF T
    <3>2. ~(n - y < n - x) /\ x \in Nat /\ y \in Nat
      BY <2>2, <2>3, <3>1
    <3> QED
      BY <3>2
  <2> QED
    BY <2>4
<1>3. Min(S) \in S /\ \A y \in S : Min(S) =< y
  BY <1>1, Zenon DEF Min
<1>4. Max(S) \in S /\ \A y \in S : Max(S) >= y
  BY <1>2, Zenon DEF Max
<1>5. \A y \in S : y \in Nat
  OBVIOUS
<1> QED
  BY <1>3, <1>4, <1>5

\* A function may be defined step by step.
StepOf(base, F, f, i) == IF i = 0 THEN base ELSE F[f[i - 1]][i]
ByStep(n, T, base, F) == \E f \in [0..n -> T] : \A i \in 0..n : f[i] = StepOf(base, F, f, i)
\* So there is one.
LEMMA Stepwise ==
    ASSUME NEW n, n \in Nat, NEW T, NEW base, base \in T, NEW F, F \in [T -> [1..n -> T]]
    PROVE  ByStep(n, T, base, F)
<1> DEFINE Good(m) == ByStep(m, T, base, F)
           S == {m \in 0..n : Good(m)}
<1>1. 0 \in S
  <2> DEFINE f == [i \in 0..0 |-> base]
  <2>1. f \in [0..0 -> T] /\ \A i \in 0..0 : f[i] = StepOf(base, F, f, i)
    BY DEF StepOf
  <2> HIDE DEF f
  <2>2. Good(0)
    BY <2>1, Zenon DEF ByStep
  <2> HIDE DEF Good
  <2> QED
    BY <2>2
<1>2. ASSUME NEW m \in 1..n, m - 1 \in S PROVE m \in S
  <2>1. PICK f \in [0..(m - 1) -> T] : \A i \in 0..(m - 1) : f[i] = StepOf(base, F, f, i)
    BY <1>2 DEF ByStep
  <2> DEFINE g == [i \in 0..m |-> IF i = m THEN F[f[m - 1]][m] ELSE f[i]]
  <2>2. f[m - 1] \in T /\ m \in Nat /\ m - 1 \in Nat /\ m # 0
    OBVIOUS
  <2>3. F[f[m - 1]][m] \in T
    BY <2>2
  <2>4. g \in [0..m -> T] /\ g[m] = F[f[m - 1]][m] /\ \A i \in 0..(m - 1) : g[i] = f[i]
    <3>1. \A i \in 0..m : i # m => i \in 0..(m - 1)
      BY <2>2
    <3>2. \A i \in 0..(m - 1) : i \in 0..m /\ i # m
      BY <2>2
    <3> QED
      BY <2>2, <2>3, <3>1, <3>2
  <2> HIDE DEF g
  <2>5. ASSUME NEW i \in 0..m PROVE g[i] = StepOf(base, F, g, i)
    <3>1. CASE i = m
      <4>1. g[m - 1] = f[m - 1] /\ i # 0
        BY <2>2, <2>4, <3>1
      <4> QED
        BY <2>4, <3>1, <4>1 DEF StepOf
    <3>2. CASE i # m
      <4>1. i \in 0..(m - 1) /\ g[i] = f[i]
        BY <2>2, <2>4, <3>2
      <4>2. i # 0 => g[i - 1] = f[i - 1]
        <5>1. i # 0 => i - 1 \in 0..(m - 1)
          BY <2>2, <4>1
        <5> QED
          BY <2>4, <5>1
      <4> QED
        BY <2>1, <4>1, <4>2 DEF StepOf
    <3> QED
      BY <3>1, <3>2
  <2>6. Good(m)
    BY <2>4, <2>5, Zenon DEF ByStep
  <2> HIDE DEF Good
  <2> QED
    BY <2>6
<1>3. n \in S
  <2> HIDE DEF S
  <2>1. 0..n \subseteq S
    BY <1>1, <1>2, UpTo
  <2> QED
    BY <2>1
<1> QED
  BY <1>3

\* The size of some segments.
LEMMA SizeFacts ==
    ASSUME NEW s \in Seq(SegmentSet)
    PROVE  SizeOf(s) \in Nat /\ (s = <<>> => SizeOf(s) = 0) /\ (Len(s) = 1 => SizeOf(s) = Size(s[1]))
<1> DEFINE n == Len(s)
           F == [x \in Nat |-> [i \in 1..n |-> x + Size(s[i])]]
           w == CHOOSE f : f = [i \in 0..n |-> IF i = 0 THEN 0 ELSE f[i - 1] + Size(s[i])]
<1>1. n \in Nat /\ 0 \in Nat
  OBVIOUS
<1>2. \A i \in 1..n : Size(s[i]) \in Nat
  <2> SUFFICES ASSUME NEW i \in 1..n PROVE Size(s[i]) \in Nat
    OBVIOUS
  <2>0. s[i] \in SegmentSet
    OBVIOUS
  <2>1. s[i].parts \in Seq(Nat)
    BY <2>0 DEF SegmentSet
  <2>2. Heading(s[i].kind) \in Nat
    BY DEF Heading
  <2> QED
    BY <2>1, <2>2 DEF Size
<1>3. F \in [Nat -> [1..n -> Nat]]
  <2>1. \A x \in Nat : \A i \in 1..n : x + Size(s[i]) \in Nat
    BY <1>2
  <2> QED
    BY <2>1
<1>4. \A x \in Nat : \A i \in 1..n : F[x][i] = x + Size(s[i])
  OBVIOUS
<1>5. SizeOf(s) = w[n]
  BY Zenon DEF SizeOf
<1> HIDE DEF F, n
<1>6. PICK f \in [0..n -> Nat] : \A i \in 0..n : f[i] = StepOf(0, F, f, i)
  <2>1. ByStep(n, Nat, 0, F)
    BY <1>1, <1>3, Stepwise
  <2> QED
    BY <2>1, Zenon DEF ByStep
<1>7. \A i \in 0..n : f[i] = IF i = 0 THEN 0 ELSE f[i - 1] + Size(s[i])
  <2> SUFFICES ASSUME NEW i \in 0..n PROVE f[i] = IF i = 0 THEN 0 ELSE f[i - 1] + Size(s[i])
    OBVIOUS
  <2>1. i # 0 => i - 1 \in 0..n /\ i \in 1..n
    BY <1>1
  <2> QED
    BY <1>4, <1>6, <2>1 DEF StepOf
<1>8. f = [i \in 0..n |-> IF i = 0 THEN 0 ELSE f[i - 1] + Size(s[i])]
  BY <1>7
<1>9. w = [i \in 0..n |-> IF i = 0 THEN 0 ELSE w[i - 1] + Size(s[i])]
  BY <1>8, Zenon
<1> HIDE DEF w
<1>10. w[0] = 0 /\ \A i \in 1..n : w[i] = w[i - 1] + Size(s[i])
  BY <1>1, <1>9
<1>11. w[n] \in Nat
  <2> DEFINE S == {i \in 0..n : w[i] \in Nat}
  <2>1. 0 \in S
    BY <1>1, <1>10
  <2>2. ASSUME NEW i \in 1..n, i - 1 \in S PROVE i \in S
    BY <1>2, <1>10, <2>2
  <2> HIDE DEF S
  <2>3. 0..n \subseteq S
    BY <1>1, <2>1, <2>2, UpTo
  <2> QED
    BY <1>1, <2>3 DEF S
<1>12. n = 1 => w[n] = Size(s[1])
  <2> SUFFICES ASSUME n = 1 PROVE w[n] = Size(s[1])
    OBVIOUS
  <2>1. 1 \in 1..n /\ 1 - 1 = 0
    OBVIOUS
  <2>2. w[1] = w[0] + Size(s[1]) /\ Size(s[1]) \in Nat
    BY <1>2, <1>10, <2>1
  <2> QED
    BY <1>10, <2>2
<1>13. s = <<>> => n = 0
  BY DEF n
<1> QED
  BY <1>5, <1>10, <1>11, <1>12, <1>13 DEF n

\* What is rendered of a segment is one.
LEMMA RenderedFacts ==
    ASSUME NEW s \in SegmentSet
    PROVE  Rendered(s) \in SegmentSet
<1>1. s.kind \in Kinds /\ s.parts \in Seq(Nat)
  BY DEF SegmentSet
<1>2. CASE s.kind \in Content
  <2>1. PICK m : m = Len(s.parts) - Min({TailMax, Len(s.parts)}) + 1
    OBVIOUS
  <2>2. m \in 1..(Len(s.parts) + 1)
    <3>1. PICK a1, b1 : a1 = TailMax /\ b1 = Len(s.parts) /\ a1 \in Nat /\ b1 \in Nat
      BY <1>1, TranscriptAssumption
    <3>2. \E x \in {a1, b1} : \A y \in {a1, b1} : x =< y
      BY <3>1
    <3>3. Min({a1, b1}) \in {a1, b1} /\ \A y \in {a1, b1} : Min({a1, b1}) =< y
      BY <3>2, Zenon DEF Min
    <3>4. Min({a1, b1}) \in Nat /\ Min({a1, b1}) <= b1
      BY <3>1, <3>3
    <3> QED
      BY <2>1, <3>1, <3>4
  <2>3. SubSeq(s.parts, m, Len(s.parts)) \in Seq(Nat)
    BY <1>1, <2>2
  <2>4. Rendered(s) = [s EXCEPT !.parts = SubSeq(s.parts, m, Len(s.parts))]
    BY <1>2, <2>1 DEF Rendered
  <2> QED
    BY <2>3, <2>4 DEF SegmentSet
<1>3. CASE s.kind \notin Content
  <2>1. s.parts # <<>> => <<Last(s.parts)>> \in Seq(Nat)
    BY <1>1 DEF Last
  <2> QED
    BY <1>3, <2>1 DEF Rendered, SegmentSet
<1> QED
  BY <1>2, <1>3

\* What is filled are rendered segments.
LEMMA FilledFacts ==
    ASSUME NEW segs \in Seq(SegmentSet)
    PROVE  Filled(segs) \in Seq(SegmentSet)
<1> DEFINE n == Len(segs)
           Step(x, i) == IF Size(Rendered(segs[i])) > 0 THEN Append(x, Rendered(segs[i])) ELSE x
           T == Seq(SegmentSet)
           F == [x \in T |-> [i \in 1..n |-> Step(x, i)]]
           w == CHOOSE f : f = [i \in 0..n |-> IF i = 0 THEN <<>>
                                ELSE IF Size(Rendered(segs[i])) > 0 THEN Append(f[i - 1], Rendered(segs[i])) ELSE f[i - 1]]
<1>1. n \in Nat /\ <<>> \in T
  OBVIOUS
<1>2. \A x \in T, i \in 1..n : Step(x, i) \in T
  <2> SUFFICES ASSUME NEW x \in T, NEW i \in 1..n PROVE Step(x, i) \in T
    OBVIOUS
  <2>1. Rendered(segs[i]) \in SegmentSet
    BY RenderedFacts
  <2> QED
    BY <2>1
<1>5. Filled(segs) = w[n]
  BY Zenon DEF Filled
<1> HIDE DEF T, n
<1>3. F \in [T -> [1..n -> T]]
  <2> HIDE DEF Step
  <2> QED
    BY <1>2
<1>4. \A x \in T : \A i \in 1..n : F[x][i] = Step(x, i)
  <2> HIDE DEF Step
  <2> QED
    OBVIOUS
<1> HIDE DEF F
<1>6. PICK f \in [0..n -> T] : \A i \in 0..n : f[i] = StepOf(<<>>, F, f, i)
  <2>1. ByStep(n, T, <<>>, F)
    BY <1>1, <1>3, Stepwise
  <2> QED
    BY <2>1, Zenon DEF ByStep
<1>7. \A i \in 0..n : f[i] = IF i = 0 THEN <<>> ELSE Step(f[i - 1], i)
  <2> HIDE DEF Step
  <2> SUFFICES ASSUME NEW i \in 0..n PROVE f[i] = IF i = 0 THEN <<>> ELSE Step(f[i - 1], i)
    OBVIOUS
  <2>1. i # 0 => i - 1 \in 0..n /\ i \in 1..n
    BY <1>1
  <2> QED
    BY <1>4, <1>6, <2>1 DEF StepOf
<1>8. f = [i \in 0..n |-> IF i = 0 THEN <<>>
                          ELSE IF Size(Rendered(segs[i])) > 0 THEN Append(f[i - 1], Rendered(segs[i])) ELSE f[i - 1]]
  BY <1>7
<1>9. w = [i \in 0..n |-> IF i = 0 THEN <<>>
                          ELSE IF Size(Rendered(segs[i])) > 0 THEN Append(w[i - 1], Rendered(segs[i])) ELSE w[i - 1]]
  BY <1>8, Zenon
<1> HIDE DEF w
<1>10. w[0] = <<>> /\ \A i \in 1..n : w[i] = Step(w[i - 1], i)
  <2>1. \A i \in 0..n : w[i] = IF i = 0 THEN <<>> ELSE Step(w[i - 1], i)
    BY <1>9
  <2> HIDE DEF Step
  <2>2. 0 \in 0..n /\ \A i \in 1..n : i \in 0..n /\ i # 0
    BY <1>1
  <2> QED
    BY <2>1, <2>2
<1>11. w[n] \in T
  <2> DEFINE S == {i \in 0..n : w[i] \in T}
  <2>1. 0 \in S
    BY <1>1, <1>10
  <2>2. ASSUME NEW i \in 1..n, i - 1 \in S PROVE i \in S
    <3> HIDE DEF Step
    <3> QED
      BY <1>2, <1>10, <2>2
  <2> HIDE DEF S
  <2>3. 0..n \subseteq S
    BY <1>1, <2>1, <2>2, UpTo
  <2> QED
    BY <1>1, <2>3 DEF S
<1> QED
  BY <1>5, <1>11 DEF T


\* What is shown carries its status.
LEMMA RenderStatus ==
    ASSUME NEW segs, NEW st
    PROVE  Render(segs, st).status = st
  BY DEF Render, Truncated, NothingShown

\* What is shown of some segments fits, and ends with what is newest.
Fits(segs, st) ==
    LET d == Render(segs, st)
        parts == Filled(segs)
    IN  /\ (IF d.marker THEN MarkerSize ELSE 0) + SizeOf(d.body) + StatusSize(d.status) <= LimitChars
        /\ parts # <<>> /\ LimitChars - MarkerSize - StatusSize(st) > MinTail =>
              d.body # <<>> /\ (Last(parts).parts # <<>> => Last(Last(d.body).parts) = Last(Last(parts).parts))
FitsAs(d, parts, st) ==
    /\ (IF d.marker THEN MarkerSize ELSE 0) + SizeOf(d.body) + StatusSize(d.status) <= LimitChars
    /\ parts # <<>> /\ LimitChars - MarkerSize - StatusSize(st) > MinTail =>
          d.body # <<>> /\ (Last(parts).parts # <<>> => Last(Last(d.body).parts) = Last(Last(parts).parts))
\* The tail of some pieces ends as they do.
LEMMA TailFacts ==
    ASSUME NEW q, q \in Seq(Nat), NEW m, m = Len(q), NEW k, k \in 1..m
    PROVE  SubSeq(q, k, m) \in Seq(Nat) /\ Len(SubSeq(q, k, m)) = m - k + 1 /\ SubSeq(q, k, m)[m - k + 1] = q[m]
<1>1. m \in Nat /\ m - k + 1 \in 1..(m - k + 1) /\ k + (m - k + 1) - 1 = m
  OBVIOUS
<1> QED
  BY <1>1
\* The tail of a transcript that does not fit.
LEMMA TruncatedFits ==
    ASSUME NEW parts, parts \in Seq(SegmentSet), parts # <<>>, NEW st
    PROVE  FitsAs(Truncated(parts, st), parts, st)
<1> DEFINE room == LimitChars - MarkerSize - StatusSize(st)
           cuts == {k \in 1..Len(parts) : SizeOf(SubSeq(parts, k, Len(parts))) <= room}
           top == Last(parts)
           n == Len(parts)
<1>1. LimitChars \in Nat /\ LimitChars >= 1 /\ MinTail \in Nat /\ MinTail >= 1 /\ MarkerSize = 1
  BY TranscriptAssumption DEF MarkerSize
<1>2. StatusSize(st) \in {0, 1} /\ room = LimitChars - 1 - StatusSize(st) /\ room \in Int
  BY <1>1 DEF StatusSize
<1>3. n \in Nat /\ n >= 1 /\ top \in SegmentSet /\ top = parts[n]
  BY DEF Last
<1>4. top.parts \in Seq(Nat) /\ Len(top.parts) \in Nat
  BY <1>3 DEF SegmentSet
<1>5. \A k \in 1..n : SubSeq(parts, k, n) \in Seq(SegmentSet) /\ SizeOf(SubSeq(parts, k, n)) \in Nat
  <2> SUFFICES ASSUME NEW k \in 1..n PROVE SubSeq(parts, k, n) \in Seq(SegmentSet) /\ SizeOf(SubSeq(parts, k, n)) \in Nat
    OBVIOUS
  <2>1. SubSeq(parts, k, n) \in Seq(SegmentSet)
    OBVIOUS
  <2> QED
    BY <2>1, SizeFacts
<1>6. CASE cuts # {}
  <2>1. PICK k \in cuts : k = Min(cuts)
    <3>1. cuts \subseteq 1..n /\ cuts # {}
      BY <1>6
    <3> HIDE DEF cuts, n
    <3> QED
      BY <3>1, <1>3, Extremes
  <2>2. Truncated(parts, st) = [marker |-> TRUE, body |-> SubSeq(parts, k, n), status |-> st]
    BY <1>6, <2>1 DEF Truncated
  <2>3. k \in 1..n /\ SizeOf(SubSeq(parts, k, n)) <= room /\ SizeOf(SubSeq(parts, k, n)) \in Nat
    BY <1>5
  <2>4. SubSeq(parts, k, n) # <<>> /\ Last(SubSeq(parts, k, n)) = Last(parts)
    <3>1. k \in Nat /\ n \in Nat /\ 1 <= k /\ k <= n /\ n = Len(parts)
      BY <1>3, <2>3
    <3> HIDE DEF cuts, n, room, top
    <3>2. Len(SubSeq(parts, k, n)) = n - k + 1 /\ SubSeq(parts, k, n) \in Seq(SegmentSet)
      BY <3>1
    <3>3. SubSeq(parts, k, n)[n - k + 1] = parts[n]
      BY <3>1
    <3>4. n - k + 1 \in Nat /\ n - k + 1 >= 1
      BY <3>1
    <3>5. ASSUME NEW s, s = SubSeq(parts, k, n) PROVE s # <<>> /\ Last(s) = Last(parts)
      <4>1. Len(s) \in Nat /\ Len(s) >= 1 /\ s[Len(s)] = parts[n]
        BY <3>2, <3>3, <3>4, <3>5
      <4>2. s # <<>>
        BY <4>1
      <4>3. Last(s) = s[Len(s)] /\ Last(parts) = parts[n]
        BY <3>1 DEF Last
      <4> QED
        BY <4>1, <4>2, <4>3
    <3> QED
      BY <3>5
  <2>5. 1 + SizeOf(SubSeq(parts, k, n)) + StatusSize(st) <= LimitChars
    BY <1>1, <1>2, <2>3
  <2> QED
    BY <1>1, <2>2, <2>4, <2>5 DEF FitsAs
<1>7. CASE cuts = {} /\ room > MinTail
  <2>1. SizeOf(SubSeq(parts, n, n)) > room
    <3>1. n \in 1..n /\ n \notin cuts
      BY <1>3, <1>7
    <3>2. SizeOf(SubSeq(parts, n, n)) \in Nat
      BY <1>5, <3>1
    <3> QED
      BY <1>2, <3>1, <3>2
  <2>2. SizeOf(SubSeq(parts, n, n)) = Size(top)
    <3>1. SubSeq(parts, n, n) \in Seq(SegmentSet) /\ Len(SubSeq(parts, n, n)) = 1 /\ SubSeq(parts, n, n)[1] = top
      BY <1>3
    <3> QED
      BY <3>1, SizeFacts
  <2>3. Len(top.parts) >= room /\ room >= 2
    <3>1. Heading(top.kind) \in {0, 1}
      BY DEF Heading
    <3> QED
      BY <1>1, <1>2, <1>4, <1>7, <2>1, <2>2, <3>1 DEF Size
  <2> DEFINE tail == SubSeq(top.parts, Len(top.parts) - room + 2, Len(top.parts))
             seg == [kind |-> "text", parts |-> tail]
  <2>4. Truncated(parts, st) = [marker |-> TRUE, status |-> st, body |-> <<seg>>]
    BY <1>7 DEF Truncated
  <2>5. tail \in Seq(Nat) /\ Len(tail) = room - 1 /\ tail[Len(tail)] = top.parts[Len(top.parts)]
    <3>1. PICK q, m, r : q = top.parts /\ m = Len(q) /\ r = room
      OBVIOUS
    <3>2. q \in Seq(Nat) /\ m \in Nat /\ r \in Int /\ m >= r /\ r >= 2
      BY <1>2, <1>4, <2>3, <3>1
    <3>3. PICK k \in 1..m : k = m - r + 2
      BY <3>2
    <3>4. SubSeq(q, k, m) \in Seq(Nat) /\ Len(SubSeq(q, k, m)) = m - k + 1 /\ SubSeq(q, k, m)[m - k + 1] = q[m]
      <4>1. q \in Seq(Nat)
        BY <3>2
      <4>2. m = Len(q)
        BY <3>1
      <4>3. k \in 1..m
        BY <3>3
      <4> HIDE DEF room, top, tail
      <4> QED
        BY <4>1, <4>2, <4>3, TailFacts
    <3>5. m - k + 1 = r - 1
      BY <3>2, <3>3
    <3>6. tail = SubSeq(q, k, m)
      BY <3>1, <3>3
    <3> HIDE DEF tail
    <3> QED
      BY <3>1, <3>4, <3>5, <3>6
  <2> HIDE DEF tail
  <2>6. SizeOf(<<seg>>) = room - 1
    <3>1. <<seg>> \in Seq(SegmentSet)
      BY <2>5 DEF SegmentSet, Kinds, Content
    <3>2. Len(<<seg>>) = 1 /\ <<seg>>[1] = seg
      OBVIOUS
    <3>3. Size(seg) = room - 1
      BY <1>2, <2>5 DEF Size, Heading
    <3> QED
      BY <3>1, <3>2, <3>3, SizeFacts
  <2>7. 1 + SizeOf(<<seg>>) + StatusSize(st) <= LimitChars
    BY <1>1, <1>2, <2>6
  <2>8. Last(<<seg>>) = seg /\ Last(seg.parts) = Last(top.parts)
    BY <2>5 DEF Last
  <2> HIDE DEF seg
  <2> QED
    BY <1>1, <2>4, <2>7, <2>8 DEF FitsAs
<1>8. CASE cuts = {} /\ ~(room > MinTail)
  <2>1. Truncated(parts, st) = [marker |-> MarkerSize + StatusSize(st) <= LimitChars, body |-> <<>>, status |-> st]
    BY <1>8 DEF Truncated
  <2>2. SizeOf(<<>>) = 0
    <3>1. <<>> \in Seq(SegmentSet)
      OBVIOUS
    <3> QED
      BY <3>1, SizeFacts
  <2>3. CASE MarkerSize + StatusSize(st) <= LimitChars
    <3>1. Truncated(parts, st) = [marker |-> TRUE, body |-> <<>>, status |-> st]
      BY <2>1, <2>3
    <3> QED
      BY <1>1, <1>2, <1>8, <2>2, <2>3, <3>1 DEF FitsAs
  <2>4. CASE ~(MarkerSize + StatusSize(st) <= LimitChars)
    <3>0. (MarkerSize + StatusSize(st) <= LimitChars) = FALSE
      BY <2>4
    <3>1. Truncated(parts, st) = [marker |-> FALSE, body |-> <<>>, status |-> st]
      BY <2>1, <3>0, Zenon
    <3> QED
      BY <1>1, <1>2, <1>8, <2>2, <2>4, <3>1 DEF FitsAs
  <2> QED
    BY <2>3, <2>4
<1> QED
  BY <1>6, <1>7, <1>8
\* And the transcript, whether it fits or not.
LEMMA RenderFits ==
    ASSUME NEW segs, segs \in Seq(SegmentSet), NEW st
    PROVE  Fits(segs, st)
<1> DEFINE parts == Filled(segs)
<1>1. parts \in Seq(SegmentSet)
  BY FilledFacts
<1>2. SizeOf(parts) \in Nat /\ (parts = <<>> => SizeOf(parts) = 0)
  BY <1>1, SizeFacts
<1>3. StatusSize(st) \in {0, 1} /\ LimitChars \in Nat /\ LimitChars >= 1
  BY TranscriptAssumption DEF StatusSize
<1>4. FitsAs(Render(segs, st), parts, st)
  <2>1. CASE SizeOf(parts) + StatusSize(st) <= LimitChars
    <3>1. Render(segs, st) = [marker |-> FALSE, body |-> parts, status |-> st]
      BY <2>1 DEF Render
    <3> HIDE DEF parts
    <3> QED
      BY <1>2, <1>3, <2>1, <3>1 DEF FitsAs
  <2>2. CASE ~(SizeOf(parts) + StatusSize(st) <= LimitChars)
    <3>1. parts # <<>>
      BY <1>2, <1>3, <2>2
    <3>2. Render(segs, st) = Truncated(parts, st)
      BY <2>2, <3>1 DEF Render
    <3> QED
      BY <1>1, <3>1, <3>2, TruncatedFits
  <2> QED
    BY <2>1, <2>2
<1> QED
  BY <1>4, Zenon DEF Fits, FitsAs

-----------------------------------------------------------------------------
(* How the segments change: they keep what they say, they gain a piece at  *)
(* their end, or they get a new text that says nothing yet.                *)

Grows(segs, t) ==
    t \in Seq(SegmentSet) /\ Len(segs) <= Len(t) /\ \A i \in 1..Len(segs) : t[i].kind = segs[i].kind
Keeps(segs, t) ==
    Grows(segs, t) /\ TextsOf(t) = TextsOf(segs) /\ \A i \in TextsOf(segs) : t[i].parts = segs[i].parts
PartsAt(segs, s) == IF s \in TextsOf(segs) THEN segs[s].parts ELSE <<>>
EndsAt(segs, t, s) ==
    /\ Grows(segs, t) /\ TextsOf(t) = TextsOf(segs) \cup {s}
    /\ \A j \in TextsOf(segs) : j <= s /\ (j # s => t[j].parts = segs[j].parts)
Gains(segs, t, s, n) == EndsAt(segs, t, s) /\ t[s].parts = Append(PartsAt(segs, s), n)
Opens(segs, t, s) == EndsAt(segs, t, s) /\ s \notin TextsOf(segs) /\ t[s].parts = <<>>

\* The texts are segments, and their parts are pieces.
LEMMA TextFacts ==
    ASSUME NEW segs, segs \in Seq(SegmentSet), NEW i, i \in TextsOf(segs)
    PROVE  i \in 1..Len(segs) /\ i \in Nat /\ segs[i].parts \in Seq(Nat) /\ segs[i].kind \in Content
<1>1. i \in 1..Len(segs) /\ segs[i].kind \in Content
  BY DEF TextsOf
<1>2. segs[i] \in SegmentSet
  BY <1>1
<1> QED
  BY <1>1, <1>2 DEF SegmentSet

\* What the texts say.
LEMMA SaidFacts ==
    ASSUME NEW segs, segs \in Seq(SegmentSet), NEW m
    PROVE  m \in SaidIn(segs) <=> m # 0 /\ \E i \in TextsOf(segs) : \E p \in 1..Len(segs[i].parts) : m = segs[i].parts[p]
<1>1. m \in SaidIn(segs) <=> m # 0 /\ \E i \in TextsOf(segs) : m \in Range(segs[i].parts)
  <2> DEFINE U == UNION {Range(segs[i].parts) : i \in TextsOf(segs)}
  <2>1. SaidIn(segs) = U \ {0}
    BY DEF SaidIn
  <2>2. m \in U <=> \E i \in TextsOf(segs) : m \in Range(segs[i].parts)
    BY Zenon
  <2> HIDE DEF U
  <2> QED
    BY <2>1, <2>2
<1>2. \A i \in TextsOf(segs) : m \in Range(segs[i].parts) <=> \E p \in 1..Len(segs[i].parts) : m = segs[i].parts[p]
  <2> SUFFICES ASSUME NEW i \in TextsOf(segs)
               PROVE  m \in Range(segs[i].parts) <=> \E p \in 1..Len(segs[i].parts) : m = segs[i].parts[p]
    OBVIOUS
  <2>1. segs[i].parts \in Seq(Nat)
    BY TextFacts
  <2>2. DOMAIN segs[i].parts = 1..Len(segs[i].parts)
    BY <2>1
  <2> QED
    BY <2>2 DEF Range
<1> QED
  BY <1>1, <1>2

\* Segments that keep what they say stay right.
LEMMA KeepsRight ==
    ASSUME NEW segs, NEW t, NEW n, n \in Nat, NEW m, m \in Nat, n <= m, SegmentsRight(segs, n), Keeps(segs, t)
    PROVE  SegmentsRight(t, m) /\ SaidIn(t) = SaidIn(segs) /\ \A s : IsNewest(segs, s) => IsNewest(t, s)
<1>1. segs \in Seq(SegmentSet) /\ Ascends(segs) /\ Within(segs, n)
  BY DEF SegmentsRight
<1>2. t \in Seq(SegmentSet) /\ TextsOf(t) = TextsOf(segs) /\ \A i \in TextsOf(segs) : t[i].parts = segs[i].parts
  BY DEF Keeps, Grows
<1>3. Ascends(t)
  BY <1>1, <1>2 DEF Ascends
<1>4. Within(t, m)
  <2> SUFFICES ASSUME NEW i \in TextsOf(t), NEW p \in 1..Len(t[i].parts) PROVE t[i].parts[p] <= m
    BY DEF Within
  <2>1. i \in TextsOf(segs) /\ t[i].parts = segs[i].parts /\ p \in 1..Len(segs[i].parts)
    BY <1>2
  <2>2. segs[i].parts[p] <= n
    BY <1>1, <2>1 DEF Within
  <2>3. segs[i].parts[p] \in Nat
    <3>1. segs[i].parts \in Seq(Nat)
      BY <1>1, <2>1, TextFacts
    <3> QED
      BY <2>1, <3>1
  <2> QED
    BY <2>1, <2>2, <2>3
<1>5. SaidIn(t) = SaidIn(segs)
  BY <1>2 DEF SaidIn
<1>6. \A s : IsNewest(segs, s) => IsNewest(t, s)
  BY <1>2 DEF IsNewest
<1> QED
  BY <1>1, <1>2, <1>3, <1>4, <1>5, <1>6 DEF SegmentsRight

\* So do segments that gain the piece that is made last, at their end.
LEMMA GainsRight ==
    ASSUME NEW segs, NEW t, NEW n, n \in Nat, NEW s, SegmentsRight(segs, n), Gains(segs, t, s, n + 1)
    PROVE  SegmentsRight(t, n + 1) /\ SaidIn(t) = SaidIn(segs) \cup {n + 1} /\ IsNewest(t, s)
<1>1. segs \in Seq(SegmentSet) /\ Ascends(segs) /\ Within(segs, n)
  BY DEF SegmentsRight
<1>2. /\ t \in Seq(SegmentSet) /\ TextsOf(t) = TextsOf(segs) \cup {s}
      /\ \A j \in TextsOf(segs) : j <= s /\ (j # s => t[j].parts = segs[j].parts)
      /\ t[s].parts = Append(PartsAt(segs, s), n + 1)
  BY DEF Gains, EndsAt, Grows
<1> DEFINE q == PartsAt(segs, s)
           l == Len(q)
<1>3. q \in Seq(Nat) /\ l \in Nat
  <2>1. CASE s \in TextsOf(segs)
    BY <1>1, <2>1, TextFacts DEF PartsAt
  <2>2. CASE s \notin TextsOf(segs)
    BY <2>2 DEF PartsAt
  <2> QED
    BY <2>1, <2>2
<1>4. /\ Len(t[s].parts) = l + 1 /\ t[s].parts[l + 1] = n + 1
      /\ \A p \in 1..l : t[s].parts[p] = q[p] /\ s \in TextsOf(segs) /\ q[p] = segs[s].parts[p] /\ l = Len(segs[s].parts)
  <2>1. Len(t[s].parts) = l + 1 /\ t[s].parts[l + 1] = n + 1 /\ \A p \in 1..l : t[s].parts[p] = q[p]
    <3>1. t[s].parts = Append(q, n + 1)
      BY <1>2
    <3> HIDE DEF q
    <3> QED
      BY <1>3, <3>1
  <2>2. \A p \in 1..l : s \in TextsOf(segs)
    BY DEF PartsAt
  <2>3. s \in TextsOf(segs) => q = segs[s].parts
    BY DEF PartsAt
  <2> HIDE DEF q
  <2> QED
    BY <2>1, <2>2, <2>3
<1>5. \A j \in TextsOf(segs) : /\ j \in Nat /\ segs[j].parts \in Seq(Nat)
                               /\ \A p \in 1..Len(segs[j].parts) : segs[j].parts[p] \in Nat /\ segs[j].parts[p] <= n
  <2> SUFFICES ASSUME NEW j \in TextsOf(segs)
               PROVE  /\ j \in Nat /\ segs[j].parts \in Seq(Nat)
                      /\ \A p \in 1..Len(segs[j].parts) : segs[j].parts[p] \in Nat /\ segs[j].parts[p] <= n
    OBVIOUS
  <2>1. j \in Nat /\ segs[j].parts \in Seq(Nat)
    BY <1>1, TextFacts
  <2>2. \A p \in 1..Len(segs[j].parts) : segs[j].parts[p] \in Nat
    BY <2>1
  <2> QED
    BY <1>1, <2>1, <2>2 DEF Within
<1>6. \A p \in 1..(l + 1) : p \in 1..l \/ p = l + 1
  BY <1>3
<1> HIDE DEF l, q
<1>7. Within(t, n + 1)
  <2> SUFFICES ASSUME NEW i \in TextsOf(t), NEW p \in 1..Len(t[i].parts) PROVE t[i].parts[p] <= n + 1
    BY DEF Within
  <2>1. CASE i # s
    <3>1. i \in TextsOf(segs) /\ t[i].parts = segs[i].parts
      BY <1>2, <2>1
    <3>2. t[i].parts[p] \in Nat /\ t[i].parts[p] <= n
      BY <1>5, <3>1
    <3> QED
      BY <3>2
  <2>2. CASE i = s /\ p \in 1..l
    <3>1. t[i].parts[p] \in Nat /\ t[i].parts[p] <= n
      BY <1>4, <1>5, <2>2
    <3> QED
      BY <3>1
  <2>3. CASE i = s /\ p = l + 1
    BY <1>4, <2>3
  <2> QED
    BY <1>4, <1>6, <2>1, <2>2, <2>3
<1>8. ASSUME NEW i \in TextsOf(t), NEW p \in 1..Len(t[i].parts), NEW r \in 1..Len(t[i].parts), p < r
      PROVE  t[i].parts[p] < t[i].parts[r]
  <2>1. CASE i # s
    <3>1. i \in TextsOf(segs) /\ t[i].parts = segs[i].parts
      BY <1>2, <2>1
    <3> QED
      BY <1>1, <1>8, <3>1 DEF Ascends
  <2>2. CASE i = s /\ r \in 1..l
    <3>1. p \in 1..l
      BY <1>3, <1>4, <1>8, <2>2
    <3>2. s \in TextsOf(segs) /\ p \in 1..Len(segs[s].parts) /\ r \in 1..Len(segs[s].parts)
      BY <1>4, <2>2, <3>1
    <3>3. segs[s].parts[p] < segs[s].parts[r]
      BY <1>1, <1>8, <3>2 DEF Ascends
    <3> QED
      BY <1>4, <2>2, <3>1, <3>3
  <2>3. CASE i = s /\ r = l + 1
    <3>1. p \in 1..l
      BY <1>3, <1>4, <1>8, <2>3
    <3>2. t[s].parts[p] \in Nat /\ t[s].parts[p] <= n
      BY <1>4, <1>5, <3>1
    <3> QED
      BY <1>4, <2>3, <3>2
  <2> QED
    BY <1>4, <1>6, <2>1, <2>2, <2>3
<1>9. ASSUME NEW i \in TextsOf(t), NEW j \in TextsOf(t), i < j,
             NEW p \in 1..Len(t[i].parts), NEW r \in 1..Len(t[j].parts)
      PROVE  t[i].parts[p] < t[j].parts[r]
  <2>1. i # s /\ i \in TextsOf(segs) /\ t[i].parts = segs[i].parts
    <3>1. CASE i = s
      <4>2. j \in 1..Len(t) /\ i \in 1..Len(t)
        BY DEF TextsOf
      <4>3. j \in Nat /\ i \in Nat
        BY <1>2, <4>2
      <4>4. j # i
        BY <1>9, <4>3
      <4>1. j \in TextsOf(segs) /\ j <= s
        BY <1>2, <3>1, <4>4
      <4> QED
        BY <1>9, <3>1, <4>1, <4>3
    <3> QED
      BY <1>2, <3>1
  <2>2. t[i].parts[p] \in Nat /\ t[i].parts[p] <= n
    BY <1>5, <2>1
  <2>3. CASE j # s
    <3>1. j \in TextsOf(segs) /\ t[j].parts = segs[j].parts
      BY <1>2, <2>3
    <3> QED
      BY <1>1, <1>9, <2>1, <3>1 DEF Ascends
  <2>4. CASE j = s /\ r \in 1..l
    <3>1. s \in TextsOf(segs) /\ r \in 1..Len(segs[s].parts) /\ t[s].parts[r] = segs[s].parts[r]
      BY <1>4, <2>4
    <3> QED
      BY <1>1, <1>9, <2>1, <2>4, <3>1 DEF Ascends
  <2>5. CASE j = s /\ r = l + 1
    BY <1>4, <2>2, <2>5
  <2> QED
    BY <1>4, <1>6, <2>3, <2>4, <2>5
<1>10. Ascends(t)
  BY <1>8, <1>9, Zenon DEF Ascends
<1>11. SaidIn(t) = SaidIn(segs) \cup {n + 1}
  <2>1. ASSUME NEW m \in SaidIn(t) PROVE m \in SaidIn(segs) \cup {n + 1}
    <3>1. PICK i \in TextsOf(t) : m # 0 /\ \E p \in 1..Len(t[i].parts) : m = t[i].parts[p]
      BY <1>2, <2>1, SaidFacts
    <3>2. PICK p \in 1..Len(t[i].parts) : m = t[i].parts[p]
      BY <3>1
    <3>3. CASE i # s
      <4>1. i \in TextsOf(segs) /\ t[i].parts = segs[i].parts
        BY <1>2, <3>3
      <4> QED
        BY <1>1, <3>1, <3>2, <4>1, SaidFacts
    <3>4. CASE i = s /\ p \in 1..l
      <4>1. s \in TextsOf(segs) /\ p \in 1..Len(segs[s].parts) /\ m = segs[s].parts[p]
        BY <1>4, <3>2, <3>4
      <4> QED
        BY <1>1, <3>1, <4>1, SaidFacts
    <3>5. CASE i = s /\ p = l + 1
      BY <1>4, <3>2, <3>5
    <3> QED
      BY <1>4, <1>6, <3>3, <3>4, <3>5
  <2>2. ASSUME NEW m \in SaidIn(segs) PROVE m \in SaidIn(t)
    <3>1. PICK i \in TextsOf(segs) : m # 0 /\ \E p \in 1..Len(segs[i].parts) : m = segs[i].parts[p]
      BY <1>1, <2>2, SaidFacts
    <3>2. PICK p \in 1..Len(segs[i].parts) : m = segs[i].parts[p]
      BY <3>1
    <3>3. i \in TextsOf(t) /\ p \in 1..Len(t[i].parts) /\ m = t[i].parts[p]
      <4>1. CASE i # s
        BY <1>2, <3>2, <4>1
      <4>2. CASE i = s
        <5>1. q = segs[s].parts
          BY <4>2 DEF q, PartsAt
        <5>2. p \in 1..l /\ p \in 1..(l + 1)
          BY <1>3, <4>2, <5>1 DEF l
        <5> QED
          BY <1>2, <1>4, <3>2, <4>2, <5>2
      <4> QED
        BY <4>1, <4>2
    <3> QED
      BY <1>2, <3>1, <3>3, SaidFacts
  <2>3. n + 1 \in SaidIn(t)
    <3>1. s \in TextsOf(t) /\ l + 1 \in 1..Len(t[s].parts) /\ n + 1 = t[s].parts[l + 1] /\ n + 1 # 0
      BY <1>2, <1>3, <1>4
    <3> QED
      BY <1>2, <3>1, SaidFacts
  <2> QED
    BY <2>1, <2>2, <2>3
<1>12. IsNewest(t, s)
  <2>1. s \in TextsOf(t)
    BY <1>2
  <2>2. s \in Nat
    BY <1>2, <2>1, TextFacts
  <2> QED
    BY <1>2, <2>1, <2>2 DEF IsNewest
<1> QED
  BY <1>2, <1>7, <1>10, <1>11, <1>12 DEF SegmentsRight

\* And those with a new text that says nothing.
LEMMA OpensRight ==
    ASSUME NEW segs, NEW t, NEW n, n \in Nat, NEW m, m \in Nat, n <= m, NEW s, SegmentsRight(segs, n), Opens(segs, t, s)
    PROVE  SegmentsRight(t, m) /\ SaidIn(t) = SaidIn(segs) /\ IsNewest(t, s)
<1>1. segs \in Seq(SegmentSet) /\ Ascends(segs) /\ Within(segs, n)
  BY DEF SegmentsRight
<1>2. /\ t \in Seq(SegmentSet) /\ TextsOf(t) = TextsOf(segs) \cup {s} /\ s \notin TextsOf(segs)
      /\ \A j \in TextsOf(segs) : j <= s /\ t[j].parts = segs[j].parts
      /\ t[s].parts = <<>>
  BY DEF Opens, EndsAt, Grows
<1>3. ASSUME NEW i \in TextsOf(t), NEW p \in 1..Len(t[i].parts)
      PROVE  i \in TextsOf(segs) /\ p \in 1..Len(segs[i].parts) /\ t[i].parts[p] = segs[i].parts[p]
  <2>1. i # s
    <3> SUFFICES ASSUME i = s PROVE FALSE
      OBVIOUS
    <3> QED
      BY <1>2
  <2> QED
    BY <1>2, <2>1
<1>4. Ascends(t)
  <2>1. ASSUME NEW i \in TextsOf(t), NEW p \in 1..Len(t[i].parts), NEW r \in 1..Len(t[i].parts), p < r
        PROVE  t[i].parts[p] < t[i].parts[r]
    BY <1>1, <1>3, <2>1 DEF Ascends
  <2>2. ASSUME NEW i \in TextsOf(t), NEW j \in TextsOf(t), i < j,
               NEW p \in 1..Len(t[i].parts), NEW r \in 1..Len(t[j].parts)
        PROVE  t[i].parts[p] < t[j].parts[r]
    BY <1>1, <1>3, <2>2 DEF Ascends
  <2> QED
    BY <2>1, <2>2, Zenon DEF Ascends
<1>5. Within(t, m)
  <2> SUFFICES ASSUME NEW i \in TextsOf(t), NEW p \in 1..Len(t[i].parts) PROVE t[i].parts[p] <= m
    BY DEF Within
  <2>1. i \in TextsOf(segs) /\ p \in 1..Len(segs[i].parts) /\ t[i].parts[p] = segs[i].parts[p]
    BY <1>3
  <2>2. segs[i].parts[p] <= n
    BY <1>1, <2>1 DEF Within
  <2>3. segs[i].parts[p] \in Nat
    <3>1. segs[i].parts \in Seq(Nat)
      BY <1>1, <2>1, TextFacts
    <3> QED
      BY <2>1, <3>1
  <2> QED
    BY <2>1, <2>2, <2>3
<1>6. SaidIn(t) = SaidIn(segs)
  <2>1. Range(t[s].parts) = {}
    BY <1>2 DEF Range
  <2> QED
    BY <1>2, <2>1 DEF SaidIn
<1>7. IsNewest(t, s)
  <2>1. s \in TextsOf(t)
    BY <1>2
  <2>2. s \in Nat
    BY <1>2, <2>1, TextFacts
  <2> QED
    BY <1>2, <2>1, <2>2 DEF IsNewest
<1> QED
  BY <1>2, <1>4, <1>5, <1>6, <1>7 DEF SegmentsRight

\* A segment that is added, and is no text.
LEMMA AddsOther ==
    ASSUME NEW segs, segs \in Seq(SegmentSet), NEW s, s \in SegmentSet, s.kind \notin Content
    PROVE  Keeps(segs, Append(segs, s)) /\ Append(segs, s)[Len(segs) + 1] = s /\ Len(Append(segs, s)) = Len(segs) + 1
<1> DEFINE t == Append(segs, s)
           n == Len(segs)
<1>1. n \in Nat /\ t \in Seq(SegmentSet) /\ Len(t) = n + 1 /\ t[n + 1] = s /\ \A i \in 1..n : t[i] = segs[i]
  OBVIOUS
<1>2. \A i \in 1..(n + 1) : i \in 1..n \/ i = n + 1
  BY <1>1
<1>3. n <= n + 1 /\ \A i \in 1..n : i \in 1..(n + 1)
  BY <1>1
<1> HIDE DEF t
<1>4. TextsOf(t) = TextsOf(segs)
  BY <1>1, <1>2, <1>3 DEF TextsOf
<1>5. \A i \in TextsOf(segs) : t[i].parts = segs[i].parts
  BY <1>1 DEF TextsOf
<1> QED
  BY <1>1, <1>3, <1>4, <1>5 DEF Keeps, Grows, t

\* A text that is added.
LEMMA AddsText ==
    ASSUME NEW segs, segs \in Seq(SegmentSet), NEW content, content \in Content, NEW parts, parts \in Seq(Nat)
    PROVE  /\ EndsAt(segs, Append(segs, Segment(content, parts)), Len(segs) + 1)
           /\ Append(segs, Segment(content, parts))[Len(segs) + 1].parts = parts
           /\ Len(segs) + 1 \notin TextsOf(segs) /\ PartsAt(segs, Len(segs) + 1) = <<>>
           /\ Len(Append(segs, Segment(content, parts))) = Len(segs) + 1
<1> DEFINE s == Segment(content, parts)
           t == Append(segs, s)
           n == Len(segs)
<1>0. s \in SegmentSet /\ s.kind = content /\ s.parts = parts
  BY DEF Segment, SegmentSet, Kinds
<1> HIDE DEF s
<1>1. n \in Nat /\ t \in Seq(SegmentSet) /\ Len(t) = n + 1 /\ t[n + 1] = s /\ \A i \in 1..n : t[i] = segs[i]
  BY <1>0
<1>2. \A i \in 1..(n + 1) : i \in 1..n \/ i = n + 1
  BY <1>1
<1>3. n <= n + 1 /\ n + 1 \in 1..(n + 1) /\ n + 1 \notin 1..n /\ \A i \in 1..n : i \in 1..(n + 1) /\ i <= n + 1
  BY <1>1
<1> HIDE DEF t
<1>4. TextsOf(t) = TextsOf(segs) \cup {n + 1}
  BY <1>0, <1>1, <1>2, <1>3 DEF TextsOf
<1>5. \A i \in TextsOf(segs) : i <= n + 1 /\ t[i].parts = segs[i].parts
  BY <1>1, <1>3 DEF TextsOf
<1>6. n + 1 \notin TextsOf(segs)
  BY <1>3 DEF TextsOf
<1>7. EndsAt(segs, t, n + 1)
  BY <1>1, <1>3, <1>4, <1>5 DEF EndsAt, Grows
<1>8. PartsAt(segs, n + 1) = <<>>
  BY <1>6 DEF PartsAt
<1> QED
  BY <1>0, <1>1, <1>6, <1>7, <1>8 DEF t, s

\* A part that is added to a segment.
WithPart(segs, s, m) == [segs EXCEPT ![s].parts = Append(@, m)]
\* Its kind and the other segments stay.
LEMMA AddsPart ==
    ASSUME NEW segs, segs \in Seq(SegmentSet), NEW s, s \in 1..Len(segs), NEW m, m \in Nat,
           NEW t, t = WithPart(segs, s, m)
    PROVE  /\ Grows(segs, t) /\ Len(t) = Len(segs) /\ TextsOf(t) = TextsOf(segs)
           /\ t[s].parts = Append(segs[s].parts, m) /\ \A i \in 1..Len(segs) : i # s => t[i] = segs[i]
<1>1. segs[s] \in SegmentSet
  OBVIOUS
<1>2. segs[s].parts \in Seq(Nat) /\ segs[s].kind \in Kinds
  BY <1>1 DEF SegmentSet
<1> DEFINE x == [kind |-> segs[s].kind, parts |-> Append(segs[s].parts, m)]
<1>3. x.parts = Append(segs[s].parts, m) /\ x.kind = segs[s].kind
  OBVIOUS
<1>4. Append(segs[s].parts, m) \in Seq(Nat)
  BY <1>2
<1>5. [segs[s] EXCEPT !.parts = Append(segs[s].parts, m)] = x
  <2>1. PICK y, z : y = segs[s] /\ z = Append(segs[s].parts, m)
    OBVIOUS
  <2>2. y \in [kind : Kinds, parts : Seq(Nat)]
    BY <1>1, <2>1 DEF SegmentSet
  <2>3. [y EXCEPT !.parts = z] = [kind |-> y.kind, parts |-> z]
    BY <2>2
  <2> QED
    BY <2>1, <2>3
<1>6. x \in SegmentSet
  BY <1>2, <1>4 DEF SegmentSet
<1>7. t = [segs EXCEPT ![s] = x]
  <2>1. t = [segs EXCEPT ![s] = [segs[s] EXCEPT !.parts = Append(segs[s].parts, m)]]
    BY DEF WithPart
  <2> HIDE DEF x
  <2> QED
    BY <1>5, <2>1, Zenon
<1> HIDE DEF x
<1>8. t \in Seq(SegmentSet) /\ Len(t) = Len(segs) /\ t[s] = x /\ \A i \in 1..Len(segs) : i # s => t[i] = segs[i]
  BY <1>6, <1>7
<1>9. \A i \in 1..Len(segs) : t[i].kind = segs[i].kind
  BY <1>3, <1>8
<1>10. TextsOf(t) = TextsOf(segs)
  BY <1>8, <1>9 DEF TextsOf
<1>11. Len(segs) <= Len(t)
  BY <1>8
<1> QED
  BY <1>3, <1>8, <1>9, <1>10, <1>11 DEF Grows

\* Added to the newest text, it is a gain, and to another kind it is none.
LEMMA AddsPiece ==
    ASSUME NEW segs, segs \in Seq(SegmentSet), NEW s, IsNewest(segs, s), NEW m, m \in Nat,
           NEW t, t = WithPart(segs, s, m)
    PROVE  Gains(segs, t, s, m) /\ Len(t) = Len(segs)
<1>1. s \in TextsOf(segs) /\ \A j \in TextsOf(segs) : j <= s
  BY DEF IsNewest
<1>2. s \in 1..Len(segs)
  BY <1>1 DEF TextsOf
<1>3. /\ Grows(segs, t) /\ Len(t) = Len(segs) /\ TextsOf(t) = TextsOf(segs)
      /\ t[s].parts = Append(segs[s].parts, m) /\ \A i \in 1..Len(segs) : i # s => t[i] = segs[i]
  BY <1>2, AddsPart
<1>4. \A j \in TextsOf(segs) : j # s => t[j].parts = segs[j].parts
  BY <1>3 DEF TextsOf
<1>5. PartsAt(segs, s) = segs[s].parts
  BY <1>1 DEF PartsAt
<1> QED
  BY <1>1, <1>3, <1>4, <1>5 DEF Gains, EndsAt
\* A call that is counted in a Task changes no text.
LEMMA CountsCall ==
    ASSUME NEW segs, segs \in Seq(SegmentSet), NEW s, s \in 1..Len(segs), segs[s].kind \notin Content, NEW m, m \in Nat,
           NEW t, t = WithPart(segs, s, m)
    PROVE  Keeps(segs, t)
<1>1. /\ Grows(segs, t) /\ Len(t) = Len(segs) /\ TextsOf(t) = TextsOf(segs)
      /\ \A i \in 1..Len(segs) : i # s => t[i] = segs[i]
  BY AddsPart
<1>2. \A j \in TextsOf(segs) : j # s /\ j \in 1..Len(segs)
  BY DEF TextsOf
<1> QED
  BY <1>1, <1>2 DEF Keeps

\* What is open and the stack stay right as segments are added.
LEMMA GrowsRight ==
    ASSUME NEW segs, NEW t, segs \in Seq(SegmentSet), Grows(segs, t)
    PROVE  /\ \A opn : OpenRight(opn, segs) => OpenRight(opn, t)
           /\ \A stk : StackRight(stk, segs) => StackRight(stk, t)
<1>1. /\ Len(segs) \in Nat /\ Len(t) \in Nat /\ Len(segs) <= Len(t)
      /\ \A i \in 1..Len(segs) : t[i].kind = segs[i].kind
  BY DEF Grows
<1>2. \A i : (i \in 0..Len(segs) => i \in 0..Len(t)) /\ (i \in 1..Len(segs) => i \in 1..Len(t))
  BY <1>1
<1>3. ASSUME NEW opn, OpenRight(opn, segs) PROVE OpenRight(opn, t)
  BY <1>2, <1>3 DEF OpenRight
<1>4. ASSUME NEW stk, StackRight(stk, segs) PROVE StackRight(stk, t)
  BY <1>1, <1>2, <1>4 DEF StackRight
<1> QED
  BY <1>3, <1>4

-----------------------------------------------------------------------------
(* Ids, their prefixes, and the stack of Tasks.                            *)

\* A prefix agrees wherever it is.
LEMMA PrefixAt ==
    ASSUME NEW a, a \in Seq(Symbols), NEW b, b \in Seq(Symbols)
    PROVE  IsPrefix(a, b) <=> Len(a) <= Len(b) /\ \A i \in 1..Len(a) : a[i] = b[i]
<1>1. Len(a) \in Nat /\ Len(b) \in Nat
  OBVIOUS
<1>2. ASSUME Len(a) <= Len(b), SubSeq(a, 1, Len(a)) = SubSeq(b, 1, Len(a)), NEW i \in 1..Len(a) PROVE a[i] = b[i]
  <2>1. SubSeq(a, 1, Len(a))[i] = a[i] /\ SubSeq(b, 1, Len(a))[i] = b[i]
    BY <1>1, <1>2
  <2> QED
    BY <1>2, <2>1
<1>3. ASSUME Len(a) <= Len(b), \A i \in 1..Len(a) : a[i] = b[i] PROVE SubSeq(a, 1, Len(a)) = SubSeq(b, 1, Len(a))
  <2>1. SubSeq(a, 1, Len(a)) = [i \in 1..Len(a) |-> a[i]] /\ SubSeq(b, 1, Len(a)) = [i \in 1..Len(a) |-> b[i]]
    BY <1>1, <1>3
  <2> QED
    BY <1>3, <2>1
<1> QED
  BY <1>2, <1>3 DEF IsPrefix

\* Prefixes are in order.
LEMMA PrefixFacts ==
    ASSUME NEW a, a \in Seq(Symbols), NEW b, b \in Seq(Symbols), NEW c, c \in Seq(Symbols)
    PROVE  /\ IsPrefix(a, a)
           /\ IsPrefix(a, b) /\ IsPrefix(b, c) => IsPrefix(a, c)
           /\ IsPrefix(a, c) /\ IsPrefix(b, c) => IsPrefix(a, b) \/ IsPrefix(b, a)
           /\ IsPrefix(a, b) /\ a # <<>> => b # <<>>
<1>1. Len(a) \in Nat /\ Len(b) \in Nat /\ Len(c) \in Nat
  OBVIOUS
<1>2. IsPrefix(a, a)
  BY <1>1, PrefixAt
<1>3. IsPrefix(a, b) /\ IsPrefix(b, c) => IsPrefix(a, c)
  <2> SUFFICES ASSUME IsPrefix(a, b), IsPrefix(b, c) PROVE IsPrefix(a, c)
    OBVIOUS
  <2>1. Len(a) <= Len(b) /\ \A i \in 1..Len(a) : a[i] = b[i]
    BY PrefixAt
  <2>2. Len(b) <= Len(c) /\ \A i \in 1..Len(b) : b[i] = c[i]
    BY PrefixAt
  <2>3. Len(a) <= Len(c) /\ \A i \in 1..Len(a) : i \in 1..Len(b)
    BY <1>1, <2>1, <2>2
  <2>4. \A i \in 1..Len(a) : a[i] = c[i]
    BY <2>1, <2>2, <2>3
  <2> QED
    BY <2>3, <2>4, PrefixAt
<1>4. IsPrefix(a, c) /\ IsPrefix(b, c) => IsPrefix(a, b) \/ IsPrefix(b, a)
  <2> SUFFICES ASSUME IsPrefix(a, c), IsPrefix(b, c) PROVE IsPrefix(a, b) \/ IsPrefix(b, a)
    OBVIOUS
  <2>1. \A i \in 1..Len(a) : a[i] = c[i]
    BY PrefixAt
  <2>2. \A i \in 1..Len(b) : b[i] = c[i]
    BY PrefixAt
  <2>3. CASE Len(a) <= Len(b)
    <3>1. \A i \in 1..Len(a) : i \in 1..Len(b)
      BY <1>1, <2>3
    <3>2. \A i \in 1..Len(a) : a[i] = b[i]
      BY <2>1, <2>2, <3>1
    <3> QED
      BY <2>3, <3>2, PrefixAt
  <2>4. CASE Len(b) <= Len(a)
    <3>1. \A i \in 1..Len(b) : i \in 1..Len(a)
      BY <1>1, <2>4
    <3>2. \A i \in 1..Len(b) : b[i] = a[i]
      BY <2>1, <2>2, <3>1
    <3> QED
      BY <2>4, <3>2, PrefixAt
  <2> QED
    BY <1>1, <2>3, <2>4
<1>5. IsPrefix(a, b) /\ a # <<>> => b # <<>>
  <2>1. IsPrefix(a, b) => Len(a) <= Len(b)
    BY PrefixAt
  <2> QED
    BY <1>1, <2>1
<1> QED
  BY <1>2, <1>3, <1>4, <1>5

\* The ids are of symbols, and not empty.
LEMMA IdFacts ==
    ASSUME NEW id, id \in TaskIds \cup ToolIds \cup TaskLike
    PROVE  id \in Seq(Symbols) /\ id # <<>>
  BY TranscriptAssumption

\* An id that is made up is like no other.
LEMMA MadeUpFacts ==
    ASSUME NEW id, id \in Seq(Symbols), NEW n, n \in Nat
    PROVE  /\ id # <<>> => ~IsPrefix(id, MadeUp(n))
           /\ ~Matches(MadeUp(n), id) /\ IsSynthetic(MadeUp(n)) /\ MadeUp(n) # id
           /\ id # <<>> => ~IsSynthetic(id)
<1> DEFINE x == MadeUp(n)
<1>1. Len(x) = 2 /\ x[1] = "__task"
  BY DEF MadeUp
<1>2. Len(id) \in Nat /\ \A i \in 1..Len(id) : id[i] \in Symbols
  OBVIOUS
<1>3. id # <<>> => Len(id) >= 1 /\ id[1] # "__task"
  <2> SUFFICES ASSUME id # <<>> PROVE Len(id) >= 1 /\ id[1] # "__task"
    OBVIOUS
  <2>1. Len(id) >= 1 /\ 1 \in 1..Len(id)
    BY <1>2
  <2>2. id[1] \in Symbols
    BY <1>2, <2>1
  <2> QED
    BY <2>1, <2>2, TranscriptAssumption
<1>4. id # <<>> => SubSeq(id, 1, Len(id))[1] = id[1] /\ SubSeq(x, 1, Len(id))[1] = "__task"
  <2> SUFFICES ASSUME id # <<>> PROVE SubSeq(id, 1, Len(id))[1] = id[1] /\ SubSeq(x, 1, Len(id))[1] = "__task"
    OBVIOUS
  <2>1. 1 \in 1..Len(id)
    BY <1>2, <1>3
  <2> QED
    BY <1>1, <1>2, <2>1
<1>5. id # <<>> => ~IsPrefix(id, x)
  BY <1>3, <1>4 DEF IsPrefix
<1>6. id # <<>> => ~IsPrefix(x, id)
  <2> SUFFICES ASSUME id # <<>>, IsPrefix(x, id) PROVE FALSE
    OBVIOUS
  <2>1. 2 <= Len(id) /\ SubSeq(x, 1, 2) = SubSeq(id, 1, 2)
    BY <1>1 DEF IsPrefix
  <2>2. SubSeq(x, 1, 2)[1] = "__task" /\ SubSeq(id, 1, 2)[1] = id[1]
    BY <1>1, <1>2, <2>1
  <2> QED
    BY <1>3, <2>1, <2>2
<1>7. x # <<>> /\ x # id
  <2>1. Len(x) # 0
    BY <1>1
  <2>2. x # <<>>
    BY <2>1
  <2> QED
    BY <1>1, <1>3, <2>2
<1> HIDE DEF x
<1>8. ~Matches(x, id)
  BY <1>5, <1>6 DEF Matches
<1>9. IsSynthetic(x)
  BY <1>1 DEF IsSynthetic
<1>10. id # <<>> => ~IsSynthetic(id)
  BY <1>3 DEF IsSynthetic
<1> QED
  BY <1>5, <1>7, <1>8, <1>9, <1>10 DEF x

\* What a result leaves of the stack.
Hits(stk, id) == {i \in 1..Len(stk) : Matches(stk[i].id, id)}
Ending(id) == id = <<>> \/ (id \notin toolIds /\ id \in TaskLike)
LeavesTo(stk, id, m) ==
    /\ m \in 0..Len(stk)
    /\ Hits(stk, id) # {} => m + 1 \in Hits(stk, id) /\ \A h \in Hits(stk, id) : h <= m + 1
    /\ Hits(stk, id) = {} /\ stk # <<>> /\ IsSynthetic(Last(stk).id) /\ Ending(id) => m = Len(stk) - 1
    /\ Hits(stk, id) = {} /\ ~Ending(id) => m = Len(stk)
\* What is left of the stack is its start, up to the last entry that the id matches.
LEMMA PopFacts ==
    ASSUME NEW id, stack \in Seq(StackSet)
    PROVE  \E m : LeavesTo(stack, id, m) /\ Popped(id) = SubSeq(stack, 1, m)
<1> DEFINE n == Len(stack)
           hits == Hits(stack, id)
<1>1. n \in Nat /\ (stack # <<>> => n >= 1) /\ SubSeq(stack, 1, n) = stack /\ hits \subseteq 1..n
  BY DEF Hits
<1>2. Popped(id) = IF stack = <<>> THEN stack
                   ELSE IF hits # {} THEN SubSeq(stack, 1, Max(hits) - 1)
                   ELSE IF IsSynthetic(Last(stack).id) /\ Ending(id) THEN Front(stack)
                   ELSE stack
  BY DEF Popped, Hits, Ending
<1>3. CASE hits # {}
  <2>1. stack # <<>>
    BY <1>1, <1>3
  <2>2. Max(hits) \in hits /\ \A y \in hits : y <= Max(hits)
    <3> HIDE DEF hits, n
    <3> QED
      BY <1>1, <1>3, Extremes
  <2>3. PICK m : m = Max(hits)
    OBVIOUS
  <2>4. m \in 1..n /\ m - 1 \in 0..n /\ (m - 1) + 1 = m
    BY <1>1, <2>2, <2>3
  <2>5. Popped(id) = SubSeq(stack, 1, m - 1)
    BY <1>2, <1>3, <2>1, <2>3
  <2>6. LeavesTo(stack, id, m - 1)
    BY <1>3, <2>2, <2>3, <2>4 DEF LeavesTo
  <2> QED
    BY <2>5, <2>6
<1>4. CASE hits = {} /\ stack # <<>> /\ IsSynthetic(Last(stack).id) /\ Ending(id)
  <2>1. Popped(id) = SubSeq(stack, 1, n - 1)
    BY <1>2, <1>4 DEF Front
  <2>2. LeavesTo(stack, id, n - 1)
    BY <1>1, <1>4 DEF LeavesTo
  <2> QED
    BY <2>1, <2>2
<1>5. CASE hits = {} /\ ~(stack # <<>> /\ IsSynthetic(Last(stack).id) /\ Ending(id))
  <2>1. Popped(id) = SubSeq(stack, 1, n)
    BY <1>1, <1>2, <1>5
  <2>2. LeavesTo(stack, id, n)
    <3>1. n \in 0..n
      BY <1>1
    <3> QED
      BY <1>5, <3>1, Zenon DEF LeavesTo
  <2> QED
    BY <2>1, <2>2
<1> QED
  BY <1>3, <1>4, <1>5

\* The entries of the stack are of Tasks.
LEMMA StackFacts ==
    ASSUME NEW stk, stk \in Seq(StackSet), NEW i, i \in 1..Len(stk)
    PROVE  (stk[i].id \in Seq(Symbols) /\ stk[i].id # <<>> /\ stk[i].id \in TaskIds) \/ \E n \in Nat : stk[i].id = MadeUp(n)
<1>1. stk[i] \in StackSet
  OBVIOUS
<1> QED
  BY <1>1, IdFacts DEF StackSet

\* The start of a right stack is right.
LEMMA LeavesRight ==
    ASSUME NEW stk, NEW segs, StackRight(stk, segs), NEW m, m \in 0..Len(stk)
    PROVE  /\ StackRight(SubSeq(stk, 1, m), segs) /\ Len(SubSeq(stk, 1, m)) = m
           /\ \A i \in 1..m : i \in 1..Len(stk) /\ SubSeq(stk, 1, m)[i] = stk[i]
<1>1. /\ stk \in Seq(StackSet)
      /\ \A i \in 1..Len(stk) : stk[i].seg \in 1..Len(segs) /\ segs[stk[i].seg].kind = "subagent"
  BY DEF StackRight
<1>2. /\ SubSeq(stk, 1, m) \in Seq(StackSet) /\ Len(SubSeq(stk, 1, m)) = m
      /\ \A i \in 1..m : i \in 1..Len(stk) /\ SubSeq(stk, 1, m)[i] = stk[i]
  BY <1>1
<1> QED
  BY <1>1, <1>2 DEF StackRight

\* The result of another tool ends no Task.
LEMMA ToolLeaves ==
    ASSUME stack \in Seq(StackSet), toolIds \subseteq ToolIds, NEW id, id \in toolIds
    PROVE  Popped(id) = stack
<1>1. id \in ToolIds /\ id \in Seq(Symbols) /\ id # <<>>
  BY IdFacts
<1>2. Hits(stack, id) = {}
  <2> SUFFICES ASSUME NEW i \in 1..Len(stack), Matches(stack[i].id, id) PROVE FALSE
    BY DEF Hits
  <2>1. CASE stack[i].id \in TaskIds
    BY <1>1, <2>1, TranscriptAssumption DEF Matches
  <2>2. CASE \E n \in Nat : stack[i].id = MadeUp(n)
    BY <1>1, <2>2, MadeUpFacts
  <2> QED
    BY <2>1, <2>2, StackFacts
<1>3. ~Ending(id)
  BY <1>1 DEF Ending
<1>4. PICK m : LeavesTo(stack, id, m) /\ Popped(id) = SubSeq(stack, 1, m)
  BY PopFacts
<1>5. m = Len(stack)
  BY <1>2, <1>3, <1>4 DEF LeavesTo
<1> QED
  BY <1>4, <1>5

\* The counted entries and Tasks are finitely many.
LEMMA CountFacts ==
    ASSUME NEW stk, stk \in Seq(StackSet), NEW tks, tks \in Seq(TaskSet), NEW j, NEW x, j \in 1..(Len(stk) + 1)
    PROVE  /\ IsFiniteSet(Extending(stk, j, x)) /\ Cardinality(Extending(stk, j, x)) \in Nat
           /\ IsFiniteSet(Awaiting(tks, x)) /\ Cardinality(Awaiting(tks, x)) \in Nat
<1>1. Len(stk) \in Int /\ Len(tks) \in Int /\ j \in Int /\ 1 \in Int
  OBVIOUS
<1>2. IsFiniteSet(j..Len(stk)) /\ IsFiniteSet(1..Len(tks))
  BY <1>1, FS_Interval
<1>3. Extending(stk, j, x) \in SUBSET (j..Len(stk)) /\ Awaiting(tks, x) \in SUBSET (1..Len(tks))
  BY DEF Extending, Awaiting
<1>4. IsFiniteSet(Extending(stk, j, x)) /\ IsFiniteSet(Awaiting(tks, x))
  BY <1>2, <1>3, FS_Subset
<1> QED
  BY <1>4, FS_CardinalityType

\* A Task that is opened is on the stack, and waits for its result.
LEMMA PushRight ==
    ASSUME NEW stk, stk \in Seq(StackSet), NEW tks, tks \in Seq(TaskSet), NEW id, id \in TaskSet,
           NEW e, e \in StackSet, e.id = IF id = <<>> THEN MadeUp(Len(stk) + 1) ELSE id
    PROVE  /\ Nests(stk, tks) => Nests(Append(stk, e), Append(tks, id))
           /\ StillOpen(stk, tks) => StillOpen(Append(stk, e), Append(tks, id))
<1> DEFINE n == Len(stk)
           m == Len(tks)
           s2 == Append(stk, e)
           t2 == Append(tks, id)
<1>1. /\ n \in Nat /\ s2 \in Seq(StackSet) /\ Len(s2) = n + 1 /\ s2[n + 1] = e /\ \A i \in 1..n : s2[i] = stk[i]
      /\ m \in Nat /\ t2 \in Seq(TaskSet) /\ Len(t2) = m + 1 /\ t2[m + 1] = id /\ \A i \in 1..m : t2[i] = tks[i]
  OBVIOUS
<1>2. \A i \in 1..(n + 1) : i \in 1..n \/ i = n + 1
  BY <1>1
<1>3. \A i \in 1..(m + 1) : i \in 1..m \/ i = m + 1
  BY <1>1
<1>4. /\ \A i \in 1..n : i \in 1..(n + 1) /\ i # n + 1
      /\ \A i \in 1..m : i \in 1..(m + 1) /\ i # m + 1
      /\ m + 1 \in 1..(m + 1) /\ m + 1 \notin 1..m
  BY <1>1
<1>5. \A x : Least(x) => x \in Seq(Symbols) /\ x # <<>> /\ x \in TaskIds
  BY IdFacts DEF Least
<1>6. \A x : Least(x) /\ IsPrefix(x, e.id) => IsPrefix(x, id)
  <2> SUFFICES ASSUME NEW x, Least(x), IsPrefix(x, e.id) PROVE IsPrefix(x, id)
    OBVIOUS
  <2>1. CASE id = <<>>
    <3>1. n + 1 \in Nat /\ e.id = MadeUp(n + 1)
      BY <1>1, <2>1
    <3> QED
      BY <1>5, <3>1, MadeUpFacts
  <2>2. CASE id # <<>>
    BY <2>2
  <2> QED
    BY <2>1, <2>2
<1> HIDE DEF s2, t2
<1>7. Nests(stk, tks) => Nests(s2, t2)
  <2> SUFFICES ASSUME n = m, \A i \in 1..m : stk[i].id = IF tks[i] = <<>> THEN MadeUp(i) ELSE tks[i]
               PROVE  \A i \in 1..(m + 1) : s2[i].id = IF t2[i] = <<>> THEN MadeUp(i) ELSE t2[i]
    BY <1>1 DEF Nests
  <2> TAKE i \in 1..(m + 1)
  <2> QED
    BY <1>1, <1>3
<1>8. ASSUME StillOpen(stk, tks), NEW j \in 1..(n + 1), NEW x, Least(x), s2[j].id = x
      PROVE  Cardinality(Extending(s2, j, x)) <= Cardinality(Awaiting(t2, x))
  <2>1. /\ IsFiniteSet(Extending(s2, j, x)) /\ Cardinality(Extending(s2, j, x)) \in Nat
        /\ IsFiniteSet(Awaiting(t2, x)) /\ Cardinality(Awaiting(t2, x)) \in Nat
    <3>1. j \in 1..(Len(s2) + 1)
      BY <1>1
    <3> QED
      BY <1>1, <3>1, CountFacts
  <2>2. /\ IsFiniteSet(Extending(stk, j, x)) /\ Cardinality(Extending(stk, j, x)) \in Nat
        /\ IsFiniteSet(Awaiting(tks, x)) /\ Cardinality(Awaiting(tks, x)) \in Nat
    BY <1>1, CountFacts
  <2>3. \A i \in j..(n + 1) : i \in j..n \/ i = n + 1
    BY <1>1
  <2>4. \A i \in j..n : i \in j..(n + 1) /\ i # n + 1 /\ i \in 1..n
    BY <1>1
  <2>5. Awaiting(t2, x) = IF IsPrefix(x, id) THEN Awaiting(tks, x) \cup {m + 1} ELSE Awaiting(tks, x)
    BY <1>1, <1>3, <1>4 DEF Awaiting
  <2>6. m + 1 \notin Awaiting(tks, x)
    BY <1>4 DEF Awaiting
  <2>7. Cardinality(Awaiting(tks, x) \cup {m + 1}) = Cardinality(Awaiting(tks, x)) + 1
    BY <2>2, <2>6, FS_AddElement
  <2>8. CASE j \in 1..n
    <3>1. n + 1 \in j..(n + 1)
      BY <1>1, <2>8
    <3>2. Extending(s2, j, x) = IF IsPrefix(x, e.id) THEN Extending(stk, j, x) \cup {n + 1} ELSE Extending(stk, j, x)
      BY <1>1, <2>3, <2>4, <3>1 DEF Extending
    <3>3. n + 1 \notin Extending(stk, j, x)
      BY <2>4 DEF Extending
    <3>4. Cardinality(Extending(stk, j, x) \cup {n + 1}) = Cardinality(Extending(stk, j, x)) + 1
      BY <2>2, <3>3, FS_AddElement
    <3>5. stk[j].id = x
      BY <1>1, <1>8, <2>8
    <3>6. Cardinality(Extending(stk, j, x)) <= Cardinality(Awaiting(tks, x))
      BY <1>8, <2>8, <3>5 DEF StillOpen
    <3>7. CASE IsPrefix(x, e.id)
      <4>1. IsPrefix(x, id)
        BY <1>6, <1>8, <3>7
      <4> QED
        BY <2>2, <2>5, <2>7, <3>2, <3>4, <3>6, <3>7, <4>1
    <3>8. CASE ~IsPrefix(x, e.id)
      <4>1. CASE IsPrefix(x, id)
        BY <2>2, <2>5, <2>7, <3>2, <3>6, <3>8, <4>1
      <4>2. CASE ~IsPrefix(x, id)
        BY <2>5, <3>2, <3>6, <3>8, <4>2
      <4> QED
        BY <4>1, <4>2
    <3> QED
      BY <3>7, <3>8
  <2>9. CASE j = n + 1
    <3>1. e.id = x
      BY <1>1, <1>8, <2>9
    <3>2. id = x
      <4>1. CASE id = <<>>
        <5>1. n + 1 \in Nat /\ e.id = MadeUp(n + 1)
          BY <1>1, <4>1
        <5> QED
          BY <1>5, <1>8, <3>1, <5>1, MadeUpFacts
      <4>2. CASE id # <<>>
        BY <3>1, <4>2
      <4> QED
        BY <4>1, <4>2
    <3>3. IsPrefix(x, id)
      BY <1>5, <1>8, <3>2, PrefixFacts
    <3>4. Cardinality(Awaiting(t2, x)) >= 1
      BY <2>2, <2>5, <2>7, <3>3
    <3>5. Extending(s2, j, x) \in SUBSET {n + 1}
      <4>1. \A i \in j..(n + 1) : i = n + 1
        BY <1>1, <2>9
      <4> QED
        BY <1>1, <4>1 DEF Extending
    <3>6. Cardinality(Extending(s2, j, x)) <= 1
      <4>1. IsFiniteSet({n + 1}) /\ Cardinality({n + 1}) = 1
        BY FS_Singleton
      <4>2. Cardinality(Extending(s2, j, x)) <= Cardinality({n + 1})
        BY <3>5, <4>1, FS_Subset
      <4> QED
        BY <4>1, <4>2
    <3> QED
      BY <2>1, <3>4, <3>6
  <2> QED
    BY <1>2, <2>8, <2>9
<1>9. StillOpen(stk, tks) => StillOpen(s2, t2)
  BY <1>1, <1>8 DEF StillOpen
<1> QED
  BY <1>7, <1>9 DEF s2, t2

\* The Tasks but one.
LEMMA RemoveTaskFacts ==
    ASSUME NEW tks, tks \in Seq(TaskSet), NEW i, i \in 1..Len(tks)
    PROVE  /\ RemoveAt(tks, i) \in Seq(TaskSet) /\ Len(RemoveAt(tks, i)) = Len(tks) - 1
           /\ \A k \in 1..Len(tks) : k < i => k \in 1..(Len(tks) - 1) /\ RemoveAt(tks, i)[k] = tks[k]
           /\ \A k \in 1..Len(tks) : k > i => k - 1 \in 1..(Len(tks) - 1) /\ RemoveAt(tks, i)[k - 1] = tks[k]
<1> DEFINE m == Len(tks)
           a == SubSeq(tks, 1, i - 1)
           b == SubSeq(tks, i + 1, m)
<1>1. m \in Nat /\ i \in Nat
  OBVIOUS
<1>2. a \in Seq(TaskSet) /\ Len(a) = i - 1 /\ \A k \in 1..(i - 1) : a[k] = tks[k]
  BY <1>1
<1>3. b \in Seq(TaskSet) /\ Len(b) = m - i /\ \A k \in 1..(m - i) : b[k] = tks[i + k]
  BY <1>1
<1>4. RemoveAt(tks, i) = a \o b
  BY DEF RemoveAt
<1> HIDE DEF a, b
<1>5. a \o b \in Seq(TaskSet) /\ Len(a \o b) = m - 1
  <2>1. a \o b \in Seq(TaskSet) /\ Len(a \o b) = Len(a) + Len(b)
    <3>1. a \in Seq(TaskSet) /\ b \in Seq(TaskSet)
      BY <1>2, <1>3
    <3> QED
      BY <3>1
  <2>2. Len(a) + Len(b) = m - 1
    BY <1>1, <1>2, <1>3
  <2> QED
    BY <2>1, <2>2
<1>6. ASSUME NEW k \in 1..m, k < i PROVE k \in 1..(m - 1) /\ (a \o b)[k] = tks[k]
  <2>1. k \in 1..(m - 1) /\ k \in 1..(i - 1)
    BY <1>1, <1>6
  <2>2. k \in 1..Len(a)
    BY <1>2, <2>1
  <2>3. (a \o b)[k] = a[k]
    BY <1>2, <1>3, <2>2
  <2> QED
    BY <1>2, <2>1, <2>3
<1>7. ASSUME NEW k \in 1..m, k > i PROVE k - 1 \in 1..(m - 1) /\ (a \o b)[k - 1] = tks[k]
  <2>1. k - 1 \in 1..(m - 1) /\ k - i \in 1..(m - i) /\ (k - 1) - (i - 1) = k - i /\ i + (k - i) = k /\ k - 1 > i - 1
    BY <1>1, <1>7
  <2>2. (a \o b)[k - 1] = b[(k - 1) - (i - 1)]
    BY <1>1, <1>2, <1>3, <2>1
  <2>3. b[k - i] = tks[i + (k - i)]
    BY <1>3, <2>1
  <2> QED
    BY <2>1, <2>2, <2>3
<1> QED
  BY <1>4, <1>5, <1>6, <1>7

\* Of the Tasks that are waited for, all but the one that is answered are left.
LEMMA AwaitingLeft ==
    ASSUME NEW tks, tks \in Seq(TaskSet), NEW i, i \in 1..Len(tks), NEW x
    PROVE  /\ Cardinality(Awaiting(RemoveAt(tks, i), x)) \in Nat
           /\ Cardinality(Awaiting(tks, x)) - 1 <= Cardinality(Awaiting(RemoveAt(tks, i), x))
           /\ ~IsPrefix(x, tks[i]) => Cardinality(Awaiting(tks, x)) <= Cardinality(Awaiting(RemoveAt(tks, i), x))
<1> DEFINE t2 == RemoveAt(tks, i)
           S == Awaiting(tks, x)
           D == S \ {i}
           T == Awaiting(t2, x)
           f == [k \in D |-> IF k < i THEN k ELSE k - 1]
<1>0. <<>> \in Seq(StackSet) /\ 1 \in 1..(Len(<<>>) + 1)
  OBVIOUS
<1>1. /\ t2 \in Seq(TaskSet) /\ Len(t2) = Len(tks) - 1
      /\ \A k \in 1..Len(tks) : k < i => k \in 1..(Len(tks) - 1) /\ t2[k] = tks[k]
      /\ \A k \in 1..Len(tks) : k > i => k - 1 \in 1..(Len(tks) - 1) /\ t2[k - 1] = tks[k]
  BY RemoveTaskFacts
<1> HIDE DEF t2
<1>2. IsFiniteSet(S) /\ Cardinality(S) \in Nat /\ IsFiniteSet(T) /\ Cardinality(T) \in Nat
  BY <1>0, <1>1, CountFacts
<1>3. \A k \in D : k \in 1..Len(tks) /\ k # i /\ (k < i \/ k > i) /\ IsPrefix(x, tks[k])
  BY DEF Awaiting
<1>4. \A k \in D : (IF k < i THEN k ELSE k - 1) \in T
  BY <1>1, <1>3 DEF Awaiting
<1>5. f \in [D -> T]
  BY <1>4
<1>6. \A k, l \in D : f[k] = f[l] => k = l
  BY <1>3
<1> HIDE DEF f, D, T, S
<1>7. f \in Injection(D, T)
  <2>1. IsInjective(f)
    BY <1>5, <1>6 DEF IsInjective
  <2> QED
    BY <1>5, <2>1 DEF Injection
<1>8. Cardinality(D) <= Cardinality(T)
  BY <1>2, <1>7, FS_Injection
<1>9. Cardinality(D) = IF i \in S THEN Cardinality(S) - 1 ELSE Cardinality(S)
  BY <1>2, FS_RemoveElement DEF D
<1>10. i \in S => IsPrefix(x, tks[i])
  BY DEF S, Awaiting
<1> QED
  BY <1>2, <1>8, <1>9, <1>10 DEF S, T, t2

\* The result of a Task that has none yet, under an id of its own or another.
Answers(i, id) ==
    /\ i \in 1..Len(tasks) /\ id \in TaskSet \cup TaskLike
    /\ IF tasks[i] = <<>> THEN id = <<>> \/ id \in TaskLike \ (toolIds \cup TaskIds) ELSE IsPrefix(tasks[i], id)
\* It is an id of symbols, and one that ends a Task without an id may be left out.
LEMMA AnswerFacts ==
    ASSUME NEW i, NEW id, Answers(i, id), tasks \in Seq(TaskSet)
    PROVE  /\ id \in Seq(Symbols) /\ tasks[i] \in Seq(Symbols) /\ (tasks[i] # <<>> => id # <<>> /\ IsPrefix(tasks[i], id))
           /\ (tasks[i] = <<>> => Ending(id))
<1>1. tasks[i] \in TaskSet /\ id \in TaskSet \cup TaskLike
  BY DEF Answers
<1>2. \A x \in TaskSet \cup TaskLike : x \in Seq(Symbols)
  <2>1. <<>> \in Seq(Symbols)
    OBVIOUS
  <2>2. \A x \in TaskIds \cup ToolIds \cup TaskLike : x \in Seq(Symbols)
    BY IdFacts
  <2> QED
    BY <2>1, <2>2 DEF TaskSet
<1>3. tasks[i] # <<>> => IsPrefix(tasks[i], id)
  BY DEF Answers
<1>4. tasks[i] = <<>> => Ending(id)
  BY DEF Answers, Ending
<1> QED
  BY <1>1, <1>2, <1>3, <1>4, PrefixFacts

\* Answered in any order, the Tasks that wait still cover what stays open.
LEMMA ResultLeavesOpen ==
    ASSUME stack \in Seq(StackSet), tasks \in Seq(TaskSet), StackRight(stack, segments), StillOpen(stack, tasks),
           NEW i, NEW id, Answers(i, id)
    PROVE  StillOpen(Popped(id), RemoveAt(tasks, i))
<1>1. PICK m : LeavesTo(stack, id, m) /\ Popped(id) = SubSeq(stack, 1, m)
  BY PopFacts
<1>2. m \in 0..Len(stack) /\ Len(stack) \in Nat
  BY <1>1 DEF LeavesTo
<1> DEFINE s2 == SubSeq(stack, 1, m)
           t2 == RemoveAt(tasks, i)
<1>3. StackRight(s2, segments) /\ Len(s2) = m /\ \A k \in 1..m : k \in 1..Len(stack) /\ s2[k] = stack[k]
  BY <1>2, LeavesRight
<1>4. t2 \in Seq(TaskSet)
  BY RemoveTaskFacts DEF Answers
<1> HIDE DEF s2
<1>5. ASSUME NEW j \in 1..m, NEW x, Least(x), s2[j].id = x
      PROVE  Cardinality(Extending(s2, j, x)) <= Cardinality(Awaiting(t2, x))
  <2>1. /\ s2 \in Seq(StackSet) /\ j \in 1..(Len(s2) + 1)
        /\ j \in 1..(Len(stack) + 1) /\ j \in 1..Len(stack) /\ m \in Nat /\ j \in Nat
    BY <1>2, <1>3 DEF StackRight
  <2>2. /\ IsFiniteSet(Extending(s2, j, x)) /\ Cardinality(Extending(s2, j, x)) \in Nat
        /\ IsFiniteSet(Extending(stack, j, x)) /\ Cardinality(Extending(stack, j, x)) \in Nat
        /\ Cardinality(Awaiting(tasks, x)) \in Nat
    BY <2>1, CountFacts
  <2>3. /\ Cardinality(Awaiting(t2, x)) \in Nat
        /\ Cardinality(Awaiting(tasks, x)) - 1 <= Cardinality(Awaiting(t2, x))
        /\ ~IsPrefix(x, tasks[i]) => Cardinality(Awaiting(tasks, x)) <= Cardinality(Awaiting(t2, x))
    BY AwaitingLeft DEF Answers
  <2>4. x \in Seq(Symbols) /\ x # <<>> /\ stack[j].id = x
    BY <1>3, <1>5, IdFacts DEF Least
  <2>5. Cardinality(Extending(stack, j, x)) <= Cardinality(Awaiting(tasks, x))
    BY <1>5, <2>1, <2>4 DEF StillOpen
  <2>6. \A k \in j..m : k \in 1..m /\ k \in j..Len(stack) /\ k # m + 1
    BY <1>2, <2>1
  <2>7. Extending(s2, j, x) \in SUBSET (Extending(stack, j, x) \ {m + 1})
    BY <1>3, <2>6 DEF Extending
  <2>8. CASE ~IsPrefix(x, tasks[i])
    <3>1. Cardinality(Extending(s2, j, x)) <= Cardinality(Extending(stack, j, x))
      <4>1. Extending(s2, j, x) \in SUBSET Extending(stack, j, x)
        BY <2>7
      <4> QED
        BY <2>2, <4>1, FS_Subset
    <3> QED
      BY <2>2, <2>3, <2>5, <2>8, <3>1
  <2>9. CASE IsPrefix(x, tasks[i])
    <3>1. id \in Seq(Symbols) /\ id # <<>> /\ IsPrefix(x, id)
      <4>1. /\ id \in Seq(Symbols) /\ tasks[i] \in Seq(Symbols)
            /\ (tasks[i] # <<>> => id # <<>> /\ IsPrefix(tasks[i], id))
        BY AnswerFacts
      <4>2. tasks[i] # <<>>
        BY <2>4, <2>9, <4>1, PrefixFacts
      <4> QED
        BY <2>4, <2>9, <4>1, <4>2, PrefixFacts
    <3>2. j \in Hits(stack, id)
      BY <2>1, <2>4, <3>1 DEF Hits, Matches
    <3>3. m + 1 \in Hits(stack, id) /\ j <= m + 1
      BY <1>1, <3>2 DEF LeavesTo
    <3>4. PICK z : z = stack[m + 1].id
      OBVIOUS
    <3>5. m + 1 \in 1..Len(stack) /\ Matches(z, id)
      BY <3>3, <3>4 DEF Hits
    <3>6. z \in Seq(Symbols) /\ z # <<>> /\ z \in TaskIds
      <4>1. CASE \E n \in Nat : z = MadeUp(n)
        BY <3>1, <3>5, <4>1, MadeUpFacts
      <4>2. CASE z \in TaskIds
        BY <4>2, IdFacts
      <4> QED
        BY <3>4, <3>5, <4>1, <4>2, StackFacts
    <3>7. IsPrefix(x, z)
      <4>1. CASE IsPrefix(id, z)
        BY <2>4, <3>1, <3>6, <4>1, PrefixFacts
      <4>2. CASE IsPrefix(z, id)
        <5>1. IsPrefix(x, z) \/ IsPrefix(z, x)
          BY <2>4, <3>1, <3>6, <4>2, PrefixFacts
        <5>2. IsPrefix(z, x) => z = x
          BY <1>5, <3>6 DEF Least
        <5>3. IsPrefix(x, x)
          BY <2>4, PrefixFacts
        <5> QED
          BY <5>1, <5>2, <5>3
      <4> QED
        BY <3>5, <4>1, <4>2 DEF Matches
    <3>8. m + 1 \in Extending(stack, j, x)
      <4>1. m + 1 \in j..Len(stack)
        BY <1>2, <2>1, <3>3, <3>5
      <4> QED
        BY <3>4, <3>7, <4>1 DEF Extending
    <3>9. IsFiniteSet(Extending(stack, j, x) \ {m + 1})
          /\ Cardinality(Extending(stack, j, x) \ {m + 1}) = Cardinality(Extending(stack, j, x)) - 1
      BY <2>2, <3>8, FS_RemoveElement
    <3>10. Cardinality(Extending(s2, j, x)) <= Cardinality(Extending(stack, j, x) \ {m + 1})
      BY <2>7, <3>9, FS_Subset
    <3> QED
      BY <2>2, <2>3, <2>5, <3>9, <3>10
  <2> QED
    BY <2>8, <2>9
<1>6. StillOpen(s2, t2)
  BY <1>3, <1>5 DEF StillOpen
<1> QED
  BY <1>1, <1>6 DEF s2

\* Answered in the order of nesting, the innermost Task is the one that ends.
LEMMA ResultNests ==
    ASSUME stack \in Seq(StackSet), tasks \in Seq(TaskSet), Nests(stack, tasks),
           NEW i, NEW id, Answers(i, id), i = Len(tasks),
           tasks[i] # <<>> \/ \A j \in 1..Len(tasks) : ~Matches(tasks[j], id)
    PROVE  Nests(Popped(id), RemoveAt(tasks, i))
<1>1. PICK m : LeavesTo(stack, id, m) /\ Popped(id) = SubSeq(stack, 1, m)
  BY PopFacts
<1>2. /\ Len(stack) = i /\ i \in Nat /\ i >= 1 /\ i \in 1..Len(tasks) /\ m \in 0..i
      /\ \A k \in 1..i : stack[k].id = IF tasks[k] = <<>> THEN MadeUp(k) ELSE tasks[k]
  BY <1>1 DEF Nests, LeavesTo, Answers
<1>3. /\ id \in Seq(Symbols) /\ tasks[i] \in Seq(Symbols) /\ (tasks[i] # <<>> => id # <<>> /\ IsPrefix(tasks[i], id))
      /\ (tasks[i] = <<>> => Ending(id))
  BY AnswerFacts
<1>4. m = i - 1
  <2>1. CASE tasks[i] # <<>>
    <3>1. i \in Hits(stack, id)
      BY <1>2, <1>3, <2>1 DEF Hits, Matches
    <3>2. m + 1 \in Hits(stack, id) /\ i <= m + 1
      BY <1>1, <3>1 DEF LeavesTo
    <3>3. m + 1 \in 1..i
      BY <1>2, <3>2 DEF Hits
    <3> QED
      BY <1>2, <3>2, <3>3
  <2>2. CASE tasks[i] = <<>>
    <3>1. Hits(stack, id) = {}
      <4> SUFFICES ASSUME NEW k \in 1..i, Matches(stack[k].id, id) PROVE FALSE
        BY <1>2 DEF Hits
      <4>1. CASE tasks[k] = <<>>
        <5>1. stack[k].id = MadeUp(k) /\ k \in Nat
          BY <1>2, <4>1
        <5> QED
          BY <1>3, <5>1, MadeUpFacts
      <4>2. CASE tasks[k] # <<>>
        BY <1>2, <2>2, <4>2
      <4> QED
        BY <4>1, <4>2
    <3>2. stack # <<>> /\ IsSynthetic(Last(stack).id)
      <4>1. Last(stack).id = MadeUp(i)
        BY <1>2, <2>2 DEF Last
      <4>2. IsSynthetic(MadeUp(i))
        BY <1>2, <1>3, MadeUpFacts
      <4> QED
        BY <1>2, <4>1, <4>2
    <3> QED
      BY <1>1, <1>2, <1>3, <2>2, <3>1, <3>2 DEF LeavesTo
  <2> QED
    BY <2>1, <2>2
<1>5. Len(SubSeq(stack, 1, m)) = i - 1 /\ \A k \in 1..(i - 1) : k \in 1..i /\ k < i /\ SubSeq(stack, 1, m)[k] = stack[k]
  BY <1>2, <1>4
<1>6. Len(RemoveAt(tasks, i)) = i - 1 /\ \A k \in 1..Len(tasks) : k < i => RemoveAt(tasks, i)[k] = tasks[k]
  BY <1>2, RemoveTaskFacts
<1>7. Nests(SubSeq(stack, 1, m), RemoveAt(tasks, i))
  BY <1>2, <1>5, <1>6 DEF Nests
<1> QED
  BY <1>1, <1>7

-----------------------------------------------------------------------------
(* Each event keeps TextInv.                                               *)

\* Only the index of a block is opened or closed.
WithOpen(opn, content, index, v) == [opn EXCEPT ![content][index] = v]
\* And the other indices stay as they are.
LEMMA WithOpenFacts ==
    ASSUME NEW opn, opn \in OpenSet, NEW content, content \in Content, NEW index, index \in Slots, NEW v, v \in Nat
    PROVE  /\ WithOpen(opn, content, index, v) \in OpenSet
           /\ \A k \in Content, i \in Slots :
                 WithOpen(opn, content, index, v)[k][i] = IF k = content /\ i = index THEN v ELSE opn[k][i]
<1>1. opn \in [Content -> [Slots -> Nat]] /\ opn[content] \in [Slots -> Nat]
  BY DEF OpenSet
<1>2. PICK g : g = [opn[content] EXCEPT ![index] = v]
  OBVIOUS
<1>3. g \in [Slots -> Nat] /\ \A i \in Slots : g[i] = IF i = index THEN v ELSE opn[content][i]
  BY <1>1, <1>2
<1>4. WithOpen(opn, content, index, v) = [opn EXCEPT ![content] = g]
  BY <1>2, Zenon DEF WithOpen
<1> QED
  BY <1>1, <1>3, <1>4 DEF OpenSet

\* What is open stays within the segments.
LEMMA OpenedRight ==
    ASSUME NEW opn, NEW segs, segs \in Seq(SegmentSet), OpenRight(opn, segs),
           NEW content, content \in Content, NEW index, index \in Slots, NEW v, v \in 0..Len(segs)
    PROVE  OpenRight(WithOpen(opn, content, index, v), segs)
<1>1. opn \in OpenSet /\ v \in Nat /\ \A k \in Content, i \in Slots : opn[k][i] \in 0..Len(segs)
  BY DEF OpenRight
<1>2. /\ WithOpen(opn, content, index, v) \in OpenSet
      /\ \A k \in Content, i \in Slots :
            WithOpen(opn, content, index, v)[k][i] = IF k = content /\ i = index THEN v ELSE opn[k][i]
  BY <1>1, WithOpenFacts
<1> QED
  BY <1>1, <1>2 DEF OpenRight

\* What TextInv says, part by part.
LEMMA InvFacts ==
    ASSUME TextInv
    PROVE  /\ segments \in Seq(SegmentSet) /\ Len(segments) \in Nat /\ SegmentsRight(segments, made) /\ made \in Nat
           /\ OpenRight(open, segments) /\ open \in OpenSet /\ \A k \in Content, i \in Slots : open[k][i] \in 0..Len(segments)
           /\ StackRight(stack, segments) /\ stack \in Seq(StackSet) /\ tasks \in Seq(TaskSet)
           /\ (nested => SaidIn(segments) = visible /\ Nests(stack, tasks) /\ (tasks = <<>> <=> stack = <<>>))
<1>1. segments \in Seq(SegmentSet) /\ open \in OpenSet /\ stack \in Seq(StackSet) /\ tasks \in Seq(TaskSet)
  BY DEF TextInv, TextTyped, SegmentsRight, OpenRight, StackRight
<1>2. made \in Nat
  BY TranscriptAssumption DEF TextInv, TextTyped
<1>3. nested => (tasks = <<>> <=> stack = <<>>)
  <2>1. nested => Len(stack) = Len(tasks)
    BY DEF TextInv, Nests
  <2> QED
    BY <1>1, <2>1
<1> QED
  BY <1>1, <1>2, <1>3 DEF TextInv, OpenRight

\* A piece goes to the end of what the chat shows, outside of Tasks.
GoesTo(content, index) ==
    /\ content \in Content /\ index \in Slots
    /\ block = [kind |-> content, index |-> index] \/ (omit = "start" /\ block = NoBlock)
\* It is added at the end, and what it goes to is the newest text.
LEMMA AddContentRight ==
    ASSUME TextInv, stack = <<>>, NEW content, content \in Content, NEW index, index = -1 \/ GoesTo(content, index),
           AddContent(content, index, made + 1)
    PROVE  /\ SegmentsRight(segments', made + 1) /\ SaidIn(segments') = SaidIn(segments) \cup {made + 1}
           /\ OpenRight(open', segments') /\ Grows(segments, segments')
           /\ index # -1 => IsNewest(segments', open'[content][index])
           /\ index = -1 => open' = open
           /\ \A k \in Content, i \in Slots : (k = content /\ i = index) \/ open'[k][i] = open[k][i]
<1> DEFINE n == Len(segments)
           s == IF index = -1 THEN 0 ELSE open[content][index]
<1>1. /\ segments \in Seq(SegmentSet) /\ n \in Nat /\ SegmentsRight(segments, made) /\ made \in Nat
      /\ OpenRight(open, segments) /\ open \in OpenSet
  BY InvFacts
<1>2. index # -1 => index \in Slots
  BY DEF GoesTo
<1>3. /\ segments' = IF s = 0 THEN Append(segments, Segment(content, <<made + 1>>)) ELSE WithPart(segments, s, made + 1)
      /\ open' = IF s # 0 \/ index = -1 THEN open ELSE WithOpen(open, content, index, n + 1)
  BY DEF AddContent, InSubagent, WithPart, WithOpen
<1>4. CASE s = 0
  <2>1. <<made + 1>> \in Seq(Nat) /\ Append(<<>>, made + 1) = <<made + 1>>
    BY <1>1
  <2>2. segments' = Append(segments, Segment(content, <<made + 1>>))
    BY <1>3, <1>4
  <2>3. Gains(segments, segments', n + 1, made + 1) /\ Len(segments') = n + 1
    <3>1. PICK p : p = <<made + 1>>
      OBVIOUS
    <3>2. p \in Seq(Nat) /\ Append(<<>>, made + 1) = p /\ segments' = Append(segments, Segment(content, p))
      BY <2>1, <2>2, <3>1
    <3>3. /\ EndsAt(segments, segments', n + 1) /\ segments'[n + 1].parts = p
          /\ PartsAt(segments, n + 1) = <<>> /\ Len(segments') = n + 1
      BY <1>1, <3>2, AddsText
    <3> QED
      BY <3>2, <3>3 DEF Gains
  <2>4. SegmentsRight(segments', made + 1) /\ SaidIn(segments') = SaidIn(segments) \cup {made + 1} /\ IsNewest(segments', n + 1)
    BY <1>1, <2>3, GainsRight
  <2>5. Grows(segments, segments') /\ segments' \in Seq(SegmentSet)
    BY <2>3 DEF Gains, EndsAt, Grows
  <2>6. OpenRight(open, segments')
    BY <1>1, <2>5, GrowsRight
  <2>7. n + 1 \in 0..Len(segments') /\ n + 1 \in Nat
    BY <1>1, <2>3
  <2>8. CASE index = -1
    BY <1>3, <2>4, <2>5, <2>6, <2>8
  <2>9. CASE index # -1
    <3>1. open' = WithOpen(open, content, index, n + 1)
      BY <1>3, <1>4, <2>9
    <3>2. OpenRight(open', segments')
      BY <1>2, <2>5, <2>6, <2>7, <2>9, <3>1, OpenedRight
    <3>3. \A k \in Content, i \in Slots : open'[k][i] = IF k = content /\ i = index THEN n + 1 ELSE open[k][i]
      BY <1>1, <1>2, <2>7, <2>9, <3>1, WithOpenFacts
    <3>4. open'[content][index] = n + 1
      BY <1>2, <2>9, <3>3
    <3> QED
      BY <2>4, <2>5, <2>9, <3>2, <3>3, <3>4
  <2> QED
    BY <2>8, <2>9
<1>5. CASE s # 0
  <2>1. index # -1 /\ s = open[content][index] /\ GoesTo(content, index) /\ index \in Slots
    BY <1>2, <1>5
  <2>2. block = [kind |-> content, index |-> index]
    <3>1. CASE omit = "start" /\ block = NoBlock
      <4>1. block = [kind |-> content, index |-> index]
        BY <1>5, <2>1, <3>1 DEF TextInv, StartRight
      <4>2. block.kind = content /\ block.kind = "none"
        BY <3>1, <4>1 DEF NoBlock
      <4> QED
        BY <4>2 DEF Content
    <3> QED
      BY <2>1, <3>1 DEF GoesTo
  <2>3. IsNewest(segments, s)
    <3>1. block.kind = content /\ block.index = index
      BY <2>2
    <3> QED
      BY <2>1, <3>1 DEF TextInv, BlockRight
  <2>4. segments' = WithPart(segments, s, made + 1) /\ open' = open
    BY <1>3, <1>5
  <2>5. made + 1 \in Nat
    BY <1>1
  <2> HIDE DEF s
  <2>6. Gains(segments, segments', s, made + 1)
    BY <1>1, <2>3, <2>4, <2>5, AddsPiece
  <2>7. SegmentsRight(segments', made + 1) /\ SaidIn(segments') = SaidIn(segments) \cup {made + 1} /\ IsNewest(segments', s)
    BY <1>1, <2>6, GainsRight
  <2>8. Grows(segments, segments')
    BY <2>6 DEF Gains, EndsAt
  <2>9. OpenRight(open, segments')
    BY <1>1, <2>8, GrowsRight
  <2> QED
    BY <2>1, <2>4, <2>7, <2>8, <2>9
<1> QED
  BY <1>4, <1>5

\* A piece of a block, or a whole message.
LEMMA SaysKeeps ==
    ASSUME TextInv, NEW content, content \in Content, NEW index, Says(content, index),
           \/ index = -1 /\ Between /\ block' = NoBlock
           \/ GoesTo(content, index) /\ block' = [kind |-> content, index |-> index]
    PROVE  TextInv'
<1>1. /\ segments \in Seq(SegmentSet) /\ SegmentsRight(segments, made) /\ made \in Nat
      /\ OpenRight(open, segments) /\ open \in OpenSet /\ StackRight(stack, segments)
      /\ (nested => SaidIn(segments) = visible /\ Nests(stack, tasks) /\ (tasks = <<>> <=> stack = <<>>))
  BY InvFacts
<1>2. /\ turn = "reading" /\ made < MaxEvents /\ made' = made + 1 /\ AddContent(content, index, made + 1)
      /\ visible' = IF tasks = <<>> THEN visible \cup {made + 1} ELSE visible
      /\ UNCHANGED <<omit, openTools, stack, toolIds, turn, tasks, nested>>
  BY DEF Says, More, Makes
<1>3. TextTyped'
  <2>1. made + 1 \in 0..MaxEvents /\ \A x \in 1..made : x \in 1..(made + 1)
    BY <1>1, <1>2, TranscriptAssumption
  <2>2. made + 1 \in 1..(made + 1) /\ visible \subseteq 1..made
    BY <1>1 DEF TextInv, TextTyped
  <2>3. visible' \subseteq 1..(made + 1)
    BY <1>2, <2>1, <2>2
  <2>4. block' \in BlockSet
    BY DEF BlockSet, GoesTo
  <2> QED
    BY <1>2, <2>1, <2>3, <2>4 DEF TextInv, TextTyped
<1>4. \A k \in Content, i \in Slots : [kind |-> k, index |-> i] # NoBlock
  <2> SUFFICES ASSUME NEW k \in Content, NEW i \in Slots, [kind |-> k, index |-> i] = NoBlock PROVE FALSE
    OBVIOUS
  <2>1. [kind |-> k, index |-> i].kind = k /\ NoBlock.kind = "none"
    BY DEF NoBlock
  <2> QED
    BY <2>1 DEF Content
<1>5. index \in Slots => index # -1
  BY TranscriptAssumption
<1>6. index = -1 \/ GoesTo(content, index)
  OBVIOUS
<1>7. omit = "start" => openTools = {} /\ \A k \in Content, i \in Slots : open[k][i] # 0 => block = [kind |-> k, index |-> i]
  BY DEF TextInv, StartRight
<1>8. EndIsShown'
  BY <1>2 DEF EndIsShown
<1>9. StillOpen(stack', tasks')
  BY <1>2 DEF TextInv
<1>10. CASE stack # <<>>
  <2>1. segments' = segments /\ open' = open
    BY <1>2, <1>10 DEF AddContent, InSubagent
  <2>2. SegmentsRight(segments', made')
    <3>1. Keeps(segments, segments)
      BY <1>1 DEF Keeps, Grows
    <3>2. made <= made + 1 /\ made + 1 \in Nat
      BY <1>1
    <3> QED
      BY <1>1, <1>2, <2>1, <3>1, <3>2, KeepsRight
  <2>3. nested' => SaidIn(segments') = visible' /\ Nests(stack', tasks')
    BY <1>1, <1>2, <1>10, <2>1
  <2>4. BlockRight(segments', open', block', stack')
    BY <1>2, <1>10 DEF BlockRight
  <2>5. StartRight(omit', openTools', open', block')
    <3>1. omit = "start" => \A k \in Content, i \in Slots : open[k][i] # 0 => block' = [kind |-> k, index |-> i]
      <4> SUFFICES ASSUME omit = "start", NEW k \in Content, NEW i \in Slots, open[k][i] # 0
                   PROVE  block' = [kind |-> k, index |-> i]
        OBVIOUS
      <4>1. block = [kind |-> k, index |-> i]
        BY <1>7
      <4>2. block # NoBlock
        BY <1>4, <4>1
      <4>3. ~Between
        BY <4>2 DEF Between
      <4>4. block = [kind |-> content, index |-> index] /\ block' = [kind |-> content, index |-> index]
        BY <4>2, <4>3 DEF GoesTo
      <4> QED
        BY <4>1, <4>4
    <3> QED
      BY <1>2, <1>7, <2>1, <3>1 DEF StartRight
  <2> QED
    BY <1>1, <1>2, <1>3, <1>8, <1>9, <2>1, <2>2, <2>3, <2>4, <2>5 DEF TextInv
<1>11. CASE stack = <<>>
  <2>1. /\ SegmentsRight(segments', made + 1) /\ SaidIn(segments') = SaidIn(segments) \cup {made + 1}
        /\ OpenRight(open', segments') /\ Grows(segments, segments')
        /\ index # -1 => IsNewest(segments', open'[content][index])
        /\ index = -1 => open' = open
        /\ \A k \in Content, i \in Slots : (k = content /\ i = index) \/ open'[k][i] = open[k][i]
    BY <1>2, <1>6, <1>11, AddContentRight
  <2>2. nested' => SaidIn(segments') = visible' /\ Nests(stack', tasks')
    BY <1>1, <1>2, <1>11, <2>1
  <2>3. StackRight(stack', segments')
    BY <1>1, <1>2, <2>1, GrowsRight
  <2>4. BlockRight(segments', open', block', stack')
    <3>1. CASE block' = NoBlock
      <4>1. block'.kind = "none"
        BY <3>1 DEF NoBlock
      <4> QED
        BY <4>1 DEF BlockRight, Content
    <3>2. CASE block' = [kind |-> content, index |-> index] /\ GoesTo(content, index)
      <4>1. block'.kind = content /\ block'.index = index /\ index # -1
        BY <1>5, <3>2 DEF GoesTo
      <4> QED
        BY <2>1, <4>1 DEF BlockRight
    <3> QED
      BY <3>1, <3>2
  <2>5. StartRight(omit', openTools', open', block')
    <3>1. omit = "start" => \A k \in Content, i \in Slots : open'[k][i] # 0 => block' = [kind |-> k, index |-> i]
      <4> SUFFICES ASSUME omit = "start", NEW k \in Content, NEW i \in Slots, open'[k][i] # 0
                   PROVE  block' = [kind |-> k, index |-> i]
        OBVIOUS
      <4>1. CASE k = content /\ i = index
        BY <1>5, <4>1
      <4>2. CASE ~(k = content /\ i = index)
        <5>1. block = [kind |-> k, index |-> i]
          BY <1>7, <2>1, <4>2
        <5>2. block # NoBlock
          BY <1>4, <5>1
        <5>3. ~Between
          BY <5>2 DEF Between
        <5>4. block = [kind |-> content, index |-> index] /\ block' = [kind |-> content, index |-> index]
          BY <5>2, <5>3 DEF GoesTo
        <5> QED
          BY <5>1, <5>4
      <4> QED
        BY <4>1, <4>2
    <3> QED
      BY <1>2, <1>7, <3>1 DEF StartRight
  <2> QED
    BY <1>2, <1>3, <1>8, <1>9, <2>1, <2>2, <2>3, <2>4, <2>5 DEF TextInv
<1> QED
  BY <1>10, <1>11

\* The start of a block opens a new text, outside of Tasks.
LEMMA BlockStartKeeps ==
    ASSUME TextInv, NEW content, content \in Content, NEW index, index \in Slots, BlockStart(content, index)
    PROVE  TextInv'
<1> DEFINE n == Len(segments)
<1>1. /\ segments \in Seq(SegmentSet) /\ n \in Nat /\ SegmentsRight(segments, made) /\ made \in Nat
      /\ OpenRight(open, segments) /\ open \in OpenSet /\ StackRight(stack, segments)
      /\ \A k \in Content, i \in Slots : open[k][i] \in 0..n
      /\ (nested => SaidIn(segments) = visible /\ Nests(stack, tasks) /\ (tasks = <<>> <=> stack = <<>>))
  BY InvFacts
<1>2. /\ turn = "reading" /\ made < MaxEvents /\ made' = made + 1 /\ StartContent(content, index) /\ omit # "start"
      /\ block' = [kind |-> content, index |-> index]
      /\ UNCHANGED <<omit, stack, toolIds, turn, tasks, nested, visible>>
  BY DEF BlockStart, More, Makes
<1>3. openTools' \subseteq Slots
  BY <1>2 DEF StartContent, TextInv, TextTyped
<1>4. TextTyped'
  <2>1. made + 1 \in 0..MaxEvents /\ \A x \in 1..made : x \in 1..(made + 1)
    BY <1>1, <1>2, TranscriptAssumption
  <2>2. visible' \subseteq 1..(made + 1)
    BY <1>2, <2>1 DEF TextInv, TextTyped
  <2>3. block' \in BlockSet
    BY <1>2 DEF BlockSet
  <2> QED
    BY <1>2, <1>3, <2>1, <2>2, <2>3 DEF TextInv, TextTyped
<1>5. EndIsShown' /\ StillOpen(stack', tasks') /\ StartRight(omit', openTools', open', block')
  BY <1>2 DEF EndIsShown, TextInv, StartRight
<1>6. block'.kind = content /\ block'.index = index
  BY <1>2
<1>7. made <= made + 1 /\ made + 1 \in Nat
  BY <1>1
<1>8. CASE stack # <<>>
  <2>1. segments' = segments /\ open' = open
    BY <1>2, <1>8 DEF StartContent, InSubagent
  <2>2. SegmentsRight(segments', made')
    <3>1. Keeps(segments, segments)
      BY <1>1 DEF Keeps, Grows
    <3> QED
      BY <1>1, <1>2, <1>7, <2>1, <3>1, KeepsRight
  <2>3. BlockRight(segments', open', block', stack')
    BY <1>2, <1>8 DEF BlockRight
  <2> QED
    BY <1>1, <1>2, <1>4, <1>5, <2>1, <2>2, <2>3 DEF TextInv
<1>9. CASE stack = <<>>
  <2> DEFINE other == IF content = "text" THEN "thinking" ELSE "text"
             closes == IF index \in openTools THEN "none" ELSE IF open["thinking"][index] # 0 THEN "thinking" ELSE "text"
  <2>1. PICK v : v = IF closes = other THEN 0 ELSE open[other][index]
    OBVIOUS
  <2>2. other \in Content /\ other # content
    BY DEF Content
  <2>3. PICK o1 : o1 = WithOpen(open, content, index, n + 1)
    OBVIOUS
  <2>4. /\ o1 \in OpenSet
        /\ \A k \in Content, i \in Slots : o1[k][i] = IF k = content /\ i = index THEN n + 1 ELSE open[k][i]
    BY <1>1, <2>3, WithOpenFacts
  <2>5. open' = WithOpen(o1, other, index, v)
    <3>1. open' = [open EXCEPT ![content][index] = n + 1, ![other][index] = IF closes = other THEN 0 ELSE @]
      BY <1>2, <1>9 DEF StartContent, InSubagent
    <3>2. o1[other][index] = open[other][index]
      BY <2>2, <2>4
    <3>3. o1 = [open EXCEPT ![content][index] = n + 1]
      BY <2>3 DEF WithOpen
    <3>4. open' = [o1 EXCEPT ![other][index] = IF closes = other THEN 0 ELSE o1[other][index]]
      BY <3>1, <3>3, Zenon
    <3> HIDE DEF other, closes
    <3>5. open' = [o1 EXCEPT ![other][index] = v]
      BY <2>1, <3>2, <3>4, Zenon
    <3> QED
      BY <3>5 DEF WithOpen
  <2>6. segments' = Append(segments, Segment(content, <<>>))
    BY <1>2, <1>9 DEF StartContent, InSubagent
  <2>7. Opens(segments, segments', n + 1) /\ Len(segments') = n + 1
    <3>1. PICK p : p = <<>>
      OBVIOUS
    <3>2. p \in Seq(Nat) /\ segments' = Append(segments, Segment(content, p))
      BY <2>6, <3>1
    <3>3. /\ EndsAt(segments, segments', n + 1) /\ segments'[n + 1].parts = p
          /\ n + 1 \notin TextsOf(segments) /\ Len(segments') = n + 1
      BY <1>1, <3>2, AddsText
    <3> QED
      BY <3>1, <3>3 DEF Opens
  <2>8. SegmentsRight(segments', made + 1) /\ SaidIn(segments') = SaidIn(segments) /\ IsNewest(segments', n + 1)
    BY <1>1, <1>7, <2>7, OpensRight
  <2>9. Grows(segments, segments') /\ segments' \in Seq(SegmentSet)
    BY <2>7 DEF Opens, EndsAt, Grows
  <2>10. OpenRight(open, segments') /\ StackRight(stack, segments')
    BY <1>1, <2>9, GrowsRight
  <2>11. n + 1 \in 0..Len(segments') /\ v \in 0..Len(segments') /\ v \in Nat
    <3>1. open[other][index] \in 0..n
      BY <1>1, <2>2
    <3> HIDE DEF other, closes
    <3>2. v \in 0..n
      BY <1>1, <2>1, <3>1
    <3> QED
      BY <1>1, <2>7, <3>2
  <2> HIDE DEF other, closes
  <2>12. OpenRight(o1, segments')
    BY <2>3, <2>9, <2>10, <2>11, OpenedRight
  <2>13. OpenRight(open', segments')
    BY <2>2, <2>5, <2>9, <2>11, <2>12, OpenedRight
  <2>14. open'[content][index] = n + 1
    <3>1. open'[content][index] = o1[content][index]
      BY <2>2, <2>4, <2>5, <2>11, WithOpenFacts
    <3> QED
      BY <2>4, <3>1
  <2>15. BlockRight(segments', open', block', stack')
    BY <1>6, <2>8, <2>14 DEF BlockRight
  <2> QED
    BY <1>1, <1>2, <1>4, <1>5, <2>8, <2>10, <2>13, <2>15 DEF TextInv
<1> QED
  BY <1>8, <1>9

\* Its stop closes what is open at its index.
LEMMA BlockStopKeeps ==
    ASSUME TextInv, BlockStop
    PROVE  TextInv'
<1>1. /\ segments \in Seq(SegmentSet) /\ OpenRight(open, segments) /\ open \in OpenSet
      /\ \A k \in Content, i \in Slots : open[k][i] \in 0..Len(segments)
  BY InvFacts
<1>2. /\ turn = "reading" /\ omit # "stop" /\ block # NoBlock /\ CloseAt(block.index) /\ block' = NoBlock
      /\ UNCHANGED <<omit, segments, stack, toolIds, turn, tasks, nested, made, visible>>
  BY DEF BlockStop
<1>3. block \in [kind : Content \cup {"call"}, index : Slots]
  BY <1>2 DEF TextInv, TextTyped, BlockSet
<1>0. PICK index, content : index = block.index /\ content = IF open["thinking"][index] # 0 THEN "thinking" ELSE "text"
  OBVIOUS
<1>4. index \in Slots /\ content \in Content
  BY <1>0, <1>3 DEF Content
<1>5. \/ openTools' = openTools \ {index} /\ open' = open /\ index \in openTools
      \/ openTools' = openTools /\ open' = WithOpen(open, content, index, 0) /\ index \notin openTools
  BY <1>0, <1>2 DEF CloseAt, WithOpen
<1>6. OpenRight(open', segments')
  <2>1. OpenRight(WithOpen(open, content, index, 0), segments)
    <3>1. 0 \in 0..Len(segments)
      BY <1>1
    <3> QED
      BY <1>1, <1>4, <3>1, OpenedRight
  <2> QED
    BY <1>1, <1>2, <1>5, <2>1
<1>7. TextTyped'
  BY <1>2, <1>5 DEF TextInv, TextTyped, BlockSet
<1>8. EndIsShown' /\ StillOpen(stack', tasks')
  BY <1>2 DEF EndIsShown, TextInv
<1>9. BlockRight(segments', open', block', stack')
  <2>1. block'.kind = "none"
    BY <1>2 DEF NoBlock
  <2> QED
    BY <2>1 DEF BlockRight, Content
<1>10. StartRight(omit', openTools', open', block')
  <2> SUFFICES ASSUME omit = "start" PROVE openTools' = {} /\ \A k \in Content, i \in Slots : open'[k][i] = 0
    BY <1>2 DEF StartRight
  <2>1. openTools = {} /\ \A k \in Content, i \in Slots : open[k][i] # 0 => block = [kind |-> k, index |-> i]
    BY DEF TextInv, StartRight
  <2>2. openTools' = {} /\ open' = WithOpen(open, content, index, 0)
    BY <1>5, <2>1
  <2>3. \A k \in Content, i \in Slots : open'[k][i] = IF k = content /\ i = index THEN 0 ELSE open[k][i]
    <3>1. PICK z : z = 0
      OBVIOUS
    <3>2. \A k \in Content, i \in Slots :
             WithOpen(open, content, index, z)[k][i] = IF k = content /\ i = index THEN z ELSE open[k][i]
      <4>1. z \in Nat
        BY <3>1
      <4> QED
        BY <1>1, <1>4, <4>1, WithOpenFacts
    <3> QED
      BY <2>2, <3>1, <3>2
  <2>4. ASSUME NEW k \in Content, NEW i \in Slots, open'[k][i] # 0 PROVE FALSE
    <3>1. ~(k = content /\ i = index) /\ open[k][i] # 0
      BY <2>3, <2>4
    <3>2. block = [kind |-> k, index |-> i]
      BY <2>1, <3>1
    <3>3. block.kind = k /\ index = i
      BY <1>0, <3>2
    <3>4. k # content
      BY <3>1, <3>3
    <3>5. k # "thinking"
      BY <1>0, <3>1, <3>3, <3>4
    <3>6. open["thinking"][index] # 0
      BY <1>0, <3>4, <3>5 DEF Content
    <3>7. block = [kind |-> "thinking", index |-> index]
      BY <1>4, <2>1, <3>6 DEF Content
    <3>8. block.kind = "thinking"
      BY <3>7
    <3> QED
      BY <3>3, <3>5, <3>8
  <2> QED
    BY <2>2, <2>4
<1> QED
  BY <1>2, <1>6, <1>7, <1>8, <1>9, <1>10 DEF TextInv

\* A call opens a Task, is counted in one, or gets a segment of its own.
LEMMA CallKeeps ==
    ASSUME TextInv, NEW isTask \in BOOLEAN, NEW id, isTask => id \in TaskSet, ~isTask => id \in ToolIds, Called(isTask, id),
           OpenRight(open', segments), openTools' \subseteq Slots, block' \in BlockSet, block'.kind \notin Content,
           StartRight(omit, openTools', open', block')
    PROVE  TextInv'
<1> DEFINE n == Len(segments)
<1>1. /\ segments \in Seq(SegmentSet) /\ n \in Nat /\ SegmentsRight(segments, made) /\ made \in Nat
      /\ StackRight(stack, segments) /\ stack \in Seq(StackSet) /\ tasks \in Seq(TaskSet)
      /\ (nested => SaidIn(segments) = visible /\ Nests(stack, tasks) /\ (tasks = <<>> <=> stack = <<>>))
  BY InvFacts
<1>2. /\ turn = "reading" /\ made < MaxEvents /\ made' = made + 1 /\ AddCall(isTask, id, made + 1)
      /\ toolIds' = IF ~isTask /\ id # <<>> THEN toolIds \cup {id} ELSE toolIds
      /\ tasks' = IF isTask THEN Append(tasks, id) ELSE tasks
      /\ UNCHANGED <<omit, turn, nested, visible>>
  BY DEF Called, More, Makes
<1>3. made <= made + 1 /\ made + 1 \in Nat
  BY <1>1
<1>4. TextTyped'
  <2>1. made + 1 \in 0..MaxEvents /\ \A x \in 1..made : x \in 1..(made + 1)
    BY <1>1, <1>2, TranscriptAssumption
  <2>2. visible' \subseteq 1..(made + 1)
    BY <1>2, <2>1 DEF TextInv, TextTyped
  <2>3. tasks' \in Seq(TaskSet) /\ toolIds' \subseteq ToolIds
    BY <1>1, <1>2 DEF TextInv, TextTyped
  <2> QED
    BY <1>2, <2>1, <2>2, <2>3 DEF TextInv, TextTyped
<1>5. EndIsShown'
  BY <1>2 DEF EndIsShown
<1>6. BlockRight(segments', open', block', stack')
  BY DEF BlockRight
<1>7. StartRight(omit', openTools', open', block')
  BY <1>2
<1>8. CASE isTask
  <2>1. PICK s : s = Segment("subagent", <<>>)
    OBVIOUS
  <2>2. s \in SegmentSet /\ s.kind = "subagent"
    <3>1. <<>> \in Seq(Nat)
      OBVIOUS
    <3> QED
      BY <2>1, <3>1 DEF Segment, SegmentSet, Kinds
  <2>3. segments' = Append(segments, s) /\ stack' = Pushed(id)
    BY <1>2, <1>8, <2>1 DEF AddCall
  <2>4. s.kind \notin Content
    BY <2>2 DEF Content
  <2>5. Keeps(segments, segments') /\ segments'[n + 1] = s /\ Len(segments') = n + 1
    BY <1>1, <2>2, <2>3, <2>4, AddsOther
  <2>6. SegmentsRight(segments', made + 1) /\ SaidIn(segments') = SaidIn(segments) /\ Grows(segments, segments')
    BY <1>1, <1>3, <2>5, KeepsRight DEF Keeps
  <2>7. OpenRight(open', segments') /\ StackRight(stack, segments')
    BY <1>1, <2>6, GrowsRight
  <2>8. PICK e : e = [id |-> IF id = <<>> THEN <<"__task", Len(stack) + 1>> ELSE id, seg |-> n + 1]
    OBVIOUS
  <2>9. e.id = (IF id = <<>> THEN MadeUp(Len(stack) + 1) ELSE id) /\ e.seg = n + 1 /\ id \in TaskSet
    BY <1>8, <2>8 DEF MadeUp
  <2>10. e \in StackSet
    <3>1. Len(stack) + 1 \in Nat
      BY <1>1
    <3>2. (IF id = <<>> THEN MadeUp(Len(stack) + 1) ELSE id) \in TaskIds \cup {MadeUp(k) : k \in Nat}
      BY <2>9, <3>1 DEF TaskSet
    <3>3. e = [id |-> (IF id = <<>> THEN MadeUp(Len(stack) + 1) ELSE id), seg |-> n + 1] /\ n + 1 \in Nat
      BY <1>1, <2>8 DEF MadeUp
    <3> QED
      BY <3>2, <3>3, Zenon DEF StackSet
  <2>11. stack' = Append(stack, e)
    BY <2>3, <2>8 DEF Pushed
  <2>12. /\ Nests(stack, tasks) => Nests(Append(stack, e), Append(tasks, id))
         /\ StillOpen(stack, tasks) => StillOpen(Append(stack, e), Append(tasks, id))
    BY <1>1, <2>9, <2>10, PushRight
  <2>13. tasks' = Append(tasks, id)
    BY <1>2, <1>8
  <2>14. StackRight(stack', segments')
    <3>1. /\ Len(stack) \in Nat /\ stack' \in Seq(StackSet) /\ Len(stack') = Len(stack) + 1
          /\ stack'[Len(stack) + 1] = e /\ \A i \in 1..Len(stack) : stack'[i] = stack[i]
      BY <1>1, <2>10, <2>11
    <3>2. \A i \in 1..(Len(stack) + 1) : i \in 1..Len(stack) \/ i = Len(stack) + 1
      BY <3>1
    <3>3. n + 1 \in 1..Len(segments') /\ segments'[n + 1].kind = "subagent"
      BY <1>1, <2>2, <2>5
    <3> QED
      BY <2>7, <2>9, <3>1, <3>2, <3>3 DEF StackRight
  <2>15. StillOpen(stack', tasks')
    BY <2>11, <2>12, <2>13 DEF TextInv
  <2>16. nested' => SaidIn(segments') = visible' /\ Nests(stack', tasks')
    BY <1>1, <1>2, <2>6, <2>11, <2>12, <2>13
  <2> QED
    BY <1>2, <1>4, <1>5, <1>6, <1>7, <2>6, <2>7, <2>14, <2>15, <2>16 DEF TextInv
<1>9. CASE ~isTask
  <2>1. stack' = stack /\ tasks' = tasks
    BY <1>2, <1>9 DEF AddCall
  <2>2. Keeps(segments, segments')
    <3>1. CASE stack # <<>>
      <4>1. PICK k : k = Last(stack).seg
        OBVIOUS
      <4>2. segments' = WithPart(segments, k, made + 1)
        BY <1>2, <1>9, <3>1, <4>1 DEF AddCall, InSubagent, WithPart
      <4>3. k \in 1..n /\ segments[k].kind = "subagent"
        <5>1. Len(stack) \in 1..Len(stack)
          BY <1>1, <3>1
        <5> QED
          BY <1>1, <4>1, <5>1 DEF StackRight, Last
      <4>4. segments[k].kind \notin Content
        BY <4>3 DEF Content
      <4> QED
        BY <1>1, <1>3, <4>2, <4>3, <4>4, CountsCall
    <3>2. CASE stack = <<>>
      <4>1. PICK s : s = Segment("tool", <<made + 1>>)
        OBVIOUS
      <4>2. s \in SegmentSet /\ s.kind \notin Content
        <5>1. <<made + 1>> \in Seq(Nat)
          BY <1>3
        <5> QED
          BY <4>1, <5>1 DEF Segment, SegmentSet, Kinds, Content
      <4>3. segments' = Append(segments, s)
        BY <1>2, <1>9, <3>2, <4>1 DEF AddCall, InSubagent
      <4> QED
        BY <1>1, <4>2, <4>3, AddsOther
    <3> QED
      BY <3>1, <3>2
  <2>3. SegmentsRight(segments', made + 1) /\ SaidIn(segments') = SaidIn(segments) /\ Grows(segments, segments')
    BY <1>1, <1>3, <2>2, KeepsRight DEF Keeps
  <2>4. OpenRight(open', segments') /\ StackRight(stack, segments')
    BY <1>1, <2>3, GrowsRight
  <2> QED
    BY <1>1, <1>2, <1>4, <1>5, <1>6, <1>7, <2>1, <2>3, <2>4 DEF TextInv
<1> QED
  BY <1>8, <1>9
\* A call that comes whole.
LEMMA WholeCallKeeps ==
    ASSUME TextInv, NEW isTask \in BOOLEAN, NEW id, isTask => id \in TaskSet, ~isTask => id \in ToolIds, Call(isTask, id)
    PROVE  TextInv'
<1>1. Called(isTask, id) /\ open' = open /\ openTools' = openTools /\ block' = NoBlock
  BY DEF Call
<1>2. block' \in BlockSet /\ block'.kind \notin Content
  BY <1>1 DEF BlockSet, NoBlock, Content
<1>3. StartRight(omit, openTools', open', block')
  <2>1. omit = "start" => block = NoBlock
    BY <1>1 DEF Called, Between
  <2> QED
    BY <1>1, <2>1 DEF TextInv, StartRight
<1>4. OpenRight(open', segments) /\ openTools' \subseteq Slots
  BY <1>1 DEF TextInv, TextTyped
<1> QED
  BY <1>1, <1>2, <1>3, <1>4, CallKeeps
\* A call that comes as a block.
LEMMA CallBlockKeeps ==
    ASSUME TextInv, NEW isTask \in BOOLEAN, NEW id, isTask => id \in TaskSet, ~isTask => id \in ToolIds,
           NEW index, index \in Slots, CallBlock(isTask, id, index)
    PROVE  TextInv'
<1>1. PICK content : content = IF open["thinking"][index] # 0 THEN "thinking" ELSE "text"
  OBVIOUS
<1>2. /\ omit # "start" /\ Called(isTask, id) /\ block' = [kind |-> "call", index |-> index]
      /\ open' \in {open, WithOpen(open, content, index, 0)} /\ openTools' \subseteq openTools \cup {index}
  BY <1>1 DEF CallBlock, WithOpen
<1>3. block' \in BlockSet /\ block'.kind \notin Content
  BY <1>2 DEF BlockSet, Content
<1>4. StartRight(omit, openTools', open', block')
  BY <1>2 DEF StartRight
<1>5. segments \in Seq(SegmentSet) /\ OpenRight(open, segments) /\ Len(segments) \in Nat
  BY InvFacts
<1>6. OpenRight(open', segments)
  <2>1. content \in Content
    BY <1>1 DEF Content
  <2>2. PICK z : z = 0
    OBVIOUS
  <2>3. z \in 0..Len(segments)
    BY <1>5, <2>2
  <2>4. OpenRight(WithOpen(open, content, index, z), segments)
    BY <1>5, <2>1, <2>3, OpenedRight
  <2> QED
    BY <1>2, <1>5, <2>2, <2>4
<1>7. openTools' \subseteq Slots
  BY <1>2 DEF TextInv, TextTyped
<1> QED
  BY <1>2, <1>3, <1>4, <1>6, <1>7, CallKeeps

\* The result of a Task.
LEMMA ResultKeeps ==
    ASSUME TextInv, NEW i, i \in 1..Len(tasks), NEW id, id \in TaskSet \cup TaskLike, TaskResult(i, id)
    PROVE  TextInv'
<1>1. /\ segments \in Seq(SegmentSet) /\ SegmentsRight(segments, made) /\ OpenRight(open, segments)
      /\ StackRight(stack, segments) /\ stack \in Seq(StackSet) /\ tasks \in Seq(TaskSet)
      /\ (nested => SaidIn(segments) = visible /\ Nests(stack, tasks))
  BY InvFacts
<1>2. /\ turn = "reading" /\ Between /\ block' = NoBlock
      /\ IF tasks[i] = <<>> THEN id = <<>> \/ id \in TaskLike \ (toolIds \cup TaskIds) ELSE IsPrefix(tasks[i], id)
      /\ stack' = Popped(id) /\ tasks' = RemoveAt(tasks, i)
      /\ nested' = (nested /\ i = Len(tasks) /\ (tasks[i] # <<>> \/ \A j \in 1..Len(tasks) : ~Matches(tasks[j], id)))
      /\ segments' = segments /\ UNCHANGED <<omit, open, openTools, toolIds, turn, made, visible>>
  BY DEF TaskResult, Working
<1>3. Answers(i, id)
  BY <1>2, Zenon DEF Answers
<1>4. tasks' \in Seq(TaskSet)
  <2>1. RemoveAt(tasks, i) \in Seq(TaskSet)
    BY <1>1, RemoveTaskFacts
  <2> QED
    BY <1>2, <2>1
<1>5. nested' \in BOOLEAN /\ (nested' => nested)
  BY <1>2
<1>6. TextTyped'
  BY <1>2, <1>4, <1>5 DEF TextInv, TextTyped, BlockSet
<1>7. StackRight(stack', segments')
  <2>1. PICK m : LeavesTo(stack, id, m) /\ Popped(id) = SubSeq(stack, 1, m)
    BY <1>1, PopFacts
  <2>2. m \in 0..Len(stack)
    BY <2>1 DEF LeavesTo
  <2>3. StackRight(Popped(id), segments)
    BY <1>1, <2>1, <2>2, LeavesRight
  <2> QED
    BY <1>2, <2>3
<1>8. StillOpen(stack', tasks')
  <2>1. StillOpen(Popped(id), RemoveAt(tasks, i))
    BY <1>1, <1>3, ResultLeavesOpen DEF TextInv
  <2> QED
    BY <1>2, <2>1
<1>9. nested' => SaidIn(segments') = visible' /\ Nests(stack', tasks')
  <2> SUFFICES ASSUME nested' PROVE SaidIn(segments') = visible' /\ Nests(stack', tasks')
    OBVIOUS
  <2>1. nested /\ i = Len(tasks) /\ (tasks[i] # <<>> \/ \A j \in 1..Len(tasks) : ~Matches(tasks[j], id))
    BY <1>2
  <2>2. Nests(Popped(id), RemoveAt(tasks, i))
    BY <1>1, <1>3, <2>1, ResultNests
  <2> QED
    BY <1>1, <1>2, <2>1, <2>2
<1>10. BlockRight(segments', open', block', stack')
  <2>1. block'.kind = "none"
    BY <1>2 DEF NoBlock
  <2> QED
    BY <2>1 DEF BlockRight, Content
<1>11. StartRight(omit', openTools', open', block')
  <2>1. omit = "start" => block = NoBlock
    BY <1>2 DEF Between
  <2> QED
    BY <1>2, <2>1 DEF TextInv, StartRight
<1>12. EndIsShown'
  BY <1>2 DEF EndIsShown
<1> QED
  BY <1>1, <1>2, <1>6, <1>7, <1>8, <1>9, <1>10, <1>11, <1>12 DEF TextInv
\* The result of another tool.
LEMMA ToolResultKeeps ==
    ASSUME TextInv, NEW id, ToolResult(id)
    PROVE  TextInv'
<1>1. /\ turn = "reading" /\ Between /\ block' = NoBlock /\ id \in toolIds /\ stack' = Popped(id) /\ segments' = segments
      /\ UNCHANGED <<omit, open, openTools, toolIds, turn, tasks, nested, made, visible>>
  BY DEF ToolResult, Working
<1>2. stack' = stack
  <2>1. stack \in Seq(StackSet) /\ toolIds \subseteq ToolIds
    BY InvFacts DEF TextInv, TextTyped
  <2>2. Popped(id) = stack
    BY <1>1, <2>1, ToolLeaves
  <2> QED
    BY <1>1, <2>2
<1>3. TextTyped'
  BY <1>1 DEF TextInv, TextTyped, BlockSet
<1>4. BlockRight(segments', open', block', stack')
  <2>1. block'.kind = "none"
    BY <1>1 DEF NoBlock
  <2> QED
    BY <2>1 DEF BlockRight, Content
<1>5. StartRight(omit', openTools', open', block')
  <2>1. omit = "start" => block = NoBlock
    BY <1>1 DEF Between
  <2> QED
    BY <1>1, <2>1 DEF TextInv, StartRight
<1>6. EndIsShown'
  BY <1>1 DEF EndIsShown
<1> QED
  BY <1>1, <1>2, <1>3, <1>4, <1>5, <1>6 DEF TextInv

\* An error is a segment of its own.
LEMMA ErrorAdds ==
    ASSUME TextInv, NEW n \in Nat, NEW m \in Nat, made <= m, segments' = Append(segments, Segment("error", <<n>>))
    PROVE  /\ SegmentsRight(segments', m) /\ SaidIn(segments') = SaidIn(segments)
           /\ OpenRight(open, segments') /\ StackRight(stack, segments') /\ BlockRight(segments', open, block, stack)
<1>1. /\ segments \in Seq(SegmentSet) /\ SegmentsRight(segments, made) /\ made \in Nat
      /\ OpenRight(open, segments) /\ StackRight(stack, segments)
  BY InvFacts
<1>2. PICK s : s = Segment("error", <<n>>)
  OBVIOUS
<1>3. s \in SegmentSet /\ s.kind \notin Content
  <2>1. <<n>> \in Seq(Nat)
    OBVIOUS
  <2> QED
    BY <1>2, <2>1 DEF Segment, SegmentSet, Kinds, Content
<1>4. segments' = Append(segments, s)
  BY <1>2
<1>5. Keeps(segments, segments')
  BY <1>1, <1>3, <1>4, AddsOther
<1>6. /\ SegmentsRight(segments', m) /\ SaidIn(segments') = SaidIn(segments)
      /\ \A k : IsNewest(segments, k) => IsNewest(segments', k)
  BY <1>1, <1>5, KeepsRight
<1>7. OpenRight(open, segments') /\ StackRight(stack, segments')
  BY <1>1, <1>5, GrowsRight DEF Keeps
<1>8. BlockRight(segments', open, block, stack)
  BY <1>6 DEF TextInv, BlockRight
<1> QED
  BY <1>6, <1>7, <1>8
\* An error of the stream.
LEMMA ErrorKeeps ==
    ASSUME TextInv, ErrorEvent
    PROVE  TextInv'
<1>1. /\ turn = "reading" /\ made < MaxEvents /\ made' = made + 1
      /\ segments' = Append(segments, Segment("error", <<made + 1>>))
      /\ UNCHANGED <<omit, open, openTools, stack, toolIds, turn, block, tasks, nested, visible>>
  BY DEF ErrorEvent, More, Makes, ShowsError
<1>2. made \in Nat /\ made + 1 \in Nat /\ made <= made + 1 /\ made + 1 \in 0..MaxEvents /\ \A x \in 1..made : x \in 1..(made + 1)
  BY <1>1, InvFacts, TranscriptAssumption
<1>3. PICK n \in Nat : n = made + 1
  BY <1>2
<1>4. segments' = Append(segments, Segment("error", <<n>>)) /\ made <= n
  BY <1>1, <1>2, <1>3
<1>5. /\ SegmentsRight(segments', n) /\ SaidIn(segments') = SaidIn(segments)
      /\ OpenRight(open, segments') /\ StackRight(stack, segments') /\ BlockRight(segments', open, block, stack)
  BY <1>4, ErrorAdds
<1>6. TextTyped'
  <2>1. visible' \subseteq 1..(made + 1)
    BY <1>1, <1>2 DEF TextInv, TextTyped
  <2> QED
    BY <1>1, <1>2, <2>1 DEF TextInv, TextTyped
<1>7. EndIsShown'
  BY <1>1 DEF EndIsShown
<1> QED
  BY <1>1, <1>3, <1>5, <1>6, <1>7 DEF TextInv
\* An error of the CLI.
LEMMA ExitKeeps ==
    ASSUME TextInv, ExitFails
    PROVE  TextInv'
<1>1. /\ turn' = "failing" /\ segments' = Append(segments, Segment("error", << 0 >>))
      /\ UNCHANGED <<omit, open, openTools, stack, toolIds, block, tasks, nested, made, visible>>
  BY DEF ExitFails, ShowsError
<1>2. made \in Nat /\ made <= made
  BY InvFacts
<1>3. PICK n \in Nat : n = 0
  OBVIOUS
<1>4. segments' = Append(segments, Segment("error", <<n>>))
  BY <1>1, <1>3
<1>5. /\ SegmentsRight(segments', made) /\ SaidIn(segments') = SaidIn(segments)
      /\ OpenRight(open, segments') /\ StackRight(stack, segments') /\ BlockRight(segments', open, block, stack)
  BY <1>2, <1>4, ErrorAdds
<1>6. TextTyped' /\ EndIsShown'
  BY <1>1 DEF TextInv, TextTyped, EndIsShown
<1> QED
  BY <1>1, <1>5, <1>6 DEF TextInv

\* The end of a turn is shown, unless it is shown already.
LEMMA EndsKeeps ==
    ASSUME TextInv, NEW how, NEW parts, Ends(how, parts), how # "none",
           parts \in {<<>>, <<Segment("error", << 0 >>)>>} \/ (segments = <<>> /\ parts = <<Segment("text", << 0 >>)>>)
    PROVE  TextInv'
<1>1. /\ turn' = how /\ segments' = segments \o parts /\ ShowsUpdate(segments', how, TRUE)
      /\ UNCHANGED <<omit, open, openTools, stack, toolIds, block, tasks, nested, made, visible>>
  BY DEF Ends
<1>2. /\ segments \in Seq(SegmentSet) /\ SegmentsRight(segments, made) /\ made \in Nat /\ made <= made
      /\ OpenRight(open, segments) /\ StackRight(stack, segments)
  BY InvFacts
<1>3. TextTyped'
  BY <1>1 DEF TextInv, TextTyped
<1>4. EndIsShown'
  <2>1. PICK d : d = Render(segments', how)
    OBVIOUS
  <2>2. d.status = how
    BY <2>1, RenderStatus
  <2>3. d # NothingShown
    BY <2>2 DEF NothingShown
  <2>4. last' = d
    BY <1>1, <2>1, <2>3 DEF ShowsUpdate
  <2> QED
    BY <1>1, <2>1, <2>4 DEF EndIsShown
<1>5. /\ SegmentsRight(segments', made) /\ SaidIn(segments') = SaidIn(segments)
      /\ OpenRight(open, segments') /\ StackRight(stack, segments') /\ BlockRight(segments', open, block, stack)
  <2>1. CASE parts = <<>>
    <3>1. segments' = segments
      BY <1>1, <1>2, <2>1
    <3> QED
      BY <1>2, <3>1 DEF TextInv
  <2>2. CASE parts = <<Segment("error", << 0 >>)>>
    <3>1. PICK s : s = Segment("error", << 0 >>)
      OBVIOUS
    <3>2. segments' = Append(segments, s)
      BY <1>1, <1>2, <2>2, <3>1
    <3>3. PICK n \in Nat : n = 0
      OBVIOUS
    <3>4. segments' = Append(segments, Segment("error", <<n>>))
      BY <3>1, <3>2, <3>3
    <3> QED
      BY <1>2, <3>4, ErrorAdds
  <2>3. CASE segments = <<>> /\ parts = <<Segment("text", << 0 >>)>>
    <3>1. PICK s : s = Segment("text", << 0 >>)
      OBVIOUS
    <3>2. s \in SegmentSet /\ s.kind = "text" /\ s.parts = << 0 >>
      <4>1. << 0 >> \in Seq(Nat)
        OBVIOUS
      <4> QED
        BY <3>1, <4>1 DEF Segment, SegmentSet, Kinds, Content
    <3>3. segments' = <<s>>
      BY <1>1, <2>3, <3>1
    <3>4. /\ segments' \in Seq(SegmentSet) /\ Len(segments') = 1 /\ segments'[1] = s
          /\ Len(segments) = 0 /\ 1..0 = {} /\ 1..1 = {1}
      BY <2>3, <3>2, <3>3
    <3>5. TextsOf(segments') = {1} /\ TextsOf(segments) = {}
      BY <3>2, <3>4 DEF TextsOf, Content
    <3>6. segments'[1].parts = << 0 >> /\ Len(<< 0 >>) = 1 /\ << 0 >>[1] = 0
      BY <3>2, <3>4
    <3>7. Ascends(segments') /\ Within(segments', made)
      <4>1. \A p \in 1..Len(segments'[1].parts) : p = 1 /\ segments'[1].parts[p] = 0
        BY <3>4, <3>6
      <4> QED
        BY <1>2, <3>5, <4>1 DEF Ascends, Within
    <3>8. SaidIn(segments) = {}
      BY <3>5 DEF SaidIn
    <3>9. SaidIn(segments') = {}
      <4> SUFFICES ASSUME NEW m \in SaidIn(segments') PROVE FALSE
        OBVIOUS
      <4>1. m # 0 /\ \E i \in TextsOf(segments') : \E p \in 1..Len(segments'[i].parts) : m = segments'[i].parts[p]
        BY <3>4, SaidFacts
      <4> QED
        BY <3>4, <3>5, <3>6, <4>1
    <3>10. Grows(segments, segments')
      BY <3>4 DEF Grows
    <3>11. OpenRight(open, segments') /\ StackRight(stack, segments')
      BY <1>2, <3>10, GrowsRight
    <3>12. BlockRight(segments', open, block, stack)
      BY <3>5 DEF TextInv, BlockRight, IsNewest
    <3> QED
      BY <3>4, <3>7, <3>8, <3>9, <3>11, <3>12 DEF SegmentsRight
  <2> QED
    BY <2>1, <2>2, <2>3
<1> QED
  BY <1>1, <1>3, <1>4, <1>5 DEF TextInv

\* TextInv holds at the start.
LEMMA TextStarts ==
    ASSUME TextInit
    PROVE  TextInv
<1> USE DEF TextInit
<1>1. open = [k \in Content |-> [i \in Slots |-> 0]]
  OBVIOUS
<1>2. open \in OpenSet /\ \A k \in Content, i \in Slots : open[k][i] = 0
  BY <1>1 DEF OpenSet
<1>3. segments = <<>> /\ Len(segments) = 0 /\ segments \in Seq(SegmentSet) /\ 1..0 = {} /\ 0 \in 0..0
  OBVIOUS
<1>4. TextsOf(segments) = {}
  BY <1>3 DEF TextsOf
<1>5. SegmentsRight(segments, made) /\ SaidIn(segments) = {}
  BY <1>3, <1>4 DEF SegmentsRight, Ascends, Within, SaidIn
<1>6. OpenRight(open, segments)
  BY <1>2, <1>3 DEF OpenRight
<1>7. stack = <<>> /\ Len(stack) = 0 /\ stack \in Seq(StackSet) /\ tasks = <<>> /\ Len(tasks) = 0 /\ tasks \in Seq(TaskSet)
  OBVIOUS
<1>8. StackRight(stack, segments) /\ Nests(stack, tasks) /\ StillOpen(stack, tasks)
  BY <1>3, <1>7 DEF StackRight, Nests, StillOpen
<1>9. BlockRight(segments, open, block, stack)
  <2>1. block.kind = "none"
    BY DEF NoBlock
  <2> QED
    BY <2>1 DEF BlockRight, Content
<1>10. StartRight(omit, openTools, open, block)
  BY <1>2 DEF StartRight
<1>11. TextTyped
  BY <1>7, TranscriptAssumption DEF TextTyped, BlockSet
<1>12. EndIsShown
  BY DEF EndIsShown
<1> QED
  BY <1>5, <1>6, <1>8, <1>9, <1>10, <1>11, <1>12 DEF TextInv
\* It has what TranscriptKept says.
LEMMA TextImplied ==
    ASSUME TextInv
    PROVE  TranscriptKept
<1>1. /\ segments \in Seq(SegmentSet) /\ SegmentsRight(segments, made) /\ OpenRight(open, segments)
      /\ StackRight(stack, segments) /\ stack \in Seq(StackSet) /\ tasks \in Seq(TaskSet)
      /\ (nested => SaidIn(segments) = visible /\ Nests(stack, tasks))
  BY InvFacts
<1>2. TextTypeOK
  BY <1>1 DEF TextInv, TextTyped, TextTypeOK, OpenRight, StackRight
<1>3. SaysWhatIsMain
  <2> SUFFICES ASSUME nested PROVE SaysWhatIsMain
    BY DEF SaysWhatIsMain
  <2>1. Texts = TextsOf(segments) /\ Ascends(segments)
    BY <1>1 DEF Texts, TextsOf, SegmentsRight
  <2>2. (UNION {Range(segments[i].parts) : i \in Texts}) \ {0} = visible
    BY <1>1, <2>1 DEF SaidIn
  <2>3. ASSUME NEW i \in Texts, NEW p \in 1..Len(segments[i].parts), NEW q \in 1..Len(segments[i].parts), p < q
        PROVE  segments[i].parts[p] < segments[i].parts[q]
    BY <2>1, <2>3 DEF Ascends
  <2>4. ASSUME NEW i \in Texts, NEW j \in Texts, i < j,
               NEW m \in Range(segments[i].parts), NEW n \in Range(segments[j].parts)
        PROVE  m < n
    <3>1. \A k \in Texts : segments[k].parts \in Seq(Nat)
      BY <1>1, <2>1, TextFacts
    <3>2. PICK p \in 1..Len(segments[i].parts) : m = segments[i].parts[p]
      BY <3>1 DEF Range
    <3>3. PICK q \in 1..Len(segments[j].parts) : n = segments[j].parts[q]
      BY <3>1 DEF Range
    <3> QED
      BY <2>1, <2>4, <3>2, <3>3 DEF Ascends
  <2> QED
    BY <2>2, <2>3, <2>4, Zenon DEF SaysWhatIsMain
<1>4. TasksClose
  <2> SUFFICES ASSUME tasks = <<>>, NEW i \in 1..Len(stack)
               PROVE  ~nested /\ (IsSynthetic(stack[i].id) \/ \E y \in TaskIds \ {stack[i].id} : IsPrefix(y, stack[i].id))
    BY DEF TasksClose
  <2>1. Len(stack) \in Nat /\ Len(stack) >= 1 /\ Len(tasks) = 0 /\ i \in Nat
    BY <1>1
  <2>2. ~nested
    BY <1>1, <2>1 DEF Nests
  <2>3. CASE \E n \in Nat : stack[i].id = MadeUp(n)
    <3>1. <<>> \in Seq(Symbols)
      OBVIOUS
    <3>2. PICK n \in Nat : stack[i].id = MadeUp(n)
      BY <2>3
    <3>3. IsSynthetic(MadeUp(n))
      BY <3>1, MadeUpFacts
    <3> QED
      BY <2>2, <3>2, <3>3
  <2>4. CASE stack[i].id \in TaskIds
    <3>1. PICK x : x = stack[i].id
      OBVIOUS
    <3>2. ~Least(x)
      <4> SUFFICES ASSUME Least(x) PROVE FALSE
        OBVIOUS
      <4>1. Cardinality(Extending(stack, i, x)) <= Cardinality(Awaiting(tasks, x))
        BY <3>1 DEF TextInv, StillOpen
      <4>2. Awaiting(tasks, x) = {}
        BY <2>1 DEF Awaiting
      <4>3. i \in Extending(stack, i, x)
        <5>1. x \in Seq(Symbols)
          BY <2>4, <3>1, IdFacts
        <5>2. IsPrefix(x, x)
          BY <5>1, PrefixFacts
        <5> QED
          BY <2>1, <3>1, <5>2 DEF Extending
      <4>4. IsFiniteSet(Extending(stack, i, x)) /\ Cardinality(Extending(stack, i, x)) \in Nat
        <5>1. i \in 1..(Len(stack) + 1)
          BY <2>1
        <5> QED
          BY <1>1, <5>1, CountFacts
      <4>5. Cardinality(Extending(stack, i, x)) # 0
        BY <4>3, <4>4, FS_EmptySet
      <4>6. Cardinality(Awaiting(tasks, x)) = 0
        BY <4>2, FS_EmptySet
      <4> QED
        BY <4>1, <4>4, <4>5, <4>6
    <3>3. \E y \in TaskIds : IsPrefix(y, x) /\ y # x
      BY <2>4, <3>1, <3>2 DEF Least
    <3> QED
      BY <2>2, <3>1, <3>3
  <2> QED
    BY <1>1, <2>3, <2>4, StackFacts
<1>5. FitsAndFresh
  <2>1. Fits(segments, status)
    BY <1>1, RenderFits
  <2> QED
    BY <2>1, Zenon DEF Fits, FitsAndFresh
<1>6. EndIsShown
  BY DEF TextInv
<1> QED
  BY <1>2, <1>3, <1>4, <1>5, <1>6 DEF TranscriptKept

\* Every step keeps TextInv.
LEMMA TextSteps ==
    ASSUME TextInv, TextNext
    PROVE  TextInv'
<1>1. ASSUME NEW content \in Content, InMessage(content) PROVE TextInv'
  BY <1>1, SaysKeeps DEF InMessage
<1>2. ASSUME NEW content \in Content, NEW i \in Slots, Piece(content, i) PROVE TextInv'
  <2>1. Says(content, i) /\ GoesTo(content, i) /\ block' = [kind |-> content, index |-> i]
    BY <1>2 DEF Piece, GoesTo
  <2> QED
    BY <2>1, SaysKeeps
<1>3. ASSUME NEW content \in Content, NEW i \in Slots, BlockStart(content, i) PROVE TextInv'
  BY <1>3, BlockStartKeeps
<1>4. ASSUME BlockStop PROVE TextInv'
  BY <1>4, BlockStopKeeps
<1>5. ASSUME NEW isTask \in BOOLEAN, NEW id \in (IF isTask THEN {<<>>} \cup TaskIds ELSE ToolIds),
             Call(isTask, id) \/ \E i \in Slots : CallBlock(isTask, id, i)
      PROVE  TextInv'
  <2>1. (isTask => id \in TaskSet) /\ (~isTask => id \in ToolIds)
    BY <1>5 DEF TaskSet
  <2> QED
    BY <1>5, <2>1, WholeCallKeeps, CallBlockKeeps
<1>6. ASSUME NEW i \in 1..Len(tasks), NEW id \in {<<>>} \cup TaskIds \cup TaskLike, TaskResult(i, id) PROVE TextInv'
  <2>1. id \in TaskSet \cup TaskLike
    BY <1>6 DEF TaskSet
  <2> QED
    BY <1>6, <2>1, ResultKeeps
<1>7. ASSUME NEW id \in ToolIds, ToolResult(id) PROVE TextInv'
  BY <1>7, ToolResultKeeps
<1>8. ASSUME ErrorEvent PROVE TextInv'
  BY <1>8, ErrorKeeps
<1>9. ASSUME ExitFails PROVE TextInv'
  BY <1>9, ExitKeeps
<1>10. ASSUME Complete \/ StopEnds \/ CancelEnds \/ TurnFails \/ NoSession PROVE TextInv'
  <2>1. \E how \in {"complete", "stopped", "cancelled", "failed", "limit"} : \E parts :
           /\ Ends(how, parts)
           /\ parts \in {<<>>, <<Segment("error", << 0 >>)>>} \/ (segments = <<>> /\ parts = <<Segment("text", << 0 >>)>>)
    BY <1>10 DEF Complete, StopEnds, CancelEnds, TurnFails, NoSession
  <2> QED
    BY <2>1, EndsKeeps
<1> QED
  BY <1>1, <1>2, <1>3, <1>4, <1>5, <1>6, <1>7, <1>8, <1>9, <1>10 DEF TextNext

\* What was said outside of Tasks is in the transcript, once and in order, while
\* Tasks are answered as they nest; Tasks that were answered close; what is shown
\* fits and ends with the newest; and the last edit shows the end of the turn.
THEOREM ChatShowsTheTurn == TextInit /\ [][TextNext]_textVars => []TranscriptKept
<1>1. TextInit => TextInv
  BY TextStarts
<1>2. TextInv /\ [TextNext]_textVars => TextInv'
  <2> SUFFICES ASSUME TextInv, [TextNext]_textVars PROVE TextInv'
    OBVIOUS
  <2>1. CASE TextNext
    BY <2>1, TextSteps
  <2>2. CASE UNCHANGED textVars
    BY <2>2 DEF textVars, TextInv, TextTyped, EndIsShown
  <2> QED
    BY <2>1, <2>2
<1>3. TextInv => TranscriptKept
  BY TextImplied
<1> QED
  BY <1>1, <1>2, <1>3, PTL
=============================================================================
