-------------------------- MODULE TreeQueueProofs ---------------------------
(***************************************************************************)
(* The safety properties of TreeQueue, for every set of messages, and that *)
(* every step of it is one of the abstract server of turns, or none; and   *)
(* of ClientEvents: what the turn that runs hears of its client.           *)
(***************************************************************************)
EXTENDS TreeQueue, ClientEvents, SequenceTheorems, FiniteSetTheorems, WellFoundedInduction, TLAPS

-----------------------------------------------------------------------------
(* What Without keeps of a queue.                                          *)

KeptStep(q, S, f, i) ==
    IF i = 0 THEN <<>>
    ELSE IF q[i] \in S THEN f[i - 1] ELSE Append(f[i - 1], q[i])

LEMMA NatMin ==
    ASSUME NEW T, T \subseteq Nat, T # {}
    PROVE  \E x \in T : \A y \in T : ~(y < x)
<1>1. \E x \in T : \A y \in T : ~(<<y, x>> \in OpToRel(<, Nat))
  BY NatLessThanWellFounded, WFMin, Zenon
<1> QED
  BY <1>1 DEF OpToRel

LEMMA KeptExists ==
    ASSUME NEW T, NEW q \in Seq(T), NEW S
    PROVE  \E f : f = [i \in 0..Len(q) |-> KeptStep(q, S, f, i)]
<1> DEFINE Good(n) == \E f \in [0..n -> Seq(T)] : \A i \in 0..n : f[i] = KeptStep(q, S, f, i)
           Bad == {n \in 0..Len(q) : ~Good(n)}
<1>0. Len(q) \in Nat
  OBVIOUS
<1>1. ASSUME Bad # {} PROVE FALSE
  <2> HIDE DEF Good
  <2>1. PICK n \in Bad : \A k \in Bad : ~(k < n)
    BY <1>0, <1>1, NatMin, Bad \subseteq Nat
  <2>2. n # 0
    <3>1. [i \in 0..0 |-> <<>>] \in [0..0 -> Seq(T)]
      OBVIOUS
    <3>2. \A i \in 0..0 : [k \in 0..0 |-> <<>>][i] = KeptStep(q, S, [k \in 0..0 |-> <<>>], i)
      BY DEF KeptStep
    <3>3. Good(0)
      BY <3>1, <3>2, Zenon DEF Good
    <3> QED
      BY <3>3, <2>1
  <2>3. n - 1 \in 0..Len(q) /\ n - 1 \notin Bad /\ n \in 1..Len(q)
    BY <1>0, <2>1, <2>2
  <2>4. PICK f \in [0..(n - 1) -> Seq(T)] : \A i \in 0..(n - 1) : f[i] = KeptStep(q, S, f, i)
    BY <2>3 DEF Good
  <2> DEFINE g == [i \in 0..n |-> IF i = n THEN KeptStep(q, S, f, n) ELSE f[i]]
  <2>5. KeptStep(q, S, f, n) \in Seq(T)
    <3>1. f[n - 1] \in Seq(T) /\ q[n] \in T
      BY <2>3
    <3> QED
      BY <3>1, <2>2 DEF KeptStep
  <2>6. g \in [0..n -> Seq(T)]
    BY <2>5, <2>3
  <2>7. ASSUME NEW i \in 0..n PROVE g[i] = KeptStep(q, S, g, i)
    <3>1. CASE i = 0
      BY <3>1, <2>4, <2>3 DEF KeptStep
    <3>2. CASE i # 0
      <4>1. g[i - 1] = f[i - 1]
        BY <3>2, <2>3
      <4>2. KeptStep(q, S, g, i) = KeptStep(q, S, f, i)
        BY <4>1, <3>2 DEF KeptStep
      <4>3. g[i] = KeptStep(q, S, f, i)
        BY <2>4, <2>3
      <4> QED
        BY <4>2, <4>3
    <3> QED
      BY <3>1, <3>2
  <2>8. Good(n)
    BY <2>6, <2>7 DEF Good
  <2> QED
    BY <2>1, <2>8
<1>2. Good(Len(q))
  <2> HIDE DEF Good
  <2> QED
    BY <1>0, <1>1
<1>3. PICK f \in [0..Len(q) -> Seq(T)] : \A i \in 0..Len(q) : f[i] = KeptStep(q, S, f, i)
  BY <1>2
<1>4. f = [i \in 0..Len(q) |-> f[i]]
  BY <1>3
<1>5. f = [i \in 0..Len(q) |-> KeptStep(q, S, f, i)]
  BY <1>3, <1>4
<1> QED
  BY <1>5

LEMMA AppendInQueue ==
    ASSUME NEW T, NEW s \in Seq(T), NEW e \in T
    PROVE  /\ \A x : InQueue(Append(s, e), x) <=> InQueue(s, x) \/ x = e
           /\ NoRepeats(s) /\ ~InQueue(s, e) => NoRepeats(Append(s, e))
           /\ \A x, y : Precedes(Append(s, e), x, y) <=>
                            Precedes(s, x, y) \/ (InQueue(s, x) /\ y = e)
<1>1. /\ Len(Append(s, e)) = Len(s) + 1 /\ Len(s) \in Nat
      /\ DOMAIN Append(s, e) = 1..(Len(s) + 1) /\ DOMAIN s = 1..Len(s)
      /\ \A i \in 1..Len(s) : Append(s, e)[i] = s[i]
      /\ Append(s, e)[Len(s) + 1] = e
  OBVIOUS
<1>2. \A x : InQueue(Append(s, e), x) <=> InQueue(s, x) \/ x = e
  BY <1>1 DEF InQueue
<1>3. ASSUME NoRepeats(s), ~InQueue(s, e),
             NEW i \in 1..(Len(s) + 1), NEW j \in 1..(Len(s) + 1),
             Append(s, e)[i] = Append(s, e)[j]
      PROVE  i = j
  <2>1. CASE i \in 1..Len(s) /\ j \in 1..Len(s)
    BY <1>1, <1>3, <2>1 DEF NoRepeats
  <2>2. CASE i = Len(s) + 1 \/ j = Len(s) + 1
    BY <1>1, <1>3, <2>2 DEF InQueue
  <2> QED
    BY <1>1, <2>1, <2>2
<1>4. ASSUME NEW x, NEW y
      PROVE  Precedes(Append(s, e), x, y) <=> Precedes(s, x, y) \/ (InQueue(s, x) /\ y = e)
  <2>1. ASSUME Precedes(Append(s, e), x, y) PROVE Precedes(s, x, y) \/ (InQueue(s, x) /\ y = e)
    BY <1>1, <2>1 DEF Precedes, InQueue
  <2>2. ASSUME Precedes(s, x, y) PROVE Precedes(Append(s, e), x, y)
    BY <1>1, <2>2 DEF Precedes
  <2>3. ASSUME InQueue(s, x), y = e PROVE Precedes(Append(s, e), x, y)
    <3>1. PICK i \in 1..Len(s) : s[i] = x
      BY <1>1, <2>3 DEF InQueue
    <3>2. i < Len(s) + 1 /\ i \in 1..(Len(s) + 1) /\ Len(s) + 1 \in 1..(Len(s) + 1)
      BY <1>1
    <3> QED
      BY <1>1, <2>3, <3>1, <3>2 DEF Precedes
  <2> QED
    BY <2>1, <2>2, <2>3
<1> QED
  BY <1>1, <1>2, <1>3, <1>4 DEF NoRepeats

\* Taking ids out of a queue leaves a queue of the other ids, none repeated
\* if none was.
LEMMA WithoutFacts ==
    ASSUME NEW T, NEW q \in Seq(T), NEW S
    PROVE  /\ Without(q, S) \in Seq(T)
           /\ \A x : InQueue(Without(q, S), x) <=> InQueue(q, x) /\ x \notin S
           /\ NoRepeats(q) => NoRepeats(Without(q, S))
           /\ \A x, y : Precedes(Without(q, S), x, y) => Precedes(q, x, y)
<1> DEFINE f == CHOOSE f : f = [i \in 0..Len(q) |-> KeptStep(q, S, f, i)]
           Has(i, x) == x \notin S /\ \E j \in 1..i : q[j] = x
           Good(i) == /\ f[i] \in Seq(T)
                      /\ \A x : InQueue(f[i], x) <=> Has(i, x)
                      /\ NoRepeats(q) => NoRepeats(f[i])
                      /\ \A x, y : Precedes(f[i], x, y) => Precedes(q, x, y)
           Bad == {i \in 0..Len(q) : ~Good(i)}
<1>0. Len(q) \in Nat /\ DOMAIN q = 1..Len(q)
  OBVIOUS
<1>1. f = [i \in 0..Len(q) |-> KeptStep(q, S, f, i)]
  BY KeptExists, Zenon
<1>2. Without(q, S) = f[Len(q)]
  BY Zenon DEF Without, KeptStep
<1>3. \A i \in 0..Len(q) : f[i] = KeptStep(q, S, f, i)
  BY <1>1
<1> HIDE DEF f
<1>4. ASSUME Bad # {} PROVE FALSE
  <2>1. PICK n \in Bad : \A k \in Bad : ~(k < n)
    <3> HIDE DEF Good
    <3> QED
      BY <1>0, <1>4, NatMin, Bad \subseteq Nat
  <2>2. n # 0
    <3>1. f[0] = <<>>
      BY <1>0, <1>3 DEF KeptStep
    <3>2. Good(0)
      BY <3>1 DEF InQueue, NoRepeats, Precedes
    <3> HIDE DEF Good
    <3> QED
      BY <2>1, <3>2
  <2>3. n - 1 \in 0..Len(q) /\ n \in 1..Len(q) /\ Good(n - 1)
    <3> HIDE DEF Good
    <3> QED
      BY <1>0, <2>1, <2>2
  <2>4. q[n] \in T
    BY <1>0, <2>3
  <2>5. \A x : Has(n, x) <=> Has(n - 1, x) \/ (x = q[n] /\ x \notin S)
    BY <2>3
  <2>6. CASE q[n] \in S
    <3>1. f[n] = f[n - 1]
      BY <1>3, <2>2, <2>3, <2>6 DEF KeptStep
    <3>2. Good(n)
      BY <2>3, <2>5, <2>6, <3>1, Zenon
    <3> QED
      BY <2>1, <3>2
  <2>7. CASE q[n] \notin S
    <3>1. f[n] = Append(f[n - 1], q[n])
      BY <1>3, <2>2, <2>3, <2>7 DEF KeptStep
    <3>2. f[n] \in Seq(T)
      BY <2>3, <2>4, <3>1
    <3>3. \A x : InQueue(f[n], x) <=> Has(n, x)
      <4>1. \A x : InQueue(f[n], x) <=> InQueue(f[n - 1], x) \/ x = q[n]
        BY <2>3, <2>4, <3>1, AppendInQueue
      <4> QED
        BY <2>3, <2>5, <2>7, <4>1, Zenon
    <3>4. ASSUME NoRepeats(q) PROVE NoRepeats(f[n])
      <4>1. ~Has(n - 1, q[n])
        BY <1>0, <2>3, <3>4 DEF NoRepeats
      <4>2. ~InQueue(f[n - 1], q[n])
        BY <2>3, <4>1, Zenon
      <4> QED
        BY <2>3, <2>4, <3>1, <3>4, <4>2, AppendInQueue
    <3>5. ASSUME NEW x, NEW y, Precedes(f[n], x, y) PROVE Precedes(q, x, y)
      <4>1. Precedes(f[n - 1], x, y) \/ (InQueue(f[n - 1], x) /\ y = q[n])
        BY <2>3, <2>4, <3>1, <3>5, AppendInQueue
      <4>2. CASE Precedes(f[n - 1], x, y)
        BY <2>3, <4>2, Zenon
      <4>3. CASE InQueue(f[n - 1], x) /\ y = q[n]
        <5>1. Has(n - 1, x)
          BY <2>3, <4>3, Zenon
        <5>2. PICK j \in 1..(n - 1) : q[j] = x
          BY <5>1
        <5> QED
          BY <1>0, <2>3, <4>3, <5>2 DEF Precedes
      <4> QED
        BY <4>1, <4>2, <4>3
    <3>6. Good(n)
      BY <3>2, <3>3, <3>4, <3>5, Zenon
    <3> QED
      BY <2>1, <3>6
  <2> QED
    BY <2>6, <2>7
<1>5. Good(Len(q))
  <2> HIDE DEF Good
  <2> QED
    BY <1>0, <1>4
<1>6. \A x : InQueue(q, x) <=> \E j \in 1..Len(q) : q[j] = x
  BY <1>0 DEF InQueue
<1> QED
  BY <1>2, <1>5, <1>6, Zenon

\* The head of a queue, and what is left behind it.
LEMMA TailFacts ==
    ASSUME NEW T, NEW q \in Seq(T), q # <<>>
    PROVE  /\ Head(q) \in T /\ InQueue(q, Head(q)) /\ Tail(q) \in Seq(T)
           /\ \A x : InQueue(Tail(q), x) => InQueue(q, x) /\ Precedes(q, Head(q), x)
           /\ NoRepeats(q) => NoRepeats(Tail(q)) /\ ~InQueue(Tail(q), Head(q))
           /\ \A x, y : Precedes(Tail(q), x, y) => Precedes(q, x, y)
<1>1. /\ Len(q) \in Nat /\ Len(q) > 0 /\ DOMAIN q = 1..Len(q)
      /\ Len(Tail(q)) = Len(q) - 1 /\ DOMAIN Tail(q) = 1..(Len(q) - 1)
      /\ \A i \in 1..(Len(q) - 1) : Tail(q)[i] = q[i + 1]
      /\ Head(q) = q[1] /\ 1 \in 1..Len(q)
      /\ Head(q) \in T /\ Tail(q) \in Seq(T)
  OBVIOUS
<1>2. \A i \in 1..(Len(q) - 1) : i + 1 \in 1..Len(q) /\ 1 < i + 1
  BY <1>1
<1>3. \A x : InQueue(Tail(q), x) => InQueue(q, x) /\ Precedes(q, Head(q), x)
  BY <1>1, <1>2 DEF InQueue, Precedes
<1>4. NoRepeats(q) => NoRepeats(Tail(q)) /\ ~InQueue(Tail(q), Head(q))
  BY <1>1, <1>2 DEF InQueue, NoRepeats
<1>5. \A x, y : Precedes(Tail(q), x, y) => Precedes(q, x, y)
  BY <1>1, <1>2 DEF Precedes
<1> QED
  BY <1>1, <1>3, <1>4, <1>5 DEF InQueue

-----------------------------------------------------------------------------
(* What the operators of the actions return.                               *)

LEMMA SetStateFacts ==
    ASSUME TypeOK, NEW S, NEW s \in States
    PROVE  /\ SetState(S, s) \in [Nodes -> States]
           /\ \A n \in Nodes : n \in S => SetState(S, s)[n] = s
           /\ \A n \in Nodes : n \notin S => SetState(S, s)[n] = state[n]
  BY DEF SetState, TypeOK

LEMMA CancelFacts ==
    ASSUME TypeOK
    PROVE  /\ CancelCurrentTask \in [Nodes -> Phases]
           /\ \A n \in Nodes :
                 \/ CancelCurrentTask[n] = task[n]
                 \/ /\ n = currentTask /\ task[n] = "created"
                    /\ CancelCurrentTask[n] = "done"
                 \/ /\ n = currentTask /\ task[n] = "running"
                    /\ CancelCurrentTask[n] = "unwinding"
           /\ currentTask \in Nodes => CancelCurrentTask[currentTask] \notin {"created", "running"}
  BY DEF TypeOK, CancelCurrentTask, AfterCancel, Phases

LEMMA FailedFacts ==
    ASSUME TypeOK, NEW n \in Nodes
    PROVE  /\ Failed(n) \in [Nodes -> States]
           /\ \A k \in Nodes : \/ Failed(n)[k] = state[k]
                               \/ Failed(n)[k] = "error" /\ (k = n \/ state[k] = "pending")
<1>1. \A k \in PendingChildren(n) : state[k] = "pending"
  BY DEF PendingChildren, Reach
<1>2. "error" \in States
  BY DEF States
<1> QED
  BY <1>1, <1>2, SetStateFacts DEF Failed, TypeOK

LEMMA CompletedFacts ==
    ASSUME NEW s \in [Nodes -> States], NEW n \in Nodes
    PROVE  /\ Completed(s, n) \in [Nodes -> States]
           /\ \A k \in Nodes : Completed(s, n)[k] = s[k]
                               \/ (k = n /\ Completed(s, n)[k] = "completed")
  BY DEF Completed, States

LEMMA RegisteredFacts == TypeOK => Registered \subseteq nodes /\ nodes \subseteq Nodes
  BY DEF Registered, TypeOK

-----------------------------------------------------------------------------
(* Type correctness.                                                       *)

LEMMA InitTypeOK == Init => TypeOK
<1> SUFFICES ASSUME Init PROVE TypeOK
  OBVIOUS
<1>1. queue \in Seq(Nodes)
  BY DEF Init
<1>2. state \in [Nodes -> States] /\ task \in [Nodes -> Phases]
  BY DEF Init, States, Phases
<1>3. /\ parent \in [Nodes -> Nodes \cup {None}] /\ ahead \in [Nodes -> SUBSET Nodes]
      /\ captured \in [Nodes -> BOOLEAN] /\ hasTree \in [Nodes -> BOOLEAN]
  BY DEF Init
<1> QED
  BY <1>1, <1>2, <1>3 DEF Init, TypeOK

LEMMA ProcessNextType ==
    ASSUME TypeOK, NEW n \in Nodes, ProcessNext(n)
    PROVE  /\ queue' \in Seq(Nodes) /\ isProcessing' \in BOOLEAN
           /\ currentNode' \in Nodes \cup {None} /\ currentTask' \in Nodes \cup {None}
           /\ task' \in [Nodes -> Phases]
<1>1. CASE queue = <<>>
  BY <1>1 DEF ProcessNext, TypeOK, Phases
<1>2. CASE queue # <<>>
  <2>1. Head(queue) \in Nodes /\ Tail(queue) \in Seq(Nodes)
    BY <1>2 DEF TypeOK
  <2> QED
    BY <1>2, <2>1 DEF ProcessNext, Spawn, TypeOK, Phases
<1> QED
  BY <1>1, <1>2

LEMMA EnqueueType ==
    ASSUME TypeOK, NEW n \in Nodes, EnqueueAndStart(n)
    PROVE  /\ queue' \in Seq(Nodes) /\ isProcessing' \in BOOLEAN
           /\ currentNode' \in Nodes \cup {None} /\ currentTask' \in Nodes \cup {None}
           /\ task' \in [Nodes -> Phases]
<1>1. Append(queue, n) \in Seq(Nodes)
  BY DEF TypeOK
<1>2. Spawn(task, n) \in [Nodes -> Phases]
  BY DEF TypeOK, Spawn, Phases
<1>3. CASE isProcessing
  BY <1>1, <1>3 DEF EnqueueAndStart, TypeOK
<1>4. CASE ~isProcessing
  BY <1>2, <1>4 DEF EnqueueAndStart, TypeOK
<1> QED
  BY <1>3, <1>4

LEMMA CancelTreeType ==
    ASSUME TypeOK, CancelTree
    PROVE  /\ queue' \in Seq(Nodes) /\ isProcessing' \in BOOLEAN
           /\ currentNode' \in Nodes \cup {None} /\ currentTask' \in Nodes \cup {None}
           /\ task' \in [Nodes -> Phases] /\ state' \in [Nodes -> States]
<1> DEFINE hit == {n \in nodes : ~Terminal(n) \/ Queued(n)}
<1>1. SetState(hit, "error") \in [Nodes -> States]
  BY SetStateFacts DEF States
<1>2. state' = SetState(hit, "error")
  BY DEF CancelTree
<1> HIDE DEF hit
<1>3. <<>> \in Seq(Nodes)
  OBVIOUS
<1> QED
  BY <1>1, <1>2, <1>3, CancelFacts DEF CancelTree, TypeOK

LEMMA NextTypeOK == TypeOK /\ [Next]_vars => TypeOK'
<1> SUFFICES ASSUME TypeOK, [Next]_vars PROVE TypeOK'
  OBVIOUS
<1> USE DEF intake, repo, turn, running, clears
<1>1. CASE CreateTree
  BY <1>1, EnqueueType, TreeQueueAssumption DEF CreateTree, TypeOK
<1>2. ASSUME NEW m \in Nodes, NEW r \in Nodes, Receive(m, r) PROVE TypeOK'
  BY <1>2 DEF Receive, TypeOK
<1>3. ASSUME NEW m \in Nodes, Attach(m) PROVE TypeOK'
  BY <1>3, EnqueueType DEF Attach, TypeOK
<1>4. ASSUME NEW m \in Nodes, AttachFails(m) PROVE TypeOK'
  BY <1>4 DEF AttachFails, TypeOK
<1>5. ASSUME NEW n \in Nodes, Skip(n) PROVE TypeOK'
  BY <1>5, ProcessNextType DEF Skip, TypeOK
<1>6. ASSUME NEW n \in Nodes, Start(n) PROVE TypeOK'
  BY <1>6, SetStateFacts DEF Start, TypeOK, Phases, States
<1>7. ASSUME NEW n \in Nodes, SessionInfo(n) PROVE TypeOK'
  BY <1>7, SetStateFacts DEF SessionInfo, TypeOK, States
<1>8. ASSUME NEW n \in Nodes, ErrorEvent(n) PROVE TypeOK'
  BY <1>8, FailedFacts DEF ErrorEvent, TypeOK
<1>9. ASSUME NEW n \in Nodes, ExitOk(n) PROVE TypeOK'
  BY <1>9, CompletedFacts DEF ExitOk, TypeOK, Phases
<1>10. ASSUME NEW n \in Nodes, ExitFail(n) PROVE TypeOK'
  <2>1. (IF hasTree[n] THEN Failed(n) ELSE state) \in [Nodes -> States]
    BY FailedFacts DEF TypeOK
  <2> QED
    BY <1>10, <2>1, CompletedFacts DEF ExitFail, TypeOK, Phases
<1>11. ASSUME NEW n \in Nodes, Exception(n) PROVE TypeOK'
  BY <1>11, FailedFacts DEF Exception, TypeOK, Phases
<1>12. ASSUME NEW n \in Nodes, Unwind(n) PROVE TypeOK'
  BY <1>12, SetStateFacts DEF Unwind, TypeOK, Phases, States
<1>13. ASSUME NEW n \in Nodes, Finish(n) PROVE TypeOK'
  BY <1>13, ProcessNextType DEF Finish, TypeOK
<1>14. ASSUME NEW n \in Nodes, Stop(n) PROVE TypeOK'
  <2>1. Without(queue, {n}) \in Seq(Nodes)
    BY WithoutFacts DEF TypeOK
  <2> QED
    BY <1>14, <2>1, CancelFacts, SetStateFacts DEF Stop, TypeOK, States
<1>15. ASSUME NEW b \in Nodes, ClearBranchBegin(b) PROVE TypeOK'
  <2> DEFINE cancelled == {n \in Descendants(b) : ~Terminal(n)}
  <2>1. Without(queue, cancelled \ {currentNode}) \in Seq(Nodes)
    BY WithoutFacts DEF TypeOK
  <2> HIDE DEF cancelled
  <2>2. SetState(cancelled, "error") \in [Nodes -> States]
    BY SetStateFacts DEF States
  <2>3. /\ task' = IF currentNode \in cancelled THEN CancelCurrentTask ELSE task
        /\ queue' = Without(queue, cancelled \ {currentNode})
        /\ state' = SetState(cancelled, "error")
    BY <1>15 DEF ClearBranchBegin, cancelled
  <2> QED
    BY <1>15, <2>1, <2>2, <2>3, CancelFacts DEF ClearBranchBegin, TypeOK
<1>16. ASSUME NEW b \in Nodes, ClearBranchEnd(b) PROVE TypeOK'
  BY <1>16, CancelTreeType DEF ClearBranchEnd, TypeOK
<1>17. CASE StopAll
  BY <1>17, CancelTreeType DEF StopAll, TypeOK
<1>18. CASE ClearAllBegin
  BY <1>18, CancelTreeType DEF ClearAllBegin, TypeOK
<1>19. CASE ClearAllEnd
  BY <1>19 DEF ClearAllEnd, TypeOK
<1>20. CASE UNCHANGED vars
  BY <1>20 DEF vars, TypeOK
<1> QED
  BY <1>1, <1>2, <1>3, <1>4, <1>5, <1>6, <1>7, <1>8, <1>9, <1>10, <1>11, <1>12,
     <1>13, <1>14, <1>15, <1>16, <1>17, <1>18, <1>19, <1>20
     DEF Next, Arrival, Command, TaskStep

\* The state of a conversation is well formed under every command.
THEOREM TypeCorrect == Spec => []TypeOK
  BY InitTypeOK, NextTypeOK, PTL DEF Spec

-----------------------------------------------------------------------------
(* The queue: order of arrival, one place and one task for every message.  *)

QueueInv == /\ IdleMeansEmpty /\ Membership /\ InOrder /\ FifoOrder
            /\ CurrentTaskIsCurrent /\ ParentOrder

\* The queue only loses messages.
QueueShrinks ==
    /\ NoRepeats(queue) => NoRepeats(queue')
    /\ \A x \in Nodes : InQueue(queue', x) => InQueue(queue, x)
    /\ \A x, y \in Nodes : Precedes(queue', x, y) => Precedes(queue, x, y)

\* What a task does to the tasks while it keeps the tree.
OwnStep(n) ==
    /\ UNCHANGED <<intake, repo, turn, ahead>>
    /\ task[n] # "none" /\ task'[n] # "none"
    /\ \A k \in Nodes \ {n} : task'[k] = task[k]

\* What the commands do to the queue and to the tasks.
CancelStep ==
    /\ UNCHANGED <<intake, currentTask, ahead>>
    /\ nodes' \subseteq nodes
    /\ QueueShrinks
    /\ currentNode' \in {currentNode, None}
    /\ \A k \in Nodes : task[k] = "none" <=> task'[k] = "none"
    /\ ~isProcessing' => queue' = <<>>

LEMMA OwnStepQueueInv ==
    ASSUME TypeOK, QueueInv, NEW n \in Nodes, OwnStep(n)
    PROVE  QueueInv'
<1> USE DEF intake, repo, turn, Queued
<1>1. \A k \in Nodes : task[k] = "none" <=> task'[k] = "none"
  BY DEF OwnStep
<1>2. IdleMeansEmpty' /\ CurrentTaskIsCurrent'
  BY DEF OwnStep, QueueInv, IdleMeansEmpty, CurrentTaskIsCurrent
<1>3. Membership'
  BY <1>1 DEF OwnStep, QueueInv, Membership
<1>4. InOrder'
  BY DEF OwnStep, QueueInv, InOrder
<1>5. FifoOrder'
  BY <1>1 DEF OwnStep, QueueInv, FifoOrder
<1>6. ParentOrder'
  BY <1>1 DEF OwnStep, QueueInv, ParentOrder, TypeOK
<1> QED
  BY <1>2, <1>3, <1>4, <1>5, <1>6 DEF QueueInv

LEMMA CancelStepQueueInv ==
    ASSUME TypeOK, TypeOK', QueueInv, CancelStep
    PROVE  QueueInv'
<1> USE DEF intake, Queued
<1>1. None \notin Nodes
  BY TreeQueueAssumption
<1>2. IdleMeansEmpty'
  BY DEF CancelStep, IdleMeansEmpty
<1>3. CurrentTaskIsCurrent'
  BY <1>1 DEF CancelStep, QueueInv, CurrentTaskIsCurrent, TypeOK
<1>4. Membership'
  BY <1>1 DEF CancelStep, QueueShrinks, QueueInv, Membership
<1>5. InOrder'
  BY DEF CancelStep, QueueShrinks, QueueInv, InOrder, TypeOK
<1>6. FifoOrder'
  BY DEF CancelStep, QueueShrinks, QueueInv, FifoOrder, TypeOK
<1>7. ParentOrder'
  <2> SUFFICES ASSUME NEW n \in received \ {Root}
               PROVE  /\ parent[n] \in received \ arriving /\ parent[n] # n
                      /\ (n \in nodes' \/ InQueue(queue', n) \/ task'[n] # "none")
                             /\ InQueue(queue', parent[n]) => parent[n] \in ahead[n]
    BY DEF ParentOrder, CancelStep
  <2>1. n \in Nodes /\ parent[n] \in Nodes /\ parent[n] \in received \ arriving /\ parent[n] # n
    BY DEF QueueInv, ParentOrder, TypeOK
  <2> QED
    BY <2>1 DEF CancelStep, QueueShrinks, QueueInv, ParentOrder
<1> QED
  BY <1>2, <1>3, <1>4, <1>5, <1>6, <1>7 DEF QueueInv

LEMMA ProcessNextQueueInv ==
    ASSUME TypeOK, TypeOK', QueueInv, NEW n \in Nodes, task[n] # "none", ProcessNext(n),
           UNCHANGED <<intake, repo, ahead>>
    PROVE  QueueInv'
<1> USE DEF intake, repo, Queued
<1>1. None \notin Nodes
  BY TreeQueueAssumption
<1>2. CASE queue = <<>>
  <2>1. /\ queue' = <<>> /\ currentNode' = None /\ isProcessing' = FALSE
        /\ \A x : ~InQueue(queue', x)
        /\ task' = [task EXCEPT ![n] = "done"]
    BY <1>2 DEF ProcessNext, InQueue
  <2>2. \A k \in Nodes : task[k] = "none" <=> task'[k] = "none"
    BY <2>1 DEF TypeOK
  <2>3. IdleMeansEmpty' /\ CurrentTaskIsCurrent'
    BY <1>1, <2>1 DEF IdleMeansEmpty, CurrentTaskIsCurrent, TypeOK
  <2>4. Membership' /\ InOrder' /\ FifoOrder' /\ ParentOrder'
    BY <1>1, <2>1, <2>2, <1>2 DEF QueueInv, Membership, InOrder, FifoOrder, ParentOrder
  <2> QED
    BY <2>3, <2>4 DEF QueueInv
<1>3. CASE queue # <<>>
  <2> DEFINE h == Head(queue)
  <2>1. /\ h \in Nodes /\ InQueue(queue, h) /\ queue' = Tail(queue)
        /\ \A x : InQueue(queue', x) => InQueue(queue, x) /\ Precedes(queue, h, x)
        /\ NoRepeats(queue') /\ ~InQueue(queue', h)
        /\ \A x, y : Precedes(queue', x, y) => Precedes(queue, x, y)
    <3>1. queue' = Tail(queue)
      BY <1>3 DEF ProcessNext
    <3>2. queue \in Seq(Nodes) /\ NoRepeats(queue)
      BY DEF QueueInv, Membership, TypeOK
    <3> QED
      BY <1>3, <3>1, <3>2, TailFacts, Zenon
  <2>2. /\ isProcessing' = TRUE /\ currentNode' = h
        /\ IF h \in nodes
           THEN task' = Spawn([task EXCEPT ![n] = "done"], h) /\ currentTask' = h
           ELSE task' = [task EXCEPT ![n] = "done"]
    BY <1>3 DEF ProcessNext
  <2>3. task[h] = "none" /\ h # n
    BY <2>1 DEF QueueInv, Membership
  <2> HIDE DEF h
  <2>4. /\ \A k \in Nodes \ {h} : task[k] = "none" <=> task'[k] = "none"
        /\ task'[h] \in {"none", "created"}
    BY <2>1, <2>2, <2>3 DEF Spawn, TypeOK
  <2>5. IdleMeansEmpty' /\ CurrentTaskIsCurrent'
    BY <2>2 DEF IdleMeansEmpty, CurrentTaskIsCurrent
  <2>6. Membership'
    BY <2>1, <2>2, <2>4 DEF QueueInv, Membership
  <2>7. InOrder'
    BY <2>1 DEF QueueInv, InOrder
  <2>8. FifoOrder'
    <3>1. ASSUME NEW m \in ahead[h] PROVE ~InQueue(queue', m)
      BY <2>1, <3>1 DEF QueueInv, InOrder, TypeOK
    <3> QED
      BY <2>1, <2>4, <3>1 DEF QueueInv, FifoOrder
  <2>9. ParentOrder'
    BY <2>1, <2>4 DEF QueueInv, ParentOrder, TypeOK
  <2> QED
    BY <2>5, <2>6, <2>7, <2>8, <2>9 DEF QueueInv
<1> QED
  BY <1>2, <1>3

\* What joining the tree does to its queue and its tasks, for a message that
\* has neither a place nor a task yet.
LEMMA EnqueueFacts ==
    ASSUME TypeOK, NEW n \in Nodes, EnqueueAndStart(n), ~InQueue(queue, n), task[n] = "none",
           NoRepeats(queue), IdleMeansEmpty
    PROVE  /\ NoRepeats(queue')
           /\ \A x \in Nodes : InQueue(queue', x) => InQueue(queue, x) \/ x = n
           /\ \A x, y \in Nodes : Precedes(queue', x, y) =>
                  Precedes(queue, x, y) \/ (InQueue(queue, x) /\ y = n)
           /\ \A k \in Nodes \ {n} : task'[k] = task[k]
           /\ InQueue(queue', n) => task'[n] = "none"
           /\ IdleMeansEmpty'
           /\ currentNode' = n => currentTask' = n \/ currentNode = n
           /\ currentNode' # n => UNCHANGED <<currentNode, currentTask>>
<1>1. CASE isProcessing
  <2>1. queue' = Append(queue, n) /\ UNCHANGED <<isProcessing, currentNode, currentTask, task>>
    BY <1>1 DEF EnqueueAndStart
  <2>2. queue \in Seq(Nodes)
    BY DEF TypeOK
  <2>3. /\ NoRepeats(queue')
        /\ \A x \in Nodes : InQueue(queue', x) => InQueue(queue, x) \/ x = n
        /\ \A x, y \in Nodes : Precedes(queue', x, y) =>
               Precedes(queue, x, y) \/ (InQueue(queue, x) /\ y = n)
    BY <2>1, <2>2, AppendInQueue, Zenon
  <2> QED
    BY <1>1, <2>1, <2>3 DEF IdleMeansEmpty
<1>2. CASE ~isProcessing
  <2>1. queue = <<>> /\ queue' = queue
    BY <1>2 DEF EnqueueAndStart, IdleMeansEmpty
  <2>2. isProcessing' = TRUE /\ currentNode' = n /\ currentTask' = n /\ task' = Spawn(task, n)
    BY <1>2 DEF EnqueueAndStart
  <2>3. \A k \in Nodes \ {n} : task'[k] = task[k]
    BY <2>2 DEF Spawn, TypeOK
  <2> QED
    BY <2>1, <2>2, <2>3 DEF IdleMeansEmpty
<1> QED
  BY <1>1, <1>2

LEMMA CreateTreeQueueInv ==
    ASSUME TypeOK, TypeOK', QueueInv, CreateTree
    PROVE  QueueInv'
<1> USE DEF intake, repo, clears, Queued
<1>1. /\ Root \in Nodes /\ Root \notin received /\ received' = received \cup {Root}
      /\ arriving' = arriving /\ parent' = parent /\ ahead' = ahead
      /\ nodes' = {Root} /\ EnqueueAndStart(Root) /\ None \notin Nodes
  BY TreeQueueAssumption DEF CreateTree
<1>2. /\ ~InQueue(queue, Root) /\ task[Root] = "none" /\ NoRepeats(queue) /\ IdleMeansEmpty
      /\ currentNode # Root
  BY <1>1 DEF QueueInv, Membership
<1>3. /\ NoRepeats(queue')
      /\ \A x \in Nodes : InQueue(queue', x) => InQueue(queue, x) \/ x = Root
      /\ \A x, y \in Nodes : Precedes(queue', x, y) =>
             Precedes(queue, x, y) \/ (InQueue(queue, x) /\ y = Root)
      /\ \A k \in Nodes \ {Root} : task'[k] = task[k]
      /\ InQueue(queue', Root) => task'[Root] = "none"
      /\ IdleMeansEmpty'
      /\ currentNode' = Root => currentTask' = Root
      /\ currentNode' # Root => UNCHANGED <<currentNode, currentTask>>
  BY <1>1, <1>2, EnqueueFacts
<1>4. CurrentTaskIsCurrent'
  BY <1>1, <1>3 DEF CurrentTaskIsCurrent
<1>5. Membership'
  BY <1>1, <1>2, <1>3 DEF QueueInv, Membership, TypeOK
<1>6. ahead[Root] = {} /\ \A k \in Nodes : Root \notin ahead[k]
  BY <1>1 DEF QueueInv, InOrder
<1>7. InOrder'
  BY <1>1, <1>3, <1>6 DEF QueueInv, InOrder, TypeOK
<1>8. FifoOrder'
  BY <1>1, <1>3, <1>6 DEF QueueInv, FifoOrder, TypeOK
<1>9. ParentOrder'
  BY <1>1, <1>3 DEF QueueInv, ParentOrder, TypeOK
<1> QED
  BY <1>3, <1>4, <1>5, <1>7, <1>8, <1>9 DEF QueueInv

LEMMA ReceiveQueueInv ==
    ASSUME TypeOK, QueueInv, NEW m \in Nodes, NEW r \in Nodes, Receive(m, r)
    PROVE  QueueInv'
<1> USE DEF repo, turn, running, Queued
<1>1. /\ m \notin received /\ m # Root /\ r \in nodes
      /\ received' = received \cup {m} /\ arriving' = arriving \cup {m}
      /\ parent' = [parent EXCEPT ![m] = r]
      /\ UNCHANGED <<repo, turn, running, ahead>>
  BY RegisteredFacts DEF Receive
<1>2. received' \ arriving' = received \ arriving
  BY <1>1 DEF TypeOK
<1>3. IdleMeansEmpty' /\ CurrentTaskIsCurrent' /\ FifoOrder'
  BY <1>1 DEF QueueInv, IdleMeansEmpty, CurrentTaskIsCurrent, FifoOrder
<1>4. Membership' /\ InOrder'
  BY <1>1, <1>2 DEF QueueInv, Membership, InOrder
<1>5. ParentOrder'
  <2>1. r \in received \ arriving /\ r # m
    BY <1>1 DEF QueueInv, Membership
  <2>2. m \notin nodes /\ ~InQueue(queue, m) /\ task[m] = "none"
    BY <1>1 DEF QueueInv, Membership, TypeOK
  <2> QED
    BY <1>1, <1>2, <2>1, <2>2 DEF QueueInv, ParentOrder, TypeOK
<1> QED
  BY <1>3, <1>4, <1>5 DEF QueueInv

LEMMA AttachQueueInv ==
    ASSUME TypeOK, TypeOK', QueueInv, NEW m \in Nodes, Attach(m)
    PROVE  QueueInv'
<1> USE DEF intake, repo, clears, Queued
<1>1. /\ m \in arriving /\ m \in received /\ m # Root
      /\ received' = received /\ arriving' = arriving \ {m} /\ parent' = parent
      /\ nodes' = nodes \cup {m} /\ EnqueueAndStart(m)
      /\ ahead' = [ahead EXCEPT ![m] = {n \in Nodes : InQueue(queue, n)}]
  BY DEF Attach, QueueInv, Membership, TypeOK
<1>2. /\ ~InQueue(queue, m) /\ task[m] = "none" /\ NoRepeats(queue) /\ IdleMeansEmpty
      /\ currentNode # m
  BY <1>1 DEF QueueInv, Membership
<1>3. /\ NoRepeats(queue')
      /\ \A x \in Nodes : InQueue(queue', x) => InQueue(queue, x) \/ x = m
      /\ \A x, y \in Nodes : Precedes(queue', x, y) =>
             Precedes(queue, x, y) \/ (InQueue(queue, x) /\ y = m)
      /\ \A k \in Nodes \ {m} : task'[k] = task[k]
      /\ InQueue(queue', m) => task'[m] = "none"
      /\ IdleMeansEmpty'
      /\ currentNode' = m => currentTask' = m
      /\ currentNode' # m => UNCHANGED <<currentNode, currentTask>>
  BY <1>1, <1>2, EnqueueFacts
<1>4. CurrentTaskIsCurrent'
  BY <1>1, <1>3 DEF QueueInv, CurrentTaskIsCurrent
<1>5. Membership'
  BY <1>1, <1>2, <1>3 DEF QueueInv, Membership, TypeOK
<1>6. ahead[m] = {} /\ \A k \in Nodes : m \notin ahead[k]
  BY <1>1 DEF QueueInv, InOrder
<1>7. InOrder'
  <2>1. /\ \A k \in Nodes \ {m} : ahead'[k] = ahead[k]
        /\ ahead'[m] = {n \in Nodes : InQueue(queue, n)}
    BY <1>1 DEF TypeOK
  <2>2. \A k \in ahead'[m] : k \in received \ arriving /\ k # m
    BY <1>2, <2>1 DEF QueueInv, Membership
  <2>3. \A k \in Nodes : ~Precedes(queue', m, k)
    <3>1. \A k \in Nodes : Precedes(queue, m, k) => InQueue(queue, m)
      BY DEF Precedes, InQueue
    <3> QED
      BY <1>2, <1>3, <3>1
  <2> QED
    BY <1>1, <1>3, <1>6, <2>1, <2>2, <2>3 DEF QueueInv, InOrder, TypeOK
<1>8. FifoOrder'
  <2>1. /\ \A k \in Nodes \ {m} : ahead'[k] = ahead[k]
        /\ ahead'[m] = {n \in Nodes : InQueue(queue, n)}
    BY <1>1 DEF TypeOK
  <2>2. task'[m] # "none" => queue' = <<>>
    BY <1>1, <1>2 DEF EnqueueAndStart, IdleMeansEmpty
  <2>3. task'[m] # "none" => \A x : ~InQueue(queue', x)
    BY <2>2 DEF InQueue
  <2> QED
    BY <1>1, <1>3, <1>6, <2>1, <2>3 DEF QueueInv, FifoOrder, TypeOK
<1>9. ParentOrder'
  <2>1. /\ \A k \in Nodes \ {m} : ahead'[k] = ahead[k]
        /\ ahead'[m] = {n \in Nodes : InQueue(queue, n)}
    BY <1>1 DEF TypeOK
  <2>2. \A k \in received \ {Root} : parent[k] # m /\ parent[k] \in Nodes /\ parent[k] \in received \ arriving
    BY <1>1 DEF QueueInv, ParentOrder, TypeOK
  <2> QED
    BY <1>1, <1>3, <2>1, <2>2 DEF QueueInv, ParentOrder, TypeOK
<1> QED
  BY <1>3, <1>4, <1>5, <1>7, <1>8, <1>9 DEF QueueInv

LEMMA WithoutShrinks ==
    ASSUME TypeOK, IdleMeansEmpty, NEW S, queue' = Without(queue, S),
           UNCHANGED isProcessing
    PROVE  QueueShrinks /\ (~isProcessing' => queue' = <<>>)
<1>1. queue \in Seq(Nodes)
  BY DEF TypeOK
<1>2. /\ queue' \in Seq(Nodes)
      /\ \A x : InQueue(queue', x) => InQueue(queue, x)
      /\ NoRepeats(queue) => NoRepeats(queue')
      /\ \A x, y : Precedes(queue', x, y) => Precedes(queue, x, y)
  BY <1>1, WithoutFacts, Zenon
<1>3. ASSUME ~isProcessing' PROVE queue' = <<>>
  <2>1. \A x : ~InQueue(queue', x)
    BY <1>2, <1>3 DEF IdleMeansEmpty, InQueue
  <2>2. Len(queue') \in Nat /\ DOMAIN queue' = 1..Len(queue')
    BY <1>2
  <2>3. ASSUME Len(queue') # 0 PROVE FALSE
    <3>1. 1 \in DOMAIN queue'
      BY <2>2, <2>3
    <3> QED
      BY <2>1, <3>1, Zenon DEF InQueue
  <2> QED
    BY <1>2, <2>3
<1> QED
  BY <1>2, <1>3 DEF QueueShrinks

LEMMA CancelTreeStep ==
    ASSUME TypeOK, CancelTree
    PROVE  /\ QueueShrinks /\ queue' = <<>> /\ currentNode' = None /\ UNCHANGED currentTask
           /\ \A k \in Nodes : task[k] = "none" <=> task'[k] = "none"
<1>1. queue' = <<>> /\ task' = CancelCurrentTask /\ currentNode' = None /\ UNCHANGED currentTask
  BY DEF CancelTree
<1>2. QueueShrinks
  BY <1>1 DEF QueueShrinks, NoRepeats, InQueue, Precedes
<1> QED
  BY <1>1, <1>2, CancelFacts

LEMMA NextQueueInv ==
    ASSUME TypeOK, TypeOK', QueueInv, [Next]_vars
    PROVE  QueueInv'
<1> USE DEF intake, repo, turn, running, clears
<1>0. IdleMeansEmpty
  BY DEF QueueInv
<1>1. CASE CreateTree
  BY <1>1, CreateTreeQueueInv
<1>2. ASSUME NEW m \in Nodes, NEW r \in Nodes, Receive(m, r) PROVE QueueInv'
  BY <1>2, ReceiveQueueInv
<1>3. ASSUME NEW m \in Nodes, Attach(m) PROVE QueueInv'
  BY <1>3, AttachQueueInv
<1>4. ASSUME NEW m \in Nodes, AttachFails(m) PROVE QueueInv'
  <2>1. received \ arriving \subseteq (received \ arriving)' /\ m \notin nodes /\ ~Queued(m)
        /\ task[m] = "none" /\ currentNode # m
    BY <1>4 DEF AttachFails, QueueInv, Membership, TypeOK
  <2>2. /\ UNCHANGED <<received, parent, repo, turn, task, ahead>>
        /\ m \in arriving /\ arriving' = arriving \ {m}
    BY <1>4 DEF AttachFails
  <2>3. IdleMeansEmpty' /\ CurrentTaskIsCurrent' /\ FifoOrder'
    BY <2>2 DEF QueueInv, IdleMeansEmpty, CurrentTaskIsCurrent, FifoOrder, Queued
  <2>4. Membership' /\ InOrder' /\ ParentOrder'
    BY <2>1, <2>2 DEF QueueInv, Membership, InOrder, ParentOrder, Queued, TypeOK
  <2> QED
    BY <2>3, <2>4 DEF QueueInv
<1>5. ASSUME NEW n \in Nodes, Skip(n) PROVE QueueInv'
  BY <1>5, ProcessNextQueueInv DEF Skip
<1>6. ASSUME NEW n \in Nodes, Finish(n) PROVE QueueInv'
  BY <1>6, ProcessNextQueueInv DEF Finish
<1>7. ASSUME NEW n \in Nodes,
             \/ Start(n) \/ SessionInfo(n) \/ ErrorEvent(n) \/ ExitOk(n)
             \/ ExitFail(n) \/ Exception(n) \/ Unwind(n)
      PROVE  QueueInv'
  <2>1. OwnStep(n)
    BY <1>7 DEF OwnStep, Start, SessionInfo, ErrorEvent, ExitOk, ExitFail, Exception,
                Unwind, TypeOK
  <2> QED
    BY <2>1, OwnStepQueueInv
<1>8. ASSUME NEW n \in Nodes, Stop(n) PROVE QueueInv'
  <2>1. QueueShrinks /\ (~isProcessing' => queue' = <<>>)
    BY <1>8, WithoutShrinks DEF Stop, QueueInv
  <2>2. \A k \in Nodes : task[k] = "none" <=> task'[k] = "none"
    BY <1>8, CancelFacts DEF Stop
  <2>3. CancelStep
    BY <1>8, <2>1, <2>2 DEF Stop, CancelStep
  <2> QED
    BY <2>3, CancelStepQueueInv
<1>9. ASSUME NEW b \in Nodes, ClearBranchBegin(b) PROVE QueueInv'
  <2> DEFINE cancelled == {n \in Descendants(b) : ~Terminal(n)}
  <2>1. /\ queue' = Without(queue, cancelled \ {currentNode})
        /\ task' = IF currentNode \in cancelled THEN CancelCurrentTask ELSE task
        /\ UNCHANGED <<intake, repo, isProcessing, currentNode, currentTask, ahead>>
    BY <1>9 DEF ClearBranchBegin
  <2> HIDE DEF cancelled
  <2>2. QueueShrinks /\ (~isProcessing' => queue' = <<>>)
    BY <2>1, WithoutShrinks DEF QueueInv
  <2>3. \A k \in Nodes : task[k] = "none" <=> task'[k] = "none"
    BY <2>1, CancelFacts
  <2>4. CancelStep
    BY <2>1, <2>2, <2>3 DEF CancelStep
  <2> QED
    BY <2>4, CancelStepQueueInv
<1>10. ASSUME NEW b \in Nodes, ClearBranchEnd(b) PROVE QueueInv'
  <2>1. UNCHANGED <<intake, currentTask, ahead>> /\ nodes' \subseteq nodes
    BY <1>10, CancelTreeStep DEF ClearBranchEnd
  <2>2. CASE UNCHANGED <<turn, task>>
    BY <2>1, <2>2, CancelStepQueueInv DEF CancelStep, QueueShrinks, QueueInv, IdleMeansEmpty
  <2>3. CASE CancelTree
    BY <2>1, <2>3, CancelTreeStep, CancelStepQueueInv DEF CancelStep
  <2> QED
    BY <1>10, <2>2, <2>3 DEF ClearBranchEnd
<1>11. CASE StopAll \/ ClearAllBegin
  BY <1>11, CancelTreeStep, CancelStepQueueInv DEF StopAll, ClearAllBegin, CancelStep
<1>12. CASE ClearAllEnd
  BY <1>12, CancelStepQueueInv
     DEF ClearAllEnd, CancelStep, QueueShrinks, QueueInv, IdleMeansEmpty
<1>13. CASE UNCHANGED vars
  BY <1>13, CancelStepQueueInv DEF vars, CancelStep, QueueShrinks, QueueInv, IdleMeansEmpty
<1> QED
  BY <1>1, <1>2, <1>3, <1>4, <1>5, <1>6, <1>7, <1>8, <1>9, <1>10, <1>11, <1>12, <1>13
     DEF Next, Arrival, Command, TaskStep

LEMMA InitQueueInv == Init => QueueInv
<1> SUFFICES ASSUME Init PROVE QueueInv
  OBVIOUS
<1>1. \A x : ~InQueue(queue, x)
  BY DEF Init, InQueue
<1>2. NoRepeats(queue)
  BY DEF Init, NoRepeats
<1>3. None \notin Nodes
  BY TreeQueueAssumption
<1> QED
  BY <1>1, <1>2, <1>3 DEF Init, QueueInv, IdleMeansEmpty, Membership, InOrder, FifoOrder,
     CurrentTaskIsCurrent, ParentOrder, Queued

-----------------------------------------------------------------------------
(* The states of the nodes.                                                *)

StateInv == CompletedIsOver /\ CancelledIsError

\* A command marks nodes as errors, the node whose CLI it cancels among them.
LEMMA CancelStateInv ==
    ASSUME TypeOK, StateInv, NEW S, state' = SetState(S, "error"), nodes' \subseteq nodes,
           \A k \in Nodes :
              \/ task'[k] = task[k]
              \/ task[k] = "created" /\ task'[k] = "done"
              \/ /\ task[k] = "running" /\ task'[k] = "unwinding"
                 /\ k \in nodes => k \in S \/ state[k] = "error"
    PROVE  StateInv'
<1>1. \A k \in Nodes : state'[k] = state[k] \/ state'[k] = "error"
  BY SetStateFacts DEF States
<1>2. \A k \in Nodes : k \in S => state'[k] = "error"
  BY SetStateFacts DEF States
<1>3. CompletedIsOver'
  BY <1>1 DEF StateInv, CompletedIsOver
<1>4. CancelledIsError'
  BY <1>1, <1>2 DEF StateInv, CancelledIsError, TypeOK
<1> QED
  BY <1>3, <1>4 DEF StateInv

LEMMA CancelTreeStateInv ==
    ASSUME TypeOK, StateInv, CancelTree, nodes' \subseteq nodes
    PROVE  StateInv'
<1> DEFINE hit == {n \in nodes : ~Terminal(n) \/ Queued(n)}
<1>1. state' = SetState(hit, "error") /\ task' = CancelCurrentTask
  BY DEF CancelTree
<1>2. ASSUME NEW k \in nodes, task[k] = "running" PROVE k \in hit \/ state[k] = "error"
  BY <1>2 DEF StateInv, CompletedIsOver, Terminal, TypeOK, States
<1> HIDE DEF hit
<1>3. \A k \in Nodes :
        \/ task'[k] = task[k]
        \/ task[k] = "created" /\ task'[k] = "done"
        \/ /\ task[k] = "running" /\ task'[k] = "unwinding"
           /\ k \in nodes => k \in hit \/ state[k] = "error"
  BY <1>1, <1>2, CancelFacts
<1> QED
  BY <1>1, <1>3, CancelStateInv

\* The nodes that start next had no task, so nothing else changes for them.
LEMMA SpawnStateInv ==
    ASSUME TypeOK, StateInv, UNCHANGED <<nodes, state>>,
           \A k \in Nodes : \/ task'[k] = task[k]
                            \/ task'[k] = "done"
                            \/ task[k] = "none" /\ task'[k] = "created"
    PROVE  StateInv'
  BY DEF StateInv, CompletedIsOver, CancelledIsError, TypeOK

LEMMA ProcessNextTasks ==
    ASSUME TypeOK, QueueInv, NEW n \in Nodes, task[n] # "none", ProcessNext(n)
    PROVE  \A k \in Nodes : \/ k # n /\ task'[k] = task[k]
                            \/ k = n /\ task'[k] = "done"
                            \/ /\ task[k] = "none" /\ task'[k] = "created"
                               /\ queue # <<>> /\ k = Head(queue)
                               /\ currentNode' = k /\ currentTask' = k /\ isProcessing' = TRUE
<1>1. CASE queue = <<>>
  <2>1. task' = [task EXCEPT ![n] = "done"]
    BY <1>1 DEF ProcessNext
  <2>2. task'[n] = "done" /\ \A k \in Nodes : k # n => task'[k] = task[k]
    BY <2>1 DEF TypeOK
  <2> QED
    BY <2>2, Zenon
<1>2. CASE queue # <<>>
  <2> DEFINE h == Head(queue)
  <2>1. h \in Nodes /\ InQueue(queue, h)
    BY <1>2, TailFacts, Zenon DEF TypeOK
  <2>2. task[h] = "none"
    BY <2>1 DEF QueueInv, Membership, Queued
  <2>3. \/ /\ task' = Spawn([task EXCEPT ![n] = "done"], h)
           /\ currentTask' = h /\ currentNode' = h /\ isProcessing' = TRUE
        \/ task' = [task EXCEPT ![n] = "done"]
    BY <1>2 DEF ProcessNext
  <2>4. h = Head(queue)
    OBVIOUS
  <2> HIDE DEF h
  <2>5. CASE task' = [task EXCEPT ![n] = "done"]
    <3>1. task'[n] = "done" /\ \A k \in Nodes : k # n => task'[k] = task[k]
      BY <2>5 DEF TypeOK
    <3> QED
      BY <3>1, Zenon
  <2>6. CASE task' = [[task EXCEPT ![n] = "done"] EXCEPT ![h] = "created"]
    <3>1. \A k \in Nodes \ {n, h} : task'[k] = task[k]
      BY <2>6 DEF TypeOK
    <3>2. task'[h] = "created" /\ (h # n => task'[n] = "done")
      BY <2>1, <2>6 DEF TypeOK
    <3>3. h # n
      BY <2>2
    <3>4. task' # [task EXCEPT ![n] = "done"]
      <4>1. ASSUME task' = [task EXCEPT ![n] = "done"] PROVE task'[h] = task[h]
        BY <2>1, <3>3, <4>1 DEF TypeOK
      <4> QED
        BY <2>2, <3>2, <4>1
    <3>5. currentTask' = h /\ currentNode' = h /\ isProcessing' = TRUE
      BY <2>3, <3>4, Zenon
    <3>6. \A k \in Nodes : k # n /\ k # h => task'[k] = task[k]
      BY <3>1
    <3> QED
      BY <1>2, <2>2, <2>4, <3>2, <3>3, <3>5, <3>6, Zenon
  <2> QED
    BY <2>3, <2>5, <2>6, Zenon DEF Spawn
<1> QED
  BY <1>1, <1>2

LEMMA EnqueueTasks ==
    ASSUME TypeOK, NEW n \in Nodes, EnqueueAndStart(n), task[n] = "none"
    PROVE  \A k \in Nodes : \/ task'[k] = task[k]
                            \/ /\ k = n /\ task[k] = "none" /\ task'[k] = "created"
                               /\ ~isProcessing /\ isProcessing' = TRUE /\ UNCHANGED queue
                               /\ currentNode' = n /\ currentTask' = n
<1>1. CASE isProcessing
  BY <1>1 DEF EnqueueAndStart
<1>2. CASE ~isProcessing
  BY <1>2 DEF EnqueueAndStart, Spawn, TypeOK
<1> QED
  BY <1>1, <1>2

LEMMA NextStateInv ==
    ASSUME TypeOK, QueueInv, StateInv, [Next]_vars
    PROVE  StateInv'
<1> USE DEF intake, repo, turn, running, clears
<1>1. ASSUME CreateTree \/ \E m \in Nodes : Attach(m) PROVE StateInv'
  <2>1. PICK m \in Nodes : /\ m \notin received \ arriving /\ EnqueueAndStart(m)
                          /\ nodes' \subseteq nodes \cup {m} /\ UNCHANGED state
    BY <1>1, TreeQueueAssumption DEF CreateTree, Attach, TypeOK
  <2>2. task[m] = "none"
    BY <2>1 DEF QueueInv, Membership
  <2>3. \A k \in Nodes : task'[k] = task[k] \/ (task[k] = "none" /\ task'[k] = "created")
    BY <2>1, <2>2, EnqueueTasks
  <2> QED
    BY <2>1, <2>2, <2>3 DEF StateInv, CompletedIsOver, CancelledIsError, TypeOK
<1>2. ASSUME NEW m \in Nodes, (\E r \in Nodes : Receive(m, r)) \/ AttachFails(m)
      PROVE  StateInv'
  BY <1>2 DEF Receive, AttachFails, StateInv, CompletedIsOver, CancelledIsError
<1>3. ASSUME NEW n \in Nodes, Skip(n) \/ Finish(n) PROVE StateInv'
  <2>1. task[n] # "none" /\ ProcessNext(n) /\ UNCHANGED <<nodes, state>>
    BY <1>3 DEF Skip, Finish
  <2>2. \A k \in Nodes : \/ task'[k] = task[k]
                         \/ task'[k] = "done"
                         \/ task[k] = "none" /\ task'[k] = "created"
    BY <2>1, ProcessNextTasks, Zenon
  <2> QED
    BY <2>1, <2>2, SpawnStateInv
<1>4. ASSUME NEW n \in Nodes, Start(n) PROVE StateInv'
  BY <1>4, SetStateFacts DEF Start, StateInv, CompletedIsOver, CancelledIsError, TypeOK, States
<1>5. ASSUME NEW n \in Nodes, SessionInfo(n) PROVE StateInv'
  BY <1>5, SetStateFacts
     DEF SessionInfo, StateInv, CompletedIsOver, CancelledIsError, TypeOK, States
<1>6. ASSUME NEW n \in Nodes, ErrorEvent(n) PROVE StateInv'
  BY <1>6, FailedFacts
     DEF ErrorEvent, StateInv, CompletedIsOver, CancelledIsError, TypeOK
<1>7. ASSUME NEW n \in Nodes, ExitOk(n) PROVE StateInv'
  BY <1>7, CompletedFacts
     DEF ExitOk, StateInv, CompletedIsOver, CancelledIsError, TypeOK
<1>8. ASSUME NEW n \in Nodes, ExitFail(n) PROVE StateInv'
  <2> DEFINE s == IF hasTree[n] THEN Failed(n) ELSE state
  <2>1. s \in [Nodes -> States] /\ \A k \in Nodes : s[k] = state[k] \/ s[k] = "error"
    BY FailedFacts DEF TypeOK
  <2>2. state' = Completed(s, n) /\ task[n] = "running"
        /\ task' = [task EXCEPT ![n] = "failing"] /\ UNCHANGED nodes
    BY <1>8 DEF ExitFail
  <2> HIDE DEF s
  <2> QED
    BY <2>1, <2>2, CompletedFacts
       DEF StateInv, CompletedIsOver, CancelledIsError, TypeOK
<1>9. ASSUME NEW n \in Nodes, Exception(n) PROVE StateInv'
  BY <1>9, FailedFacts
     DEF Exception, StateInv, CompletedIsOver, CancelledIsError, TypeOK
<1>10. ASSUME NEW n \in Nodes, Unwind(n) PROVE StateInv'
  BY <1>10, SetStateFacts
     DEF Unwind, StateInv, CompletedIsOver, CancelledIsError, TypeOK, States
<1>11. ASSUME NEW n \in Nodes, Stop(n) PROVE StateInv'
  <2>1. n \in nodes /\ state' = SetState({n}, "error") /\ UNCHANGED nodes
        /\ task' = IF n = currentNode THEN CancelCurrentTask ELSE task
    BY <1>11, RegisteredFacts DEF Stop
  <2>2. n = currentNode => currentTask = n
    BY <2>1 DEF QueueInv, CurrentTaskIsCurrent
  <2>3. \A k \in Nodes :
          \/ task'[k] = task[k]
          \/ task[k] = "created" /\ task'[k] = "done"
          \/ task[k] = "running" /\ task'[k] = "unwinding" /\ k \in {n}
    BY <2>1, <2>2, CancelFacts
  <2> QED
    BY <2>1, <2>3, CancelStateInv
<1>12. ASSUME NEW b \in Nodes, ClearBranchBegin(b) PROVE StateInv'
  <2> DEFINE cancelled == {n \in Descendants(b) : ~Terminal(n)}
  <2>1. /\ b \in nodes /\ state' = SetState(cancelled, "error") /\ UNCHANGED nodes
        /\ task' = IF currentNode \in cancelled THEN CancelCurrentTask ELSE task
    BY <1>12, RegisteredFacts DEF ClearBranchBegin
  <2>2. cancelled \subseteq nodes
    BY <2>1 DEF Descendants, Reach
  <2> HIDE DEF cancelled
  <2>3. currentNode \in cancelled => currentTask \in cancelled
    BY <2>2 DEF QueueInv, CurrentTaskIsCurrent
  <2>4. \A k \in Nodes :
          \/ task'[k] = task[k]
          \/ task[k] = "created" /\ task'[k] = "done"
          \/ task[k] = "running" /\ task'[k] = "unwinding" /\ k \in cancelled
    BY <2>1, <2>3, CancelFacts
  <2> QED
    BY <2>1, <2>4, CancelStateInv
<1>13. ASSUME NEW b \in Nodes, ClearBranchEnd(b) PROVE StateInv'
  <2>1. nodes' \subseteq nodes
    BY <1>13 DEF ClearBranchEnd
  <2>2. CASE UNCHANGED <<task, state>>
    BY <2>1, <2>2 DEF StateInv, CompletedIsOver, CancelledIsError
  <2>3. CASE CancelTree
    BY <2>1, <2>3, CancelTreeStateInv
  <2> QED
    BY <1>13, <2>2, <2>3 DEF ClearBranchEnd
<1>14. CASE StopAll \/ ClearAllBegin
  BY <1>14, CancelTreeStateInv DEF StopAll, ClearAllBegin
<1>15. CASE ClearAllEnd \/ UNCHANGED vars
  BY <1>15 DEF ClearAllEnd, vars, StateInv, CompletedIsOver, CancelledIsError
<1> QED
  BY <1>1, <1>2, <1>3, <1>4, <1>5, <1>6, <1>7, <1>8, <1>9, <1>10, <1>11, <1>12, <1>13,
     <1>14, <1>15 DEF Next, Arrival, Command, TaskStep

-----------------------------------------------------------------------------
(* What holds under every command.                                         *)

LEMMA InitInv == Init => TreeInv
<1>1. Init => StateInv
  BY DEF Init, StateInv, CompletedIsOver, CancelledIsError
<1> QED
  BY <1>1, InitTypeOK, InitQueueInv DEF TreeInv, QueueInv, StateInv

LEMMA NextInv == TreeInv /\ [Next]_vars => TreeInv'
  BY NextTypeOK, NextQueueInv, NextStateInv DEF TreeInv, QueueInv, StateInv

LEMMA InvCorrect == Spec => []TreeInv
  BY InitInv, NextInv, PTL DEF Spec

\* What a conversation keeps at every step, whatever is sent and stopped.
THEOREM TreeKept == Spec => []TreeInv
  BY InvCorrect

\* Replies start in the order in which they were attached.
THEOREM OrderOfArrival == Spec => []FifoOrder
<1>1. TreeInv => FifoOrder
  BY DEF TreeInv
<1> QED
  BY <1>1, InvCorrect, PTL

\* A reply that finds the tree idle overtakes nobody.
THEOREM IdleQueueEmpty == Spec => []IdleMeansEmpty
<1>1. TreeInv => IdleMeansEmpty
  BY DEF TreeInv
<1> QED
  BY <1>1, InvCorrect, PTL

\* A cancelled node reads as an error while its CLI is stopped.
THEOREM CancelledReadsAsError == Spec => []CancelledIsError
<1>1. TreeInv => CancelledIsError
  BY DEF TreeInv
<1> QED
  BY <1>1, InvCorrect, PTL

\* A message is handed to the CLI once.
THEOREM HandedOverOnce == Spec => RunsOnce
<1>1. ASSUME TreeInv, [Next]_vars, NEW n \in Nodes, task[n] # "none", task'[n] = "created"
      PROVE  task[n] = "created"
  <2>1. TypeOK /\ QueueInv
    BY <1>1 DEF TreeInv, QueueInv
  <2> USE DEF intake, repo, turn, running, clears
  <2>2. ASSUME CreateTree \/ \E m \in Nodes : Attach(m) PROVE task'[n] = task[n]
    <3>1. PICK m \in Nodes : m \notin received \ arriving /\ EnqueueAndStart(m)
      BY <2>1, <2>2, TreeQueueAssumption DEF CreateTree, Attach, TypeOK
    <3>2. task[m] = "none"
      BY <2>1, <3>1 DEF QueueInv, Membership
    <3> QED
      BY <1>1, <2>1, <3>1, <3>2, EnqueueTasks
  <2>3. ASSUME NEW k \in Nodes, Skip(k) \/ Finish(k) PROVE task[n] = "created"
    <3>1. task[k] # "none" /\ ProcessNext(k)
      BY <2>3 DEF Skip, Finish
    <3> QED
      BY <1>1, <2>1, <3>1, ProcessNextTasks
  <2>4. ASSUME NEW k \in Nodes,
               \/ Start(k) \/ SessionInfo(k) \/ ErrorEvent(k) \/ ExitOk(k)
               \/ ExitFail(k) \/ Exception(k) \/ Unwind(k)
        PROVE  task[n] = "created"
    BY <1>1, <2>1, <2>4 DEF Start, SessionInfo, ErrorEvent, ExitOk, ExitFail, Exception,
                            Unwind, TypeOK
  <2>5. ASSUME Command PROVE task[n] = "created"
    <3>1. task' = task \/ task' = CancelCurrentTask
      BY <2>5 DEF Command, Stop, ClearBranchBegin, ClearBranchEnd, StopAll, ClearAllBegin,
                  ClearAllEnd, CancelTree
    <3> QED
      BY <1>1, <2>1, <3>1, CancelFacts
  <2>6. ASSUME UNCHANGED task PROVE task[n] = "created"
    BY <1>1, <2>6
  <2> QED
    BY <1>1, <2>2, <2>3, <2>4, <2>5, <2>6
       DEF Next, Arrival, TaskStep, Receive, AttachFails, vars
<1>2. TreeInv /\ [Next]_vars => [\A n \in Nodes :
        task[n] # "none" /\ task'[n] = "created" => task[n] = "created"]_vars
  BY <1>1
<1> QED
  BY <1>2, InvCorrect, PTL DEF Spec, RunsOnce

\* What has completed stays completed.
THEOREM CompletedStays == Spec => CompletedIsFinal
<1>1. ASSUME TreeInv, [Next]_vars, NEW n \in Nodes, state[n] = "completed"
      PROVE  state'[n] = "completed"
  <2>1. /\ TypeOK /\ task[n] \in {"closing", "failing", "done"} /\ ~Queued(n) /\ Terminal(n)
    BY <1>1 DEF TreeInv, CompletedIsOver, Membership, Terminal
  <2> USE DEF intake, repo, turn, running, clears
  <2>2. ASSUME NEW k \in Nodes, Start(k) \/ SessionInfo(k) \/ Unwind(k)
        PROVE  state'[n] = "completed"
    <3>1. n # k /\ \E s \in States : state' \in {state, SetState({k}, s)}
      BY <2>1, <2>2 DEF Start, SessionInfo, Unwind, States
    <3> QED
      BY <1>1, <2>1, <3>1, SetStateFacts
  <2>3. ASSUME NEW k \in Nodes, ErrorEvent(k) \/ Exception(k) PROVE state'[n] = "completed"
    <3>1. n # k /\ state' \in {state, Failed(k)}
      BY <2>1, <2>3 DEF ErrorEvent, Exception
    <3> QED
      BY <1>1, <2>1, <3>1, FailedFacts
  <2>4. ASSUME NEW k \in Nodes, ExitOk(k) \/ ExitFail(k) PROVE state'[n] = "completed"
    <3>1. PICK s \in {state, Failed(k)} : n # k /\ state' = Completed(s, k)
      BY <2>1, <2>4 DEF ExitOk, ExitFail
    <3>2. s \in [Nodes -> States] /\ s[n] = "completed"
      BY <1>1, <2>1, <3>1, FailedFacts DEF TypeOK
    <3> QED
      BY <3>1, <3>2, CompletedFacts
  <2>5. ASSUME NEW S, n \notin S, state' = SetState(S, "error") PROVE state'[n] = "completed"
    BY <1>1, <2>1, <2>5, SetStateFacts DEF States
  <2>6. ASSUME NEW k \in Nodes, Stop(k) PROVE state'[n] = "completed"
    BY <2>1, <2>5, <2>6 DEF Stop
  <2>7. ASSUME NEW b \in Nodes, ClearBranchBegin(b) PROVE state'[n] = "completed"
    <3> DEFINE cancelled == {k \in Descendants(b) : ~Terminal(k)}
    <3>1. state' = SetState(cancelled, "error") /\ n \notin cancelled
      BY <2>1, <2>7 DEF ClearBranchBegin
    <3> HIDE DEF cancelled
    <3> QED
      BY <2>5, <3>1
  <2>8. ASSUME CancelTree PROVE state'[n] = "completed"
    <3> DEFINE hit == {k \in nodes : ~Terminal(k) \/ Queued(k)}
    <3>1. state' = SetState(hit, "error") /\ n \notin hit
      BY <2>1, <2>8 DEF CancelTree
    <3> HIDE DEF hit
    <3> QED
      BY <2>5, <3>1
  <2>9. ASSUME UNCHANGED state PROVE state'[n] = "completed"
    BY <1>1, <2>9
  <2> QED
    BY <1>1, <2>2, <2>3, <2>4, <2>6, <2>7, <2>8, <2>9
       DEF Next, Arrival, Command, TaskStep, CreateTree, Receive, Attach, AttachFails, Skip,
           Finish, ClearBranchEnd, StopAll, ClearAllBegin, ClearAllEnd, vars
<1>2. TreeInv /\ [Next]_vars =>
        [\A n \in Nodes : state[n] = "completed" => state'[n] = "completed"]_vars
  BY <1>1
<1> QED
  BY <1>2, InvCorrect, PTL DEF Spec, CompletedIsFinal

\* What was stopped, cleared or failed before its first step never starts.
THEOREM StoppedStaysStopped == Spec => StoppedNeverStarts
<1>1. ASSUME TreeInv, [Next]_vars, NEW n \in nodes, state[n] = "error", task[n] \in {"none", "created"}
      PROVE  state'[n] = "error" /\ task'[n] # "running"
  <2>1. TypeOK /\ QueueInv /\ n \in Nodes
    BY <1>1 DEF TreeInv, QueueInv, TypeOK
  <2> USE DEF intake, repo, turn, running, clears
  <2>2. ASSUME NEW S, state' = SetState(S, "error") \/ UNCHANGED state PROVE state'[n] = "error"
    BY <1>1, <2>1, <2>2, SetStateFacts DEF States
  <2>3. ASSUME task' = CancelCurrentTask \/ UNCHANGED task PROVE task'[n] # "running"
    BY <1>1, <2>1, <2>3, CancelFacts
  <2>4. ASSUME NEW k \in Nodes, k # n, task'[n] = task[n],
               \/ \E s \in States : state' \in {state, SetState({k}, s), Failed(k)}
               \/ \E s \in {state, Failed(k)} : state' = Completed(s, k)
        PROVE  state'[n] = "error" /\ task'[n] # "running"
    <3>1. Failed(k) \in [Nodes -> States] /\ Failed(k)[n] = "error"
      BY <1>1, <2>1, SetStateFacts DEF Failed, States, TypeOK
    <3>2. \A s \in States : SetState({k}, s)[n] = state[n]
      BY <2>1, <2>4, SetStateFacts
    <3>3. \A s \in {state, Failed(k)} : Completed(s, k)[n] = "error"
      <4>1. \A s \in {state, Failed(k)} : s \in [Nodes -> States] /\ s[n] = "error"
        BY <1>1, <2>1, <3>1 DEF TypeOK
      <4>2. ASSUME NEW s \in [Nodes -> States], s[n] = "error" PROVE Completed(s, k)[n] = "error"
        BY <2>1, <2>4, <4>2, CompletedFacts
      <4> QED
        BY <4>1, <4>2
    <3> QED
      BY <1>1, <2>4, <3>1, <3>2, <3>3
  <2>5. ASSUME NEW k \in Nodes, \/ Start(k) \/ SessionInfo(k) \/ ErrorEvent(k) \/ ExitOk(k)
                               \/ ExitFail(k) \/ Exception(k) \/ Unwind(k)
        PROVE  state'[n] = "error" /\ task'[n] # "running"
    <3>1. k # n /\ task'[n] = task[n]
      BY <1>1, <2>1, <2>5 DEF Start, SessionInfo, ErrorEvent, ExitOk, ExitFail, Exception,
                             Unwind, TypeOK
    <3>2. \/ \E s \in States : state' \in {state, SetState({k}, s), Failed(k)}
          \/ \E s \in {state, Failed(k)} : state' = Completed(s, k)
      BY <2>5 DEF Start, SessionInfo, ErrorEvent, ExitOk, ExitFail, Exception, Unwind, States
    <3> QED
      BY <2>4, <3>1, <3>2
  <2>6. ASSUME NEW k \in Nodes, Skip(k) \/ Finish(k)
        PROVE  state'[n] = "error" /\ task'[n] # "running"
    <3>1. task[k] # "none" /\ ProcessNext(k) /\ UNCHANGED state
      BY <2>6 DEF Skip, Finish
    <3> QED
      BY <1>1, <2>1, <3>1, ProcessNextTasks
  <2>7. ASSUME NEW k \in Nodes, EnqueueAndStart(k), UNCHANGED state
        PROVE  state'[n] = "error" /\ task'[n] # "running"
    BY <1>1, <2>1, <2>7 DEF EnqueueAndStart, Spawn, TypeOK
  <2>8. ASSUME NEW k \in Nodes, Stop(k) PROVE state'[n] = "error" /\ task'[n] # "running"
    BY <2>2, <2>3, <2>8 DEF Stop
  <2>9. ASSUME NEW b \in Nodes, ClearBranchBegin(b)
        PROVE  state'[n] = "error" /\ task'[n] # "running"
    BY <2>2, <2>3, <2>9 DEF ClearBranchBegin
  <2>10. ASSUME CancelTree PROVE state'[n] = "error" /\ task'[n] # "running"
    BY <2>2, <2>3, <2>10 DEF CancelTree
  <2>11. ASSUME UNCHANGED <<state, task>> PROVE state'[n] = "error" /\ task'[n] # "running"
    BY <1>1, <2>11
  <2> QED
    BY <1>1, <2>5, <2>6, <2>7, <2>8, <2>9, <2>10, <2>11, TreeQueueAssumption
       DEF Next, Arrival, Command, TaskStep, CreateTree, Receive, Attach, AttachFails,
           ClearBranchEnd, StopAll, ClearAllBegin, ClearAllEnd, vars
<1>2. TreeInv /\ [Next]_vars =>
        [\A n \in nodes : state[n] = "error" /\ task[n] \in {"none", "created"}
                          => task'[n] # "running" /\ state'[n] = "error"]_vars
  BY <1>1
<1> QED
  BY <1>2, InvCorrect, PTL DEF Spec, StoppedNeverStarts

\* /stop of one node leaves the tasks and the states of the others alone.
THEOREM StopLeavesOthers == Spec => StopIsolated
<1>1. ASSUME TreeInv, NEW n \in Nodes, Stop(n), NEW m \in Nodes \ {n}
      PROVE  task'[m] = task[m] /\ state'[m] = state[m]
  <2>1. TypeOK /\ n \in nodes /\ state' = SetState({n}, "error")
        /\ task' = IF n = currentNode THEN CancelCurrentTask ELSE task
    BY <1>1, RegisteredFacts DEF TreeInv, Stop
  <2>2. n = currentNode => currentTask = n
    BY <1>1, <2>1 DEF TreeInv, CurrentTaskIsCurrent
  <2> QED
    BY <2>1, <2>2, CancelFacts, SetStateFacts DEF States
<1>2. TreeInv /\ [Next]_vars =>
        [\A n \in Nodes : Stop(n) =>
           \A m \in Nodes \ {n} : task'[m] = task[m] /\ state'[m] = state[m]]_vars
  BY <1>1
<1> QED
  BY <1>2, InvCorrect, PTL DEF Spec, StopIsolated

-----------------------------------------------------------------------------
(* What holds while nobody sends the global commands.                      *)

NoGlobalCommand == Commands \cap {"stop_all", "clear_all"} = {}

TurnInv == OneTurn /\ (Root \notin received => received = {}) /\ ~clearingAll

LEMMA InitTurnInv == Init => TurnInv
  BY DEF Init, TurnInv, OneTurn, AtMostOne, Live

LEMMA NextTurnInv ==
    ASSUME NoGlobalCommand, TreeInv, TurnInv, [Next]_vars
    PROVE  TurnInv'
<1> USE DEF intake, repo, turn, running, clears
<1>1. TypeOK /\ QueueInv /\ AtMostOne
  BY DEF TreeInv, QueueInv, TurnInv, OneTurn
<1>1a. received' = received \/ Root \in received'
  <2>1. CASE CreateTree
    BY <2>1 DEF CreateTree
  <2>2. ASSUME NEW m \in Nodes, NEW r \in Nodes, Receive(m, r)
        PROVE  Root \in received'
    <3>1. received # {} /\ received' = received \cup {m}
      BY <1>1, <2>2 DEF Receive, Registered, TypeOK
    <3> QED
      BY <3>1 DEF TurnInv
  <2>3. CASE UNCHANGED vars
    BY <2>3 DEF vars
  <2>4. CASE \/ StopAll \/ ClearAllBegin \/ ClearAllEnd
             \/ \E m \in Nodes : \/ Attach(m) \/ AttachFails(m) \/ TaskStep(m) \/ Stop(m)
                                 \/ ClearBranchBegin(m) \/ ClearBranchEnd(m)
    BY <2>4 DEF StopAll, ClearAllBegin, ClearAllEnd, Attach, AttachFails, TaskStep, Stop,
       ClearBranchBegin, ClearBranchEnd, Skip, Start, SessionInfo, ErrorEvent, ExitOk,
       ExitFail, Exception, Unwind, Finish
  <2> QED
    BY <2>1, <2>2, <2>3, <2>4 DEF Next, Arrival, Command
<1>1b. clearingAll' = clearingAll \/ ClearAllBegin \/ ClearAllEnd
  <2>1. CASE \/ UNCHANGED vars \/ CreateTree \/ StopAll
             \/ \E m, r \in Nodes : Receive(m, r)
             \/ \E m \in Nodes : \/ Attach(m) \/ AttachFails(m) \/ TaskStep(m) \/ Stop(m)
                                 \/ ClearBranchBegin(m) \/ ClearBranchEnd(m)
    BY <2>1 DEF StopAll, CreateTree, Receive, Attach, AttachFails, TaskStep, Stop,
       ClearBranchBegin, ClearBranchEnd, Skip, Start, SessionInfo, ErrorEvent, ExitOk,
       ExitFail, Exception, Unwind, Finish, vars
  <2> QED
    BY <2>1 DEF Next, Arrival, Command
<1>1c. ~ClearAllBegin /\ ~ClearAllEnd
  BY DEF ClearAllBegin, ClearAllEnd, MayCommand, NoGlobalCommand, TurnInv
<1>2. (Root \notin received' => received' = {}) /\ ~clearingAll'
  BY <1>1a, <1>1b, <1>1c DEF TurnInv
<1>3. ASSUME \A k \in Nodes : Live(k)' => Live(k),
             \/ UNCHANGED <<isProcessing, currentNode, currentTask, inRepo>>
                /\ (~inRepo => UNCHANGED queue)
             \/ ~inRepo' /\ queue' = <<>>
      PROVE  TurnInv'
  BY <1>2, <1>3 DEF TurnInv, OneTurn, AtMostOne
<1>4. ASSUME CreateTree \/ \E m \in Nodes : Attach(m) PROVE TurnInv'
  <2>1. PICK m \in Nodes : m \notin received \ arriving /\ EnqueueAndStart(m)
                          /\ inRepo' /\ (inRepo \/ received = {})
    BY <1>1, <1>4, TreeQueueAssumption
       DEF CreateTree, Attach, Registered, TypeOK, TurnInv
  <2>2. task[m] = "none"
    BY <1>1, <2>1 DEF QueueInv, Membership
  <2>3. \A k \in Nodes : Live(k) => isProcessing /\ currentTask = k /\ currentNode = k
    BY <1>1, <2>1 DEF TurnInv, OneTurn, QueueInv, Membership, Live
  <2>4. CASE isProcessing
    <3>1. UNCHANGED <<isProcessing, currentNode, currentTask, task>>
      BY <2>1, <2>4 DEF EnqueueAndStart
    <3> QED
      BY <1>1, <1>2, <2>3, <3>1 DEF TurnInv, OneTurn, AtMostOne, Live
  <2>5. CASE ~isProcessing
    <3>1. /\ isProcessing' = TRUE /\ currentNode' = m /\ currentTask' = m
          /\ task' = [task EXCEPT ![m] = "created"]
      BY <2>1, <2>5 DEF EnqueueAndStart, Spawn
    <3>2. \A k \in Nodes : ~Live(k)
      BY <2>3, <2>5
    <3>3. \A k \in Nodes \ {m} : ~Live(k)'
      BY <1>1, <3>1, <3>2 DEF Live, TypeOK
    <3> QED
      BY <1>2, <3>1, <3>3 DEF TurnInv, OneTurn, AtMostOne
  <2> QED
    BY <2>4, <2>5
<1>5. ASSUME NEW m \in Nodes, (\E r \in Nodes : Receive(m, r)) \/ AttachFails(m)
      PROVE  TurnInv'
  BY <1>3, <1>5 DEF Receive, AttachFails, Live
<1>6. ASSUME NEW n \in Nodes, Skip(n) \/ Finish(n) PROVE TurnInv'
  <2>1. Live(n) /\ task[n] # "none" /\ ProcessNext(n) /\ UNCHANGED inRepo
    BY <1>6 DEF Skip, Finish, Live, Phases
  <2>2. \A k \in Nodes : k # n => ~Live(k)
    BY <1>1, <2>1 DEF AtMostOne
  <2>3. \A k \in Nodes : \/ k # n /\ task'[k] = task[k]
                         \/ k = n /\ task'[k] = "done"
                         \/ /\ task[k] = "none" /\ task'[k] = "created"
                            /\ queue # <<>> /\ k = Head(queue)
                            /\ currentNode' = k /\ currentTask' = k /\ isProcessing' = TRUE
    BY <1>1, <2>1, ProcessNextTasks
  <2>4. ASSUME NEW k \in Nodes, Live(k)'
        PROVE  k = Head(queue) /\ currentNode' = k /\ currentTask' = k /\ isProcessing' = TRUE
    BY <2>2, <2>3, <2>4 DEF Live
  <2> QED
    BY <1>2, <2>4 DEF TurnInv, OneTurn, AtMostOne
<1>7. ASSUME NEW n \in Nodes,
             \/ Start(n) \/ SessionInfo(n) \/ ErrorEvent(n) \/ ExitOk(n)
             \/ ExitFail(n) \/ Exception(n) \/ Unwind(n)
      PROVE  TurnInv'
  <2>1. Live(n) /\ UNCHANGED <<turn, inRepo>> /\ \A k \in Nodes \ {n} : task'[k] = task[k]
    BY <1>1, <1>7 DEF Start, SessionInfo, ErrorEvent, ExitOk, ExitFail, Exception, Unwind,
                      Live, Phases, TypeOK
  <2>2. \A k \in Nodes : Live(k)' => Live(k)
    BY <2>1 DEF Live
  <2> QED
    BY <1>3, <2>1, <2>2
<1>8. ASSUME task' = task \/ task' = CancelCurrentTask
      PROVE  \A k \in Nodes : Live(k)' => Live(k)
  BY <1>1, <1>8, CancelFacts DEF Live, Phases
<1>9. ASSUME NEW n \in Nodes, Stop(n) \/ ClearBranchBegin(n) PROVE TurnInv'
  <2>1. inRepo /\ UNCHANGED <<isProcessing, currentNode, currentTask, inRepo>>
        /\ (task' = task \/ task' = CancelCurrentTask)
    BY <1>9 DEF Stop, ClearBranchBegin, Registered
  <2> QED
    BY <1>3, <1>8, <2>1
<1>10. ASSUME NEW b \in Nodes, ClearBranchEnd(b) PROVE TurnInv'
  <2>1. task' = task \/ task' = CancelCurrentTask
    BY <1>10 DEF ClearBranchEnd, CancelTree
  <2>2. \/ UNCHANGED <<turn, inRepo>>
        \/ ~inRepo' /\ queue' = <<>>
    BY <1>10 DEF ClearBranchEnd, CancelTree
  <2> QED
    BY <1>3, <1>8, <2>1, <2>2
<1>11. ~StopAll /\ ~ClearAllBegin /\ ~ClearAllEnd
  BY DEF StopAll, ClearAllBegin, ClearAllEnd, MayCommand, NoGlobalCommand, TurnInv
<1>12. CASE UNCHANGED vars
  BY <1>3, <1>12 DEF vars, Live
<1> QED
  BY <1>4, <1>5, <1>6, <1>7, <1>9, <1>10, <1>11, <1>12 DEF Next, Arrival, Command, TaskStep

LEMMA TurnInvCorrect ==
    ASSUME NoGlobalCommand PROVE Spec => [](TreeInv /\ TurnInv)
<1>1. Init => TreeInv /\ TurnInv
  BY InitInv, InitTurnInv
<1>2. TreeInv /\ TurnInv /\ [Next]_vars => (TreeInv /\ TurnInv)'
  BY NextInv, NextTurnInv
<1> QED
  BY <1>1, <1>2, PTL DEF Spec

\* "Each tree processes one node at a time."
THEOREM OneNodeAtATime == ASSUME NoGlobalCommand PROVE Spec => []AtMostOne
<1>1. TreeInv /\ TurnInv => AtMostOne
  BY DEF TurnInv, OneTurn
<1> QED
  BY <1>1, TurnInvCorrect, PTL

\* A reply runs only once the turn of its parent is over.
THEOREM ParentFirst == ASSUME NoGlobalCommand PROVE Spec => []ParentBeforeChild
<1>1. ASSUME TreeInv, TurnInv, NEW n \in Nodes \ {Root}, Live(n)
      PROVE  ~Live(parent[n]) /\ ~Queued(parent[n])
  <2>1. TypeOK /\ task[n] # "none"
    BY <1>1 DEF TreeInv, Live
  <2>2. n \in received \ {Root}
    BY <1>1, <2>1 DEF TreeInv, Membership
  <2>3. parent[n] \in Nodes /\ parent[n] # n /\ (Queued(parent[n]) => parent[n] \in ahead[n])
    BY <1>1, <2>1, <2>2 DEF TreeInv, ParentOrder, TypeOK
  <2>4. ~Live(parent[n])
    BY <1>1, <2>3 DEF TurnInv, OneTurn, AtMostOne
  <2>5. ~Queued(parent[n])
    BY <1>1, <2>1, <2>3 DEF TreeInv, FifoOrder
  <2> QED
    BY <2>4, <2>5
<1>2. TreeInv /\ TurnInv => ParentBeforeChild
  BY <1>1 DEF ParentBeforeChild
<1> QED
  BY <1>2, TurnInvCorrect, PTL

\* One turn at a time, and a reply's after its parent's.
THEOREM TurnsTaken == ASSUME NoGlobalCommand PROVE Spec => []OneTurnAtATime
<1>1. AtMostOne /\ ParentBeforeChild => OneTurnAtATime
  BY DEF OneTurnAtATime
<1> QED
  BY <1>1, OneNodeAtATime, ParentFirst, PTL

\* cancel_node leaves no CLI of its node running.
LEMMA StopCancels ==
    ASSUME TreeInv, TurnInv, NEW n \in Nodes, Stop(n)
    PROVE  task'[n] \notin {"created", "running"}
<1>1. TypeOK /\ inRepo /\ task' = IF n = currentNode THEN CancelCurrentTask ELSE task
  BY DEF TreeInv, Stop, Registered
<1>2. task[n] \in {"created", "running"} => currentNode = n /\ currentTask = n
  BY <1>1 DEF TurnInv, OneTurn, Live, Phases
<1>3. CASE n = currentNode
  BY <1>1, <1>2, <1>3, CancelFacts
<1>4. CASE n # currentNode
  BY <1>1, <1>2, <1>4
<1> QED
  BY <1>3, <1>4

\* Only an error event of its own leaves a node in error with its CLI running.
LEMMA OnlyErrorsDeafen ==
    ASSUME NoGlobalCommand, TreeInv, TurnInv, Next, NEW n \in Nodes, Deafens(n)
    PROVE  ErrorEvent(n)
<1> USE DEF repo, turn, running
<1>1. /\ TypeOK /\ task[n] = "running" /\ task'[n] = "running"
      /\ ~Terminal(n) /\ Terminal(n)'
  BY DEF TreeInv, Deafens
<1>2. /\ \A m \in Nodes \ {n} : ~Live(m)
      /\ inRepo => currentTask = n /\ currentNode = n
  BY <1>1 DEF TurnInv, OneTurn, AtMostOne, Live, Phases
<1>3. /\ state' # state
      /\ \A S \in SUBSET Nodes : state' = SetState(S, "error") => n \in S
  BY <1>1, SetStateFacts DEF Terminal, TypeOK, States, SetState
<1>4. inRepo => task' # CancelCurrentTask
  BY <1>1, <1>2, CancelFacts
<1>5. ASSUME NEW m \in Nodes, TaskStep(m) PROVE ErrorEvent(n)
  <2>1. m = n
    BY <1>2, <1>5 DEF TaskStep, Skip, Start, SessionInfo, ErrorEvent, ExitOk, ExitFail,
                      Exception, Unwind, Finish, Live, Phases
  <2>2. ~Start(n) /\ ~Skip(n) /\ ~Unwind(n) /\ ~Finish(n)
    BY <1>1 DEF Skip, Start, Unwind, Finish
  <2>3. ~ExitOk(n) /\ ~ExitFail(n) /\ ~Exception(n)
    BY <1>1 DEF ExitOk, ExitFail, Exception, TypeOK
  <2>4. ~SessionInfo(n)
    <3> SUFFICES ASSUME SessionInfo(n) PROVE FALSE
      OBVIOUS
    <3>1. state' = SetState({n}, "in_progress")
      BY <1>3 DEF SessionInfo
    <3> QED
      BY <1>1, <3>1 DEF SetState, Terminal
  <2> QED
    BY <1>5, <2>1, <2>2, <2>3, <2>4 DEF TaskStep
<1>6. ASSUME NEW m \in Nodes, Stop(m) PROVE FALSE
  <2>1. m = n /\ inRepo
    BY <1>3, <1>6 DEF Stop, Registered
  <2> QED
    BY <1>1, <1>6, <2>1, StopCancels
<1>7. ASSUME NEW b \in Nodes, ClearBranchBegin(b) PROVE FALSE
  <2> DEFINE cancelled == {m \in Descendants(b) : ~Terminal(m)}
  <2>1. /\ inRepo /\ state' = SetState(cancelled, "error")
        /\ task' = IF currentNode \in cancelled THEN CancelCurrentTask ELSE task
    BY <1>7 DEF ClearBranchBegin, Registered
  <2>2. cancelled \subseteq Nodes
    BY <1>1 DEF Descendants, Reach, TypeOK
  <2> HIDE DEF cancelled
  <2> QED
    BY <1>2, <1>3, <1>4, <2>1, <2>2
<1>8. ASSUME NEW b \in Nodes, ClearBranchEnd(b) PROVE FALSE
  BY <1>3, <1>4, <1>8 DEF ClearBranchEnd, CancelTree, Registered
<1>9. ~StopAll /\ ~ClearAllBegin /\ ~ClearAllEnd
  BY DEF StopAll, ClearAllBegin, ClearAllEnd, MayCommand, NoGlobalCommand, TurnInv
<1>10. ~Arrival
  BY <1>3 DEF Arrival, CreateTree, Receive, Attach, AttachFails
<1> QED
  BY <1>5, <1>6, <1>7, <1>8, <1>9, <1>10 DEF Next, Command

\* /stop reaches the CLI of the node it names, and nothing but an error event of
\* a CLI leaves it running in a node that /stop passes over.
THEOREM StopIsHeard == ASSUME NoGlobalCommand PROVE Spec => StopReachesCli
<1>1. TreeInv /\ TurnInv /\ [Next]_vars =>
        [\A n \in Nodes : /\ Stop(n) => task'[n] \notin {"created", "running"}
                          /\ Deafens(n) => ErrorEvent(n)]_vars
  BY StopCancels, OnlyErrorsDeafen
<1> QED
  BY <1>1, TurnInvCorrect, PTL DEF Spec, StopReachesCli

-----------------------------------------------------------------------------
(* What holds while /stop is the only command, and never an early one.     *)

StopOnly == Commands \subseteq {"stop"} /\ ~EarlyCommands

LEMMA InitAwake == Init => Awake
  BY DEF Init, Awake, Queued, InQueue

LEMMA ProcessNextAwake ==
    ASSUME TypeOK, QueueInv, Awake, NEW n \in Nodes, task[n] # "none", ProcessNext(n),
           UNCHANGED <<nodes, clearing>>
    PROVE  Awake'
<1>1. CASE queue = <<>>
  BY <1>1 DEF ProcessNext, Awake, Queued, InQueue
<1>2. CASE queue # <<>>
  <2>1. queue \in Seq(Nodes)
    BY DEF TypeOK
  <2>2. /\ Head(queue) \in Nodes /\ InQueue(queue, Head(queue))
        /\ \A x : InQueue(Tail(queue), x) => InQueue(queue, x)
    BY <1>2, <2>1, TailFacts
  <2>3. Head(queue) \in nodes
    BY <2>2 DEF Awake, Queued
  <2>4. /\ queue' = Tail(queue) /\ currentNode' = Head(queue)
        /\ task' = Spawn([task EXCEPT ![n] = "done"], Head(queue))
    BY <1>2, <2>3 DEF ProcessNext
  <2>5. task'[Head(queue)] = "created"
    BY <2>2, <2>4 DEF Spawn, TypeOK
  <2>6. Live(currentNode)'
    BY <2>4, <2>5 DEF Live, Phases
  <2>7. \A k \in Nodes : Queued(k)' => k \in nodes'
    BY <2>2, <2>4 DEF Awake, Queued
  <2> QED
    BY <2>3, <2>4, <2>6, <2>7 DEF Awake
<1> QED
  BY <1>1, <1>2

LEMMA EnqueueAwake ==
    ASSUME TypeOK, QueueInv, Awake, NEW n \in Nodes, n \notin received \ arriving,
           EnqueueAndStart(n), n \in nodes', nodes \subseteq nodes', UNCHANGED clearing
    PROVE  Awake'
<1>1. ~InQueue(queue, n) /\ task[n] = "none"
  BY DEF QueueInv, Membership, Queued
<1>2. \A x \in Nodes : InQueue(queue', x) => InQueue(queue, x) \/ x = n
  BY <1>1, EnqueueFacts DEF QueueInv, Membership
<1>3. CASE isProcessing
  <2>1. UNCHANGED <<isProcessing, currentNode, task>>
    BY <1>3 DEF EnqueueAndStart
  <2> QED
    BY <1>2, <2>1 DEF Awake, Queued, Live
<1>4. CASE ~isProcessing
  <2>1. currentNode' = n /\ task' = [task EXCEPT ![n] = "created"]
    BY <1>4 DEF EnqueueAndStart, Spawn
  <2>2. Live(n)'
    BY <2>1 DEF TypeOK, Live, Phases
  <2> QED
    BY <1>2, <2>1, <2>2 DEF Awake, Queued, Live
<1> QED
  BY <1>3, <1>4

LEMMA NextAwake ==
    ASSUME StopOnly, TreeInv, TurnInv, Awake, [Next]_vars
    PROVE  Awake'
<1> USE DEF intake, repo, turn, running, clears
<1>1. TypeOK /\ QueueInv
  BY DEF TreeInv, QueueInv
<1>2. ~StopAll /\ ~ClearAllBegin /\ ~ClearAllEnd
      /\ \A b \in Nodes : ~ClearBranchBegin(b) /\ ~ClearBranchEnd(b)
  BY DEF StopAll, ClearAllBegin, ClearAllEnd, ClearBranchBegin, ClearBranchEnd, MayCommand,
     StopOnly, TurnInv, Awake
<1>3. CASE CreateTree
  <2>1. nodes = {}
    BY <1>1, <1>3 DEF CreateTree, TypeOK, TurnInv, QueueInv, Membership
  <2> QED
    BY <1>1, <1>3, <2>1, EnqueueAwake, TreeQueueAssumption DEF CreateTree
<1>4. ASSUME NEW m \in Nodes, Attach(m) PROVE Awake'
  BY <1>1, <1>4, EnqueueAwake DEF Attach
<1>5. ASSUME NEW m \in Nodes, (\E r \in Nodes : Receive(m, r)) \/ AttachFails(m)
      PROVE  Awake'
  BY <1>5 DEF Receive, AttachFails, Awake, Queued, Live
<1>6. ASSUME NEW n \in Nodes, Skip(n) \/ Finish(n) PROVE Awake'
  BY <1>1, <1>6, ProcessNextAwake DEF Skip, Finish
<1>7. ASSUME NEW n \in Nodes,
             \/ Start(n) \/ SessionInfo(n) \/ ErrorEvent(n) \/ ExitOk(n)
             \/ ExitFail(n) \/ Exception(n) \/ Unwind(n)
      PROVE  Awake'
  <2>1. /\ UNCHANGED <<turn, nodes, clearing>>
        /\ task'[n] \in Phases \ {"none", "done"}
        /\ \A k \in Nodes \ {n} : task'[k] = task[k]
    BY <1>1, <1>7 DEF Start, SessionInfo, ErrorEvent, ExitOk, ExitFail, Exception, Unwind,
                      Phases, TypeOK
  <2>2. \A k \in Nodes : Live(k) => Live(k)'
    BY <2>1 DEF Live
  <2>3. nodes \subseteq Nodes
    BY <1>1 DEF TypeOK
  <2> QED
    BY <2>1, <2>2, <2>3 DEF Awake, Queued
<1>8. ASSUME NEW n \in Nodes, Stop(n) PROVE Awake'
  <2>1. /\ UNCHANGED <<isProcessing, currentNode, nodes, clearing>>
        /\ task' = task \/ task' = CancelCurrentTask
        /\ queue' = Without(queue, {n})
        /\ \A k \in Nodes : task[k] # "created"
    BY <1>8 DEF Stop, MayCommand, Settled, StopOnly
  <2>2. \A k \in Nodes : Live(k) => Live(k)'
    BY <1>1, <2>1, CancelFacts DEF Live, Phases
  <2>3. \A k \in Nodes : Queued(k)' => Queued(k)
    BY <1>1, <2>1, WithoutFacts DEF Queued, TypeOK
  <2>4. nodes \subseteq Nodes
    BY <1>1 DEF TypeOK
  <2> QED
    BY <2>1, <2>2, <2>3, <2>4 DEF Awake
<1>9. CASE UNCHANGED vars
  BY <1>9 DEF vars, Awake, Queued, Live
<1> QED
  BY <1>2, <1>3, <1>4, <1>5, <1>6, <1>7, <1>8, <1>9 DEF Next, Arrival, Command, TaskStep

\* A busy tree always has a task that will take the next node.
THEOREM NeverStuckBusy == ASSUME StopOnly PROVE Spec => []NoLostWakeup
<1>1. NoGlobalCommand
  BY DEF StopOnly, NoGlobalCommand
<1>2. Init => Awake
  BY InitAwake
<1>3. TreeInv /\ TurnInv /\ Awake /\ [Next]_vars => Awake'
  BY NextAwake
<1>4. TypeOK /\ Awake => NoLostWakeup
  BY DEF TypeOK, Awake, NoLostWakeup
<1>5. TreeInv => TypeOK
  BY DEF TreeInv
<1>6. Spec => [](TreeInv /\ TurnInv)
  BY <1>1, TurnInvCorrect
<1> QED
  BY <1>2, <1>3, <1>4, <1>5, <1>6, PTL DEF Spec

-----------------------------------------------------------------------------
(* The tree is a server of its turns.                                      *)

\* A set that holds 0, and each number up to n whose predecessor it holds, holds n.
LEMMA UpTo ==
    ASSUME NEW n \in Nat, NEW S, 0 \in S, \A i \in 1..n : i - 1 \in S => i \in S
    PROVE  n \in S
<1> DEFINE Bad == {i \in 0..n : i \notin S}
<1>1. ASSUME Bad # {} PROVE FALSE
  <2>1. Bad \subseteq Nat
    OBVIOUS
  <2>2. PICK x \in Bad : \A y \in Bad : ~(y < x)
    <3> HIDE DEF Bad
    <3> QED
      BY <1>1, <2>1, NatMin
  <2>3. x \in 1..n /\ x - 1 \in 0..n /\ x - 1 < x
    BY <2>2
  <2> QED
    BY <2>2, <2>3
<1> QED
  BY <1>1

\* Without() is built one id after the other.
LEMMA WithoutSteps ==
    ASSUME NEW T, NEW q \in Seq(T), NEW S
    PROVE  \E f : Without(q, S) = f[Len(q)] /\ \A i \in 0..Len(q) : f[i] = KeptStep(q, S, f, i)
<1> DEFINE f == CHOOSE f : f = [i \in 0..Len(q) |-> KeptStep(q, S, f, i)]
<1>1. f = [i \in 0..Len(q) |-> KeptStep(q, S, f, i)]
  BY KeptExists, Zenon
<1>2. Without(q, S) = f[Len(q)]
  BY Zenon DEF Without, KeptStep
<1>3. \A i \in 0..Len(q) : f[i] = KeptStep(q, S, f, i)
  BY <1>1
<1> HIDE DEF f
<1> QED
  BY <1>2, <1>3

\* An id that is not there leaves nothing to take out.
LEMMA WithoutNone ==
    ASSUME NEW T, NEW q \in Seq(T), NEW x, ~InQueue(q, x)
    PROVE  Without(q, {x}) = q
<1>1. PICK f : Without(q, {x}) = f[Len(q)] /\ \A i \in 0..Len(q) : f[i] = KeptStep(q, {x}, f, i)
  BY WithoutSteps
<1>2. Len(q) \in Nat /\ DOMAIN q = 1..Len(q) /\ \A i \in 1..Len(q) : q[i] # x
  BY DEF InQueue
<1> DEFINE S == {i \in 0..Len(q) : f[i] \in Seq(T) /\ Len(f[i]) = i /\ \A j \in 1..i : f[i][j] = q[j]}
<1>3. 0 \in S
  <2>1. f[0] = <<>> /\ 0 \in 0..Len(q)
    BY <1>1, <1>2 DEF KeptStep
  <2>2. f[0] \in Seq(T) /\ Len(f[0]) = 0
    BY <2>1
  <2>3. \A j \in 1..0 : f[0][j] = q[j]
    OBVIOUS
  <2> QED
    BY <2>1, <2>2, <2>3
<1>4. ASSUME NEW i \in 1..Len(q), i - 1 \in S PROVE i \in S
  <2>1. f[i] = Append(f[i - 1], q[i]) /\ q[i] \in T
    <3>1. i \in 0..Len(q) /\ i # 0 /\ q[i] \notin {x}
      BY <1>2
    <3>2. q[i] \in T
      BY <1>2
    <3> QED
      BY <1>1, <3>1, <3>2 DEF KeptStep
  <2>2. /\ Append(f[i - 1], q[i]) \in Seq(T) /\ Len(Append(f[i - 1], q[i])) = i
        /\ Append(f[i - 1], q[i])[i] = q[i]
        /\ \A j \in 1..(i - 1) : Append(f[i - 1], q[i])[j] = q[j]
    BY <1>4, <2>1
  <2>3. \A j \in 1..i : j = i \/ j \in 1..(i - 1)
    BY <1>2
  <2>4. f[i - 1] \in Seq(T) /\ \A j \in 1..(i - 1) : f[i - 1][j] = q[j]
    BY <1>4
  <2>5. \A j \in 1..i : f[i][j] = q[j]
    BY <2>1, <2>2, <2>3
  <2>6. f[i] \in Seq(T) /\ Len(f[i]) = i /\ i \in 0..Len(q)
    BY <1>2, <2>1, <2>2
  <2> QED
    BY <2>5, <2>6
<1>5. Len(q) \in S
  <2> HIDE DEF S
  <2> QED
    BY <1>2, <1>3, <1>4, UpTo
<1> DEFINE w == f[Len(q)]
<1>6. w \in Seq(T) /\ Len(w) = Len(q) /\ \A j \in 1..Len(q) : w[j] = q[j]
  BY <1>5
<1> HIDE DEF w
<1>7. w = q
  BY <1>6
<1> QED
  BY <1>1, <1>7 DEF w

\* What is left when the id at i is taken out of a queue that has none twice.
LEMMA WithoutAt ==
    ASSUME NEW T, NEW q \in Seq(T), NoRepeats(q), NEW i \in DOMAIN q
    PROVE  Without(q, {q[i]}) = SubSeq(q, 1, i - 1) \o SubSeq(q, i + 1, Len(q))
<1>1. PICK f : Without(q, {q[i]}) = f[Len(q)] /\ \A k \in 0..Len(q) : f[k] = KeptStep(q, {q[i]}, f, k)
  BY WithoutSteps
<1>2. Len(q) \in Nat /\ DOMAIN q = 1..Len(q) /\ i \in 1..Len(q) /\ \A k \in 1..Len(q) : q[k] = q[i] => k = i
  BY DEF NoRepeats
<1> DEFINE Size(k) == IF k < i THEN k ELSE k - 1
           Src(j) == IF j < i THEN j ELSE j + 1
           Good(k) == f[k] \in Seq(T) /\ Len(f[k]) = Size(k) /\ \A j \in 1..Size(k) : f[k][j] = q[Src(j)]
           S == {k \in 0..Len(q) : Good(k)}
<1>3. 0 \in S
  <2>1. f[0] = <<>>
    BY <1>1, <1>2 DEF KeptStep
  <2>2. Size(0) = 0
    BY <1>2
  <2>3. f[0] \in Seq(T) /\ Len(f[0]) = Size(0)
    BY <2>1, <2>2
  <2>4. \A j \in 1..Size(0) : f[0][j] = q[Src(j)]
    BY <2>2
  <2>5. 0 \in 0..Len(q)
    BY <1>2
  <2> HIDE DEF Size, Src
  <2> QED
    BY <2>3, <2>4, <2>5
<1>4. ASSUME NEW k \in 1..Len(q), k - 1 \in S PROVE k \in S
  <2>0. Good(k - 1) /\ k \in 0..Len(q)
    BY <1>2, <1>4
  <2>1. CASE k = i
    <3>1. f[k] = f[k - 1]
      BY <1>1, <1>2, <2>1 DEF KeptStep
    <3>2. Size(k) = Size(k - 1)
      BY <1>2, <2>1
    <3>3. Good(k)
      BY <2>0, <3>1, <3>2
    <3> HIDE DEF Good
    <3> QED
      BY <2>0, <3>3
  <2>2. CASE k # i
    <3>1. f[k] = Append(f[k - 1], q[k]) /\ q[k] \in T
      <4>1. k \in 0..Len(q) /\ k # 0 /\ q[k] \notin {q[i]}
        BY <1>2, <2>2
      <4>2. q[k] \in T
        BY <1>2
      <4> QED
        BY <1>1, <4>1, <4>2 DEF KeptStep
    <3>2. Size(k) = Size(k - 1) + 1 /\ Size(k - 1) \in Nat /\ Src(Size(k)) = k
      BY <1>2, <2>2
    <3>3. f[k - 1] \in Seq(T) /\ Len(f[k - 1]) = Size(k - 1) /\ \A j \in 1..Size(k - 1) : f[k - 1][j] = q[Src(j)]
      BY <2>0
    <3>4. f[k] \in Seq(T) /\ Len(f[k]) = Size(k) /\ \A j \in 1..Size(k) : f[k][j] = q[Src(j)]
      <4> HIDE DEF Size, Src
      <4>1. /\ Append(f[k - 1], q[k]) \in Seq(T) /\ Len(Append(f[k - 1], q[k])) = Size(k)
            /\ Append(f[k - 1], q[k])[Size(k)] = q[k]
            /\ \A j \in 1..Size(k - 1) : Append(f[k - 1], q[k])[j] = f[k - 1][j]
        BY <3>1, <3>2, <3>3
      <4>2. \A j \in 1..Size(k) : j = Size(k) \/ j \in 1..Size(k - 1)
        BY <3>2
      <4> QED
        BY <3>1, <3>2, <3>3, <4>1, <4>2
    <3>5. Good(k)
      BY <3>4
    <3> HIDE DEF Good
    <3> QED
      BY <2>0, <3>5
  <2> QED
    BY <2>1, <2>2
<1>5. Len(q) \in S
  <2> HIDE DEF S
  <2> QED
    BY <1>2, <1>3, <1>4, UpTo
<1> DEFINE w == f[Len(q)]
           a == SubSeq(q, 1, i - 1)
           b == SubSeq(q, i + 1, Len(q))
           c == a \o b
           m == Len(q) - 1
<1>6. w \in Seq(T) /\ Len(w) = m /\ \A j \in 1..m : w[j] = q[Src(j)]
  <2>1. Size(Len(q)) = m
    <3>1. ~(Len(q) < i)
      BY <1>2
    <3> QED
      BY <3>1
  <2>2. Good(Len(q))
    <3> HIDE DEF Good
    <3> QED
      BY <1>5
  <2> HIDE DEF Size, Src, m
  <2> QED
    BY <2>1, <2>2
<1>7. /\ a \in Seq(T) /\ Len(a) = i - 1 /\ \A j \in 1..(i - 1) : a[j] = q[j]
      /\ b \in Seq(T) /\ Len(b) = Len(q) - i /\ \A j \in 1..(Len(q) - i) : b[j] = q[i + j]
  BY <1>2
<1> HIDE DEF w, a, b
<1>8. c \in Seq(T) /\ Len(c) = m /\ \A j \in 1..m : c[j] = IF j < i THEN a[j] ELSE b[j - (i - 1)]
  <2>1. /\ c \in Seq(T) /\ Len(c) = Len(a) + Len(b)
        /\ \A j \in 1..(Len(a) + Len(b)) : c[j] = IF j <= Len(a) THEN a[j] ELSE b[j - Len(a)]
    BY <1>7
  <2>2. Len(a) + Len(b) = m /\ \A j \in 1..m : j <= Len(a) <=> j < i
    BY <1>2, <1>7
  <2> HIDE DEF c, m
  <2>3. \A j \in 1..m : c[j] = IF j < i THEN a[j] ELSE b[j - Len(a)]
    BY <2>1, <2>2
  <2> QED
    BY <1>7, <2>1, <2>2, <2>3
<1>9. \A j \in 1..m : c[j] = q[Src(j)]
  <2> SUFFICES ASSUME NEW j \in 1..m PROVE c[j] = q[Src(j)]
    OBVIOUS
  <2> HIDE DEF c
  <2>1. CASE j < i
    <3>1. j \in 1..(i - 1)
      BY <1>2, <2>1
    <3> QED
      BY <1>7, <1>8, <2>1, <3>1
  <2>2. CASE ~(j < i)
    <3>1. j - (i - 1) \in 1..(Len(q) - i) /\ i + (j - (i - 1)) = j + 1
      BY <1>2, <2>2
    <3> QED
      BY <1>7, <1>8, <2>2, <3>1
  <2> QED
    BY <2>1, <2>2
<1> HIDE DEF c, Src, m
<1>10. w = c
  BY <1>6, <1>8, <1>9
<1> QED
  BY <1>1, <1>10 DEF w, c, a, b

\* With /stop as the only command the tree stays in the repository from its first
\* message on.
Rooted == inRepo \/ received = {}

\* Nor does a step take it out.
LEMMA NextRooted ==
    ASSUME StopOnly, TreeInv, TurnInv, Awake, Rooted, [Next]_vars
    PROVE  Rooted'
<1> USE DEF intake, repo, turn, running, clears
<1>1. CASE CreateTree
  BY <1>1 DEF CreateTree, Rooted
<1>2. ASSUME NEW m \in Nodes, (\E r \in Nodes : Receive(m, r)) PROVE Rooted'
  BY <1>2 DEF Receive, Registered, Rooted
<1>3. ~StopAll /\ ~ClearAllBegin /\ ~ClearAllEnd
      /\ \A b \in Nodes : ~ClearBranchBegin(b) /\ ~ClearBranchEnd(b)
  BY DEF StopAll, ClearAllBegin, ClearAllEnd, ClearBranchBegin, ClearBranchEnd, MayCommand,
     StopOnly, TurnInv, Awake
<1>4. CASE UNCHANGED vars \/ \E m \in Nodes : Attach(m) \/ AttachFails(m) \/ TaskStep(m) \/ Stop(m)
  BY <1>4 DEF vars, Attach, AttachFails, TaskStep, Stop, Skip, Start, SessionInfo, ErrorEvent, ExitOk,
     ExitFail, Exception, Unwind, Finish, Rooted
<1> QED
  BY <1>1, <1>2, <1>3, <1>4 DEF Next, Arrival, Command

\* Whose turn it is: Active names the live node, or no node when there is none.
ActiveRight ==
    /\ \A n \in Nodes : Live(n) => Active = n
    /\ (\A n \in Nodes : ~Live(n)) => Active = None

\* There is one such turn at most, and Active is it.
LEMMA ActiveIs == AtMostOne => ActiveRight
<1> SUFFICES ASSUME AtMostOne PROVE ActiveRight
  OBVIOUS
<1>1. ASSUME NEW n \in Nodes, Live(n) PROVE Active = n
  <2>1. (CHOOSE k \in Nodes : Live(k)) \in Nodes /\ Live(CHOOSE k \in Nodes : Live(k))
    BY <1>1, Zenon
  <2> QED
    BY <1>1, <2>1 DEF Active, AtMostOne
<1>2. ASSUME \A n \in Nodes : ~Live(n) PROVE Active = None
  BY <1>2 DEF Active
<1> QED
  BY <1>1, <1>2 DEF ActiveRight

\* The busy node of a tree is the live one, and there is one while it is busy.
LEMMA BusyIsLive ==
    ASSUME TypeOK, QueueInv, TurnInv, Awake, Rooted
    PROVE  /\ \A n \in Nodes : Live(n) => isProcessing /\ currentNode = n /\ n \in nodes
           /\ isProcessing => currentNode \in Nodes /\ Live(currentNode)
<1>1. ASSUME NEW n \in Nodes, Live(n) PROVE isProcessing /\ currentNode = n /\ n \in nodes
  <2>1. n \in received
    BY <1>1 DEF QueueInv, Membership, Live
  <2> QED
    BY <1>1, <2>1 DEF Rooted, TurnInv, OneTurn, Awake
<1> QED
  BY <1>1 DEF Awake, TypeOK

\* What is behind the head of a queue, and the head, are what it holds.
LEMMA TailHolds ==
    ASSUME NEW T, NEW q \in Seq(T), q # <<>>
    PROVE  \A x : InQueue(q, x) <=> InQueue(Tail(q), x) \/ x = Head(q)
<1>1. /\ Len(q) \in Nat /\ Len(q) > 0 /\ DOMAIN q = 1..Len(q) /\ DOMAIN Tail(q) = 1..(Len(q) - 1)
      /\ \A i \in 1..(Len(q) - 1) : Tail(q)[i] = q[i + 1]
      /\ Head(q) = q[1] /\ 1 \in 1..Len(q)
  OBVIOUS
<1>2. /\ \A i \in 1..(Len(q) - 1) : i + 1 \in 1..Len(q)
      /\ \A i \in 1..Len(q) : i = 1 \/ (i - 1 \in 1..(Len(q) - 1) /\ (i - 1) + 1 = i)
  BY <1>1
<1>3. ASSUME NEW x, InQueue(q, x), x # Head(q) PROVE InQueue(Tail(q), x)
  <2>1. PICK i \in 1..Len(q) : q[i] = x
    BY <1>1, <1>3 DEF InQueue
  <2>2. i - 1 \in 1..(Len(q) - 1) /\ Tail(q)[i - 1] = x
    BY <1>1, <1>2, <1>3, <2>1
  <2> QED
    BY <1>1, <2>2 DEF InQueue
<1>4. ASSUME NEW x, InQueue(Tail(q), x) PROVE InQueue(q, x)
  BY <1>1, <1>2, <1>4 DEF InQueue
<1>5. InQueue(q, Head(q))
  BY <1>1 DEF InQueue
<1> QED
  BY <1>3, <1>4, <1>5

\* Steps that leave everyone's turn as it is.
LEMMA SameTurn ==
    ASSUME AtMostOne, AtMostOne', \A k \in Nodes : Live(k)' <=> Live(k)
    PROVE  Active' = Active
<1>0. ActiveRight /\ ActiveRight'
  BY ActiveIs, PTL
<1>1. CASE \E n \in Nodes : Live(n)
  <2>1. PICK n \in Nodes : Live(n)
    BY <1>1
  <2>2. Active = n
    BY <1>0, <2>1 DEF ActiveRight
  <2>3. Active' = n
    BY <1>0, <2>1 DEF ActiveRight
  <2> QED
    BY <2>2, <2>3
<1>2. CASE \A n \in Nodes : ~Live(n)
  BY <1>2 DEF Active
<1> QED
  BY <1>1, <1>2

\* And they leave every turn of the abstract server as it is.
LEMMA NoTurn ==
    ASSUME AtMostOne, AtMostOne', UNCHANGED <<queue, nodes>>,
           nodes \subseteq Nodes, \A k \in Nodes : Live(k)' <=> Live(k)
    PROVE  UNCHANGED Turns!vars
<1>1. Active' = Active
  BY SameTurn
<1>2. Over' = Over
  BY DEF Over, Queued
<1> QED
  BY <1>1, <1>2 DEF Turns!vars

\* A message that joins the tree arrives.
LEMMA EnqueueArrives ==
    ASSUME TypeOK, QueueInv, TurnInv, Awake, Rooted, AtMostOne',
           NEW n \in Nodes, n \notin received \ arriving, EnqueueAndStart(n), nodes' = nodes \cup {n}
    PROVE  Turns!Arrive(n)
<1>1. ~InQueue(queue, n) /\ task[n] = "none" /\ n \notin nodes /\ ~Live(n)
  BY DEF QueueInv, Membership, Queued, Live
<1>2. ActiveRight /\ ActiveRight'
  BY ActiveIs, PTL DEF TurnInv, OneTurn
<1>3. queue \in Seq(Nodes) /\ nodes \subseteq Nodes /\ None \notin Nodes
  BY TreeQueueAssumption DEF TypeOK
<1>4. n \notin Over /\ ~Turns!InLine(n)
  BY <1>1 DEF Over, Turns!InLine, InQueue
<1>5. CASE isProcessing
  <2>1. queue' = Append(queue, n) /\ UNCHANGED <<isProcessing, currentNode, currentTask, task>>
    BY <1>5 DEF EnqueueAndStart
  <2>2. PICK c \in Nodes : Live(c)
    BY <1>5, BusyIsLive
  <2>2a. Live(c)'
    BY <2>1, <2>2 DEF Live
  <2>3. Active = c /\ Active' = c
    BY <1>2, <2>2, <2>2a DEF ActiveRight
  <2>4. n # c /\ c # None
    BY <1>1, <1>3, <2>2
  <2>5. Over' = Over
    <3>1. \A x : InQueue(queue', x) <=> InQueue(queue, x) \/ x = n
      BY <1>3, <2>1, AppendInQueue
    <3>2. \A x \in Nodes : Live(x)' <=> Live(x)
      BY <2>1 DEF Live
    <3> QED
      BY <1>1, <1>3, <3>1, <3>2 DEF Over, Queued
  <2> QED
    BY <1>4, <2>1, <2>3, <2>4, <2>5 DEF Turns!Arrive
<1>6. CASE ~isProcessing
  <2>1. task' = [task EXCEPT ![n] = "created"] /\ UNCHANGED queue
    BY <1>6 DEF EnqueueAndStart, Spawn
  <2>2. task'[n] = "created" /\ \A x \in Nodes \ {n} : task'[x] = task[x]
    BY <2>1 DEF TypeOK
  <2>3. Live(n)' /\ \A x \in Nodes \ {n} : Live(x)' <=> Live(x)
    BY <2>2 DEF Live, Phases
  <2>4. Active = None /\ Active' = n
    BY <1>2, <1>6, <2>3, BusyIsLive DEF ActiveRight
  <2>5. Over' = Over
    BY <1>1, <1>3, <2>1, <2>3 DEF Over, Queued
  <2>6. n # None
    BY <1>3
  <2> QED
    BY <1>4, <2>1, <2>4, <2>5, <2>6 DEF Turns!Arrive
<1> QED
  BY <1>5, <1>6

\* The last step of a task lets the next one have its turn.
LEMMA ProcessNextAdvances ==
    ASSUME TypeOK, QueueInv, TurnInv, Awake, Rooted, AtMostOne',
           NEW n \in Nodes, Live(n), ProcessNext(n), UNCHANGED nodes
    PROVE  Turns!Advance
<1>1. n \in nodes /\ task[n] # "none" /\ ~InQueue(queue, n) /\ \A k \in Nodes : Live(k) => k = n
  BY BusyIsLive DEF QueueInv, Membership, Queued, Live, TurnInv, OneTurn, AtMostOne
<1>2. ActiveRight /\ ActiveRight'
  BY ActiveIs, PTL DEF TurnInv, OneTurn
<1>3. queue \in Seq(Nodes) /\ nodes \subseteq Nodes /\ None \notin Nodes /\ n # None
  BY TreeQueueAssumption DEF TypeOK
<1>4. Active = n
  BY <1>2 DEF ActiveRight
<1>5. CASE queue = <<>>
  <2>1. task' = [task EXCEPT ![n] = "done"] /\ UNCHANGED queue
    BY <1>5 DEF ProcessNext
  <2>2. task'[n] = "done" /\ \A x \in Nodes \ {n} : task'[x] = task[x]
    BY <2>1 DEF TypeOK
  <2>3. \A k \in Nodes : ~Live(k)'
    BY <1>1, <2>2 DEF Live
  <2>4. Active' = None
    BY <1>2, <2>3 DEF ActiveRight
  <2>5. Over' = Over \cup {n}
    BY <1>1, <1>3, <2>1, <2>3 DEF Over, Queued
  <2> QED
    BY <1>3, <1>4, <1>5, <2>1, <2>4, <2>5 DEF Turns!Advance
<1>6. CASE queue # <<>>
  <2>0. PICK h : h = Head(queue)
    OBVIOUS
  <2>1. h \in Nodes /\ InQueue(queue, h)
    BY <1>3, <1>6, <2>0, TailFacts
  <2>2. h \in nodes /\ h # n /\ task[h] = "none"
    BY <1>1, <2>1 DEF Awake, QueueInv, Membership, Queued
  <2>3. queue' = Tail(queue) /\ task' = [[task EXCEPT ![n] = "done"] EXCEPT ![h] = "created"]
    BY <1>6, <2>0, <2>2 DEF ProcessNext, Spawn
  <2>4. task'[n] = "done" /\ task'[h] = "created" /\ \A x \in Nodes \ {n, h} : task'[x] = task[x]
    BY <2>1, <2>2, <2>3 DEF TypeOK
  <2>5. Live(h)' /\ ~Live(n)' /\ \A k \in Nodes \ {n, h} : ~Live(k)' /\ ~Live(k)
    <3>1. Live(h)' /\ ~Live(n)'
      BY <2>4 DEF Live, Phases
    <3>2. \A k \in Nodes \ {n, h} : ~Live(k)
      BY <1>1
    <3> QED
      BY <2>4, <3>1, <3>2 DEF Live
  <2>6. Active' = h
    BY <1>2, <2>1, <2>5 DEF ActiveRight
  <2>7. \A x : InQueue(queue, x) <=> InQueue(queue', x) \/ x = h
    BY <1>3, <1>6, <2>0, <2>3, TailHolds
  <2>8. Over' = Over \cup {n}
    BY <1>1, <1>3, <2>1, <2>2, <2>5, <2>7 DEF Over, Queued
  <2> QED
    BY <1>3, <1>4, <1>6, <2>0, <2>3, <2>6, <2>8 DEF Turns!Advance
<1> QED
  BY <1>5, <1>6

\* /stop of a reply that waits withdraws it; of any other, the turns stay.
LEMMA StopWithdraws ==
    ASSUME StopOnly, TypeOK, QueueInv, TurnInv, Awake, Rooted, AtMostOne', NEW n \in Nodes, Stop(n)
    PROVE  Turns!Withdraw(n) \/ UNCHANGED Turns!vars
<1>1. /\ UNCHANGED nodes /\ n \in nodes /\ queue' = Without(queue, {n})
      /\ task' = task \/ task' = CancelCurrentTask
      /\ \A k \in Nodes : task[k] # "created"
  BY DEF Stop, MayCommand, Settled, StopOnly, Registered, repo
<1>2. queue \in Seq(Nodes) /\ nodes \subseteq Nodes /\ NoRepeats(queue)
  BY DEF TypeOK, QueueInv, Membership
<1>3. \A k \in Nodes : Live(k)' <=> Live(k)
  BY <1>1, CancelFacts DEF Live, Phases
<1>4. AtMostOne
  BY DEF TurnInv, OneTurn
<1>5. CASE ~InQueue(queue, n)
  <2>1. UNCHANGED queue
    BY <1>1, <1>2, <1>5, WithoutNone
  <2> QED
    BY <1>1, <1>2, <1>3, <1>4, <2>1, NoTurn
<1>6. CASE InQueue(queue, n)
  <2>1. PICK i \in DOMAIN queue : queue[i] = n
    BY <1>6 DEF InQueue
  <2>2. queue' = SubSeq(queue, 1, i - 1) \o SubSeq(queue, i + 1, Len(queue))
    BY <1>1, <1>2, <2>1, WithoutAt
  <2>3. UNCHANGED Active
    BY <1>3, <1>4, SameTurn
  <2>4. \A x : InQueue(queue', x) <=> InQueue(queue, x) /\ x # n
    BY <1>1, <1>2, WithoutFacts
  <2>5. ~Live(n)
    BY <1>6 DEF QueueInv, Membership, Queued, Live
  <2>6. Over' = Over \cup {n}
    BY <1>1, <1>2, <1>3, <2>4, <2>5 DEF Over, Queued
  <2> QED
    BY <2>1, <2>2, <2>3, <2>6 DEF Turns!Withdraw
<1> QED
  BY <1>5, <1>6

\* Every step of the tree takes, gives or withdraws a turn, or none.
LEMMA StepTakesTurns ==
    ASSUME StopOnly, TreeInv, TurnInv, Awake, Rooted, [Next]_vars
    PROVE  [Turns!Next]_Turns!vars
<1> USE DEF intake, repo, turn, running, clears
<1>1. TypeOK /\ QueueInv /\ AtMostOne /\ nodes \subseteq Nodes
  BY DEF TreeInv, QueueInv, TurnInv, OneTurn, TypeOK
<1>2. AtMostOne'
  <2>1. NoGlobalCommand
    BY DEF StopOnly, NoGlobalCommand
  <2> QED
    BY <2>1, NextTurnInv DEF TurnInv, OneTurn
<1>3. ~StopAll /\ ~ClearAllBegin /\ ~ClearAllEnd
      /\ \A b \in Nodes : ~ClearBranchBegin(b) /\ ~ClearBranchEnd(b)
  BY DEF StopAll, ClearAllBegin, ClearAllEnd, ClearBranchBegin, ClearBranchEnd, MayCommand,
     StopOnly, TurnInv, Awake
<1>4. CASE CreateTree
  <2>1. nodes = {} /\ Root \in Nodes /\ Root \notin received \ arriving
    BY <1>1, <1>4, TreeQueueAssumption DEF CreateTree, TypeOK, TurnInv, QueueInv, Membership
  <2>2. nodes' = nodes \cup {Root} /\ EnqueueAndStart(Root)
    BY <1>4, <2>1 DEF CreateTree
  <2>3. Turns!Arrive(Root)
    BY <1>1, <1>2, <2>1, <2>2, EnqueueArrives
  <2> QED
    BY <2>1, <2>3 DEF Turns!Next
<1>5. ASSUME NEW m \in Nodes, Attach(m) PROVE [Turns!Next]_Turns!vars
  <2>1. m \notin received \ arriving /\ EnqueueAndStart(m) /\ nodes' = nodes \cup {m}
    BY <1>5 DEF Attach
  <2>2. Turns!Arrive(m)
    BY <1>1, <1>2, <2>1, EnqueueArrives
  <2> QED
    BY <2>2 DEF Turns!Next
<1>6. ASSUME NEW m \in Nodes, (\E r \in Nodes : Receive(m, r)) \/ AttachFails(m)
      PROVE  UNCHANGED Turns!vars
  <2>1. UNCHANGED <<queue, nodes, task>>
    BY <1>6 DEF Receive, AttachFails
  <2>2. \A k \in Nodes : Live(k)' <=> Live(k)
    BY <2>1 DEF Live
  <2> QED
    BY <1>1, <1>2, <2>1, <2>2, NoTurn
<1>7. ASSUME NEW n \in Nodes, Skip(n) \/ Finish(n) PROVE [Turns!Next]_Turns!vars
  <2>1. Live(n) /\ ProcessNext(n) /\ UNCHANGED nodes
    BY <1>7 DEF Skip, Finish, Live, Phases
  <2>2. Turns!Advance
    BY <1>1, <1>2, <2>1, ProcessNextAdvances
  <2> QED
    BY <2>2 DEF Turns!Next
<1>8. ASSUME NEW n \in Nodes,
             \/ Start(n) \/ SessionInfo(n) \/ ErrorEvent(n) \/ ExitOk(n)
             \/ ExitFail(n) \/ Exception(n) \/ Unwind(n)
      PROVE  UNCHANGED Turns!vars
  <2>1. /\ UNCHANGED <<queue, nodes>>
        /\ task[n] \in Phases \ {"none", "done"} /\ task'[n] \in Phases \ {"none", "done"}
        /\ \A k \in Nodes \ {n} : task'[k] = task[k]
    BY <1>1, <1>8 DEF Start, SessionInfo, ErrorEvent, ExitOk, ExitFail, Exception, Unwind,
                      Phases, TypeOK
  <2>2. \A k \in Nodes : Live(k)' <=> Live(k)
    BY <2>1 DEF Live
  <2> QED
    BY <1>1, <1>2, <2>1, <2>2, NoTurn
<1>9. ASSUME NEW n \in Nodes, Stop(n) PROVE [Turns!Next]_Turns!vars
  <2>1. Turns!Withdraw(n) \/ UNCHANGED Turns!vars
    BY <1>1, <1>2, <1>9, StopWithdraws
  <2> QED
    BY <2>1 DEF Turns!Next
<1>10. CASE UNCHANGED vars
  <2>1. UNCHANGED <<queue, nodes, task>>
    BY <1>10 DEF vars
  <2>2. \A k \in Nodes : Live(k)' <=> Live(k)
    BY <2>1 DEF Live
  <2> QED
    BY <1>1, <1>2, <2>1, <2>2, NoTurn
<1> QED
  BY <1>3, <1>4, <1>5, <1>6, <1>7, <1>8, <1>9, <1>10 DEF Next, Arrival, Command, TaskStep

\* While /stop is the only command and comes when every task has taken its first
\* step, a conversation is a server of its turns: one at a time, in the order of
\* arrival, each over once, and the next one follows at once.
THEOREM ServesInTurn == ASSUME StopOnly PROVE Spec => Turns!Spec
<1>1. NoGlobalCommand
  BY DEF StopOnly, NoGlobalCommand
<1>2. Init => Awake /\ Rooted
  BY InitAwake DEF Init, Rooted
<1>3. TreeInv /\ TurnInv /\ Awake /\ Rooted /\ [Next]_vars => Awake' /\ Rooted'
  BY NextAwake, NextRooted
<1>4. Init => Turns!Init
  <2> SUFFICES ASSUME Init PROVE Turns!Init
    OBVIOUS
  <2>1. \A n \in Nodes : ~Live(n)
    BY DEF Init, Live
  <2>2. Active = None
    BY <2>1 DEF Active
  <2>3. queue = <<>> /\ Over = {}
    BY DEF Init, Over
  <2> QED
    BY <2>2, <2>3 DEF Turns!Init
<1>5. TreeInv /\ TurnInv /\ Awake /\ Rooted /\ [Next]_vars => [Turns!Next]_Turns!vars
  BY StepTakesTurns
<1>6. Spec => [](TreeInv /\ TurnInv)
  BY <1>1, TurnInvCorrect
<1> QED
  BY <1>2, <1>3, <1>4, <1>5, <1>6, PTL DEF Spec, Turns!Spec

-----------------------------------------------------------------------------
(* What a turn hears of its client.                                        *)

ItemLines == {"delta", "done"}
EndLines == {"completed", "failed"}
OtherLines == {"session", "thinking", "message"}
LineSet == [type : ItemLines \cup EndLines \cup OtherLines, r : Nat, i : Nat]
SaidSet == [type : ItemLines \cup EndLines \cup OtherLines \cup {"whole", "session_info"}, r : Nat, i : Nat]
SessionLine == Line("session_info", 0, 0)

Scopes == {<<>>} \cup {<<"response", r>> : r \in Nat} \cup {<<"implicit", n>> : n \in Nat}
Keys == {<<"message", s, i>> : s \in Scopes, i \in Nat} \cup {<<"call", r, i>> : r \in Nat, i \in Nat}
ParseSet == [session : BOOLEAN, seen : SUBSET Keys, scope : Scopes, next : Nat, told : Seq(SaidSet)]
ItemRecords == {x \in [type : {"message", "call"}, streamed : BOOLEAN, done : BOOLEAN] : x.streamed => x.type = "message"}
ResponseSet == Seq(Seq(ItemRecords))

Half(e) == [type |-> "half", line |-> e]
Halves == {Newline} \cup {Half(e) : e \in LineSet}

\* How often, and whether, a line is in a sequence.
Count(s, x) == Cardinality({k \in 1..Len(s) : s[k] = x})
Has(s, x) == \E k \in 1..Len(s) : s[k] = x

\* What counts as said of an item; an item and an end of a response that were read;
\* a response that is being read.
HasItem(s, r) == \E k \in 1..Len(s) : s[k].type \in ItemLines /\ s[k].r = r
HasEnd(s, r) == \E k \in 1..Len(s) : s[k].type \in EndLines /\ s[k].r = r
IsOpen(s, r) == HasItem(s, r) /\ ~HasEnd(s, r)
IsTold(st, rd, r, i) == Has(rd, Line("delta", r, i)) \/ Has(st.told, Line("whole", r, i))

EndsIn(w, rs) == \A k \in 1..Len(w) : w[k].type \in EndLines => w[k].r \in 1..Len(rs)
CliTyped ==
    /\ client \in {"claude", "codex"} /\ named \in BOOLEAN /\ cut \in BOOLEAN /\ stderr \in BOOLEAN
    /\ phase \in {"idle", "reading", "exited", "ended", "stopped"}
    /\ wrote \in Seq(LineSet) /\ read \in Seq(LineSet) /\ Len(wrote) <= MaxLines
    /\ responses \in ResponseSet /\ Len(responses) >= 1
    /\ EndsIn(wrote, responses)
    /\ parse.session \in BOOLEAN /\ (phase # "ended" => parse \in ParseSet)

\* The halves of t are those of the lines of w after the first n, each with its
\* newline but perhaps the last one.
Encodes(t, n, w) ==
    /\ t \in Seq(Halves) /\ n \in 0..Len(w) /\ Len(t) \in {3 * (Len(w) - n), 3 * (Len(w) - n) - 1}
    /\ \A k \in 1..(Len(w) - n) : t[3 * k - 2] = Half(w[n + k]) /\ t[3 * k - 1] = Half(w[n + k])
    /\ \A k \in 1..(Len(w) - n) : 3 * k <= Len(t) => t[3 * k] = Newline

\* What was read is what was written first, and the rest is on its way.
Sent(b, p, rd, w) ==
    /\ b \in Seq(Halves) /\ p \in Seq(Halves) /\ Encodes(b \o p, Len(rd), w)
    /\ \A k \in 1..Len(rd) : rd[k] = w[k]
AllSent(b, p, rd, w) == Len(b \o p) = 3 * (Len(w) - Len(rd))
TextRight ==
    /\ Sent(buffer, pipe, read, wrote)
    /\ phase \in {"idle", "reading"} => AllSent(buffer, pipe, read, wrote)
    /\ phase = "idle" => wrote = <<>>
    /\ phase = "ended" => read = wrote

\* The lines w of a client that tells the end of every response, of which rs are
\* the items.
Places(w, rs) ==
    \A k \in 1..Len(w) :
       LET e == w[k] IN
       /\ e.type \in ItemLines => e.r \in 1..Len(rs) /\ e.i \in 1..Len(rs[e.r])
       /\ e.type \in EndLines => e.r \in 1..(Len(rs) - 1) /\ rs[e.r] # <<>>
       /\ e.type = "delta" => rs[e.r][e.i].type = "message" /\ rs[e.r][e.i].streamed
       /\ e.type = "done" /\ rs[e.r][e.i].streamed => rs[e.r][e.i].done
Ordered(w) ==
    \A j, k \in 1..Len(w) :
       j < k /\ w[j].type \in ItemLines \cup EndLines /\ w[k].type \in ItemLines \cup EndLines =>
         /\ w[j].r <= w[k].r /\ (w[j].type \in EndLines => w[j].r < w[k].r)
         /\ ~(w[j].type = "done" /\ w[k].type = "delta" /\ w[j].r = w[k].r /\ w[j].i = w[k].i)
AllEnd(w, rs) == \A r \in 1..(Len(rs) - 1) : HasEnd(w, r)
AllWritten(w, rs) ==
    \A r \in 1..Len(rs) : \A i \in 1..Len(rs[r]) :
       \E k \in 1..Len(w) : w[k].type \in ItemLines /\ w[k].r = r /\ w[k].i = i
Wholly(w, rs) == Places(w, rs) /\ Ordered(w) /\ AllEnd(w, rs) /\ AllWritten(w, rs)
WroteRight == client = "codex" /\ ~cut => Wholly(wrote, responses)

\* The session is told once.
SessionOnce(st) == Count(st.told, SessionLine) <= 1 /\ (~st.session => Count(st.told, SessionLine) = 0)

\* The scope is that of the response that is being read, and what was marked is
\* what was told.
ScopeRight(st, rd) ==
    /\ \A r \in Nat : IsOpen(rd, r) => st.scope = IF named THEN <<"response", r>> ELSE <<"implicit", st.next - 1>>
    /\ st.scope # <<>> => \E r \in Nat : IsOpen(rd, r)
    /\ named => \A r, i \in Nat : <<"message", <<"response", r>>, i>> \in st.seen => HasItem(rd, r)
    /\ ~named => \A n, i \in Nat : <<"message", <<"implicit", n>>, i>> \in st.seen => n < st.next
    /\ ~named /\ st.scope # <<>> => st.next >= 1
SeenRight(st, rd) ==
    /\ \A r, i \in Nat : <<"call", r, i>> \in st.seen => Has(st.told, Line("whole", r, i))
    /\ \A r, i \in Nat : Has(st.told, Line("whole", r, i)) /\ responses[r][i].type = "call" => <<"call", r, i>> \in st.seen
    /\ \A r, i \in Nat : IsOpen(rd, r) /\ <<"message", st.scope, i>> \in st.seen => IsTold(st, rd, r, i)
    /\ \A r, i \in Nat :
          IsOpen(rd, r) /\ IsTold(st, rd, r, i) /\ responses[r][i].type = "message" => <<"message", st.scope, i>> \in st.seen
ToldRight(st, rd) ==
    \A r, i \in Nat :
       /\ Count(st.told, Line("delta", r, i)) = Count(rd, Line("delta", r, i))
       /\ Count(st.told, Line("whole", r, i)) \in {0, 1}
       /\ Has(rd, Line("delta", r, i)) => ~Has(st.told, Line("whole", r, i))
       /\ Has(st.told, Line("whole", r, i)) => Has(rd, Line("done", r, i))
       /\ Has(rd, Line("done", r, i)) => IsTold(st, rd, r, i)
BooksRight(st, rd) == client = "codex" /\ ~cut => ScopeRight(st, rd) /\ SeenRight(st, rd) /\ ToldRight(st, rd)

\* What the lines that are read leave in the books, whatever a response was before.
AfterStep(st, r, f, i) == IF i = 0 THEN InScope(st, r) ELSE ToldItem(f[i - 1], r, i)

ParseRight(st, rd) == st \in ParseSet /\ SessionOnce(st) /\ BooksRight(st, rd)

\* What has been told at any time, and when nothing more is.
Heard(told, rd, rs) ==
    \A r \in 1..Len(rs) : \A i \in 1..Len(rs[r]) :
       /\ Count(told, Line("delta", r, i)) = Count(rd, Line("delta", r, i))
       /\ Count(told, Line("whole", r, i)) \in
             IF Count(rd, Line("delta", r, i)) > 0 THEN {0} ELSE IF Has(rd, Line("completed", r, 0)) THEN {1} ELSE {0, 1}
Said(told, rd) == Count(told, SessionLine) <= 1 /\ (client = "codex" /\ ~cut => Heard(told, rd, responses))
ExitLast(told) == \A k \in 1..Len(told) : told[k].type = "exit" => k = Len(told)

CliInv ==
    /\ CliTyped /\ TextRight /\ WroteRight
    /\ phase # "ended" => ParseRight(parse, read)
    /\ phase = "ended" => Said(parse.told, read) /\ ExitLast(parse.told)

\* The ways to count a longer sequence.
LEMMA CountMore ==
    ASSUME NEW T, NEW s \in Seq(T), NEW y \in T, NEW x
    PROVE  /\ Count(s, x) \in Nat /\ (Count(s, x) = 0 <=> ~Has(s, x))
           /\ Count(Append(s, y), x) = Count(s, x) + (IF x = y THEN 1 ELSE 0)
           /\ Has(Append(s, y), x) <=> Has(s, x) \/ x = y
<1> DEFINE n == Len(s)
           A == {k \in 1..n : s[k] = x}
           t == Append(s, y)
           B == {k \in 1..(n + 1) : t[k] = x}
<1>1. n \in Nat /\ Len(t) = n + 1 /\ t[n + 1] = y /\ \A k \in 1..n : t[k] = s[k]
  OBVIOUS
<1>2. \A k \in 1..(n + 1) : k = n + 1 \/ k \in 1..n
  BY <1>1
<1>3. n + 1 \in 1..(n + 1) /\ n + 1 \notin 1..n /\ \A k \in 1..n : k \in 1..(n + 1)
  BY <1>1
<1>4. Count(s, x) = Cardinality(A) /\ Count(t, x) = Cardinality(B)
  BY <1>1 DEF Count
<1>5. IsFiniteSet(A)
  <2>1. IsFiniteSet(1..n)
    BY <1>1, FS_Interval
  <2>2. A \in SUBSET (1..n)
    OBVIOUS
  <2> HIDE DEF A
  <2> QED
    BY <2>1, <2>2, FS_Subset
<1> HIDE DEF t, n
<1>6. x = y => B = A \cup {n + 1}
  BY <1>1, <1>2, <1>3
<1>7. x # y => B = A
  BY <1>1, <1>2, <1>3
<1>8. n + 1 \notin A
  BY <1>3
<1>9. Has(s, x) <=> A # {}
  BY DEF Has, n
<1>10. Has(t, x) <=> Has(s, x) \/ x = y
  BY <1>1, <1>2, <1>3 DEF Has, n
<1> HIDE DEF A, B
<1>11. Cardinality(A) \in Nat /\ (Cardinality(A) = 0 <=> A = {})
  BY <1>5, FS_CardinalityType, FS_EmptySet
<1>12. Cardinality(A \cup {n + 1}) = Cardinality(A) + 1
  BY <1>5, <1>8, FS_AddElement
<1>13. Count(s, x) \in Nat /\ (Count(s, x) = 0 <=> ~Has(s, x))
  BY <1>4, <1>9, <1>11
<1>14. Count(t, x) = Count(s, x) + (IF x = y THEN 1 ELSE 0)
  <2>1. CASE x = y
    <3>1. Count(t, x) = Cardinality(A) + 1
      BY <1>4, <1>6, <1>12, <2>1
    <3> QED
      BY <1>4, <2>1, <3>1
  <2>2. CASE x # y
    <3>1. Count(t, x) = Count(s, x)
      BY <1>4, <1>7, <2>2
    <3> QED
      BY <1>4, <1>11, <2>2, <3>1
  <2> QED
    BY <2>1, <2>2
<1> QED
  BY <1>10, <1>13, <1>14 DEF t

\* What has been read grows with each line.
LEMMA ReadMore ==
    ASSUME NEW T, NEW s \in Seq(T), NEW e \in T, NEW r
    PROVE  /\ HasItem(Append(s, e), r) <=> HasItem(s, r) \/ (e.type \in ItemLines /\ e.r = r)
           /\ HasEnd(Append(s, e), r) <=> HasEnd(s, r) \/ (e.type \in EndLines /\ e.r = r)
<1> DEFINE n == Len(s)
           t == Append(s, e)
<1>1. n \in Nat /\ Len(t) = n + 1 /\ t[n + 1] = e /\ \A k \in 1..n : t[k] = s[k]
  OBVIOUS
<1>2. \A k \in 1..(n + 1) : k = n + 1 \/ k \in 1..n
  BY <1>1
<1>3. n + 1 \in 1..(n + 1) /\ \A k \in 1..n : k \in 1..(n + 1)
  BY <1>1
<1> HIDE DEF t
<1>4. HasItem(t, r) <=> HasItem(s, r) \/ (e.type \in ItemLines /\ e.r = r)
  BY <1>1, <1>2, <1>3 DEF HasItem
<1>5. HasEnd(t, r) <=> HasEnd(s, r) \/ (e.type \in EndLines /\ e.r = r)
  BY <1>1, <1>2, <1>3 DEF HasEnd
<1> QED
  BY <1>4, <1>5 DEF t

\* A line is told.
LEMMA TellsFacts ==
    ASSUME NEW st \in ParseSet, NEW e \in SaidSet
    PROVE  /\ Tells(st, e) \in ParseSet /\ Tells(st, e).told = Append(st.told, e)
           /\ Tells(st, e).session = st.session /\ Tells(st, e).seen = st.seen
           /\ Tells(st, e).scope = st.scope /\ Tells(st, e).next = st.next
<1>1. Append(st.told, e) \in Seq(SaidSet)
  BY DEF ParseSet
<1> QED
  BY <1>1 DEF ParseSet, Tells

\* A key is marked.
LEMMA MarkFacts ==
    ASSUME NEW st \in ParseSet, NEW key \in Keys
    PROVE  LET new == [st EXCEPT !.seen = @ \cup {key}]
           IN  /\ new \in ParseSet /\ new.told = st.told /\ new.session = st.session
               /\ new.seen = st.seen \cup {key} /\ new.scope = st.scope /\ new.next = st.next
  BY DEF ParseSet

\* A scope is opened for a response, and closed.
LEMMA ScopeFacts ==
    ASSUME NEW st \in ParseSet, NEW r \in Nat, named \in BOOLEAN
    PROVE  /\ InScope(st, r) \in ParseSet /\ InScope(st, r).told = st.told /\ InScope(st, r).session = st.session
           /\ InScope(st, r).seen = st.seen
           /\ InScope(st, r).scope = IF st.scope # <<>> THEN st.scope
                                     ELSE IF named THEN <<"response", r>> ELSE <<"implicit", st.next>>
           /\ InScope(st, r).next = IF st.scope # <<>> \/ named THEN st.next ELSE st.next + 1
           /\ Finished(st) \in ParseSet /\ Finished(st).told = st.told /\ Finished(st).session = st.session
           /\ Finished(st).seen = st.seen /\ Finished(st).scope = <<>> /\ Finished(st).next = st.next
<1>1. <<"response", r>> \in Scopes /\ <<>> \in Scopes
  BY DEF Scopes
<1>2. st.next \in Nat
  BY DEF ParseSet
<1>3. <<"implicit", st.next>> \in Scopes /\ st.next + 1 \in Nat
  BY <1>2 DEF Scopes
<1>4. CASE st.scope # <<>>
  <2>1. InScope(st, r) = st
    BY <1>4 DEF InScope
  <2> QED
    BY <1>1, <1>4, <2>1 DEF ParseSet, Finished
<1>5. CASE st.scope = <<>> /\ named
  <2>1. InScope(st, r) = [st EXCEPT !.scope = <<"response", r>>, !.next = @]
    BY <1>5 DEF InScope
  <2> QED
    BY <1>1, <1>5, <2>1 DEF ParseSet, Finished
<1>6. CASE st.scope = <<>> /\ ~named
  <2>1. InScope(st, r) = [st EXCEPT !.scope = <<"implicit", st.next>>, !.next = @ + 1]
    BY <1>6 DEF InScope
  <2> QED
    BY <1>1, <1>3, <1>6, <2>1 DEF ParseSet, Finished
<1> QED
  BY <1>4, <1>5, <1>6

\* Keys.
LEMMA KeyFacts ==
    ASSUME NEW st \in ParseSet, NEW r \in Nat, NEW i \in Nat
    PROVE  /\ Key(st, r, i) \in Keys /\ <<"message", st.scope, i>> \in Keys
           /\ responses[r][i].type = "message" => Key(st, r, i) = <<"message", st.scope, i>>
           /\ responses[r][i].type # "message" => Key(st, r, i) = <<"call", r, i>>
<1>1. <<"message", st.scope, i>> \in Keys /\ <<"call", r, i>> \in Keys
  BY DEF Keys, ParseSet
<1> QED
  BY <1>1 DEF Key, Items

\* An item is told if its key is not marked.
LEMMA ItemFacts ==
    ASSUME NEW st \in ParseSet, NEW r \in Nat, NEW i \in Nat
    PROVE  /\ Key(st, r, i) \in st.seen => ToldItem(st, r, i) = st
           /\ Key(st, r, i) \notin st.seen =>
                 LET new == ToldItem(st, r, i)
                 IN  /\ new \in ParseSet /\ new.told = Append(st.told, Line("whole", r, i)) /\ new.session = st.session
                     /\ new.seen = st.seen \cup {Key(st, r, i)} /\ new.scope = st.scope /\ new.next = st.next
<1> DEFINE key == Key(st, r, i)
           marked == [st EXCEPT !.seen = @ \cup {key}]
           e == Line("whole", r, i)
<1>1. key \in Keys
  BY KeyFacts
<1>2. e \in SaidSet
  BY DEF Line, SaidSet
<1>3. key \in st.seen => ToldItem(st, r, i) = st
  BY DEF ToldItem
<1>4. key \notin st.seen => ToldItem(st, r, i) = Tells(marked, e)
  BY DEF ToldItem
<1> HIDE DEF key
<1>5. /\ marked \in ParseSet /\ marked.told = st.told /\ marked.session = st.session
      /\ marked.seen = st.seen \cup {key} /\ marked.scope = st.scope /\ marked.next = st.next
  BY <1>1, MarkFacts
<1> HIDE DEF marked, e
<1>6. /\ Tells(marked, e) \in ParseSet /\ Tells(marked, e).told = Append(st.told, e)
      /\ Tells(marked, e).session = st.session /\ Tells(marked, e).seen = st.seen \cup {key}
      /\ Tells(marked, e).scope = st.scope /\ Tells(marked, e).next = st.next
  BY <1>2, <1>5, TellsFacts
<1> QED
  BY <1>3, <1>4, <1>6 DEF key, e

\* The items of a response that is complete are told one after the other.
LEMMA AfterExists ==
    ASSUME NEW st \in ParseSet, NEW r \in Nat, named \in BOOLEAN, NEW n \in Nat
    PROVE  \E f : f = [i \in 0..n |-> AfterStep(st, r, f, i)]
<1> DEFINE Good(m) == \E f \in [0..m -> ParseSet] : \A i \in 0..m : f[i] = AfterStep(st, r, f, i)
           S == {m \in 0..n : Good(m)}
<1>1. InScope(st, r) \in ParseSet
  BY ScopeFacts
<1>2. 0 \in S
  <2> DEFINE f == [i \in 0..0 |-> InScope(st, r)]
  <2>1. f \in [0..0 -> ParseSet]
    BY <1>1
  <2>2. \A i \in 0..0 : f[i] = AfterStep(st, r, f, i)
    BY DEF AfterStep
  <2> HIDE DEF f
  <2>3. Good(0)
    BY <2>1, <2>2, Zenon
  <2> QED
    BY <2>3
<1>3. ASSUME NEW m \in 1..n, m - 1 \in S PROVE m \in S
  <2>1. PICK f \in [0..(m - 1) -> ParseSet] : \A i \in 0..(m - 1) : f[i] = AfterStep(st, r, f, i)
    BY <1>3
  <2> DEFINE g == [i \in 0..m |-> IF i = m THEN ToldItem(f[m - 1], r, m) ELSE f[i]]
  <2>2. f[m - 1] \in ParseSet /\ m \in Nat
    OBVIOUS
  <2>3. ToldItem(f[m - 1], r, m) \in ParseSet
    BY <2>2, ItemFacts
  <2>4. g \in [0..m -> ParseSet]
    BY <2>3
  <2>5. ASSUME NEW i \in 0..m PROVE g[i] = AfterStep(st, r, g, i)
    <3>1. CASE i = 0
      BY <2>1, <3>1 DEF AfterStep
    <3>2. CASE i # 0
      <4>1. g[i - 1] = f[i - 1] /\ i - 1 \in 0..(m - 1)
        BY <3>2
      <4>2. AfterStep(st, r, g, i) = ToldItem(f[i - 1], r, i)
        BY <3>2, <4>1 DEF AfterStep
      <4>3. g[i] = ToldItem(f[i - 1], r, i)
        <5>1. CASE i = m
          BY <5>1
        <5>2. CASE i # m
          <6>1. g[i] = f[i] /\ i \in 0..(m - 1)
            BY <5>2
          <6> QED
            BY <2>1, <3>2, <6>1 DEF AfterStep
        <5> QED
          BY <5>1, <5>2
      <4> QED
        BY <4>2, <4>3
    <3> QED
      BY <3>1, <3>2
  <2> HIDE DEF g
  <2>6. Good(m)
    BY <2>4, <2>5, Zenon
  <2> QED
    BY <2>6
<1>4. n \in S
  <2> HIDE DEF S
  <2> QED
    BY <1>2, <1>3, UpTo
<1>5. PICK f \in [0..n -> ParseSet] : \A i \in 0..n : f[i] = AfterStep(st, r, f, i)
  BY <1>4
<1>6. f = [i \in 0..n |-> AfterStep(st, r, f, i)]
  BY <1>5
<1> QED
  BY <1>6

\* A completed response tells its items one after the other.
LEMMA CompletedSteps ==
    ASSUME NEW st \in ParseSet, NEW r \in Nat, named \in BOOLEAN, Len(responses[r]) \in Nat
    PROVE  \E f : /\ CompletedItems(st, r) = Finished(f[Len(responses[r])]) /\ f[0] = InScope(st, r)
                  /\ \A i \in 1..Len(responses[r]) : f[i] = ToldItem(f[i - 1], r, i)
<1> DEFINE n == Len(responses[r])
           f == CHOOSE f : f = [i \in 0..n |-> AfterStep(st, r, f, i)]
<1>1. n \in Nat
  OBVIOUS
<1>2. f = [i \in 0..n |-> AfterStep(st, r, f, i)]
  <2> HIDE DEF n
  <2> QED
    BY <1>1, AfterExists, Zenon
<1>3. CompletedItems(st, r) = Finished(f[n])
  BY Zenon DEF CompletedItems, AfterStep, Items
<1> HIDE DEF f
<1>4. \A i \in 0..n : f[i] = AfterStep(st, r, f, i)
  BY <1>2
<1>5. f[0] = InScope(st, r) /\ \A i \in 1..n : f[i] = ToldItem(f[i - 1], r, i)
  BY <1>1, <1>4 DEF AfterStep
<1> QED
  BY <1>3, <1>5

\* What may be told without telling the session.
LEMMA OnceKept ==
    ASSUME NEW st \in ParseSet, SessionOnce(st), NEW e \in SaidSet, e.type # "session_info",
           NEW new \in ParseSet, new.told = Append(st.told, e), new.session = st.session
    PROVE  SessionOnce(new)
<1>1. st.told \in Seq(SaidSet)
  BY DEF ParseSet
<1>2. SessionLine # e
  BY DEF SessionLine, Line
<1>3. Count(new.told, SessionLine) = Count(st.told, SessionLine) + 0 /\ Count(st.told, SessionLine) \in Nat
  BY <1>1, <1>2, CountMore
<1> QED
  BY <1>3 DEF SessionOnce

\* An item that is told keeps the session told once.
LEMMA ItemOnce ==
    ASSUME NEW st \in ParseSet, SessionOnce(st), NEW r \in Nat, NEW i \in Nat
    PROVE  ToldItem(st, r, i) \in ParseSet /\ SessionOnce(ToldItem(st, r, i))
<1>1. CASE Key(st, r, i) \in st.seen
  BY <1>1, ItemFacts
<1>2. CASE Key(st, r, i) \notin st.seen
  <2> DEFINE e == Line("whole", r, i)
             new == ToldItem(st, r, i)
  <2>1. e \in SaidSet /\ e.type # "session_info"
    BY DEF Line, SaidSet
  <2>2. new \in ParseSet /\ new.told = Append(st.told, e) /\ new.session = st.session
    BY <1>2, ItemFacts
  <2> HIDE DEF e, new
  <2>3. new \in ParseSet /\ SessionOnce(new)
    BY <2>1, <2>2, OnceKept
  <2> QED
    BY <2>3 DEF new
<1> QED
  BY <1>1, <1>2

\* A line of Codex leaves the session as it is told.
LEMMA CodexOnce ==
    ASSUME CliTyped, NEW st \in ParseSet, SessionOnce(st), NEW e \in LineSet,
           e.type \in EndLines => e.r \in 1..Len(responses)
    PROVE  CodexLine(st, e) \in ParseSet /\ SessionOnce(CodexLine(st, e))
<1>0. named \in BOOLEAN /\ e.r \in Nat /\ e.i \in Nat /\ e \in SaidSet /\ e.type # "session_info"
      /\ e.type \in ItemLines \cup EndLines \cup OtherLines
  BY DEF CliTyped, LineSet, SaidSet, ItemLines, EndLines, OtherLines
<1> DEFINE in == InScope(st, e.r)
<1>1. in \in ParseSet /\ SessionOnce(in) /\ in.told = st.told
  <2>1. in \in ParseSet /\ in.told = st.told /\ in.session = st.session
    BY <1>0, ScopeFacts
  <2> HIDE DEF in
  <2> QED
    BY <2>1 DEF SessionOnce
<1>2. CASE e.type = "delta"
  <2> DEFINE key == <<"message", in.scope, e.i>>
             marked == [in EXCEPT !.seen = @ \cup {key}]
             d == Line("delta", e.r, e.i)
  <2>1. CodexLine(st, e) = Tells(marked, d)
    BY <1>2 DEF CodexLine, Delta
  <2>2. key \in Keys
    BY <1>0, <1>1, KeyFacts
  <2> HIDE DEF in, key
  <2>3. marked \in ParseSet /\ marked.told = in.told /\ marked.session = in.session
    BY <1>1, <2>2, MarkFacts
  <2>4. d \in SaidSet /\ d.type # "session_info"
    BY <1>0 DEF Line, SaidSet, ItemLines
  <2> HIDE DEF marked, d
  <2>5. SessionOnce(marked)
    BY <1>1, <2>3 DEF SessionOnce
  <2>6. Tells(marked, d) \in ParseSet /\ Tells(marked, d).told = Append(marked.told, d) /\ Tells(marked, d).session = marked.session
    BY <2>3, <2>4, TellsFacts
  <2> QED
    BY <2>1, <2>3, <2>4, <2>5, <2>6, OnceKept
<1>3. CASE e.type = "done"
  <2>1. CodexLine(st, e) = ToldItem(in, e.r, e.i)
    BY <1>3 DEF CodexLine
  <2> HIDE DEF in
  <2> QED
    BY <1>0, <1>1, <2>1, ItemOnce
<1>4. CASE e.type = "completed"
  <2>0. CodexLine(st, e) = CompletedItems(st, e.r)
    BY <1>4 DEF CodexLine
  <2> DEFINE n == Len(responses[e.r])
  <2>1. n \in Nat
    <3>1. e.r \in 1..Len(responses)
      BY <1>4 DEF EndLines
    <3>2. responses[e.r] \in Seq(ItemRecords)
      BY <3>1 DEF CliTyped, ResponseSet
    <3> QED
      BY <3>2
  <2>2. PICK f : CompletedItems(st, e.r) = Finished(f[n]) /\ f[0] = in /\ \A i \in 1..n : f[i] = ToldItem(f[i - 1], e.r, i)
    BY <1>0, <2>1, CompletedSteps
  <2> HIDE DEF in, n
  <2> DEFINE S == {i \in 0..n : f[i] \in ParseSet /\ SessionOnce(f[i])}
  <2>3. 0 \in S
    BY <1>1, <2>1, <2>2
  <2>4. ASSUME NEW i \in 1..n, i - 1 \in S PROVE i \in S
    <3>1. f[i - 1] \in ParseSet /\ SessionOnce(f[i - 1]) /\ i \in Nat /\ i \in 0..n
      BY <2>1, <2>4
    <3>2. f[i] \in ParseSet /\ SessionOnce(f[i])
      BY <1>0, <2>2, <3>1, ItemOnce
    <3> QED
      BY <3>1, <3>2
  <2>5. n \in S
    <3> HIDE DEF S
    <3> QED
      BY <2>1, <2>3, <2>4, UpTo
  <2> DEFINE g == f[n]
  <2>6. g \in ParseSet /\ SessionOnce(g)
    BY <2>5
  <2>7. CodexLine(st, e) = Finished(g)
    BY <2>0, <2>2
  <2> HIDE DEF g
  <2>8. Finished(g) \in ParseSet /\ Finished(g).told = g.told /\ Finished(g).session = g.session
    BY <1>0, <2>6, ScopeFacts
  <2> QED
    BY <2>6, <2>7, <2>8 DEF SessionOnce
<1>5. CASE e.type = "failed"
  <2> DEFINE g == Finished(st)
  <2>1. CodexLine(st, e) = Tells(g, e)
    BY <1>5 DEF CodexLine
  <2>2. g \in ParseSet /\ g.told = st.told /\ g.session = st.session
    BY <1>0, ScopeFacts
  <2> HIDE DEF g
  <2>3. SessionOnce(g)
    BY <2>2 DEF SessionOnce
  <2>4. Tells(g, e) \in ParseSet /\ Tells(g, e).told = Append(g.told, e) /\ Tells(g, e).session = g.session
    BY <1>0, <2>2, TellsFacts
  <2> QED
    BY <1>0, <2>1, <2>2, <2>3, <2>4, OnceKept
<1>6. CASE e.type \in OtherLines
  <2>1. CodexLine(st, e) = Tells(st, e)
    BY <1>6 DEF CodexLine, OtherLines
  <2>2. Tells(st, e) \in ParseSet /\ Tells(st, e).told = Append(st.told, e) /\ Tells(st, e).session = st.session
    BY <1>0, TellsFacts
  <2> QED
    BY <1>0, <2>1, <2>2, OnceKept
<1> QED
  BY <1>0, <1>2, <1>3, <1>4, <1>5, <1>6 DEF ItemLines, EndLines

\* What a line finds when its session was told first.
FirstOf(st, e) ==
    IF NamesSession(e) /\ ~st.session THEN Tells([st EXCEPT !.session = TRUE], SessionLine) ELSE st

\* The session comes beside the books, which it leaves alone.
LEMMA FirstFacts ==
    ASSUME NEW st \in ParseSet, SessionOnce(st), NEW e
    PROVE  /\ FirstOf(st, e) \in ParseSet /\ SessionOnce(FirstOf(st, e))
           /\ FirstOf(st, e).seen = st.seen /\ FirstOf(st, e).scope = st.scope /\ FirstOf(st, e).next = st.next
           /\ FirstOf(st, e).told = st.told \/ FirstOf(st, e).told = Append(st.told, SessionLine)
           /\ ParseLine(st, e) = IF client = "codex" THEN CodexLine(FirstOf(st, e), e) ELSE Tells(FirstOf(st, e), e)
<1>1. ParseLine(st, e) = IF client = "codex" THEN CodexLine(FirstOf(st, e), e) ELSE Tells(FirstOf(st, e), e)
  BY DEF ParseLine, FirstOf, SessionLine
<1>2. CASE NamesSession(e) /\ ~st.session
  <2> DEFINE g == [st EXCEPT !.session = TRUE]
             new == Tells(g, SessionLine)
  <2>1. FirstOf(st, e) = new
    BY <1>2 DEF FirstOf
  <2>2. /\ g \in ParseSet /\ g.told = st.told /\ g.seen = st.seen /\ g.scope = st.scope /\ g.next = st.next
        /\ g.session = TRUE
    BY DEF ParseSet
  <2>3. SessionLine \in SaidSet
    BY DEF SessionLine, Line, SaidSet
  <2> HIDE DEF g
  <2>4. /\ new \in ParseSet /\ new.told = Append(st.told, SessionLine) /\ new.session = TRUE
        /\ new.seen = st.seen /\ new.scope = st.scope /\ new.next = st.next
    BY <2>2, <2>3, TellsFacts
  <2> HIDE DEF new
  <2>5. st.told \in Seq(SaidSet)
    BY DEF ParseSet
  <2>6. Count(new.told, SessionLine) = Count(st.told, SessionLine) + 1
    BY <2>3, <2>4, <2>5, CountMore
  <2>7. SessionOnce(new)
    BY <1>2, <2>4, <2>6 DEF SessionOnce
  <2> QED
    BY <1>1, <2>1, <2>4, <2>7
<1>3. CASE ~(NamesSession(e) /\ ~st.session)
  BY <1>1, <1>3 DEF FirstOf
<1> QED
  BY <1>2, <1>3

\* No line tells the session twice.
LEMMA LineOnce ==
    ASSUME CliTyped, NEW st \in ParseSet, SessionOnce(st), NEW e \in LineSet,
           e.type \in EndLines => e.r \in 1..Len(responses)
    PROVE  ParseLine(st, e) \in ParseSet /\ SessionOnce(ParseLine(st, e))
<1> DEFINE g == FirstOf(st, e)
<1>1. /\ g \in ParseSet /\ SessionOnce(g)
      /\ ParseLine(st, e) = IF client = "codex" THEN CodexLine(g, e) ELSE Tells(g, e)
  BY FirstFacts
<1> HIDE DEF g
<1>2. CASE client = "codex"
  BY <1>1, <1>2, CodexOnce
<1>3. CASE client # "codex"
  <2>1. e \in SaidSet /\ e.type # "session_info"
    BY DEF LineSet, SaidSet, ItemLines, EndLines, OtherLines
  <2>2. Tells(g, e) \in ParseSet /\ Tells(g, e).told = Append(g.told, e) /\ Tells(g, e).session = g.session
    BY <1>1, <2>1, TellsFacts
  <2> QED
    BY <1>1, <1>3, <2>1, <2>2, OnceKept
<1> QED
  BY <1>2, <1>3

-----------------------------------------------------------------------------
(* The books of what a turn was told.                                      *)

\* A line is its kind, its response and its item.
LEMMA LineIs ==
    ASSUME NEW x \in LineSet
    PROVE  x = Line(x.type, x.r, x.i)
  BY DEF LineSet, Line

\* An item line, or an end, of the response that is being read.
Complete(rd) == client = "codex" /\ ~cut /\ Wholly(wrote, responses)
                /\ wrote \in Seq(LineSet) /\ responses \in ResponseSet
                /\ rd \in Seq(LineSet) /\ Len(rd) < Len(wrote) /\ \A k \in 1..Len(rd) : rd[k] = wrote[k]

\* The lines that are read are of items that there are.
LEMMA ReadPlaces ==
    ASSUME NEW rd, Complete(rd), NEW r \in Nat, NEW i \in Nat, NEW t \in ItemLines, Has(rd, Line(t, r, i))
    PROVE  /\ r \in 1..Len(responses) /\ i \in 1..Len(responses[r]) /\ HasItem(rd, r)
           /\ t = "delta" => responses[r][i].type = "message"
<1>1. PICK k \in 1..Len(rd) : rd[k] = Line(t, r, i)
  BY DEF Has
<1>2. k \in 1..Len(wrote) /\ wrote[k] = Line(t, r, i)
  BY <1>1 DEF Complete
<1>3. wrote[k].type = t /\ wrote[k].r = r /\ wrote[k].i = i /\ rd[k].type = t /\ rd[k].r = r
  BY <1>1, <1>2 DEF Line
<1> QED
  BY <1>2, <1>3 DEF Complete, Wholly, Places, HasItem

\* The next line is of the only response that is open, and before its end.
LEMMA NextFacts ==
    ASSUME NEW rd, Complete(rd), NEW e, e = wrote[Len(rd) + 1], e.type \in ItemLines \cup EndLines
    PROVE  /\ e \in LineSet /\ e.r \in 1..Len(responses) /\ ~HasEnd(rd, e.r)
           /\ \A q \in Nat : IsOpen(rd, q) => q = e.r
<1>1. Len(rd) \in Nat /\ Len(wrote) \in Nat /\ Len(rd) + 1 \in 1..Len(wrote) /\ Len(responses) \in Nat
  BY DEF Complete
<1>0. e \in LineSet
  BY <1>1 DEF Complete
<1>2. e.r \in Nat
  BY <1>0 DEF LineSet
<1>3. e.r \in 1..Len(responses)
  BY <1>1 DEF Complete, Wholly, Places
<1>4. ASSUME HasEnd(rd, e.r) PROVE FALSE
  <2>1. PICK k \in 1..Len(rd) : rd[k].type \in EndLines /\ rd[k].r = e.r
    BY <1>4 DEF HasEnd
  <2>2. k \in 1..Len(wrote) /\ k < Len(rd) + 1 /\ wrote[k] = rd[k]
    BY <1>1 DEF Complete
  <2>3. wrote[k].r < e.r
    BY <1>1, <2>1, <2>2 DEF Complete, Wholly, Ordered
  <2> QED
    BY <1>2, <2>1, <2>2, <2>3
<1>5. ASSUME NEW q \in Nat, IsOpen(rd, q), q # e.r PROVE FALSE
  <2>1. PICK k \in 1..Len(rd) : rd[k].type \in ItemLines /\ rd[k].r = q
    BY <1>5 DEF IsOpen, HasItem
  <2>2. k \in 1..Len(wrote) /\ k < Len(rd) + 1 /\ wrote[k] = rd[k]
    BY <1>1 DEF Complete
  <2>3. q <= e.r /\ q \in 1..Len(responses)
    BY <1>1, <2>1, <2>2 DEF Complete, Wholly, Ordered, Places
  <2>4. q \in 1..(Len(responses) - 1) /\ q < e.r
    BY <1>1, <1>2, <1>3, <1>5, <2>3
  <2>5. PICK j \in 1..Len(wrote) : wrote[j].type \in EndLines /\ wrote[j].r = q
    BY <2>4 DEF Complete, Wholly, AllEnd, HasEnd
  <2>6. CASE j \in 1..Len(rd)
    <3>1. rd[j] = wrote[j]
      BY <2>6 DEF Complete
    <3> QED
      BY <1>5, <2>5, <2>6, <3>1 DEF IsOpen, HasEnd
  <2>7. CASE j = Len(rd) + 1
    BY <1>5, <2>5, <2>7
  <2>8. CASE Len(rd) + 1 < j
    <3>1. e.r <= wrote[j].r
      BY <1>1, <2>5, <2>8 DEF Complete, Wholly, Ordered
    <3> QED
      BY <1>2, <2>4, <2>5, <3>1
  <2> QED
    BY <1>1, <2>6, <2>7, <2>8
<1> QED
  BY <1>0, <1>3, <1>4, <1>5

\* The next line names an item of its response, and a delta one that is not done.
LEMMA DeltaFacts ==
    ASSUME NEW rd, Complete(rd), NEW e, e = wrote[Len(rd) + 1], e.type \in ItemLines
    PROVE  /\ e.i \in 1..Len(responses[e.r])
           /\ e.type = "delta" => responses[e.r][e.i].type = "message" /\ ~Has(rd, Line("done", e.r, e.i))
<1>1. Len(rd) \in Nat /\ Len(wrote) \in Nat /\ Len(rd) + 1 \in 1..Len(wrote)
  BY DEF Complete
<1>2. e.i \in 1..Len(responses[e.r]) /\ (e.type = "delta" => responses[e.r][e.i].type = "message")
  BY <1>1 DEF Complete, Wholly, Places
<1>3. ASSUME e.type = "delta", Has(rd, Line("done", e.r, e.i)) PROVE FALSE
  <2>1. PICK k \in 1..Len(rd) : rd[k] = Line("done", e.r, e.i)
    BY <1>3 DEF Has
  <2>2. k \in 1..Len(wrote) /\ k < Len(rd) + 1 /\ wrote[k] = Line("done", e.r, e.i)
    BY <1>1, <2>1 DEF Complete
  <2>3. wrote[k].type = "done" /\ wrote[k].r = e.r /\ wrote[k].i = e.i
    BY <2>2 DEF Line
  <2> QED
    BY <1>1, <1>3, <2>2, <2>3 DEF Complete, Wholly, Ordered, ItemLines
<1> QED
  BY <1>2, <1>3

\* When a response ends, each of its items was written.
LEMMA EndFacts ==
    ASSUME NEW rd, Complete(rd), NEW e, e = wrote[Len(rd) + 1], e.type \in EndLines
    PROVE  /\ IsOpen(rd, e.r) /\ Len(responses[e.r]) \in Nat
           /\ \A i \in 1..Len(responses[e.r]) : Has(rd, Line("delta", e.r, i)) \/ Has(rd, Line("done", e.r, i))
<1>1. Len(rd) \in Nat /\ Len(wrote) \in Nat /\ Len(rd) + 1 \in 1..Len(wrote) /\ Len(responses) \in Nat
  BY DEF Complete
<1>2. e.r \in 1..(Len(responses) - 1) /\ responses[e.r] # <<>>
  BY <1>1 DEF Complete, Wholly, Places
<1>3. e.r \in 1..Len(responses) /\ responses[e.r] \in Seq(ItemRecords)
  BY <1>1, <1>2 DEF Complete, ResponseSet
<1>4. ASSUME NEW i \in 1..Len(responses[e.r])
      PROVE  HasItem(rd, e.r) /\ (Has(rd, Line("delta", e.r, i)) \/ Has(rd, Line("done", e.r, i)))
  <2>1. PICK k \in 1..Len(wrote) : wrote[k].type \in ItemLines /\ wrote[k].r = e.r /\ wrote[k].i = i
    BY <1>3 DEF Complete, Wholly, AllWritten
  <2>2. k # Len(rd) + 1
    BY <2>1 DEF ItemLines, EndLines
  <2>3. ~(Len(rd) + 1 < k)
    <3> SUFFICES ASSUME Len(rd) + 1 < k PROVE FALSE
      OBVIOUS
    <3>1. e.r < wrote[k].r
      BY <1>1, <2>1 DEF Complete, Wholly, Ordered
    <3> QED
      BY <1>3, <2>1, <3>1
  <2>4. k \in 1..Len(rd)
    BY <1>1, <2>2, <2>3
  <2>5. rd[k] = wrote[k] /\ wrote[k] \in LineSet
    BY <2>4 DEF Complete
  <2>6. rd[k] = Line(wrote[k].type, e.r, i)
    BY <2>1, <2>5, LineIs
  <2> QED
    BY <2>1, <2>4, <2>5, <2>6 DEF Has, HasItem, ItemLines
<1>5. 1 \in 1..Len(responses[e.r]) /\ Len(responses[e.r]) \in Nat
  BY <1>2, <1>3
<1>6. ~HasEnd(rd, e.r)
  BY NextFacts
<1> QED
  BY <1>4, <1>5, <1>6 DEF IsOpen

\* The books of a response that is being read.
CallsSeen(st) ==
    /\ \A r, i \in Nat : <<"call", r, i>> \in st.seen => Has(st.told, Line("whole", r, i))
    /\ \A r, i \in Nat : Has(st.told, Line("whole", r, i)) /\ responses[r][i].type = "call" => <<"call", r, i>> \in st.seen
KeysOld(st, rd) ==
    /\ named => \A r, i \in Nat : <<"message", <<"response", r>>, i>> \in st.seen => HasItem(rd, r)
    /\ ~named => \A n, i \in Nat : <<"message", <<"implicit", n>>, i>> \in st.seen => n < st.next
ScopeIs(st, r) ==
    /\ st.scope = IF named THEN <<"response", r>> ELSE <<"implicit", st.next - 1>>
    /\ ~named => st.next >= 1
Reading(st, rd, r) ==
    /\ ScopeIs(st, r) /\ CallsSeen(st) /\ ToldRight(st, rd)
    /\ \A i \in Nat : <<"message", st.scope, i>> \in st.seen => IsTold(st, rd, r, i)
    /\ \A i \in Nat : IsTold(st, rd, r, i) /\ responses[r][i].type = "message" => <<"message", st.scope, i>> \in st.seen

\* A response that is open is read with its scope, and one that begins is given one.
LEMMA ReadingStarts ==
    ASSUME NEW rd, Complete(rd), NEW e, e = wrote[Len(rd) + 1], e.type \in ItemLines \cup EndLines, named \in BOOLEAN,
           NEW st \in ParseSet, ScopeRight(st, rd), SeenRight(st, rd), ToldRight(st, rd)
    PROVE  Reading(InScope(st, e.r), rd, e.r) /\ KeysOld(InScope(st, e.r), rd) /\ (IsOpen(rd, e.r) => InScope(st, e.r) = st)
<1> DEFINE r == e.r
           in == InScope(st, r)
<1>1. r \in Nat /\ ~HasEnd(rd, r) /\ \A q \in Nat : IsOpen(rd, q) => q = r
  BY NextFacts DEF LineSet
<1>2. CallsSeen(st) /\ KeysOld(st, rd)
  BY Zenon DEF SeenRight, CallsSeen, ScopeRight, KeysOld
<1>3. CASE IsOpen(rd, r)
  <2>1. st.scope = IF named THEN <<"response", r>> ELSE <<"implicit", st.next - 1>>
    BY <1>1, <1>3 DEF ScopeRight
  <2>2. st.scope # <<>>
    <3>1. Len(<<"response", r>>) = 2 /\ Len(<<"implicit", st.next - 1>>) = 2 /\ Len(<<>>) = 0
      OBVIOUS
    <3> QED
      BY <2>1, <3>1
  <2>3. in = st
    BY <2>2 DEF InScope
  <2>4. ScopeIs(st, r)
    BY <2>1, <2>2 DEF ScopeIs, ScopeRight
  <2>5. \A i \in Nat : <<"message", st.scope, i>> \in st.seen => IsTold(st, rd, r, i)
    BY <1>1, <1>3 DEF SeenRight
  <2>6. \A i \in Nat : IsTold(st, rd, r, i) /\ responses[r][i].type = "message" => <<"message", st.scope, i>> \in st.seen
    BY <1>1, <1>3 DEF SeenRight
  <2>7. Reading(st, rd, r)
    BY <1>2, <2>4, <2>5, <2>6 DEF Reading
  <2> QED
    BY <1>2, <2>3, <2>7
<1>4. CASE ~IsOpen(rd, r)
  <2>1. st.scope = <<>> /\ ~HasItem(rd, r)
    BY <1>1, <1>4 DEF ScopeRight, IsOpen
  <2>2. st.next \in Nat
    BY DEF ParseSet
  <2>3. /\ in.told = st.told /\ in.seen = st.seen
        /\ in.scope = IF named THEN <<"response", r>> ELSE <<"implicit", st.next>>
        /\ in.next = IF named THEN st.next ELSE st.next + 1
    BY <1>1, <2>1, ScopeFacts
  <2> HIDE DEF in
  <2>4. ScopeIs(in, r)
    BY <2>2, <2>3 DEF ScopeIs
  <2>5. CallsSeen(in)
    BY <1>2, <2>3 DEF CallsSeen
  <2>6. ToldRight(in, rd)
    BY <2>3 DEF ToldRight, IsTold
  <2>7. KeysOld(in, rd)
    BY <1>2, <2>2, <2>3 DEF KeysOld
  <2>8. ASSUME NEW i \in Nat PROVE <<"message", in.scope, i>> \notin in.seen
    <3>1. CASE named
      <4>1. <<"message", <<"response", r>>, i>> \notin st.seen
        BY <1>1, <1>2, <2>1, <3>1 DEF KeysOld
      <4> QED
        BY <2>3, <3>1, <4>1
    <3>2. CASE ~named
      <4>1. <<"message", <<"implicit", st.next>>, i>> \notin st.seen
        BY <1>2, <2>2, <3>2 DEF KeysOld
      <4> QED
        BY <2>3, <3>2, <4>1
    <3> QED
      BY <3>1, <3>2
  <2>9. ASSUME NEW i \in Nat PROVE ~IsTold(in, rd, r, i)
    <3>1. ~Has(rd, Line("delta", r, i)) /\ ~Has(rd, Line("done", r, i))
      BY <1>1, <2>1, ReadPlaces DEF ItemLines
    <3> QED
      BY <1>1, <2>6, <3>1 DEF ToldRight, IsTold
  <2>10. Reading(in, rd, r)
    BY <2>4, <2>5, <2>6, <2>8, <2>9 DEF Reading
  <2> QED
    BY <1>4, <2>7, <2>10 DEF in
<1> QED
  BY <1>3, <1>4


\* While a response is read, an item of it is told when its key is marked.
LEMMA KeyIsTold ==
    ASSUME NEW rd, Complete(rd), NEW r \in Nat, r \in 1..Len(responses), NEW i \in 1..Len(responses[r]),
           NEW st \in ParseSet, Reading(st, rd, r)
    PROVE  i \in Nat /\ Key(st, r, i) \in Keys /\ (Key(st, r, i) \in st.seen <=> IsTold(st, rd, r, i))
<1>0. responses[r] \in Seq(ItemRecords)
  BY DEF Complete, ResponseSet
<1>1. i \in Nat /\ responses[r][i] \in ItemRecords
  BY <1>0
<1>2. /\ Key(st, r, i) \in Keys
      /\ responses[r][i].type = "message" => Key(st, r, i) = <<"message", st.scope, i>>
      /\ responses[r][i].type # "message" => Key(st, r, i) = <<"call", r, i>>
  BY <1>1, KeyFacts
<1>3. CASE responses[r][i].type = "message"
  <2>1. <<"message", st.scope, i>> \in st.seen <=> IsTold(st, rd, r, i)
    BY <1>1, <1>3, Zenon DEF Reading
  <2> QED
    BY <1>1, <1>2, <1>3, <2>1
<1>4. CASE responses[r][i].type = "call"
  <2>1. ~Has(rd, Line("delta", r, i))
    BY <1>1, <1>4, ReadPlaces DEF ItemLines
  <2>2. <<"call", r, i>> \in st.seen <=> Has(st.told, Line("whole", r, i))
    BY <1>1, <1>4, Zenon DEF Reading, CallsSeen
  <2> QED
    BY <1>1, <1>2, <1>4, <2>1, <2>2 DEF IsTold
<1> QED
  BY <1>1, <1>3, <1>4 DEF ItemRecords

\* The books of the one response that is open are the books.
LEMMA ReadingEnds ==
    ASSUME NEW rd, NEW r \in Nat, IsOpen(rd, r), \A q \in Nat : IsOpen(rd, q) => q = r,
           NEW st \in ParseSet, Reading(st, rd, r), KeysOld(st, rd)
    PROVE  ScopeRight(st, rd) /\ SeenRight(st, rd) /\ ToldRight(st, rd)
<1>1. ScopeIs(st, r) /\ CallsSeen(st) /\ ToldRight(st, rd)
  BY DEF Reading
<1>2. ScopeRight(st, rd)
  BY <1>1 DEF ScopeRight, ScopeIs, KeysOld
<1>3. /\ \A i \in Nat : <<"message", st.scope, i>> \in st.seen => IsTold(st, rd, r, i)
      /\ \A i \in Nat : IsTold(st, rd, r, i) /\ responses[r][i].type = "message" => <<"message", st.scope, i>> \in st.seen
  BY Zenon DEF Reading
<1>4. /\ \A q, i \in Nat : IsOpen(rd, q) /\ <<"message", st.scope, i>> \in st.seen => IsTold(st, rd, q, i)
      /\ \A q, i \in Nat :
            IsOpen(rd, q) /\ IsTold(st, rd, q, i) /\ responses[q][i].type = "message" => <<"message", st.scope, i>> \in st.seen
  BY <1>3
<1>5. SeenRight(st, rd)
  BY <1>1, <1>4, Zenon DEF SeenRight, CallsSeen
<1> QED
  BY <1>1, <1>2, <1>5

\* When no response is open, the books are those of the calls.
LEMMA BetweenResponses ==
    ASSUME NEW rd, \A q \in Nat : ~IsOpen(rd, q), NEW st \in ParseSet, st.scope = <<>>,
           CallsSeen(st), KeysOld(st, rd), ToldRight(st, rd)
    PROVE  ScopeRight(st, rd) /\ SeenRight(st, rd) /\ ToldRight(st, rd)
<1>1. ScopeRight(st, rd)
  BY DEF ScopeRight, KeysOld
<1>2. /\ \A q, i \in Nat : IsOpen(rd, q) /\ <<"message", st.scope, i>> \in st.seen => IsTold(st, rd, q, i)
      /\ \A q, i \in Nat :
            IsOpen(rd, q) /\ IsTold(st, rd, q, i) /\ responses[q][i].type = "message" => <<"message", st.scope, i>> \in st.seen
  OBVIOUS
<1>3. SeenRight(st, rd)
  BY <1>2, Zenon DEF SeenRight, CallsSeen
<1> QED
  BY <1>1, <1>3

\* What neither tells an item nor is one leaves the books as they are.
SameTold(old, new) ==
    \A r, i \in Nat :
       /\ Count(new, Line("delta", r, i)) = Count(old, Line("delta", r, i))
       /\ Count(new, Line("whole", r, i)) = Count(old, Line("whole", r, i))
       /\ Has(new, Line("whole", r, i)) <=> Has(old, Line("whole", r, i))
SameRead(old, new) ==
    \A r, i \in Nat :
       /\ Count(new, Line("delta", r, i)) = Count(old, Line("delta", r, i))
       /\ Has(new, Line("delta", r, i)) <=> Has(old, Line("delta", r, i))
       /\ Has(new, Line("done", r, i)) <=> Has(old, Line("done", r, i))
Alike(st, new) == new.seen = st.seen /\ new.scope = st.scope /\ new.next = st.next

\* What is told of no item leaves what is told of each.
LEMMA ToldBeside ==
    ASSUME NEW s \in Seq(SaidSet), NEW e \in SaidSet, e.type \notin {"delta", "whole"}
    PROVE  SameTold(s, Append(s, e))
<1>1. ASSUME NEW t \in {"delta", "whole"}, NEW r \in Nat, NEW i \in Nat
      PROVE  /\ Count(Append(s, e), Line(t, r, i)) = Count(s, Line(t, r, i))
             /\ Has(Append(s, e), Line(t, r, i)) <=> Has(s, Line(t, r, i))
  <2> DEFINE x == Line(t, r, i)
  <2>1. x # e
    BY DEF Line
  <2> HIDE DEF x
  <2>2. /\ Count(s, x) \in Nat
        /\ Count(Append(s, e), x) = Count(s, x) + (IF x = e THEN 1 ELSE 0)
        /\ Has(Append(s, e), x) <=> Has(s, x) \/ x = e
    BY CountMore
  <2>3. Count(Append(s, e), x) = Count(s, x) /\ (Has(Append(s, e), x) <=> Has(s, x))
    BY <2>1, <2>2
  <2> QED
    BY <2>3 DEF x
<1> QED
  BY <1>1, Zenon DEF SameTold

\* So does a line that is of no item, of what is read.
LEMMA ReadBeside ==
    ASSUME NEW s \in Seq(LineSet), NEW e \in LineSet, e.type \notin ItemLines
    PROVE  SameRead(s, Append(s, e))
<1>1. ASSUME NEW t \in ItemLines, NEW r \in Nat, NEW i \in Nat
      PROVE  /\ Count(Append(s, e), Line(t, r, i)) = Count(s, Line(t, r, i))
             /\ Has(Append(s, e), Line(t, r, i)) <=> Has(s, Line(t, r, i))
  <2> DEFINE x == Line(t, r, i)
  <2>1. x # e
    BY DEF Line
  <2> HIDE DEF x
  <2>2. /\ Count(s, x) \in Nat
        /\ Count(Append(s, e), x) = Count(s, x) + (IF x = e THEN 1 ELSE 0)
        /\ Has(Append(s, e), x) <=> Has(s, x) \/ x = e
    BY CountMore
  <2>3. Count(Append(s, e), x) = Count(s, x) /\ (Has(Append(s, e), x) <=> Has(s, x))
    BY <2>1, <2>2
  <2> QED
    BY <2>3 DEF x
<1>2. "delta" \in ItemLines /\ "done" \in ItemLines
  BY DEF ItemLines
<1> QED
  BY <1>1, <1>2, Zenon DEF SameRead

\* The calls that are marked were told, whatever else is told.
LEMMA CallsBeside ==
    ASSUME NEW st, NEW new, new.seen = st.seen, SameTold(st.told, new.told), CallsSeen(st)
    PROVE  CallsSeen(new)
  BY Zenon DEF CallsSeen, SameTold

\* What is right of the items stays so while nothing is said of them.
LEMMA ToldStays ==
    ASSUME NEW st, NEW new, NEW rd, NEW rd2, SameTold(st.told, new.told), SameRead(rd, rd2), ToldRight(st, rd)
    PROVE  ToldRight(new, rd2)
<1> SUFFICES ASSUME NEW r \in Nat, NEW i \in Nat
             PROVE  /\ Count(new.told, Line("delta", r, i)) = Count(rd2, Line("delta", r, i))
                    /\ Count(new.told, Line("whole", r, i)) \in {0, 1}
                    /\ Has(rd2, Line("delta", r, i)) => ~Has(new.told, Line("whole", r, i))
                    /\ Has(new.told, Line("whole", r, i)) => Has(rd2, Line("done", r, i))
                    /\ Has(rd2, Line("done", r, i)) => IsTold(new, rd2, r, i)
  BY Zenon DEF ToldRight
<1>1. /\ Count(st.told, Line("delta", r, i)) = Count(rd, Line("delta", r, i))
      /\ Count(st.told, Line("whole", r, i)) \in {0, 1}
      /\ Has(rd, Line("delta", r, i)) => ~Has(st.told, Line("whole", r, i))
      /\ Has(st.told, Line("whole", r, i)) => Has(rd, Line("done", r, i))
      /\ Has(rd, Line("done", r, i)) => IsTold(st, rd, r, i)
  BY Zenon DEF ToldRight
<1>2. /\ Count(new.told, Line("delta", r, i)) = Count(st.told, Line("delta", r, i))
      /\ Count(new.told, Line("whole", r, i)) = Count(st.told, Line("whole", r, i))
      /\ Has(new.told, Line("whole", r, i)) <=> Has(st.told, Line("whole", r, i))
  BY Zenon DEF SameTold
<1>3. /\ Count(rd2, Line("delta", r, i)) = Count(rd, Line("delta", r, i))
      /\ Has(rd2, Line("delta", r, i)) <=> Has(rd, Line("delta", r, i))
      /\ Has(rd2, Line("done", r, i)) <=> Has(rd, Line("done", r, i))
  BY Zenon DEF SameRead
<1> QED
  BY <1>1, <1>2, <1>3 DEF IsTold

\* So do the books.
LEMMA BooksBeside ==
    ASSUME NEW st, NEW new, NEW rd, NEW rd2, Alike(st, new), SameTold(st.told, new.told), SameRead(rd, rd2),
           \A q : (HasItem(rd2, q) <=> HasItem(rd, q)) /\ (HasEnd(rd2, q) <=> HasEnd(rd, q)),
           ScopeRight(st, rd), SeenRight(st, rd), ToldRight(st, rd)
    PROVE  ScopeRight(new, rd2) /\ SeenRight(new, rd2) /\ ToldRight(new, rd2)
<1>1. ToldRight(new, rd2)
  BY ToldStays
<1>2. \A q : IsOpen(rd2, q) <=> IsOpen(rd, q)
  BY DEF IsOpen
<1>3. ScopeRight(new, rd2)
  BY <1>2 DEF ScopeRight, Alike
<1>4. \A q, i \in Nat : IsTold(new, rd2, q, i) <=> IsTold(st, rd, q, i)
  BY Zenon DEF IsTold, SameTold, SameRead
<1>5. /\ \A q, i \in Nat : IsOpen(rd, q) /\ <<"message", st.scope, i>> \in st.seen => IsTold(st, rd, q, i)
      /\ \A q, i \in Nat :
            IsOpen(rd, q) /\ IsTold(st, rd, q, i) /\ responses[q][i].type = "message" => <<"message", st.scope, i>> \in st.seen
  BY Zenon DEF SeenRight
<1>6. /\ \A q, i \in Nat : IsOpen(rd2, q) /\ <<"message", new.scope, i>> \in new.seen => IsTold(new, rd2, q, i)
      /\ \A q, i \in Nat :
            IsOpen(rd2, q) /\ IsTold(new, rd2, q, i) /\ responses[q][i].type = "message" => <<"message", new.scope, i>> \in new.seen
  BY <1>2, <1>4, <1>5 DEF Alike
<1>7. CallsSeen(st)
  BY Zenon DEF SeenRight, CallsSeen
<1>8. CallsSeen(new)
  BY <1>7, CallsBeside DEF Alike
<1>9. SeenRight(new, rd2)
  BY <1>6, <1>8, Zenon DEF SeenRight, CallsSeen
<1> QED
  BY <1>1, <1>3, <1>9


\* What a step of the books has to show: the books are right of what was read.
Books(st, rd) == ScopeRight(st, rd) /\ SeenRight(st, rd) /\ ToldRight(st, rd)
Expects(rd, e) == Complete(rd) /\ named \in BOOLEAN /\ e = wrote[Len(rd) + 1]

\* What the next line is.
LEMMA ExpectFacts ==
    ASSUME NEW rd, NEW e, Expects(rd, e)
    PROVE  /\ e \in LineSet /\ e \in SaidSet /\ rd \in Seq(LineSet) /\ e.r \in Nat /\ e.i \in Nat
           /\ e.type \in ItemLines \cup EndLines \cup OtherLines
<1>1. rd \in Seq(LineSet) /\ wrote \in Seq(LineSet) /\ Len(rd) < Len(wrote)
  BY DEF Expects, Complete
<1>2. e \in LineSet
  BY <1>1 DEF Expects
<1> QED
  BY <1>1, <1>2 DEF LineSet, SaidSet

\* A line of neither an item nor an end.
LEMMA OtherBooks ==
    ASSUME NEW rd, NEW e, Expects(rd, e), NEW st \in ParseSet, Books(st, rd), e.type \in OtherLines
    PROVE  Books(CodexLine(st, e), Append(rd, e))
<1> DEFINE new == Tells(st, e)
           rd2 == Append(rd, e)
<1>1. CodexLine(st, e) = new
  BY DEF CodexLine, OtherLines
<1>2. e \in LineSet /\ e \in SaidSet /\ rd \in Seq(LineSet) /\ st.told \in Seq(SaidSet)
  BY ExpectFacts DEF ParseSet
<1>3. Alike(st, new) /\ new.told = Append(st.told, e)
  BY <1>2, TellsFacts DEF Alike
<1>4. e.type \notin {"delta", "whole"} /\ e.type \notin ItemLines /\ e.type \notin EndLines
  BY DEF OtherLines, ItemLines, EndLines
<1> HIDE DEF new
<1>5. SameTold(st.told, new.told)
  BY <1>2, <1>3, <1>4, ToldBeside
<1>6. SameRead(rd, rd2)
  BY <1>2, <1>4, ReadBeside
<1>7. \A q : (HasItem(rd2, q) <=> HasItem(rd, q)) /\ (HasEnd(rd2, q) <=> HasEnd(rd, q))
  BY <1>2, <1>4, ReadMore
<1> HIDE DEF rd2
<1>8. Books(new, rd2)
  BY <1>3, <1>5, <1>6, <1>7, BooksBeside DEF Books
<1> QED
  BY <1>1, <1>8 DEF rd2

\* A response fails.
LEMMA FailedBooks ==
    ASSUME NEW rd, NEW e, Expects(rd, e), NEW st \in ParseSet, Books(st, rd), e.type \in EndLines
    PROVE  /\ SameRead(rd, Append(rd, e)) /\ \A q \in Nat : ~IsOpen(Append(rd, e), q)
           /\ \A new \in ParseSet :
                 new.seen = st.seen /\ new.scope = <<>> /\ new.next = st.next /\ SameTold(st.told, new.told) =>
                    Books(new, Append(rd, e))
<1> DEFINE rd2 == Append(rd, e)
<1>1. e \in LineSet /\ rd \in Seq(LineSet)
  BY ExpectFacts
<1>2. e.type \notin ItemLines
  BY DEF EndLines, ItemLines
<1>3. SameRead(rd, rd2)
  BY <1>1, <1>2, ReadBeside
<1>4. \A q : (HasItem(rd2, q) <=> HasItem(rd, q)) /\ (HasEnd(rd2, q) <=> HasEnd(rd, q) \/ e.r = q)
  BY <1>1, <1>2, ReadMore
<1>5. \A q \in Nat : IsOpen(rd, q) => q = e.r
  BY NextFacts DEF Expects
<1> HIDE DEF rd2
<1>6. \A q \in Nat : ~IsOpen(rd2, q)
  BY <1>4, <1>5 DEF IsOpen
<1>7. ASSUME NEW new \in ParseSet, new.seen = st.seen, new.scope = <<>>, new.next = st.next,
             SameTold(st.told, new.told)
      PROVE  Books(new, rd2)
  <2>1. CallsSeen(st) /\ KeysOld(st, rd) /\ ToldRight(st, rd)
    BY Zenon DEF Books, SeenRight, CallsSeen, ScopeRight, KeysOld
  <2>2. CallsSeen(new)
    BY <1>7, <2>1, CallsBeside
  <2>3. KeysOld(new, rd2)
    BY <1>4, <1>7, <2>1 DEF KeysOld
  <2>4. ToldRight(new, rd2)
    BY <1>3, <1>7, <2>1, ToldStays
  <2> QED
    BY <1>6, <1>7, <2>2, <2>3, <2>4, BetweenResponses DEF Books
<1> QED
  BY <1>3, <1>6, <1>7 DEF rd2

\* A response is complete: what it has was told, and nothing is told again.
LEMMA CompletedBooks ==
    ASSUME NEW rd, NEW e, Expects(rd, e), NEW st \in ParseSet, Books(st, rd), e.type \in EndLines
    PROVE  Books(CodexLine(st, e), Append(rd, e))
<1>0. e \in LineSet /\ e \in SaidSet /\ rd \in Seq(LineSet) /\ e.r \in Nat /\ st.told \in Seq(SaidSet) /\ named \in BOOLEAN
  BY ExpectFacts DEF ParseSet, Expects
<1>1. /\ Finished(st) \in ParseSet /\ Finished(st).told = st.told /\ Finished(st).seen = st.seen
      /\ Finished(st).scope = <<>> /\ Finished(st).next = st.next
  BY <1>0, ScopeFacts
<1>2. CASE e.type = "failed"
  <2> DEFINE g == Finished(st)
             new == Tells(g, e)
  <2>1. CodexLine(st, e) = new
    BY <1>2 DEF CodexLine
  <2> HIDE DEF g
  <2>2. /\ new \in ParseSet /\ new.told = Append(g.told, e) /\ new.seen = g.seen /\ new.scope = g.scope
        /\ new.next = g.next
    BY <1>0, <1>1, TellsFacts DEF g
  <2> HIDE DEF new
  <2>3. new \in ParseSet /\ new.told = Append(st.told, e) /\ new.seen = st.seen /\ new.scope = <<>> /\ new.next = st.next
    BY <1>1, <2>2 DEF g
  <2>4. SameTold(st.told, new.told)
    <3>1. e.type \notin {"delta", "whole"}
      BY <1>2
    <3> QED
      BY <1>0, <2>3, <3>1, ToldBeside
  <2> QED
    BY <2>1, <2>3, <2>4, FailedBooks
<1>3. CASE e.type = "completed"
  <2> DEFINE r == e.r
             n == Len(responses[r])
             new == Finished(st)
  <2>1. CodexLine(st, e) = CompletedItems(st, r)
    BY <1>3 DEF CodexLine
  <2>2. /\ IsOpen(rd, r) /\ n \in Nat
        /\ \A i \in 1..n : Has(rd, Line("delta", r, i)) \/ Has(rd, Line("done", r, i))
    BY EndFacts DEF Expects
  <2>3. InScope(st, r) = st /\ Reading(st, rd, r)
    <3>1. Reading(InScope(st, r), rd, r) /\ (IsOpen(rd, r) => InScope(st, r) = st)
      BY ReadingStarts DEF Expects, Books
    <3> QED
      BY <2>2, <3>1
  <2>4. PICK f : CompletedItems(st, r) = Finished(f[n]) /\ f[0] = InScope(st, r) /\ \A i \in 1..n : f[i] = ToldItem(f[i - 1], r, i)
    BY <1>0, <2>2, CompletedSteps
  <2>5. r \in 1..Len(responses)
    BY NextFacts DEF Expects
  <2>6. ASSUME NEW i \in 1..n PROVE ToldItem(st, r, i) = st
    <3>1. i \in Nat /\ (Key(st, r, i) \in st.seen <=> IsTold(st, rd, r, i))
      BY <1>0, <2>3, <2>5, KeyIsTold DEF Expects
    <3>2. Has(rd, Line("done", r, i)) => IsTold(st, rd, r, i)
      BY <1>0, <3>1, Zenon DEF Books, ToldRight
    <3>3. IsTold(st, rd, r, i)
      BY <2>2, <3>2 DEF IsTold
    <3> QED
      BY <1>0, <3>1, <3>3, ItemFacts
  <2> HIDE DEF n
  <2> DEFINE S == {i \in 0..n : f[i] = st}
  <2>7. 0 \in S
    BY <2>2, <2>3, <2>4
  <2>8. ASSUME NEW i \in 1..n, i - 1 \in S PROVE i \in S
    BY <2>2, <2>4, <2>6, <2>8
  <2>9. n \in S
    <3> HIDE DEF S
    <3> QED
      BY <2>2, <2>7, <2>8, UpTo
  <2>10. CodexLine(st, e) = new
    BY <2>1, <2>4, <2>9
  <2>11. SameTold(st.told, new.told)
    BY <1>1 DEF SameTold
  <2> HIDE DEF new
  <2>12. new \in ParseSet /\ new.seen = st.seen /\ new.scope = <<>> /\ new.next = st.next
    BY <1>1 DEF new
  <2> QED
    BY <2>10, <2>11, <2>12, FailedBooks
<1> QED
  BY <1>2, <1>3 DEF EndLines

\* An item line is read.
LEMMA ItemOpens ==
    ASSUME NEW rd, NEW e, Expects(rd, e), e.type \in ItemLines
    PROVE  /\ IsOpen(Append(rd, e), e.r) /\ \A q \in Nat : IsOpen(Append(rd, e), q) => q = e.r
           /\ \A q : HasItem(rd, q) => HasItem(Append(rd, e), q)
<1> DEFINE rd2 == Append(rd, e)
<1>1. e \in LineSet /\ rd \in Seq(LineSet)
  BY ExpectFacts
<1>2. e.type \notin EndLines
  BY DEF EndLines, ItemLines
<1>3. \A q : (HasItem(rd2, q) <=> HasItem(rd, q) \/ e.r = q) /\ (HasEnd(rd2, q) <=> HasEnd(rd, q))
  BY <1>1, <1>2, ReadMore
<1>4. ~HasEnd(rd, e.r) /\ \A q \in Nat : IsOpen(rd, q) => q = e.r
  BY NextFacts DEF Expects
<1> HIDE DEF rd2
<1>5. IsOpen(rd2, e.r) /\ (\A q \in Nat : IsOpen(rd2, q) => q = e.r) /\ \A q : HasItem(rd, q) => HasItem(rd2, q)
  BY <1>3, <1>4 DEF IsOpen
<1> QED
  BY <1>5 DEF rd2

\* A message goes on.
LEMMA DeltaBooks ==
    ASSUME NEW rd, NEW e, Expects(rd, e), NEW st \in ParseSet, Books(st, rd), e.type = "delta"
    PROVE  Books(CodexLine(st, e), Append(rd, e))
<1> DEFINE r == e.r
           i == e.i
           in == InScope(st, r)
           key == <<"message", in.scope, i>>
           marked == [in EXCEPT !.seen = @ \cup {key}]
           new == Tells(marked, e)
           rd2 == Append(rd, e)
<1>0. /\ e \in LineSet /\ e \in SaidSet /\ rd \in Seq(LineSet) /\ r \in Nat /\ i \in Nat /\ named \in BOOLEAN
      /\ e.type \in ItemLines
  BY ExpectFacts DEF Expects, ItemLines
<1>1. e = Line("delta", r, i)
  BY <1>0, LineIs
<1>2. CodexLine(st, e) = new
  BY <1>1 DEF CodexLine, Delta
<1>3. Reading(in, rd, r) /\ KeysOld(in, rd)
  BY <1>0, ReadingStarts DEF Expects, Books
<1>4. in \in ParseSet
  BY <1>0, ScopeFacts
<1>5. ~Has(rd, Line("done", r, i))
  BY <1>0, DeltaFacts DEF Expects
<1>6. key \in Keys
  BY <1>0, <1>4, KeyFacts
<1> HIDE DEF in, key
<1>7. marked \in ParseSet /\ marked.told = in.told /\ marked.seen = in.seen \cup {key}
      /\ marked.scope = in.scope /\ marked.next = in.next
  BY <1>4, <1>6, MarkFacts
<1> HIDE DEF marked
<1>8. /\ new \in ParseSet /\ new.told = Append(in.told, e) /\ new.seen = in.seen \cup {key}
      /\ new.scope = in.scope /\ new.next = in.next
  BY <1>0, <1>7, TellsFacts
<1>9. in.told \in Seq(SaidSet)
  BY <1>4 DEF ParseSet
<1> HIDE DEF new, rd2
<1>10. ASSUME NEW q \in Nat, NEW j \in Nat
       PROVE  /\ Count(new.told, Line("delta", q, j)) = Count(rd2, Line("delta", q, j))
              /\ Count(new.told, Line("whole", q, j)) = Count(in.told, Line("whole", q, j))
              /\ Has(new.told, Line("whole", q, j)) <=> Has(in.told, Line("whole", q, j))
              /\ Has(rd2, Line("delta", q, j)) <=> Has(rd, Line("delta", q, j)) \/ (q = r /\ j = i)
              /\ Has(rd2, Line("done", q, j)) <=> Has(rd, Line("done", q, j))
  <2>1. Count(in.told, Line("delta", q, j)) = Count(rd, Line("delta", q, j))
    BY <1>3, Zenon DEF Reading, ToldRight
  <2>2. Line("whole", q, j) # e /\ Line("done", q, j) # e /\ (Line("delta", q, j) = e <=> q = r /\ j = i)
    BY <1>1 DEF Line
  <2>3. \A x : /\ Count(in.told, x) \in Nat /\ Count(new.told, x) = Count(in.told, x) + (IF x = e THEN 1 ELSE 0)
               /\ Has(new.told, x) <=> Has(in.told, x) \/ x = e
    BY <1>0, <1>8, <1>9, CountMore
  <2>4. \A x : /\ Count(rd, x) \in Nat /\ Count(rd2, x) = Count(rd, x) + (IF x = e THEN 1 ELSE 0)
               /\ Has(rd2, x) <=> Has(rd, x) \/ x = e
    BY <1>0, CountMore DEF rd2
  <2>5. Count(new.told, Line("delta", q, j)) = Count(rd2, Line("delta", q, j))
    BY <2>1, <2>3, <2>4
  <2>6. Count(new.told, Line("whole", q, j)) = Count(in.told, Line("whole", q, j))
    BY <2>2, <2>3
  <2> QED
    BY <2>2, <2>3, <2>4, <2>5, <2>6
<1>11. \A q, j \in Nat : IsTold(new, rd2, q, j) <=> IsTold(in, rd, q, j) \/ (q = r /\ j = i)
  BY <1>10 DEF IsTold
<1>12. ToldRight(new, rd2)
  <2> SUFFICES ASSUME NEW q \in Nat, NEW j \in Nat
               PROVE  /\ Count(new.told, Line("delta", q, j)) = Count(rd2, Line("delta", q, j))
                      /\ Count(new.told, Line("whole", q, j)) \in {0, 1}
                      /\ Has(rd2, Line("delta", q, j)) => ~Has(new.told, Line("whole", q, j))
                      /\ Has(new.told, Line("whole", q, j)) => Has(rd2, Line("done", q, j))
                      /\ Has(rd2, Line("done", q, j)) => IsTold(new, rd2, q, j)
    BY Zenon DEF ToldRight
  <2>1. /\ Count(in.told, Line("whole", q, j)) \in {0, 1}
        /\ Has(rd, Line("delta", q, j)) => ~Has(in.told, Line("whole", q, j))
        /\ Has(in.told, Line("whole", q, j)) => Has(rd, Line("done", q, j))
        /\ Has(rd, Line("done", q, j)) => IsTold(in, rd, q, j)
    BY <1>3, Zenon DEF Reading, ToldRight
  <2> QED
    BY <1>5, <1>10, <1>11, <2>1
<1>13. CallsSeen(new)
  <2>1. CallsSeen(in)
    BY <1>3 DEF Reading
  <2>2. \A q, j \in Nat : <<"call", q, j>> \in new.seen <=> <<"call", q, j>> \in in.seen
    <3>1. \A q, j \in Nat : <<"call", q, j>> # key
      BY DEF key
    <3> QED
      BY <1>8, <3>1
  <2> QED
    BY <1>10, <2>1, <2>2, Zenon DEF CallsSeen
<1>14. ScopeIs(in, r)
  BY <1>3 DEF Reading
<1>15. ScopeIs(new, r)
  BY <1>8, <1>14 DEF ScopeIs
<1>16. IsOpen(rd2, r) /\ (\A q \in Nat : IsOpen(rd2, q) => q = r) /\ \A q : HasItem(rd, q) => HasItem(rd2, q)
  BY <1>0, ItemOpens DEF rd2
<1>17. KeysOld(new, rd2)
  <2>1. CASE named
    <3>1. key = <<"message", <<"response", r>>, i>>
      BY <1>14, <2>1 DEF key, ScopeIs
    <3>2. HasItem(rd2, r)
      BY <1>16 DEF IsOpen
    <3> QED
      BY <1>3, <1>8, <1>16, <2>1, <3>1, <3>2 DEF KeysOld
  <2>2. CASE ~named
    <3>1. key = <<"message", <<"implicit", in.next - 1>>, i>>
      BY <1>14, <2>2 DEF key, ScopeIs
    <3>2. in.next \in Nat
      BY <1>4 DEF ParseSet
    <3> QED
      BY <1>3, <1>8, <2>2, <3>1, <3>2 DEF KeysOld
  <2> QED
    BY <2>1, <2>2
<1>18. \A j \in Nat : <<"message", new.scope, j>> \in new.seen <=> <<"message", in.scope, j>> \in in.seen \/ j = i
  BY <1>8 DEF key
<1>19. /\ \A j \in Nat : <<"message", in.scope, j>> \in in.seen => IsTold(in, rd, r, j)
       /\ \A j \in Nat : IsTold(in, rd, r, j) /\ responses[r][j].type = "message" => <<"message", in.scope, j>> \in in.seen
  BY <1>3, Zenon DEF Reading
<1>20. /\ \A j \in Nat : <<"message", new.scope, j>> \in new.seen => IsTold(new, rd2, r, j)
       /\ \A j \in Nat : IsTold(new, rd2, r, j) /\ responses[r][j].type = "message" => <<"message", new.scope, j>> \in new.seen
  BY <1>0, <1>11, <1>18, <1>19
<1>21. Reading(new, rd2, r)
  BY <1>12, <1>13, <1>15, <1>20, Zenon DEF Reading
<1>22. Books(new, rd2)
  BY <1>0, <1>8, <1>16, <1>17, <1>21, ReadingEnds DEF Books
<1> QED
  BY <1>2, <1>22 DEF rd2


\* An item is done.
LEMMA DoneBooks ==
    ASSUME NEW rd, NEW e, Expects(rd, e), NEW st \in ParseSet, Books(st, rd), e.type = "done"
    PROVE  Books(CodexLine(st, e), Append(rd, e))
<1> DEFINE r == e.r
           i == e.i
           in == InScope(st, r)
           w == Line("whole", r, i)
           key == Key(in, r, i)
           new == ToldItem(in, r, i)
           rd2 == Append(rd, e)
<1>0. /\ e \in LineSet /\ e \in SaidSet /\ rd \in Seq(LineSet) /\ r \in Nat /\ i \in Nat /\ named \in BOOLEAN
      /\ e.type \in ItemLines
  BY ExpectFacts DEF Expects, ItemLines
<1>1. e = Line("done", r, i) /\ r \in 1..Len(responses) /\ i \in 1..Len(responses[r])
  BY <1>0, LineIs, NextFacts, DeltaFacts DEF Expects
<1>2. CodexLine(st, e) = new
  BY DEF CodexLine
<1>3. Reading(in, rd, r) /\ KeysOld(in, rd)
  BY <1>0, ReadingStarts DEF Expects, Books
<1>4. in \in ParseSet
  BY <1>0, ScopeFacts
<1>5. in.told \in Seq(SaidSet)
  BY <1>4 DEF ParseSet
<1>6. IsOpen(rd2, r) /\ (\A q \in Nat : IsOpen(rd2, q) => q = r) /\ \A q : HasItem(rd, q) => HasItem(rd2, q)
  BY <1>0, ItemOpens
<1>7. key \in Keys /\ (key \in in.seen <=> IsTold(in, rd, r, i))
  <2> HIDE DEF in
  <2> QED
    BY <1>0, <1>1, <1>3, <1>4, KeyIsTold DEF Expects
<1>8. ScopeIs(in, r) /\ CallsSeen(in) /\ ToldRight(in, rd)
  BY <1>3, Zenon DEF Reading
<1>9. w \in SaidSet
  BY <1>0 DEF SaidSet, Line
<1> HIDE DEF in
<1>10. /\ key \in in.seen => new = in
       /\ key \notin in.seen =>
             /\ new \in ParseSet /\ new.told = Append(in.told, w)
             /\ new.seen = in.seen \cup {key} /\ new.scope = in.scope /\ new.next = in.next
  BY <1>0, <1>4, ItemFacts
<1>11. new \in ParseSet /\ new.scope = in.scope /\ new.next = in.next /\ new.seen = in.seen \cup {key}
  <2> HIDE DEF new, key
  <2> QED
    BY <1>4, <1>10
<1>12. /\ responses[r][i].type \in {"message", "call"}
       /\ responses[r][i].type = "message" => key = <<"message", in.scope, i>>
       /\ responses[r][i].type = "call" => key = <<"call", r, i>>
  <2>1. responses[r] \in Seq(ItemRecords)
    BY <1>1 DEF Expects, Complete, ResponseSet
  <2>2. responses[r][i] \in ItemRecords
    BY <1>1, <2>1
  <2> QED
    BY <1>0, <1>4, <2>2, KeyFacts DEF ItemRecords
<1> HIDE DEF new, rd2, key
<1>13. \A x : /\ Count(rd, x) \in Nat /\ Count(rd2, x) = Count(rd, x) + (IF x = e THEN 1 ELSE 0)
              /\ Has(rd2, x) <=> Has(rd, x) \/ x = e
  BY <1>0, CountMore DEF rd2
<1>14. \A x : /\ Count(in.told, x) \in Nat /\ (Count(in.told, x) = 0 <=> ~Has(in.told, x))
              /\ Count(new.told, x) = Count(in.told, x) + (IF x = w /\ key \notin in.seen THEN 1 ELSE 0)
              /\ Has(new.told, x) <=> Has(in.told, x) \/ (x = w /\ key \notin in.seen)
  <2>1. \A x : /\ Count(in.told, x) \in Nat /\ (Count(in.told, x) = 0 <=> ~Has(in.told, x))
               /\ Count(Append(in.told, w), x) = Count(in.told, x) + (IF x = w THEN 1 ELSE 0)
               /\ Has(Append(in.told, w), x) <=> Has(in.told, x) \/ x = w
    <3> HIDE DEF w
    <3> QED
      BY <1>5, <1>9, CountMore
  <2> HIDE DEF w
  <2>2. CASE key \in in.seen
    BY <1>10, <2>1, <2>2
  <2>3. CASE key \notin in.seen
    BY <1>10, <2>1, <2>3
  <2> QED
    BY <2>2, <2>3
<1>15. ASSUME NEW q \in Nat, NEW j \in Nat
       PROVE  /\ Count(new.told, Line("delta", q, j)) = Count(in.told, Line("delta", q, j))
              /\ Count(rd2, Line("delta", q, j)) = Count(rd, Line("delta", q, j))
              /\ Count(new.told, Line("whole", q, j)) =
                    Count(in.told, Line("whole", q, j)) + (IF q = r /\ j = i /\ key \notin in.seen THEN 1 ELSE 0)
              /\ Has(new.told, Line("whole", q, j)) <=> Has(in.told, Line("whole", q, j)) \/ (q = r /\ j = i /\ key \notin in.seen)
              /\ Has(rd2, Line("delta", q, j)) <=> Has(rd, Line("delta", q, j))
              /\ Has(rd2, Line("done", q, j)) <=> Has(rd, Line("done", q, j)) \/ (q = r /\ j = i)
  <2>1. /\ Line("delta", q, j) # e /\ (Line("done", q, j) = e <=> q = r /\ j = i)
        /\ Line("delta", q, j) # w /\ (Line("whole", q, j) = w <=> q = r /\ j = i)
    BY <1>1 DEF Line
  <2> HIDE DEF w, r, i
  <2> QED
    BY <1>13, <1>14, <2>1
<1>16. IsTold(new, rd2, r, i)
  BY <1>0, <1>7, <1>15 DEF IsTold
<1>17. \A q, j \in Nat : IsTold(new, rd2, q, j) <=> IsTold(in, rd, q, j) \/ (q = r /\ j = i)
  BY <1>15, <1>16 DEF IsTold
<1>18. ToldRight(new, rd2)
  <2> SUFFICES ASSUME NEW q \in Nat, NEW j \in Nat
               PROVE  /\ Count(new.told, Line("delta", q, j)) = Count(rd2, Line("delta", q, j))
                      /\ Count(new.told, Line("whole", q, j)) \in {0, 1}
                      /\ Has(rd2, Line("delta", q, j)) => ~Has(new.told, Line("whole", q, j))
                      /\ Has(new.told, Line("whole", q, j)) => Has(rd2, Line("done", q, j))
                      /\ Has(rd2, Line("done", q, j)) => IsTold(new, rd2, q, j)
    BY Zenon DEF ToldRight
  <2>1. /\ Count(in.told, Line("delta", q, j)) = Count(rd, Line("delta", q, j))
        /\ Count(in.told, Line("whole", q, j)) \in {0, 1}
        /\ Has(rd, Line("delta", q, j)) => ~Has(in.told, Line("whole", q, j))
        /\ Has(in.told, Line("whole", q, j)) => Has(rd, Line("done", q, j))
        /\ Has(rd, Line("done", q, j)) => IsTold(in, rd, q, j)
    BY <1>8, Zenon DEF ToldRight
  <2>2. CASE q = r /\ j = i /\ key \notin in.seen
    <3>1. ~Has(rd, Line("delta", q, j)) /\ ~Has(in.told, Line("whole", q, j))
      BY <1>7, <2>2 DEF IsTold
    <3>2. Count(in.told, Line("whole", q, j)) = 0
      BY <1>14, <3>1
    <3> QED
      BY <1>15, <1>17, <2>1, <2>2, <3>1, <3>2
  <2>3. CASE ~(q = r /\ j = i /\ key \notin in.seen)
    <3>1. Count(in.told, Line("whole", q, j)) \in Nat
      BY <1>14
    <3> QED
      BY <1>15, <1>17, <2>1, <2>3, <3>1
  <2> QED
    BY <2>2, <2>3
<1>19. CallsSeen(new)
  <2>1. ASSUME NEW q \in Nat, NEW j \in Nat, <<"call", q, j>> \in new.seen PROVE Has(new.told, Line("whole", q, j))
    <3>1. CASE <<"call", q, j>> \in in.seen
      BY <1>8, <1>15, <3>1 DEF CallsSeen
    <3>2. CASE <<"call", q, j>> \notin in.seen
      <4>1. key = <<"call", q, j>>
        BY <1>11, <2>1, <3>2
      <4>2. q = r /\ j = i
        <5>1. responses[r][i].type = "call" /\ key = <<"call", r, i>>
          BY <1>12, <4>1
        <5> QED
          BY <4>1, <5>1
      <4> QED
        BY <1>15, <3>2, <4>1, <4>2
    <3> QED
      BY <3>1, <3>2
  <2>2. ASSUME NEW q \in Nat, NEW j \in Nat, Has(new.told, Line("whole", q, j)), responses[q][j].type = "call"
        PROVE  <<"call", q, j>> \in new.seen
    <3>1. CASE Has(in.told, Line("whole", q, j))
      BY <1>8, <1>11, <2>2, <3>1 DEF CallsSeen
    <3>2. CASE q = r /\ j = i
      BY <1>11, <1>12, <2>2, <3>2
    <3> QED
      BY <1>15, <2>2, <3>1, <3>2
  <2> QED
    BY <2>1, <2>2, Zenon DEF CallsSeen
<1>20. ScopeIs(new, r)
  BY <1>8, <1>11 DEF ScopeIs
<1>21. key = <<"message", in.scope, i>> \/ key = <<"call", r, i>>
  BY <1>12
<1>22. KeysOld(new, rd2)
  <2>1. CASE named
    <3>1. in.scope = <<"response", r>>
      BY <1>8, <2>1 DEF ScopeIs
    <3>2. HasItem(rd2, r)
      BY <1>6 DEF IsOpen
    <3>3. ASSUME NEW q \in Nat, NEW j \in Nat, <<"message", <<"response", q>>, j>> \in new.seen PROVE HasItem(rd2, q)
      <4>1. CASE <<"message", <<"response", q>>, j>> \in in.seen
        BY <1>3, <1>6, <2>1, <4>1 DEF KeysOld
      <4>2. CASE <<"message", <<"response", q>>, j>> = key
        BY <1>21, <3>1, <3>2, <4>2
      <4> QED
        BY <1>11, <3>3, <4>1, <4>2
    <3> QED
      BY <2>1, <3>3 DEF KeysOld
  <2>2. CASE ~named
    <3>1. in.scope = <<"implicit", in.next - 1>> /\ in.next >= 1
      BY <1>8, <2>2 DEF ScopeIs
    <3>2. in.next \in Nat
      BY <1>4 DEF ParseSet
    <3>3. ASSUME NEW n \in Nat, NEW j \in Nat, <<"message", <<"implicit", n>>, j>> \in new.seen PROVE n < new.next
      <4>1. CASE <<"message", <<"implicit", n>>, j>> \in in.seen
        BY <1>3, <1>11, <2>2, <4>1 DEF KeysOld
      <4>2. CASE <<"message", <<"implicit", n>>, j>> = key
        BY <1>11, <1>21, <3>1, <3>2, <4>2
      <4> QED
        BY <1>11, <3>3, <4>1, <4>2
    <3> QED
      BY <2>2, <3>3 DEF KeysOld
  <2> QED
    BY <2>1, <2>2
<1>23. /\ \A j \in Nat : <<"message", in.scope, j>> \in in.seen => IsTold(in, rd, r, j)
       /\ \A j \in Nat : IsTold(in, rd, r, j) /\ responses[r][j].type = "message" => <<"message", in.scope, j>> \in in.seen
  BY <1>3, Zenon DEF Reading
<1>24. ASSUME NEW j \in Nat, <<"message", new.scope, j>> \in new.seen PROVE IsTold(new, rd2, r, j)
  <2>1. CASE <<"message", in.scope, j>> \in in.seen
    BY <1>0, <1>17, <1>23, <2>1
  <2>2. CASE <<"message", in.scope, j>> = key
    <3>1. j = i
      BY <1>21, <2>2
    <3> QED
      BY <1>16, <3>1
  <2> QED
    BY <1>11, <1>24, <2>1, <2>2
<1>25. ASSUME NEW j \in Nat, IsTold(new, rd2, r, j), responses[r][j].type = "message"
       PROVE  <<"message", new.scope, j>> \in new.seen
  <2>1. CASE IsTold(in, rd, r, j)
    BY <1>11, <1>23, <1>25, <2>1
  <2>2. CASE j = i
    BY <1>11, <1>12, <1>25, <2>2
  <2> QED
    BY <1>0, <1>17, <1>25, <2>1, <2>2
<1>26. Reading(new, rd2, r)
  BY <1>18, <1>19, <1>20, <1>24, <1>25, Zenon DEF Reading
<1>27. Books(new, rd2)
  BY <1>0, <1>6, <1>11, <1>22, <1>26, ReadingEnds DEF Books
<1> QED
  BY <1>2, <1>27 DEF rd2

\* A line that is read leaves the books right, and the session told once.
LEMMA HearKeeps ==
    ASSUME CliTyped, WroteRight, NEW rd \in Seq(LineSet), Len(rd) < Len(wrote), \A k \in 1..Len(rd) : rd[k] = wrote[k],
           NEW st, ParseRight(st, rd), NEW e, e = wrote[Len(rd) + 1]
    PROVE  ParseRight(ParseLine(st, e), Append(rd, e))
<1>1. st \in ParseSet /\ SessionOnce(st) /\ BooksRight(st, rd)
  BY DEF ParseRight
<1>2. Len(rd) \in Nat /\ Len(wrote) \in Nat /\ Len(rd) + 1 \in 1..Len(wrote)
  BY DEF CliTyped
<1>3. e \in LineSet /\ (e.type \in EndLines => e.r \in 1..Len(responses))
  BY <1>2 DEF CliTyped, EndsIn
<1>4. ParseLine(st, e) \in ParseSet /\ SessionOnce(ParseLine(st, e))
  BY <1>1, <1>3, LineOnce
<1>5. ASSUME client = "codex", ~cut PROVE Books(ParseLine(st, e), Append(rd, e))
  <2> DEFINE g == FirstOf(st, e)
  <2>1. Wholly(wrote, responses)
    BY <1>5 DEF WroteRight
  <2>2. Expects(rd, e)
    BY <1>5, <2>1 DEF Expects, Complete, CliTyped
  <2>3. Books(st, rd)
    BY <1>1, <1>5 DEF BooksRight, Books
  <2>4. /\ g \in ParseSet /\ Alike(st, g)
        /\ g.told = st.told \/ g.told = Append(st.told, SessionLine)
        /\ ParseLine(st, e) = CodexLine(g, e)
    BY <1>1, <1>5, FirstFacts DEF Alike
  <2> HIDE DEF g
  <2>5. SameTold(st.told, g.told)
    <3>1. CASE g.told = st.told
      BY <3>1 DEF SameTold
    <3>2. CASE g.told = Append(st.told, SessionLine)
      <4>1. st.told \in Seq(SaidSet)
        BY <1>1 DEF ParseSet
      <4>2. SessionLine \in SaidSet /\ SessionLine.type \notin {"delta", "whole"}
        BY DEF SessionLine, SaidSet, Line
      <4> QED
        BY <3>2, <4>1, <4>2, ToldBeside
    <3> QED
      BY <2>4, <3>1, <3>2
  <2>6. SameRead(rd, rd)
    BY DEF SameRead
  <2>7. Books(g, rd)
    BY <2>3, <2>4, <2>5, <2>6, BooksBeside DEF Books
  <2>8. e.type \in {"delta", "done"} \cup EndLines \cup OtherLines
    BY <1>3 DEF LineSet, ItemLines
  <2>9. Books(CodexLine(g, e), Append(rd, e))
    BY <2>2, <2>4, <2>7, <2>8, DeltaBooks, DoneBooks, CompletedBooks, OtherBooks
  <2> QED
    BY <2>4, <2>9
<1> QED
  BY <1>4, <1>5 DEF ParseRight, BooksRight, Books


-----------------------------------------------------------------------------
(* The text between the client and its lines.                              *)

\* Sequences of one length that agree everywhere are one.
LEMMA SameLines ==
    ASSUME NEW T, NEW s \in Seq(T), NEW t \in Seq(T), Len(s) = Len(t), \A k \in 1..Len(s) : s[k] = t[k]
    PROVE  s = t
  BY SeqEqual

\* The chunk that is read follows what is in the buffer.
LEMMA ConcatFacts ==
    ASSUME NEW b \in Seq(Halves), NEW p \in Seq(Halves)
    PROVE  /\ b \o p \in Seq(Halves) /\ Len(b \o p) = Len(b) + Len(p) /\ Len(b) \in Nat /\ Len(p) \in Nat
           /\ \A k \in 1..Len(b) : (b \o p)[k] = b[k]
           /\ \A k \in 1..Len(p) : (b \o p)[Len(b) + k] = p[k]
  OBVIOUS

\* What is left once the first m are taken.
LEMMA RestFacts ==
    ASSUME NEW s \in Seq(Halves), NEW m \in Nat, m <= Len(s)
    PROVE  /\ SubSeq(s, m + 1, Len(s)) \in Seq(Halves) /\ Len(SubSeq(s, m + 1, Len(s))) = Len(s) - m
           /\ \A k \in 1..(Len(s) - m) : SubSeq(s, m + 1, Len(s))[k] = s[m + k]
  OBVIOUS

\* A half is no newline, and tells its line.
LEMMA HalfFacts ==
    ASSUME NEW e
    PROVE  Half(e) # Newline /\ Half(e).line = e
<1>1. Half(e).type = "half" /\ Half(e).line = e /\ Newline.type = "newline"
  BY DEF Half, Newline
<1> QED
  BY <1>1

\* Two halves of one line are that line again.
LEMMA EventIs ==
    ASSUME NEW line, Len(line) = 2, NEW e, line[1] = Half(e), line[2] = Half(e)
    PROVE  Event(line) = e
  BY HalfFacts DEF Event, Whole

\* The text is known by its length and what is at each place.
LEMMA EncodesSame ==
    ASSUME NEW t, NEW n, NEW w \in Seq(LineSet), Encodes(t, n, w),
           NEW t2 \in Seq(Halves), Len(t2) = Len(t), \A k \in 1..Len(t) : t2[k] = t[k]
    PROVE  Encodes(t2, n, w)
<1>1. t \in Seq(Halves)
  BY DEF Encodes
<1>2. t2 = t
  BY <1>1, SameLines
<1> QED
  BY <1>2

\* A chunk moves into the buffer.
LEMMA ReadKeeps ==
    ASSUME NEW b, NEW p, NEW rd, NEW w \in Seq(LineSet), Sent(b, p, rd, w), NEW k \in 1..Len(p)
    PROVE  LET b2 == b \o SubSeq(p, 1, k)
               p2 == SubSeq(p, k + 1, Len(p))
           IN  Sent(b2, p2, rd, w) /\ (AllSent(b, p, rd, w) => AllSent(b2, p2, rd, w))
<1> DEFINE c == SubSeq(p, 1, k)
           b2 == b \o c
           p2 == SubSeq(p, k + 1, Len(p))
           t == b \o p
           t2 == b2 \o p2
<1>1. b \in Seq(Halves) /\ p \in Seq(Halves) /\ k \in Nat /\ k <= Len(p) /\ Len(p) \in Nat /\ Len(b) \in Nat
  BY DEF Sent
<1>2. c \in Seq(Halves) /\ Len(c) = k /\ \A i \in 1..k : c[i] = p[i]
  BY <1>1
<1>3. p2 \in Seq(Halves) /\ Len(p2) = Len(p) - k /\ \A i \in 1..(Len(p) - k) : p2[i] = p[k + i]
  BY <1>1, RestFacts
<1> HIDE DEF c, p2
<1>4. /\ b2 \in Seq(Halves) /\ Len(b2) = Len(b) + k
      /\ \A i \in 1..Len(b) : b2[i] = b[i]
      /\ \A i \in 1..k : b2[Len(b) + i] = p[i]
  BY <1>1, <1>2, ConcatFacts
<1> HIDE DEF b2
<1>5. /\ t \in Seq(Halves) /\ Len(t) = Len(b) + Len(p)
      /\ \A i \in 1..Len(b) : t[i] = b[i]
      /\ \A i \in 1..Len(p) : t[Len(b) + i] = p[i]
  BY <1>1, ConcatFacts
<1>6. /\ t2 \in Seq(Halves) /\ Len(t2) = Len(b2) + Len(p2)
      /\ \A i \in 1..Len(b2) : t2[i] = b2[i]
      /\ \A i \in 1..Len(p2) : t2[Len(b2) + i] = p2[i]
  BY <1>3, <1>4, ConcatFacts
<1> HIDE DEF t, t2
<1>7. Len(t2) = Len(t)
  BY <1>1, <1>3, <1>4, <1>5, <1>6
<1>8. ASSUME NEW i \in 1..Len(t) PROVE t2[i] = t[i]
  <2>1. CASE i \in 1..Len(b)
    BY <1>1, <1>4, <1>5, <1>6, <2>1
  <2>2. CASE i - Len(b) \in 1..k
    <3>1. i \in 1..Len(b2) /\ i = Len(b) + (i - Len(b)) /\ i - Len(b) \in 1..Len(p)
      BY <1>1, <1>4, <2>2
    <3>2. t2[i] = p[i - Len(b)]
      BY <1>4, <1>6, <2>2, <3>1
    <3>3. t[i] = p[i - Len(b)]
      BY <1>5, <3>1
    <3> QED
      BY <3>2, <3>3
  <2>3. CASE i - Len(b) - k \in 1..(Len(p) - k)
    <3> DEFINE j == i - Len(b) - k
    <3>1. /\ j \in 1..Len(p2) /\ i = Len(b2) + j /\ i = Len(b) + (k + j) /\ k + j \in 1..Len(p)
          /\ j \in 1..(Len(p) - k)
      BY <1>1, <1>3, <1>4, <2>3
    <3> HIDE DEF j
    <3>2. t2[i] = p2[j] /\ p2[j] = p[k + j]
      BY <1>3, <1>6, <3>1
    <3>3. t[i] = p[k + j]
      BY <1>5, <3>1
    <3> QED
      BY <3>2, <3>3
  <2> QED
    BY <1>1, <1>5, <2>1, <2>2, <2>3
<1>9. Encodes(t, Len(rd), w) /\ \A i \in 1..Len(rd) : rd[i] = w[i]
  BY DEF Sent, t
<1>10. Encodes(t2, Len(rd), w)
  BY <1>6, <1>7, <1>8, <1>9, EncodesSame
<1>11. Sent(b2, p2, rd, w) /\ (AllSent(b, p, rd, w) => AllSent(b2, p2, rd, w))
  BY <1>3, <1>4, <1>7, <1>9, <1>10 DEF Sent, AllSent, t, t2
<1> QED
  BY <1>11 DEF b2, p2, c

\* What the first line of the buffer is.
LEMMA FirstLine ==
    ASSUME NEW b, NEW p, NEW rd, NEW w \in Seq(LineSet), Sent(b, p, rd, w), NEW m \in 1..Len(b), b[m] = Newline,
           \A i \in 1..(m - 1) : b[i] # Newline
    PROVE  /\ m = 3 /\ Len(b) >= 3 /\ Len(rd) \in Nat /\ Len(rd) < Len(w)
           /\ Event(SubSeq(b, 1, m - 1)) = w[Len(rd) + 1]
<1> DEFINE t == b \o p
           n == Len(rd)
<1>1. b \in Seq(Halves) /\ p \in Seq(Halves) /\ Encodes(t, n, w)
  BY DEF Sent
<1>2. Len(t) = Len(b) + Len(p) /\ Len(b) \in Nat /\ Len(p) \in Nat /\ \A i \in 1..Len(b) : t[i] = b[i]
  BY <1>1, ConcatFacts
<1> HIDE DEF t
<1>3. n \in 0..Len(w) /\ Len(w) \in Nat /\ Len(t) \in {3 * (Len(w) - n), 3 * (Len(w) - n) - 1}
  BY <1>1 DEF Encodes
<1> HIDE DEF n
<1>4. n < Len(w) /\ 1 \in 1..(Len(w) - n)
  BY <1>2, <1>3
<1>5. t[1] = Half(w[n + 1]) /\ t[2] = Half(w[n + 1]) /\ (3 <= Len(t) => t[3] = Newline)
  BY <1>1, <1>4 DEF Encodes
<1>6. m # 1 /\ m # 2
  BY <1>2, <1>5, HalfFacts
<1>7. m >= 3 /\ Len(b) >= 3 /\ Len(t) >= 3
  BY <1>2, <1>6
<1>8. b[3] = Newline /\ b[1] = Half(w[n + 1]) /\ b[2] = Half(w[n + 1])
  BY <1>2, <1>5, <1>7
<1>9. m = 3
  BY <1>2, <1>7, <1>8
<1>10. Len(SubSeq(b, 1, 2)) = 2 /\ SubSeq(b, 1, 2)[1] = b[1] /\ SubSeq(b, 1, 2)[2] = b[2]
  BY <1>1, <1>7
<1>11. Event(SubSeq(b, 1, 2)) = w[n + 1]
  BY <1>8, <1>10, EventIs
<1> QED
  BY <1>3, <1>4, <1>7, <1>9, <1>11 DEF n

\* The first line is taken.
LEMMA TakeKeeps ==
    ASSUME NEW b, NEW p, NEW rd \in Seq(LineSet), NEW w \in Seq(LineSet), Sent(b, p, rd, w), Len(b) >= 3, Len(rd) < Len(w)
    PROVE  LET b2 == SubSeq(b, 4, Len(b))
               rd2 == Append(rd, w[Len(rd) + 1])
           IN  Sent(b2, p, rd2, w) /\ (AllSent(b, p, rd, w) => AllSent(b2, p, rd2, w)) /\ rd2 \in Seq(LineSet)
<1> DEFINE n == Len(rd)
           e == w[n + 1]
           b2 == SubSeq(b, 4, Len(b))
           rd2 == Append(rd, e)
           t == b \o p
           t2 == b2 \o p
<1>1. b \in Seq(Halves) /\ p \in Seq(Halves) /\ Encodes(t, n, w) /\ \A k \in 1..n : rd[k] = w[k]
  BY DEF Sent
<1>2. n \in Nat /\ Len(w) \in Nat /\ n < Len(w) /\ e \in LineSet
  OBVIOUS
<1>3. rd2 \in Seq(LineSet) /\ Len(rd2) = n + 1 /\ \A k \in 1..(n + 1) : rd2[k] = w[k]
  BY <1>1, <1>2
<1>4. b2 \in Seq(Halves) /\ Len(b2) = Len(b) - 3 /\ \A k \in 1..(Len(b) - 3) : b2[k] = b[3 + k]
  <2> DEFINE m == 3
  <2>1. m \in Nat /\ m <= Len(b) /\ m + 1 = 4
    OBVIOUS
  <2> HIDE DEF m
  <2>2. /\ SubSeq(b, m + 1, Len(b)) \in Seq(Halves) /\ Len(SubSeq(b, m + 1, Len(b))) = Len(b) - m
        /\ \A k \in 1..(Len(b) - m) : SubSeq(b, m + 1, Len(b))[k] = b[m + k]
    BY <1>1, <2>1, RestFacts
  <2> QED
    BY <2>1, <2>2 DEF m
<1> HIDE DEF b2, rd2, e
<1>5. /\ Len(t) = Len(b) + Len(p) /\ Len(b) \in Nat /\ Len(p) \in Nat
      /\ \A k \in 1..Len(b) : t[k] = b[k]
      /\ \A k \in 1..Len(p) : t[Len(b) + k] = p[k]
  BY <1>1, ConcatFacts
<1>6. /\ t2 \in Seq(Halves) /\ Len(t2) = Len(b2) + Len(p)
      /\ \A k \in 1..Len(b2) : t2[k] = b2[k]
      /\ \A k \in 1..Len(p) : t2[Len(b2) + k] = p[k]
  BY <1>1, <1>4, ConcatFacts
<1> HIDE DEF t, t2, n
<1>7. Len(t2) = Len(t) - 3
  BY <1>4, <1>5, <1>6
<1>8. ASSUME NEW k \in 1..(Len(t) - 3) PROVE t2[k] = t[k + 3]
  <2>1. CASE k \in 1..(Len(b) - 3)
    <3>1. k + 3 \in 1..Len(b) /\ k + 3 = 3 + k /\ k \in 1..Len(b2)
      BY <1>4, <1>5, <2>1
    <3> QED
      BY <1>4, <1>5, <1>6, <2>1, <3>1
  <2>2. CASE k - (Len(b) - 3) \in 1..Len(p)
    <3> DEFINE j == k - (Len(b) - 3)
    <3>1. j \in 1..Len(p) /\ k = Len(b2) + j /\ k + 3 = Len(b) + j
      BY <1>4, <1>5, <2>2
    <3> HIDE DEF j
    <3> QED
      BY <1>5, <1>6, <3>1
  <2> QED
    BY <1>5, <2>1, <2>2
<1>9. Encodes(t2, n + 1, w)
  <2>0. Len(t) \in {3 * (Len(w) - n), 3 * (Len(w) - n) - 1}
    BY <1>1 DEF Encodes
  <2>1. n + 1 \in 0..Len(w) /\ Len(t2) \in {3 * (Len(w) - (n + 1)), 3 * (Len(w) - (n + 1)) - 1}
    BY <1>2, <1>7, <2>0
  <2>2. ASSUME NEW k \in 1..(Len(w) - (n + 1))
        PROVE  /\ t2[3 * k - 2] = Half(w[(n + 1) + k]) /\ t2[3 * k - 1] = Half(w[(n + 1) + k])
               /\ 3 * k <= Len(t2) => t2[3 * k] = Newline
    <3>1. /\ k + 1 \in 1..(Len(w) - n) /\ n + (k + 1) = (n + 1) + k
          /\ 3 * (k + 1) - 2 = (3 * k - 2) + 3 /\ 3 * (k + 1) - 1 = (3 * k - 1) + 3 /\ 3 * (k + 1) = 3 * k + 3
      BY <1>2
    <3>2. /\ t[3 * (k + 1) - 2] = Half(w[n + (k + 1)]) /\ t[3 * (k + 1) - 1] = Half(w[n + (k + 1)])
          /\ 3 * (k + 1) <= Len(t) => t[3 * (k + 1)] = Newline
      BY <1>1, <3>1 DEF Encodes
    <3>3. 3 * k - 2 \in 1..(Len(t) - 3) /\ 3 * k - 1 \in 1..(Len(t) - 3) /\ (3 * k <= Len(t2) => 3 * k \in 1..(Len(t) - 3))
      BY <1>2, <1>7, <2>1
    <3>4. t2[3 * k - 2] = t[(3 * k - 2) + 3] /\ t2[3 * k - 1] = t[(3 * k - 1) + 3]
      BY <1>8, <3>3
    <3>5. 3 * k <= Len(t2) => t2[3 * k] = t[3 * k + 3] /\ 3 * k + 3 <= Len(t)
      BY <1>2, <1>7, <1>8, <3>3
    <3> QED
      BY <3>1, <3>2, <3>4, <3>5
  <2> QED
    BY <1>6, <2>1, <2>2 DEF Encodes
<1>10. Sent(b2, p, rd2, w)
  BY <1>1, <1>3, <1>4, <1>9 DEF Sent, t2
<1>11. AllSent(b, p, rd, w) => AllSent(b2, p, rd2, w)
  <2> SUFFICES ASSUME Len(t) = 3 * (Len(w) - n) PROVE Len(t2) = 3 * (Len(w) - (n + 1))
    BY <1>3 DEF AllSent, t, t2, n
  <2> QED
    BY <1>2, <1>7
<1> QED
  BY <1>3, <1>10, <1>11 DEF b2, rd2, e, n


\* The client writes a line.
LEMMA SendKeeps ==
    ASSUME NEW b, NEW p, NEW rd \in Seq(LineSet), NEW w \in Seq(LineSet), Sent(b, p, rd, w), AllSent(b, p, rd, w),
           NEW e \in LineSet, NEW newline \in BOOLEAN
    PROVE  LET p2 == p \o <<Half(e), Half(e)>> \o (IF newline THEN <<Newline>> ELSE <<>>)
               w2 == Append(w, e)
           IN  Sent(b, p2, rd, w2) /\ (newline => AllSent(b, p2, rd, w2))
<1> DEFINE n == Len(rd)
           h == Half(e)
           s == IF newline THEN <<h, h, Newline>> ELSE <<h, h>>
           p2 == p \o <<h, h>> \o (IF newline THEN <<Newline>> ELSE <<>>)
           w2 == Append(w, e)
           t == b \o p
           t2 == b \o p2
           m == IF newline THEN 3 ELSE 2
<1>1. b \in Seq(Halves) /\ p \in Seq(Halves) /\ Encodes(t, n, w) /\ \A k \in 1..n : rd[k] = w[k]
  BY DEF Sent
<1>2. n \in Nat /\ Len(w) \in Nat /\ Len(w2) = Len(w) + 1 /\ w2[Len(w) + 1] = e /\ \A k \in 1..Len(w) : w2[k] = w[k]
  OBVIOUS
<1>3. h \in Halves /\ Newline \in Halves
  BY DEF Halves
<1> HIDE DEF h
<1>4. p2 \in Seq(Halves) /\ Len(p2) = Len(p) + m /\ \A k \in 1..Len(p) : p2[k] = p[k]
  BY <1>1, <1>3
<1>5. p2[Len(p) + 1] = h /\ p2[Len(p) + 2] = h /\ (newline => p2[Len(p) + 3] = Newline)
  BY <1>1, <1>3
<1> HIDE DEF p2, w2
<1>6. /\ Len(t) = Len(b) + Len(p) /\ Len(b) \in Nat /\ Len(p) \in Nat
      /\ \A k \in 1..Len(b) : t[k] = b[k]
      /\ \A k \in 1..Len(p) : t[Len(b) + k] = p[k]
  BY <1>1, ConcatFacts
<1>7. /\ t2 \in Seq(Halves) /\ Len(t2) = Len(b) + Len(p2)
      /\ \A k \in 1..Len(b) : t2[k] = b[k]
      /\ \A k \in 1..Len(p2) : t2[Len(b) + k] = p2[k]
  BY <1>1, <1>4, ConcatFacts
<1>8. n \in 0..Len(w) /\ Len(t) = 3 * (Len(w) - n)
  BY <1>1 DEF Encodes, AllSent
<1> HIDE DEF t, t2, n
<1>9. Len(t2) = Len(t) + m /\ m \in {2, 3} /\ (newline <=> m = 3)
  <2>1. m \in {2, 3} /\ (newline <=> m = 3)
    OBVIOUS
  <2> HIDE DEF m
  <2> QED
    BY <1>4, <1>6, <1>7, <2>1
<1>10. \A k \in 1..Len(t) : t2[k] = t[k]
  <2> SUFFICES ASSUME NEW k \in 1..Len(t) PROVE t2[k] = t[k]
    OBVIOUS
  <2>1. CASE k \in 1..Len(b)
    BY <1>6, <1>7, <2>1
  <2>2. CASE k - Len(b) \in 1..Len(p)
    <3>1. k - Len(b) \in 1..Len(p2) /\ k = Len(b) + (k - Len(b))
      BY <1>4, <1>6, <1>9, <2>2
    <3>2. t2[k] = p2[k - Len(b)] /\ t[k] = p[k - Len(b)] /\ p2[k - Len(b)] = p[k - Len(b)]
      BY <1>4, <1>6, <1>7, <2>2, <3>1
    <3> QED
      BY <3>2
  <2> QED
    BY <1>6, <2>1, <2>2
<1>11. t2[Len(t) + 1] = h /\ t2[Len(t) + 2] = h /\ (newline => t2[Len(t) + 3] = Newline)
  <2>1. /\ Len(p) + 1 \in 1..Len(p2) /\ Len(p) + 2 \in 1..Len(p2) /\ (newline => Len(p) + 3 \in 1..Len(p2))
        /\ Len(t) + 1 = Len(b) + (Len(p) + 1) /\ Len(t) + 2 = Len(b) + (Len(p) + 2)
        /\ Len(t) + 3 = Len(b) + (Len(p) + 3)
    BY <1>4, <1>6, <1>9
  <2> QED
    BY <1>5, <1>7, <2>1
<1> HIDE DEF m
<1>12. Encodes(t2, n, w2)
  <2>1. n \in 0..Len(w2) /\ Len(t2) \in {3 * (Len(w2) - n), 3 * (Len(w2) - n) - 1}
    <3>1. Len(t2) = 3 * (Len(w2) - n) \/ Len(t2) = 3 * (Len(w2) - n) - 1
      BY <1>2, <1>8, <1>9
    <3>2. n \in 0..Len(w2)
      BY <1>2, <1>8
    <3> QED
      BY <3>1, <3>2
  <2>2. ASSUME NEW k \in 1..(Len(w2) - n)
        PROVE  /\ t2[3 * k - 2] = Half(w2[n + k]) /\ t2[3 * k - 1] = Half(w2[n + k])
               /\ 3 * k <= Len(t2) => t2[3 * k] = Newline
    <3>1. CASE k \in 1..(Len(w) - n)
      <4>1. t[3 * k - 2] = Half(w[n + k]) /\ t[3 * k - 1] = Half(w[n + k]) /\ (3 * k <= Len(t) => t[3 * k] = Newline)
        BY <1>1, <3>1 DEF Encodes
      <4>2. 3 * k - 2 \in 1..Len(t) /\ 3 * k - 1 \in 1..Len(t) /\ 3 * k \in 1..Len(t) /\ 3 * k <= Len(t) /\ n + k \in 1..Len(w)
        BY <1>2, <1>8, <3>1
      <4> QED
        BY <1>2, <1>10, <4>1, <4>2
    <3>2. CASE k = Len(w) - n + 1
      <4>1. 3 * k - 2 = Len(t) + 1 /\ 3 * k - 1 = Len(t) + 2 /\ 3 * k = Len(t) + 3 /\ n + k = Len(w) + 1
        BY <1>2, <1>8, <3>2
      <4>2. 3 * k <= Len(t2) => newline
        BY <1>2, <1>8, <1>9, <4>1
      <4> QED
        BY <1>2, <1>11, <4>1, <4>2 DEF h
    <3> QED
      BY <1>2, <1>8, <3>1, <3>2
  <2> QED
    BY <1>7, <2>1, <2>2 DEF Encodes
<1>13. \A k \in 1..n : rd[k] = w2[k]
  <2>1. n \in Nat /\ Len(w) \in Nat /\ n <= Len(w)
    BY <1>2, <1>8
  <2>2. \A k \in 1..n : k \in 1..Len(w)
    BY <2>1
  <2>3. \A k \in 1..n : rd[k] = w[k]
    BY <1>1
  <2> QED
    BY <1>2, <2>2, <2>3
<1>14. Sent(b, p2, rd, w2)
  BY <1>1, <1>4, <1>12, <1>13 DEF Sent, t2, n
<1>15. newline => AllSent(b, p2, rd, w2)
  <2>1. newline => Len(t2) = 3 * (Len(w2) - n)
    BY <1>2, <1>8, <1>9
  <2> QED
    BY <2>1 DEF AllSent, t2, n
<1> QED
  BY <1>14, <1>15 DEF p2, w2, h

\* What is left at the end of the output is one line without its newline, or none.
LEMMA LastLine ==
    ASSUME NEW b, NEW rd \in Seq(LineSet), NEW w \in Seq(LineSet), Sent(b, <<>>, rd, w), \A k \in 1..Len(b) : b[k] # Newline
    PROVE  \/ b = <<>> /\ rd = w
           \/ b # <<>> /\ Len(rd) < Len(w) /\ Event(b) = w[Len(rd) + 1] /\ Append(rd, w[Len(rd) + 1]) = w
<1> DEFINE n == Len(rd)
           t == b \o <<>>
<1>1. b \in Seq(Halves) /\ Encodes(t, n, w) /\ \A k \in 1..n : rd[k] = w[k]
  BY DEF Sent
<1>2. Len(t) = Len(b) /\ Len(b) \in Nat /\ \A k \in 1..Len(b) : t[k] = b[k]
  BY <1>1
<1> HIDE DEF t
<1>3. n \in 0..Len(w) /\ Len(w) \in Nat /\ Len(t) \in {3 * (Len(w) - n), 3 * (Len(w) - n) - 1}
  BY <1>1 DEF Encodes
<1>4. Len(t) < 3
  <2> SUFFICES ASSUME Len(t) >= 3 PROVE FALSE
    BY <1>2
  <2>1. 1 \in 1..(Len(w) - n)
    BY <1>2, <1>3
  <2>2. t[3 * 1] = Newline
    BY <1>1, <2>1 DEF Encodes
  <2> QED
    BY <1>2, <2>2
<1>5. CASE Len(w) = n
  <2>1. rd = w
    BY <1>1, <1>5, SameLines
  <2>2. b = <<>>
    BY <1>1, <1>2, <1>3, <1>5
  <2> QED
    BY <2>1, <2>2
<1>6. CASE Len(w) # n
  <2>1. Len(w) = n + 1 /\ Len(b) = 2 /\ 1 \in 1..(Len(w) - n) /\ n \in Nat
    BY <1>2, <1>3, <1>4, <1>6
  <2>2. t[3 * 1 - 2] = Half(w[n + 1]) /\ t[3 * 1 - 1] = Half(w[n + 1])
    BY <1>1, <2>1 DEF Encodes
  <2>3. b[1] = Half(w[n + 1]) /\ b[2] = Half(w[n + 1])
    BY <1>2, <2>1, <2>2
  <2>4. Event(b) = w[n + 1]
    BY <2>1, <2>3, EventIs
  <2>5. Append(rd, w[n + 1]) = w
    <3> DEFINE s == Append(rd, w[n + 1])
    <3>1. s \in Seq(LineSet) /\ Len(s) = Len(w) /\ \A k \in 1..Len(s) : s[k] = w[k]
      BY <1>1, <2>1
    <3> HIDE DEF s
    <3>2. s = w
      BY <3>1, SameLines
    <3> QED
      BY <3>2 DEF s
  <2>6. b # <<>>
    <3> SUFFICES ASSUME b = <<>> PROVE FALSE
      OBVIOUS
    <3>1. Len(b) = 0
      OBVIOUS
    <3> QED
      BY <2>1, <3>1
  <2> QED
    BY <2>1, <2>4, <2>5, <2>6
<1> QED
  BY <1>5, <1>6


-----------------------------------------------------------------------------
(* What the client writes.                                                 *)

\* A line of an item that is new, or goes on.
Grows(rs, rs2, m, i) ==
    /\ \A r \in 1..m : \A j \in 1..Len(rs[r]) :
          /\ j \in 1..Len(rs2[r]) /\ rs2[r][j].type = rs[r][j].type /\ rs2[r][j].streamed = rs[r][j].streamed
          /\ rs[r][j].done => rs2[r][j].done
    /\ \A r \in 1..m : \A j \in 1..Len(rs2[r]) : j \in 1..Len(rs[r]) \/ (r = m /\ j = i)
NotDone(w, m, i) == \A k \in 1..Len(w) : ~(w[k].type = "done" /\ w[k].r = m /\ w[k].i = i)
\* A line of the newest item keeps the client's writing in order.
LEMMA WroteItem ==
    ASSUME NEW w \in Seq(LineSet), NEW rs \in ResponseSet, NEW rs2 \in ResponseSet, Wholly(w, rs),
           NEW m, m = Len(rs), m >= 1, Len(rs2) = m, NEW i \in Nat, i \in 1..Len(rs2[m]),
           Grows(rs, rs2, m, i),
           NEW t \in ItemLines, NEW e, e = Line(t, m, i),
           t = "delta" => rs2[m][i].type = "message" /\ rs2[m][i].streamed /\ NotDone(w, m, i),
           t = "done" => (rs2[m][i].streamed => rs2[m][i].done)
    PROVE  Wholly(Append(w, e), rs2)
<1> DEFINE n == Len(w)
           w2 == Append(w, e)
<1>1. m \in Nat /\ n \in Nat
  OBVIOUS
<1>2. e \in LineSet /\ e.type = t /\ e.r = m /\ e.i = i
  BY <1>1 DEF Line, LineSet
<1>3. w2 \in Seq(LineSet) /\ Len(w2) = n + 1 /\ w2[n + 1] = e /\ \A k \in 1..n : w2[k] = w[k]
  BY <1>2
<1>4. \A k \in 1..(n + 1) : k \in 1..n \/ k = n + 1
  BY <1>1
<1>5. n + 1 \in 1..(n + 1) /\ \A k \in 1..n : k \in 1..(n + 1) /\ k < n + 1
  BY <1>1
<1>6. ItemLines = {"delta", "done"} /\ EndLines = {"completed", "failed"}
  BY DEF ItemLines, EndLines
<1>7. Places(w, rs) /\ Ordered(w) /\ AllEnd(w, rs) /\ AllWritten(w, rs)
  BY DEF Wholly
<1> HIDE DEF n, w2
<1>8. ASSUME NEW k \in 1..(n + 1)
      PROVE  LET x == w2[k] IN
             /\ x.type \in ItemLines => x.r \in 1..m /\ x.i \in 1..Len(rs2[x.r])
             /\ x.type \in EndLines => x.r \in 1..(m - 1) /\ rs2[x.r] # <<>>
             /\ x.type = "delta" => rs2[x.r][x.i].type = "message" /\ rs2[x.r][x.i].streamed
             /\ x.type = "done" /\ rs2[x.r][x.i].streamed => rs2[x.r][x.i].done
  <2>1. CASE k = n + 1
    BY <1>1, <1>2, <1>3, <1>6, <2>1
  <2>2. CASE k \in 1..n
    <3>1. /\ w[k].type \in ItemLines => w[k].r \in 1..m /\ w[k].i \in 1..Len(rs[w[k].r])
          /\ w[k].type \in EndLines => w[k].r \in 1..(m - 1) /\ rs[w[k].r] # <<>>
          /\ w[k].type = "delta" => rs[w[k].r][w[k].i].type = "message" /\ rs[w[k].r][w[k].i].streamed
          /\ w[k].type = "done" /\ rs[w[k].r][w[k].i].streamed => rs[w[k].r][w[k].i].done
      BY <1>7, <2>2 DEF Places, n
    <3>2. CASE w[k].type \in ItemLines
      <4>1. /\ w[k].r \in 1..m /\ w[k].i \in 1..Len(rs[w[k].r]) /\ w[k].type \notin EndLines
        BY <1>6, <3>1, <3>2
      <4>2. /\ w[k].i \in 1..Len(rs2[w[k].r])
            /\ rs2[w[k].r][w[k].i].type = rs[w[k].r][w[k].i].type
            /\ rs2[w[k].r][w[k].i].streamed = rs[w[k].r][w[k].i].streamed
            /\ rs[w[k].r][w[k].i].done => rs2[w[k].r][w[k].i].done
        BY <4>1 DEF Grows
      <4> QED
        BY <1>3, <2>2, <3>1, <4>1, <4>2
    <3>3. CASE w[k].type \in EndLines
      <4>1. w[k].r \in 1..(m - 1) /\ rs[w[k].r] # <<>> /\ w[k].r \in 1..m
        BY <1>1, <3>1, <3>3
      <4>2. rs[w[k].r] \in Seq(ItemRecords)
        BY <4>1 DEF ResponseSet
      <4>3. 1 \in 1..Len(rs[w[k].r])
        BY <4>1, <4>2
      <4>4. 1 \in 1..Len(rs2[w[k].r])
        BY <4>1, <4>3 DEF Grows
      <4>5. rs2[w[k].r] # <<>>
        <5> SUFFICES ASSUME rs2[w[k].r] = <<>> PROVE FALSE
          OBVIOUS
        <5>1. Len(rs2[w[k].r]) = 0
          OBVIOUS
        <5> QED
          BY <4>4, <5>1
      <4> QED
        BY <1>3, <1>6, <2>2, <3>3, <4>1, <4>5
    <3>4. CASE w[k].type \notin ItemLines \cup EndLines
      BY <1>3, <1>6, <2>2, <3>4
    <3> QED
      BY <3>2, <3>3, <3>4
  <2> QED
    BY <1>4, <2>1, <2>2
<1>9. Places(w2, rs2)
  BY <1>3, <1>8 DEF Places
<1>10. Ordered(w2)
  <2> SUFFICES ASSUME NEW j \in 1..(n + 1), NEW k \in 1..(n + 1), j < k,
                      w2[j].type \in ItemLines \cup EndLines, w2[k].type \in ItemLines \cup EndLines
               PROVE  /\ w2[j].r <= w2[k].r /\ (w2[j].type \in EndLines => w2[j].r < w2[k].r)
                      /\ ~(w2[j].type = "done" /\ w2[k].type = "delta" /\ w2[j].r = w2[k].r /\ w2[j].i = w2[k].i)
    BY <1>3 DEF Ordered
  <2>1. j \in 1..n /\ w2[j] = w[j]
    BY <1>1, <1>3
  <2>2. CASE k \in 1..n
    BY <1>3, <1>7, <2>1, <2>2 DEF Ordered, n
  <2>3. CASE k = n + 1
    <3>1. /\ w[j].type \in ItemLines => w[j].r \in 1..m
          /\ w[j].type \in EndLines => w[j].r \in 1..(m - 1)
      BY <1>7, <2>1 DEF Places, n
    <3>2. w2[k] = e
      BY <1>3, <2>3
    <3>3. ~(w[j].type = "done" /\ t = "delta" /\ w[j].r = m /\ w[j].i = i)
      BY <2>1 DEF NotDone, n
    <3> QED
      BY <1>1, <1>2, <2>1, <3>1, <3>2, <3>3
  <2> QED
    BY <1>4, <2>2, <2>3
<1>11. AllEnd(w2, rs2)
  <2> SUFFICES ASSUME NEW r \in 1..(m - 1) PROVE HasEnd(w2, r)
    BY DEF AllEnd
  <2>1. HasEnd(w, r)
    BY <1>7 DEF AllEnd
  <2> QED
    BY <1>2, <2>1, ReadMore DEF w2
<1>12. AllWritten(w2, rs2)
  <2> SUFFICES ASSUME NEW r \in 1..Len(rs2), NEW j \in 1..Len(rs2[r])
               PROVE  \E k \in 1..Len(w2) : w2[k].type \in ItemLines /\ w2[k].r = r /\ w2[k].i = j
    BY DEF AllWritten
  <2>0. \A q \in 1..Len(rs) : \A x \in 1..Len(rs[q]) :
           \E k \in 1..Len(w) : w[k].type \in ItemLines /\ w[k].r = q /\ w[k].i = x
    BY <1>7, Zenon DEF AllWritten
  <2>1. CASE j \in 1..Len(rs[r])
    <3>1. PICK k \in 1..n : w[k].type \in ItemLines /\ w[k].r = r /\ w[k].i = j
      <4>1. r \in 1..Len(rs)
        OBVIOUS
      <4>2. \A x \in 1..Len(rs[r]) : \E k \in 1..Len(w) : w[k].type \in ItemLines /\ w[k].r = r /\ w[k].i = x
        BY <2>0, <4>1, Zenon
      <4> QED
        BY <2>1, <4>2, Zenon DEF n
    <3> QED
      BY <1>3, <1>5, <3>1
  <2>2. CASE r = m /\ j = i
    BY <1>2, <1>3, <1>5, <2>2
  <2> QED
    BY <2>1, <2>2 DEF Grows
<1> QED
  BY <1>9, <1>10, <1>11, <1>12 DEF Wholly, w2

\* The end of a response.
LEMMA WroteEnd ==
    ASSUME NEW w \in Seq(LineSet), NEW rs \in ResponseSet, Wholly(w, rs),
           NEW m, m = Len(rs), m >= 1, rs[m] # <<>>, NEW t \in EndLines, NEW e, e = Line(t, m, 0)
    PROVE  Wholly(Append(w, e), Append(rs, <<>>))
<1> DEFINE n == Len(w)
           w2 == Append(w, e)
           rs2 == Append(rs, <<>>)
<1>1. m \in Nat /\ n \in Nat
  OBVIOUS
<1>2. e \in LineSet /\ e.type = t /\ e.r = m
  BY <1>1 DEF Line, LineSet
<1>3. w2 \in Seq(LineSet) /\ Len(w2) = n + 1 /\ w2[n + 1] = e /\ \A k \in 1..n : w2[k] = w[k]
  BY <1>2
<1>4. \A k \in 1..(n + 1) : k \in 1..n \/ k = n + 1
  BY <1>1
<1>5. n + 1 \in 1..(n + 1) /\ \A k \in 1..n : k \in 1..(n + 1) /\ k < n + 1
  BY <1>1
<1>6. ItemLines = {"delta", "done"} /\ EndLines = {"completed", "failed"}
  BY DEF ItemLines, EndLines
<1>7. Places(w, rs) /\ Ordered(w) /\ AllEnd(w, rs) /\ AllWritten(w, rs)
  BY DEF Wholly
<1>8. Len(rs2) = m + 1 /\ rs2[m + 1] = <<>> /\ \A r \in 1..m : rs2[r] = rs[r]
  OBVIOUS
<1> HIDE DEF n, w2, rs2
<1>9. Places(w2, rs2)
  <2> SUFFICES ASSUME NEW k \in 1..(n + 1)
               PROVE  LET x == w2[k] IN
                      /\ x.type \in ItemLines => x.r \in 1..(m + 1) /\ x.i \in 1..Len(rs2[x.r])
                      /\ x.type \in EndLines => x.r \in 1..((m + 1) - 1) /\ rs2[x.r] # <<>>
                      /\ x.type = "delta" => rs2[x.r][x.i].type = "message" /\ rs2[x.r][x.i].streamed
                      /\ x.type = "done" /\ rs2[x.r][x.i].streamed => rs2[x.r][x.i].done
    BY <1>3, <1>8 DEF Places
  <2>1. CASE k = n + 1
    <3>1. rs2[m] = rs[m]
      BY <1>1, <1>8
    <3> QED
      BY <1>1, <1>2, <1>3, <1>6, <2>1, <3>1
  <2>2. CASE k \in 1..n
    <3>1. /\ w[k].type \in ItemLines => w[k].r \in 1..m /\ w[k].i \in 1..Len(rs[w[k].r])
          /\ w[k].type \in EndLines => w[k].r \in 1..(m - 1) /\ rs[w[k].r] # <<>>
          /\ w[k].type = "delta" => rs[w[k].r][w[k].i].type = "message" /\ rs[w[k].r][w[k].i].streamed
          /\ w[k].type = "done" /\ rs[w[k].r][w[k].i].streamed => rs[w[k].r][w[k].i].done
      BY <1>7, <2>2 DEF Places, n
    <3>2. w[k].type \in ItemLines \cup EndLines => w[k].r \in 1..m /\ rs2[w[k].r] = rs[w[k].r]
      BY <1>1, <1>8, <3>1
    <3>3. 1..m \subseteq 1..(m + 1) /\ 1..m = 1..((m + 1) - 1)
      BY <1>1
    <3>4. w[k].type \in {"delta", "done"} => w[k].type \in ItemLines \cup EndLines
      BY <1>6
    <3> QED
      BY <1>3, <2>2, <3>1, <3>2, <3>3, <3>4
  <2> QED
    BY <1>4, <2>1, <2>2
<1>10. Ordered(w2)
  <2> SUFFICES ASSUME NEW j \in 1..(n + 1), NEW k \in 1..(n + 1), j < k,
                      w2[j].type \in ItemLines \cup EndLines, w2[k].type \in ItemLines \cup EndLines
               PROVE  /\ w2[j].r <= w2[k].r /\ (w2[j].type \in EndLines => w2[j].r < w2[k].r)
                      /\ ~(w2[j].type = "done" /\ w2[k].type = "delta" /\ w2[j].r = w2[k].r /\ w2[j].i = w2[k].i)
    BY <1>3 DEF Ordered
  <2>1. j \in 1..n /\ w2[j] = w[j]
    BY <1>1, <1>3
  <2>2. CASE k \in 1..n
    BY <1>3, <1>7, <2>1, <2>2 DEF Ordered, n
  <2>3. CASE k = n + 1
    <3>1. /\ w[j].type \in ItemLines => w[j].r \in 1..m
          /\ w[j].type \in EndLines => w[j].r \in 1..(m - 1)
      BY <1>7, <2>1 DEF Places, n
    <3>2. w2[k] = e /\ e.type # "delta"
      BY <1>2, <1>3, <1>6, <2>3
    <3> QED
      BY <1>1, <1>2, <2>1, <3>1, <3>2
  <2> QED
    BY <1>4, <2>2, <2>3
<1>11. AllEnd(w2, rs2)
  <2> SUFFICES ASSUME NEW r \in 1..m PROVE HasEnd(w2, r)
    BY <1>1, <1>8 DEF AllEnd
  <2>1. r = m \/ r \in 1..(m - 1)
    BY <1>1
  <2>2. r = m \/ HasEnd(w, r)
    BY <1>7, <2>1 DEF AllEnd
  <2> QED
    BY <1>2, <2>2, ReadMore DEF w2
<1>12. AllWritten(w2, rs2)
  <2> SUFFICES ASSUME NEW r \in 1..(m + 1), NEW j \in 1..Len(rs2[r])
               PROVE  \E k \in 1..(n + 1) : w2[k].type \in ItemLines /\ w2[k].r = r /\ w2[k].i = j
    BY <1>3, <1>8 DEF AllWritten
  <2>1. r # m + 1
    <3> SUFFICES ASSUME r = m + 1 PROVE FALSE
      OBVIOUS
    <3>1. Len(<<>>) = 0 /\ rs2[r] = <<>>
      BY <1>8
    <3> QED
      BY <3>1
  <2>2. r \in 1..m /\ j \in 1..Len(rs[r])
    BY <1>1, <1>8, <2>1
  <2>3. PICK k \in 1..n : w[k].type \in ItemLines /\ w[k].r = r /\ w[k].i = j
    BY <1>7, <2>2 DEF AllWritten, n
  <2> QED
    BY <1>3, <1>5, <2>3
<1> QED
  BY <1>9, <1>10, <1>11, <1>12 DEF Wholly, w2, rs2

\* A line of neither an item nor an end.
LEMMA WroteBeside ==
    ASSUME NEW w \in Seq(LineSet), NEW rs, Wholly(w, rs), NEW e \in LineSet, e.type \in OtherLines
    PROVE  Wholly(Append(w, e), rs)
<1> DEFINE n == Len(w)
           w2 == Append(w, e)
<1>1. n \in Nat
  OBVIOUS
<1>2. w2 \in Seq(LineSet) /\ Len(w2) = n + 1 /\ w2[n + 1] = e /\ \A k \in 1..n : w2[k] = w[k]
  OBVIOUS
<1>3. \A k \in 1..(n + 1) : k \in 1..n \/ k = n + 1
  BY <1>1
<1>4. n + 1 \in 1..(n + 1) /\ \A k \in 1..n : k \in 1..(n + 1)
  BY <1>1
<1>5. e.type \notin ItemLines \cup EndLines /\ e.type \notin {"delta", "done"}
  BY DEF ItemLines, EndLines, OtherLines
<1>6. Places(w, rs) /\ Ordered(w) /\ AllEnd(w, rs) /\ AllWritten(w, rs)
  BY DEF Wholly
<1> HIDE DEF n, w2
<1>7. Places(w2, rs)
  <2> SUFFICES ASSUME NEW k \in 1..(n + 1)
               PROVE  LET x == w2[k] IN
                      /\ x.type \in ItemLines => x.r \in 1..Len(rs) /\ x.i \in 1..Len(rs[x.r])
                      /\ x.type \in EndLines => x.r \in 1..(Len(rs) - 1) /\ rs[x.r] # <<>>
                      /\ x.type = "delta" => rs[x.r][x.i].type = "message" /\ rs[x.r][x.i].streamed
                      /\ x.type = "done" /\ rs[x.r][x.i].streamed => rs[x.r][x.i].done
    BY <1>2 DEF Places
  <2>1. CASE k = n + 1
    BY <1>2, <1>5, <2>1
  <2>2. CASE k \in 1..n
    BY <1>2, <1>6, <2>2 DEF Places, n
  <2> QED
    BY <1>3, <2>1, <2>2
<1>8. Ordered(w2)
  <2> SUFFICES ASSUME NEW j \in 1..(n + 1), NEW k \in 1..(n + 1), j < k,
                      w2[j].type \in ItemLines \cup EndLines, w2[k].type \in ItemLines \cup EndLines
               PROVE  /\ w2[j].r <= w2[k].r /\ (w2[j].type \in EndLines => w2[j].r < w2[k].r)
                      /\ ~(w2[j].type = "done" /\ w2[k].type = "delta" /\ w2[j].r = w2[k].r /\ w2[j].i = w2[k].i)
    BY <1>2 DEF Ordered
  <2>1. j \in 1..n /\ k \in 1..n
    BY <1>2, <1>3, <1>5
  <2> QED
    BY <1>2, <1>6, <2>1 DEF Ordered, n
<1>9. AllEnd(w2, rs)
  BY <1>6, ReadMore DEF AllEnd, w2
<1>10. AllWritten(w2, rs)
  <2> SUFFICES ASSUME NEW r \in 1..Len(rs), NEW j \in 1..Len(rs[r])
               PROVE  \E k \in 1..(n + 1) : w2[k].type \in ItemLines /\ w2[k].r = r /\ w2[k].i = j
    BY <1>2 DEF AllWritten
  <2>1. PICK k \in 1..n : w[k].type \in ItemLines /\ w[k].r = r /\ w[k].i = j
    BY <1>6 DEF AllWritten, n
  <2> QED
    BY <1>2, <1>4, <2>1
<1> QED
  BY <1>7, <1>8, <1>9, <1>10 DEF Wholly, w2


\* What a response gains and what is set in it.
AddItem(rs, m, item) == [rs EXCEPT ![m] = Append(@, item)]
SetDone(rs, m, i) == [rs EXCEPT ![m][i].done = TRUE]

\* An item more in the newest response.
LEMMA ItemNew ==
    ASSUME NEW rs \in ResponseSet, NEW m, m = Len(rs), m >= 1, NEW item \in ItemRecords,
           NEW rs2, rs2 = AddItem(rs, m, item), NEW i, i = Len(rs[m]) + 1
    PROVE  /\ rs2 \in ResponseSet /\ Len(rs2) = m /\ Grows(rs, rs2, m, i)
           /\ rs2[m][i] = item /\ i \in Nat /\ i \in 1..Len(rs2[m]) /\ i \notin 1..Len(rs[m])
<1> DEFINE new == Append(rs[m], item)
<1>1. m \in 1..Len(rs)
  OBVIOUS
<1>2. rs[m] \in Seq(ItemRecords)
  BY <1>1 DEF ResponseSet
<1>3. new \in Seq(ItemRecords) /\ Len(new) = i /\ new[i] = item /\ \A j \in 1..Len(rs[m]) : new[j] = rs[m][j]
  BY <1>2
<1>4. i \in Nat /\ i \notin 1..Len(rs[m]) /\ i \in 1..i /\ (\A j \in 1..i : j \in 1..Len(rs[m]) \/ j = i)
      /\ \A j \in 1..Len(rs[m]) : j \in 1..i
  BY <1>2
<1> HIDE DEF new
<1>5. rs2 = [rs EXCEPT ![m] = new]
  BY DEF new, AddItem
<1>6. rs2 \in ResponseSet /\ Len(rs2) = m /\ rs2[m] = new /\ \A r \in 1..m : r # m => rs2[r] = rs[r]
  BY <1>1, <1>3, <1>5 DEF ResponseSet
<1>7. Grows(rs, rs2, m, i)
  BY <1>3, <1>4, <1>6 DEF Grows
<1> QED
  BY <1>3, <1>4, <1>6, <1>7

\* The newest item of the newest response is done.
LEMMA ItemDone ==
    ASSUME NEW rs \in ResponseSet, NEW m, m = Len(rs), m >= 1, rs[m] # <<>>, NEW i, i = Len(rs[m]),
           NEW rs2, rs2 = SetDone(rs, m, i)
    PROVE  /\ rs2 \in ResponseSet /\ Len(rs2) = m /\ Grows(rs, rs2, m, i)
           /\ rs2[m][i].done /\ i \in Nat /\ i \in 1..Len(rs2[m]) /\ i \in 1..Len(rs[m]) /\ Grows(rs, rs, m, i)
<1> DEFINE item == [rs[m][i] EXCEPT !.done = TRUE]
           new == [rs[m] EXCEPT ![i] = item]
<1>1. m \in 1..Len(rs)
  OBVIOUS
<1>2. rs[m] \in Seq(ItemRecords)
  BY <1>1 DEF ResponseSet
<1>3. i \in Nat /\ i \in 1..Len(rs[m])
  BY <1>2
<1>4. rs[m][i] \in ItemRecords
  BY <1>2, <1>3
<1>5. item \in ItemRecords /\ item.done = TRUE /\ item.type = rs[m][i].type /\ item.streamed = rs[m][i].streamed
  BY <1>4 DEF ItemRecords
<1>6. rs2 = [rs EXCEPT ![m] = new]
  BY DEF SetDone
<1> HIDE DEF item
<1>7. new \in Seq(ItemRecords) /\ Len(new) = Len(rs[m]) /\ new[i] = item /\ \A j \in 1..Len(rs[m]) : j # i => new[j] = rs[m][j]
  BY <1>2, <1>3, <1>5
<1> HIDE DEF new
<1>8. rs2 \in ResponseSet /\ Len(rs2) = m /\ rs2[m] = new /\ \A r \in 1..m : r # m => rs2[r] = rs[r]
  BY <1>1, <1>6, <1>7 DEF ResponseSet
<1>9. Grows(rs, rs, m, i)
  BY DEF Grows
<1>10. Grows(rs, rs2, m, i)
  <2>1. ASSUME NEW j \in 1..Len(rs[m])
        PROVE  /\ new[j].type = rs[m][j].type /\ new[j].streamed = rs[m][j].streamed
               /\ rs[m][j].done => new[j].done
    BY <1>5, <1>7
  <2>2. ASSUME NEW r \in 1..m
        PROVE  /\ \A j \in 1..Len(rs[r]) :
                     /\ j \in 1..Len(rs2[r]) /\ rs2[r][j].type = rs[r][j].type /\ rs2[r][j].streamed = rs[r][j].streamed
                     /\ rs[r][j].done => rs2[r][j].done
               /\ \A j \in 1..Len(rs2[r]) : j \in 1..Len(rs[r])
    <3>1. CASE r = m
      BY <1>7, <1>8, <2>1, <3>1
    <3>2. CASE r # m
      BY <1>8, <3>2
    <3> QED
      BY <3>1, <3>2
  <2> QED
    BY <2>2, Zenon DEF Grows
<1> QED
  BY <1>3, <1>5, <1>7, <1>8, <1>9, <1>10

\* A message that starts, or is not done, was not told as done.
LEMMA NoDoneLine ==
    ASSUME NEW w, NEW rs, Wholly(w, rs), NEW m, NEW i, i \notin 1..Len(rs[m]) \/ (rs[m][i].streamed /\ ~rs[m][i].done)
    PROVE  NotDone(w, m, i)
<1> SUFFICES ASSUME NEW k \in 1..Len(w), w[k].type = "done", w[k].r = m, w[k].i = i PROVE FALSE
  BY DEF NotDone
<1>1. /\ w[k].type \in ItemLines => w[k].i \in 1..Len(rs[w[k].r])
      /\ w[k].type = "done" /\ rs[w[k].r][w[k].i].streamed => rs[w[k].r][w[k].i].done
  BY DEF Wholly, Places
<1> QED
  BY <1>1 DEF ItemLines

-----------------------------------------------------------------------------
(* What was told when nothing more is.                                     *)

\* What is read of a response that has said that it is complete.
LEMMA CompleteRead ==
    ASSUME NEW rd \in Seq(LineSet), NEW w \in Seq(LineSet), Len(rd) <= Len(w), \A k \in 1..Len(rd) : rd[k] = w[k],
           NEW rs, Wholly(w, rs), NEW r \in 1..Len(rs), NEW i \in 1..Len(rs[r]), Has(rd, Line("completed", r, 0))
    PROVE  Has(rd, Line("delta", r, i)) \/ Has(rd, Line("done", r, i))
<1>1. Len(rd) \in Nat /\ Len(w) \in Nat
  OBVIOUS
<1>2. PICK k \in 1..Len(rd) : rd[k] = Line("completed", r, 0)
  BY DEF Has
<1>3. k \in 1..Len(w) /\ w[k].type = "completed" /\ w[k].r = r
  BY <1>1, <1>2 DEF Line
<1>4. PICK j \in 1..Len(w) : w[j].type \in ItemLines /\ w[j].r = r /\ w[j].i = i
  BY DEF Wholly, AllWritten
<1>5. r \in Int
  OBVIOUS
<1>6. j # k
  BY <1>3, <1>4 DEF ItemLines
<1>7. ~(k < j)
  <2> SUFFICES ASSUME k < j PROVE FALSE
    OBVIOUS
  <2>1. w[k].type \in EndLines
    BY <1>3 DEF EndLines
  <2>2. w[k].r < w[j].r
    BY <1>3, <1>4, <2>1 DEF Wholly, Ordered
  <2> QED
    BY <1>3, <1>4, <1>5, <2>2
<1>8. j \in 1..Len(rd)
  BY <1>1, <1>6, <1>7
<1>9. rd[j] = w[j] /\ w[j] \in LineSet
  BY <1>8
<1>10. rd[j] = Line(w[j].type, r, i)
  BY <1>4, <1>9, LineIs
<1> QED
  BY <1>4, <1>8, <1>10 DEF Has, ItemLines

\* Right books say what was read.
LEMMA ParseSaid ==
    ASSUME CliTyped, WroteRight, NEW rd \in Seq(LineSet), Len(rd) <= Len(wrote), \A k \in 1..Len(rd) : rd[k] = wrote[k],
           NEW st, ParseRight(st, rd)
    PROVE  st.told \in Seq(SaidSet) /\ Said(st.told, rd)
<1>1. st \in ParseSet /\ SessionOnce(st) /\ BooksRight(st, rd)
  BY DEF ParseRight
<1>2. st.told \in Seq(SaidSet)
  BY <1>1 DEF ParseSet
<1>3. Count(st.told, SessionLine) <= 1
  BY <1>1 DEF SessionOnce
<1>4. ASSUME client = "codex", ~cut PROVE Heard(st.told, rd, responses)
  <2>1. Wholly(wrote, responses) /\ ToldRight(st, rd) /\ wrote \in Seq(LineSet)
    BY <1>1, <1>4 DEF WroteRight, BooksRight, CliTyped
  <2>2. ASSUME NEW r \in 1..Len(responses), NEW i \in 1..Len(responses[r])
        PROVE  /\ Count(st.told, Line("delta", r, i)) = Count(rd, Line("delta", r, i))
               /\ Count(st.told, Line("whole", r, i)) \in
                     IF Count(rd, Line("delta", r, i)) > 0 THEN {0}
                     ELSE IF Has(rd, Line("completed", r, 0)) THEN {1} ELSE {0, 1}
    <3>1. r \in Nat /\ i \in Nat
      OBVIOUS
    <3>2. /\ Count(st.told, Line("delta", r, i)) = Count(rd, Line("delta", r, i))
          /\ Count(st.told, Line("whole", r, i)) \in {0, 1}
          /\ Has(rd, Line("delta", r, i)) => ~Has(st.told, Line("whole", r, i))
          /\ Has(rd, Line("done", r, i)) => IsTold(st, rd, r, i)
      BY <2>1, <3>1, Zenon DEF ToldRight
    <3>3. Count(st.told, Line("whole", r, i)) = 0 <=> ~Has(st.told, Line("whole", r, i))
      <4> DEFINE x == Line("whole", r, i)
      <4> HIDE DEF x
      <4>1. SessionLine \in SaidSet
        BY DEF SessionLine, Line, SaidSet
      <4>2. Count(st.told, x) = 0 <=> ~Has(st.told, x)
        BY <1>2, <4>1, CountMore
      <4> QED
        BY <4>2 DEF x
    <3>4. /\ Count(rd, Line("delta", r, i)) \in Nat
          /\ Count(rd, Line("delta", r, i)) = 0 <=> ~Has(rd, Line("delta", r, i))
      <4> DEFINE x == Line("delta", r, i)
                 y == Line("done", 0, 0)
      <4>1. y \in LineSet
        BY DEF Line, LineSet, ItemLines
      <4> HIDE DEF x, y
      <4>2. Count(rd, x) \in Nat /\ (Count(rd, x) = 0 <=> ~Has(rd, x))
        BY <4>1, CountMore
      <4> QED
        BY <4>2 DEF x
    <3>5. Has(rd, Line("completed", r, 0)) => Has(rd, Line("delta", r, i)) \/ Has(rd, Line("done", r, i))
      BY <2>1, CompleteRead
    <3> QED
      BY <3>2, <3>3, <3>4, <3>5 DEF IsTold
  <2> QED
    BY <2>2, Zenon DEF Heard
<1> QED
  BY <1>2, <1>3, <1>4 DEF Said

\* The error and the exit that end what is told.
EndSet == [type : ItemLines \cup EndLines \cup OtherLines \cup {"whole", "session_info", "error", "exit"}, r : Nat, i : Nat]

\* An error and the exit say nothing of an item.
LEMMA SaidMore ==
    ASSUME NEW told \in Seq(EndSet), NEW e \in EndSet, e.type \in {"error", "exit"}, NEW rd, Said(told, rd)
    PROVE  Append(told, e) \in Seq(EndSet) /\ Said(Append(told, e), rd)
<1> DEFINE new == Append(told, e)
<1>1. \A t, r, i : t \in {"delta", "whole", "session_info"} => Line(t, r, i) # e
  BY DEF Line
<1>2. \A x : x # e => Count(new, x) = Count(told, x)
  <2>1. \A x : Count(told, x) \in Nat /\ Count(new, x) = Count(told, x) + (IF x = e THEN 1 ELSE 0)
    BY CountMore
  <2> HIDE DEF new
  <2> QED
    BY <2>1
<1> HIDE DEF new
<1>3. \A t, r, i : t \in {"delta", "whole", "session_info"} => Count(new, Line(t, r, i)) = Count(told, Line(t, r, i))
  BY <1>1, <1>2
<1>4. Count(new, SessionLine) = Count(told, SessionLine)
  BY <1>3 DEF SessionLine
<1>5. \A r, i : Count(new, Line("delta", r, i)) = Count(told, Line("delta", r, i))
                /\ Count(new, Line("whole", r, i)) = Count(told, Line("whole", r, i))
  BY <1>3
<1>6. Heard(told, rd, responses) => Heard(new, rd, responses)
  BY <1>5 DEF Heard
<1> QED
  BY <1>4, <1>6 DEF Said, new

\* What the end of the process adds.
LEMMA LastSaid ==
    ASSUME NEW st \in ParseSet, NEW rd, Said(st.told, rd), NEW code \in {0, 1}, NEW failed \in BOOLEAN,
           NEW new, new = Tells(IF failed THEN Tells(st, Line("error", 0, 0)) ELSE st, Line("exit", 0, code))
    PROVE  Said(new.told, rd) /\ ExitLast(new.told) /\ new.session = st.session
<1> DEFINE x == Line("exit", 0, code)
           y == Line("error", 0, 0)
           mid == IF failed THEN Append(st.told, y) ELSE st.told
<1>1. SaidSet \subseteq EndSet
  BY DEF SaidSet, EndSet
<1>2. st.told \in Seq(EndSet) /\ \A k \in 1..Len(st.told) : st.told[k].type # "exit"
  <2>1. st.told \in Seq(SaidSet)
    BY DEF ParseSet
  <2>2. \A z \in SaidSet : z.type # "exit"
    BY DEF SaidSet, ItemLines, EndLines, OtherLines
  <2> QED
    BY <1>1, <2>1, <2>2
<1>3. x \in EndSet /\ y \in EndSet /\ x.type = "exit" /\ y.type = "error"
  BY DEF Line, EndSet
<1>4. new.told = Append(mid, x) /\ new.session = st.session
  <2> HIDE DEF x, y
  <2>1. CASE failed
    <3>1. new = Tells(Tells(st, y), x)
      BY <2>1 DEF x, y
    <3>2. Tells(st, y).told = Append(st.told, y) /\ Tells(st, y).session = st.session
      BY DEF Tells, ParseSet
    <3>3. Tells(Tells(st, y), x).told = Append(Append(st.told, y), x) /\ Tells(Tells(st, y), x).session = st.session
      BY DEF Tells, ParseSet
    <3> QED
      BY <2>1, <3>1, <3>3
  <2>2. CASE ~failed
    <3>1. new = Tells(st, x)
      BY <2>2 DEF x
    <3>2. Tells(st, x).told = Append(st.told, x) /\ Tells(st, x).session = st.session
      BY DEF Tells, ParseSet
    <3> QED
      BY <2>2, <3>1, <3>2
  <2> QED
    BY <2>1, <2>2
<1> HIDE DEF x, y
<1>5. mid \in Seq(EndSet) /\ Said(mid, rd) /\ \A k \in 1..Len(mid) : mid[k].type # "exit"
  <2>1. CASE failed
    <3>1. Append(st.told, y) \in Seq(EndSet) /\ Said(Append(st.told, y), rd)
      BY <1>2, <1>3, SaidMore
    <3>2. \A k \in 1..Len(Append(st.told, y)) : Append(st.told, y)[k].type # "exit"
      BY <1>2, <1>3
    <3> QED
      BY <2>1, <3>1, <3>2
  <2>2. CASE ~failed
    BY <1>2, <2>2
  <2> QED
    BY <2>1, <2>2
<1> HIDE DEF mid
<1>6. Said(Append(mid, x), rd)
  BY <1>3, <1>5, SaidMore
<1>7. ExitLast(Append(mid, x))
  BY <1>3, <1>5 DEF ExitLast
<1> QED
  BY <1>4, <1>6, <1>7


-----------------------------------------------------------------------------
(* The steps.                                                              *)

\* The books do not change while nothing is read: what was told is of items that
\* stay what they are.
LEMMA ParseStays ==
    ASSUME CliTyped, WroteRight, NEW rd \in Seq(LineSet), Len(rd) <= Len(wrote), \A k \in 1..Len(rd) : rd[k] = wrote[k],
           NEW st, ParseRight(st, rd), parse' = st, read' = rd, UNCHANGED <<client, named, cut>>,
           \A r \in 1..Len(responses) : \A i \in 1..Len(responses[r]) : responses'[r][i].type = responses[r][i].type
    PROVE  ParseRight(parse, read)'
<1>1. st \in ParseSet /\ SessionOnce(st) /\ BooksRight(st, rd)
  BY DEF ParseRight
<1>2. ASSUME client = "codex", ~cut PROVE ScopeRight(parse, read)' /\ SeenRight(parse, read)' /\ ToldRight(parse, read)'
  <2>1. ScopeRight(st, rd) /\ SeenRight(st, rd) /\ ToldRight(st, rd) /\ Wholly(wrote, responses)
    BY <1>1, <1>2 DEF BooksRight, WroteRight
  <2>2. ASSUME NEW t \in ItemLines, NEW r \in Nat, NEW i \in Nat, Has(rd, Line(t, r, i))
        PROVE  r \in 1..Len(responses) /\ i \in 1..Len(responses[r])
    <3>1. PICK k \in 1..Len(rd) : rd[k] = Line(t, r, i)
      BY <2>2 DEF Has
    <3>2. k \in 1..Len(wrote) /\ wrote[k].type = t /\ wrote[k].r = r /\ wrote[k].i = i
      <4>1. wrote \in Seq(LineSet)
        BY DEF CliTyped
      <4> QED
        BY <3>1, <4>1 DEF Line
    <3> QED
      BY <2>1, <3>2 DEF Wholly, Places
  <2>3. \A r, i \in Nat : IsTold(st, rd, r, i) => Has(rd, Line("delta", r, i)) \/ Has(rd, Line("done", r, i))
    BY <2>1 DEF IsTold, ToldRight
  <2>4. \A r, i \in Nat : IsTold(st, rd, r, i) => responses'[r][i].type = responses[r][i].type
    BY <2>2, <2>3 DEF ItemLines
  <2>5. ScopeRight(parse, read)'
    BY <2>1 DEF ScopeRight
  <2>6. ToldRight(parse, read)'
    BY <2>1
  <2>7. \A r, i \in Nat : Has(st.told, Line("whole", r, i)) => responses'[r][i].type = responses[r][i].type
    BY <2>4 DEF IsTold
  <2>8. SeenRight(parse, read)'
    <3>1. \A r, i \in Nat : <<"call", r, i>> \in st.seen => Has(st.told, Line("whole", r, i))
      BY <2>1, Zenon DEF SeenRight
    <3>2. \A r, i \in Nat : Has(st.told, Line("whole", r, i)) /\ responses'[r][i].type = "call" => <<"call", r, i>> \in st.seen
      BY <2>1, <2>7, Zenon DEF SeenRight
    <3>3. \A r, i \in Nat : IsOpen(rd, r) /\ <<"message", st.scope, i>> \in st.seen => IsTold(st, rd, r, i)
      BY <2>1, Zenon DEF SeenRight
    <3>4. \A r, i \in Nat :
             IsOpen(rd, r) /\ IsTold(st, rd, r, i) /\ responses'[r][i].type = "message" => <<"message", st.scope, i>> \in st.seen
      BY <2>1, <2>4, Zenon DEF SeenRight
    <3> QED
      BY <3>1, <3>2, <3>3, <3>4 DEF SeenRight
  <2> QED
    BY <2>5, <2>6, <2>8
<1>3. (parse \in ParseSet)' /\ SessionOnce(parse)'
  BY <1>1 DEF SessionOnce
<1> QED
  BY <1>2, <1>3 DEF ParseRight, BooksRight

\* A step at which nothing is written, read or told.
LEMMA QuietStep ==
    ASSUME CliInv, phase # "ended", UNCHANGED <<client, named, wrote, read, parse, responses, cut>>,
           stderr' \in BOOLEAN, phase' \in {"reading", "exited", "stopped"},
           Sent(buffer', pipe', read, wrote), phase' = "reading" => AllSent(buffer', pipe', read, wrote)
    PROVE  CliInv'
<1>1. CliTyped /\ TextRight /\ WroteRight /\ ParseRight(parse, read)
  BY DEF CliInv
<1>2. CliTyped'
  BY <1>1 DEF CliTyped, EndsIn
<1>3. TextRight'
  BY DEF TextRight
<1>4. WroteRight'
  BY <1>1 DEF WroteRight
<1>5. read \in Seq(LineSet) /\ wrote \in Seq(LineSet) /\ Len(read) <= Len(wrote) /\ \A k \in 1..Len(read) : read[k] = wrote[k]
  BY <1>1 DEF CliTyped, TextRight, Sent, Encodes
<1>6. ParseRight(parse, read)'
  BY <1>1, <1>5, ParseStays
<1> QED
  BY <1>2, <1>3, <1>4, <1>6 DEF CliInv

\* Nothing happens.
LEMMA SameStep == CliInv /\ UNCHANGED clientVars => CliInv'
<1> SUFFICES ASSUME CliInv, UNCHANGED clientVars PROVE CliInv'
  OBVIOUS
<1>0. UNCHANGED <<client, reply, argv, named, pipe, buffer, parse, phase, stderr, wrote, read, responses, cut>>
  BY DEF clientVars
<1>1. CliTyped /\ TextRight /\ WroteRight
  BY DEF CliInv
<1>2. CliTyped'
  BY <1>0, <1>1 DEF CliTyped, EndsIn
<1>3. TextRight' /\ WroteRight'
  BY <1>0, <1>1 DEF TextRight, WroteRight
<1>4. read \in Seq(LineSet) /\ wrote \in Seq(LineSet) /\ Len(read) <= Len(wrote) /\ \A k \in 1..Len(read) : read[k] = wrote[k]
  BY <1>1 DEF CliTyped, TextRight, Sent, Encodes
<1>5. ASSUME phase # "ended" PROVE ParseRight(parse, read)'
  <2>1. ParseRight(parse, read)
    BY <1>5 DEF CliInv
  <2> QED
    BY <1>0, <1>1, <1>4, <2>1, ParseStays
<1>6. ASSUME phase = "ended" PROVE Said(parse.told, read)' /\ ExitLast(parse.told)'
  <2>1. Said(parse.told, read) /\ ExitLast(parse.told)
    BY <1>6 DEF CliInv
  <2> QED
    BY <1>0, <2>1 DEF Said, ExitLast
<1> QED
  BY <1>0, <1>2, <1>3, <1>5, <1>6 DEF CliInv

\* The process ends, or was never there.
LEMMA EndStep ==
    ASSUME CliInv, UNCHANGED <<client, named, wrote, responses, cut, stderr>>, phase' = "ended", pipe' = <<>>, buffer' = <<>>,
           read' = wrote, parse'.session \in BOOLEAN, Said(parse'.told, wrote), ExitLast(parse'.told)
    PROVE  CliInv'
<1>1. CliTyped /\ WroteRight
  BY DEF CliInv
<1>2. CliTyped'
  BY <1>1 DEF CliTyped, EndsIn
<1>3. Sent(<<>>, <<>>, wrote, wrote)
  <2>1. wrote \in Seq(LineSet) /\ <<>> \in Seq(Halves)
    BY <1>1 DEF CliTyped
  <2>2. <<>> \o <<>> \in Seq(Halves) /\ Len(<<>> \o <<>>) = 0 /\ Len(wrote) \in 0..Len(wrote)
        /\ Len(wrote) - Len(wrote) = 0 /\ 3 * 0 = 0
    BY <2>1
  <2>3. Encodes(<<>> \o <<>>, Len(wrote), wrote)
    BY <2>2 DEF Encodes
  <2> QED
    BY <2>1, <2>3 DEF Sent
<1>4. TextRight'
  BY <1>3 DEF TextRight
<1>5. WroteRight'
  BY <1>1 DEF WroteRight
<1>6. Said(parse.told, read)' /\ ExitLast(parse.told)'
  BY DEF Said, ExitLast
<1> QED
  BY <1>2, <1>4, <1>5, <1>6 DEF CliInv


\* The client writes a line.
LEMMA WriteStep ==
    ASSUME ClientEventsAssumption, CliInv, NEW e \in LineSet, NEW newline \in BOOLEAN, Writes(e, newline), UNCHANGED cut,
           phase' = (IF newline THEN phase ELSE "exited"),
           NEW rs, responses' = rs, rs \in ResponseSet, Len(rs) >= Len(responses),
           e.type \in EndLines => e.r \in 1..Len(rs),
           \A r \in 1..Len(responses) : \A i \in 1..Len(responses[r]) : rs[r][i].type = responses[r][i].type,
           client = "codex" /\ ~cut /\ Wholly(wrote, responses) => Wholly(Append(wrote, e), rs)
    PROVE  CliInv'
<1>0. /\ phase = "reading" /\ Len(wrote) < MaxLines
      /\ pipe' = pipe \o <<Half(e), Half(e)>> \o (IF newline THEN <<Newline>> ELSE <<>>)
      /\ wrote' = Append(wrote, e) /\ UNCHANGED <<client, named, buffer, parse, stderr, read>>
  BY DEF Writes, Half
<1>1. CliTyped /\ TextRight /\ WroteRight /\ ParseRight(parse, read) /\ Sent(buffer, pipe, read, wrote)
      /\ AllSent(buffer, pipe, read, wrote)
  BY <1>0 DEF CliInv, TextRight
<1>2. read \in Seq(LineSet) /\ wrote \in Seq(LineSet) /\ Len(read) <= Len(wrote) /\ \A k \in 1..Len(read) : read[k] = wrote[k]
  BY <1>1 DEF CliTyped, TextRight, Sent, Encodes
<1>3. PICK w : w = Append(wrote, e)
  OBVIOUS
<1>4. w \in Seq(LineSet) /\ Len(w) = Len(wrote) + 1 /\ Len(w) <= MaxLines /\ EndsIn(w, rs) /\ Len(rs) >= 1
  <2>1. w \in Seq(LineSet) /\ Len(w) = Len(wrote) + 1 /\ w[Len(wrote) + 1] = e /\ \A k \in 1..Len(wrote) : w[k] = wrote[k]
    BY <1>2, <1>3
  <2>2. Len(w) <= MaxLines
    BY <1>0, <1>2, <2>1 DEF ClientEventsAssumption
  <2>3. Len(responses) \in Nat /\ Len(rs) \in Nat /\ EndsIn(wrote, responses) /\ Len(responses) >= 1
    BY <1>1 DEF CliTyped
  <2>4. EndsIn(w, rs)
    <3> SUFFICES ASSUME NEW k \in 1..Len(w), w[k].type \in EndLines PROVE w[k].r \in 1..Len(rs)
      BY DEF EndsIn
    <3>1. CASE k = Len(wrote) + 1
      BY <2>1, <3>1
    <3>2. CASE k \in 1..Len(wrote)
      <4>1. w[k].r \in 1..Len(responses)
        BY <2>1, <2>3, <3>2 DEF EndsIn
      <4> QED
        BY <2>3, <4>1
    <3> QED
      BY <1>2, <2>1, <3>1, <3>2
  <2> QED
    BY <2>1, <2>2, <2>3, <2>4
<1>5. CliTyped'
  BY <1>0, <1>1, <1>3, <1>4 DEF CliTyped
<1>6. TextRight'
  <2>1. PICK p : p = pipe \o <<Half(e), Half(e)>> \o (IF newline THEN <<Newline>> ELSE <<>>)
    OBVIOUS
  <2>2. Sent(buffer, p, read, w) /\ (newline => AllSent(buffer, p, read, w))
    BY <1>1, <1>2, <1>3, <2>1, SendKeeps
  <2>3. phase' \in {"reading", "exited"} /\ (phase' = "reading" => newline)
    BY <1>0
  <2> QED
    BY <1>0, <1>3, <2>1, <2>2, <2>3 DEF TextRight
<1>7. WroteRight'
  BY <1>0, <1>1, <1>3 DEF WroteRight
<1>8. ParseRight(parse, read)'
  BY <1>0, <1>1, <1>2, ParseStays
<1>9. phase' # "ended"
  BY <1>0
<1> QED
  BY <1>5, <1>6, <1>7, <1>8, <1>9 DEF CliInv

\* A line of an item of the response that is under way.
LEMMA ItemStep ==
    ASSUME ClientEventsAssumption, CliInv, NEW t \in ItemLines, NEW i \in Nat, NEW rs,
           Writes(Line(t, Last1, i), TRUE), UNCHANGED <<cut, phase>>, responses' = rs,
           rs \in ResponseSet, Len(rs) = Last1, Grows(responses, rs, Last1, i), i \in 1..Len(rs[Last1]),
           t = "delta" => /\ rs[Last1][i].type = "message" /\ rs[Last1][i].streamed
                          /\ i \notin 1..Len(Items(Last1)) \/ (Items(Last1)[i].streamed /\ ~Items(Last1)[i].done),
           t = "done" => (rs[Last1][i].streamed => rs[Last1][i].done)
    PROVE  CliInv'
<1> DEFINE m == Last1
           e == Line(t, m, i)
<1>1. CliTyped
  BY DEF CliInv
<1>2. wrote \in Seq(LineSet) /\ responses \in ResponseSet /\ m = Len(responses) /\ m >= 1 /\ m \in Nat
  BY <1>1 DEF CliTyped, Last1
<1>3. e \in LineSet /\ e.type \notin EndLines
  BY <1>2 DEF Line, LineSet, ItemLines, EndLines
<1>4. ASSUME Wholly(wrote, responses) PROVE Wholly(Append(wrote, e), rs)
  <2>1. t = "delta" => NotDone(wrote, m, i)
    BY <1>2, <1>4, NoDoneLine DEF Items
  <2> HIDE DEF m
  <2> QED
    BY <1>2, <1>4, <2>1, WroteItem DEF m
<1>5. \A r \in 1..Len(responses) : \A j \in 1..Len(responses[r]) : rs[r][j].type = responses[r][j].type
  BY <1>2 DEF Grows
<1>6. phase' = (IF TRUE THEN phase ELSE "exited")
  OBVIOUS
<1>7. Len(rs) >= Len(responses)
  BY <1>2
<1>8. Writes(e, TRUE)
  OBVIOUS
<1> HIDE DEF e, m
<1> QED
  BY <1>3, <1>4, <1>5, <1>6, <1>7, <1>8, WriteStep

\* A piece of a message is written.
LEMMA WriteDeltaStep == ClientEventsAssumption /\ CliInv /\ WriteDelta => CliInv'
<1> SUFFICES ASSUME ClientEventsAssumption, CliInv, WriteDelta PROVE CliInv'
  OBVIOUS
<1> DEFINE m == Last1
           item == [type |-> "message", streamed |-> TRUE, done |-> FALSE]
<1>1. responses \in ResponseSet /\ m = Len(responses) /\ m >= 1 /\ Items(m) = responses[m]
  BY DEF CliInv, CliTyped, Last1, Items
<1>2. item \in ItemRecords /\ "delta" \in ItemLines
  BY DEF ItemRecords, ItemLines
<1>3. CASE /\ responses' = [responses EXCEPT ![m] = Append(@, item)]
           /\ Writes(Line("delta", m, Len(Items(m)) + 1), TRUE)
  <2> DEFINE i == Len(responses[m]) + 1
  <2>1. PICK rs : rs = AddItem(responses, m, item)
    OBVIOUS
  <2>2. /\ rs \in ResponseSet /\ Len(rs) = m /\ Grows(responses, rs, m, i)
        /\ rs[m][i] = item /\ i \in Nat /\ i \in 1..Len(rs[m]) /\ i \notin 1..Len(responses[m])
    <3>1. item \in ItemRecords
      BY <1>2
    <3>2. i = Len(responses[m]) + 1
      OBVIOUS
    <3> HIDE DEF m, item, i
    <3> QED
      BY <1>1, <2>1, <3>1, <3>2, ItemNew
  <2>3. Writes(Line("delta", Last1, i), TRUE) /\ responses' = rs /\ UNCHANGED <<cut, phase>>
    BY <1>1, <1>3, <2>1 DEF WriteDelta, AddItem, SetDone
  <2> HIDE DEF i
  <2>4. rs[Last1][i].type = "message" /\ rs[Last1][i].streamed /\ i \notin 1..Len(Items(Last1))
    BY <1>1, <2>2
  <2> QED
    BY <1>2, <2>2, <2>3, <2>4, ItemStep
<1>4. CASE /\ Items(m) # <<>> /\ Newest.streamed /\ ~Newest.done /\ UNCHANGED responses
           /\ Writes(Line("delta", m, Len(Items(m))), TRUE)
  <2> DEFINE i == Len(responses[m])
  <2>1. /\ i \in Nat /\ i \in 1..Len(responses[m]) /\ Grows(responses, responses, m, i)
    <3>2. responses[m] # <<>> /\ i = Len(responses[m])
      BY <1>1, <1>4
    <3> HIDE DEF m, i
    <3>1. PICK rs2 : rs2 = SetDone(responses, m, i)
      OBVIOUS
    <3> QED
      BY <1>1, <3>1, <3>2, ItemDone
  <2>2. Newest = responses[m][i]
    BY DEF Newest, Items
  <2>3. Writes(Line("delta", Last1, i), TRUE) /\ UNCHANGED <<cut, phase>>
    BY <1>1, <1>4 DEF WriteDelta
  <2>4. PICK rs : rs = responses
    OBVIOUS
  <2>5. responses[m][i] \in ItemRecords
    <3>1. responses[m] \in Seq(ItemRecords)
      BY <1>1 DEF ResponseSet
    <3> QED
      BY <2>1, <3>1
  <2>6. rs[Last1][i].type = "message" /\ rs[Last1][i].streamed /\ Items(Last1)[i].streamed /\ ~Items(Last1)[i].done
    BY <1>1, <1>4, <2>2, <2>4, <2>5 DEF ItemRecords
  <2> HIDE DEF i
  <2>7. responses' = rs /\ rs \in ResponseSet /\ Len(rs) = Last1 /\ Grows(responses, rs, Last1, i) /\ i \in 1..Len(rs[Last1])
    BY <1>1, <1>4, <2>1, <2>4
  <2> QED
    BY <1>2, <2>1, <2>3, <2>6, <2>7, ItemStep
<1> QED
  BY <1>3, <1>4 DEF WriteDelta

\* An item is written, as done.
LEMMA WriteDoneStep == ClientEventsAssumption /\ CliInv /\ WriteDone => CliInv'
<1> SUFFICES ASSUME ClientEventsAssumption, CliInv, WriteDone PROVE CliInv'
  OBVIOUS
<1> DEFINE m == Last1
<1>1. responses \in ResponseSet /\ m = Len(responses) /\ m >= 1 /\ Items(m) = responses[m]
  BY DEF CliInv, CliTyped, Last1, Items
<1>2. "done" \in ItemLines
  BY DEF ItemLines
<1>3. CASE /\ Items(m) # <<>> /\ responses' = [responses EXCEPT ![m][Len(Items(m))].done = TRUE]
           /\ Writes(Line("done", m, Len(Items(m))), TRUE)
  <2> DEFINE i == Len(responses[m])
  <2>1. PICK rs : rs = SetDone(responses, m, i)
    OBVIOUS
  <2>2. /\ rs \in ResponseSet /\ Len(rs) = m /\ Grows(responses, rs, m, i)
        /\ rs[m][i].done /\ i \in Nat /\ i \in 1..Len(rs[m])
    <3>1. responses[m] # <<>> /\ i = Len(responses[m])
      BY <1>1, <1>3
    <3> HIDE DEF m, i
    <3> QED
      BY <1>1, <2>1, <3>1, ItemDone
  <2>3. Writes(Line("done", Last1, i), TRUE) /\ responses' = rs /\ UNCHANGED <<cut, phase>>
    BY <1>1, <1>3, <2>1 DEF WriteDone, AddItem, SetDone
  <2> HIDE DEF i
  <2> QED
    BY <1>2, <2>2, <2>3, ItemStep
<1>4. ASSUME NEW type \in {"message", "call"},
             responses' = [responses EXCEPT ![m] = Append(@, [type |-> type, streamed |-> FALSE, done |-> TRUE])],
             Writes(Line("done", m, Len(Items(m)) + 1), TRUE)
      PROVE  CliInv'
  <2> DEFINE i == Len(responses[m]) + 1
             item == [type |-> type, streamed |-> FALSE, done |-> TRUE]
  <2>1. PICK rs : rs = AddItem(responses, m, item)
    OBVIOUS
  <2>2. item \in ItemRecords
    BY DEF ItemRecords
  <2>3. /\ rs \in ResponseSet /\ Len(rs) = m /\ Grows(responses, rs, m, i)
        /\ rs[m][i] = item /\ i \in Nat /\ i \in 1..Len(rs[m])
    <3>1. i = Len(responses[m]) + 1
      OBVIOUS
    <3> HIDE DEF m, item, i
    <3> QED
      BY <1>1, <2>1, <2>2, <3>1, ItemNew
  <2>4. Writes(Line("done", Last1, i), TRUE) /\ responses' = rs /\ UNCHANGED <<cut, phase>>
    BY <1>1, <1>4, <2>1 DEF WriteDone, AddItem, SetDone
  <2>5. ~rs[m][i].streamed
    BY <2>3
  <2> HIDE DEF i
  <2> QED
    BY <1>2, <2>3, <2>4, <2>5, ItemStep
<1> QED
  BY <1>3, <1>4 DEF WriteDone

\* A response ends, and says so.
LEMMA WriteEndStep ==
    ASSUME ClientEventsAssumption, CliInv, NEW how \in EndLines, WriteEnd(how)
    PROVE  CliInv'
<1> DEFINE m == Last1
           e == Line(how, m, 0)
<1>1. responses \in ResponseSet /\ wrote \in Seq(LineSet) /\ m = Len(responses) /\ m >= 1 /\ Items(m) = responses[m]
  BY DEF CliInv, CliTyped, Last1, Items
<1>2. PICK rs : rs = Append(responses, <<>>)
  OBVIOUS
<1>3. /\ rs \in ResponseSet /\ Len(rs) = m + 1 /\ Len(rs) >= Len(responses)
      /\ \A r \in 1..Len(responses) : rs[r] = responses[r]
  BY <1>1, <1>2 DEF ResponseSet
<1>4. e \in LineSet /\ e.r = m /\ m \in 1..Len(rs)
  BY <1>1, <1>3 DEF Line, LineSet
<1>5. responses[m] # <<>> /\ responses' = rs /\ UNCHANGED <<cut, phase>> /\ Writes(e, TRUE)
  BY <1>1, <1>2 DEF WriteEnd
<1>6. Wholly(wrote, responses) => Wholly(Append(wrote, e), rs)
  <2> HIDE DEF m
  <2> QED
    BY <1>1, <1>2, <1>5, WroteEnd
<1>7. phase' = (IF TRUE THEN phase ELSE "exited")
  BY <1>5
<1>8. \A r \in 1..Len(responses) : \A i \in 1..Len(responses[r]) : rs[r][i].type = responses[r][i].type
  BY <1>3
<1> HIDE DEF e, m
<1> QED
  BY <1>3, <1>4, <1>5, <1>6, <1>7, <1>8, WriteStep

\* Any other line is written, perhaps the last one without its newline.
LEMMA WriteOtherStep ==
    ASSUME ClientEventsAssumption, CliInv, NEW type \in OtherLines, NEW newline \in BOOLEAN, WriteOther(type, newline)
    PROVE  CliInv'
<1> DEFINE e == Line(type, 0, Len(wrote))
<1>1. responses \in ResponseSet /\ wrote \in Seq(LineSet)
  BY DEF CliInv, CliTyped
<1>2. PICK rs : rs = responses
  OBVIOUS
<1>3. rs \in ResponseSet /\ Len(rs) >= Len(responses)
  BY <1>1, <1>2
<1>4. e \in LineSet /\ e.type \in OtherLines /\ e.type \notin EndLines
  BY <1>1 DEF Line, LineSet, OtherLines, EndLines
<1>5. Writes(e, newline) /\ responses' = rs /\ UNCHANGED cut /\ phase' = (IF newline THEN phase ELSE "exited")
  BY <1>2 DEF WriteOther
<1>6. Wholly(wrote, responses) => Wholly(Append(wrote, e), rs)
  <2> HIDE DEF e
  <2> QED
    BY <1>1, <1>2, <1>4, WroteBeside
<1>7. \A r \in 1..Len(responses) : \A i \in 1..Len(responses[r]) : rs[r][i].type = responses[r][i].type
  BY <1>2
<1> HIDE DEF e
<1> QED
  BY <1>3, <1>4, <1>5, <1>6, <1>7, WriteStep


\* What is read is what was written first.
LEMMA ReadFacts ==
    ASSUME CliInv
    PROVE  /\ read \in Seq(LineSet) /\ wrote \in Seq(LineSet) /\ Len(read) <= Len(wrote)
           /\ \A k \in 1..Len(read) : read[k] = wrote[k]
  BY DEF CliInv, CliTyped, TextRight, Sent, Encodes

\* The chunks of the output, the end of the process, and what stops the turn.
LEMMA LaunchStep == CliInv /\ Launch => CliInv'
<1> SUFFICES ASSUME CliInv, Launch PROVE CliInv'
  OBVIOUS
<1>1. /\ phase = "idle" /\ phase' = "reading" /\ UNCHANGED <<client, named, wrote, read, parse, responses, cut>>
      /\ UNCHANGED <<buffer, pipe, stderr>>
  BY DEF Launch
<1>2. CliTyped /\ TextRight
  BY DEF CliInv
<1>3. stderr' \in BOOLEAN /\ Sent(buffer', pipe', read, wrote) /\ AllSent(buffer', pipe', read, wrote)
  BY <1>1, <1>2 DEF CliTyped, TextRight
<1> QED
  BY <1>1, <1>3, QuietStep

\* A chunk of the output is read.
LEMMA ReadStep == CliInv /\ Read => CliInv'
<1> SUFFICES ASSUME CliInv, Read PROVE CliInv'
  OBVIOUS
<1>1. /\ phase \in {"reading", "exited"} /\ phase' = phase /\ UNCHANGED <<client, named, wrote, read, parse, responses, cut>>
      /\ UNCHANGED stderr
  BY DEF Read
<1>2. PICK k \in 1..Len(pipe) : buffer' = buffer \o SubSeq(pipe, 1, k) /\ pipe' = SubSeq(pipe, k + 1, Len(pipe))
  BY DEF Read
<1>3. CliTyped /\ TextRight
  BY DEF CliInv
<1>4. Sent(buffer, pipe, read, wrote) /\ wrote \in Seq(LineSet) /\ (phase = "reading" => AllSent(buffer, pipe, read, wrote))
  BY <1>3 DEF CliTyped, TextRight
<1>5. PICK b, p : b = buffer \o SubSeq(pipe, 1, k) /\ p = SubSeq(pipe, k + 1, Len(pipe))
  OBVIOUS
<1>6. Sent(b, p, read, wrote) /\ (AllSent(buffer, pipe, read, wrote) => AllSent(b, p, read, wrote))
  BY <1>4, <1>5, ReadKeeps
<1>7. stderr' \in BOOLEAN /\ Sent(buffer', pipe', read, wrote) /\ (phase' = "reading" => AllSent(buffer', pipe', read, wrote))
  BY <1>1, <1>2, <1>3, <1>4, <1>5, <1>6 DEF CliTyped
<1> QED
  BY <1>1, <1>7, QuietStep

\* The turn is cancelled, or the process exits.
LEMMA StopStep == CliInv /\ (Cancel \/ ExitProcess) => CliInv'
<1> SUFFICES ASSUME CliInv, Cancel \/ ExitProcess PROVE CliInv'
  OBVIOUS
<1>1. /\ phase \in {"reading", "exited"} /\ phase' \in {"exited", "stopped"}
      /\ UNCHANGED <<client, named, wrote, read, parse, responses, cut>> /\ UNCHANGED <<buffer, pipe>>
      /\ stderr' = stderr \/ stderr' \in BOOLEAN
  BY DEF Cancel, ExitProcess
<1>2. CliTyped /\ TextRight
  BY DEF CliInv
<1>3. stderr' \in BOOLEAN /\ Sent(buffer', pipe', read, wrote)
  BY <1>1, <1>2 DEF CliTyped, TextRight
<1> QED
  BY <1>1, <1>3, QuietStep

\* A line is taken from the buffer.
LEMMA TakeStep == CliInv /\ TakeLine => CliInv'
<1> SUFFICES ASSUME CliInv, TakeLine PROVE CliInv'
  OBVIOUS
<1>1. phase \in {"reading", "exited"} /\ UNCHANGED <<client, named, pipe, phase, stderr, wrote, responses, cut>>
  BY DEF TakeLine
<1>2. PICK n \in 1..Len(buffer) :
         /\ buffer[n] = Newline /\ \A i \in 1..(n - 1) : buffer[i] # Newline
         /\ parse' = ParseLine(parse, Event(SubSeq(buffer, 1, n - 1)))
         /\ read' = Append(read, Event(SubSeq(buffer, 1, n - 1)))
         /\ buffer' = SubSeq(buffer, n + 1, Len(buffer))
  BY DEF TakeLine
<1>3. CliTyped /\ TextRight /\ WroteRight /\ ParseRight(parse, read)
  BY <1>1 DEF CliInv
<1>4. Sent(buffer, pipe, read, wrote) /\ (phase = "reading" => AllSent(buffer, pipe, read, wrote))
  BY <1>3 DEF TextRight
<1>5. /\ read \in Seq(LineSet) /\ wrote \in Seq(LineSet) /\ Len(read) <= Len(wrote)
      /\ \A k \in 1..Len(read) : read[k] = wrote[k]
  BY ReadFacts
<1>6. PICK e : e = wrote[Len(read) + 1]
  OBVIOUS
<1>7. n = 3 /\ Len(buffer) >= 3 /\ Len(read) < Len(wrote) /\ Event(SubSeq(buffer, 1, n - 1)) = e
  BY <1>2, <1>4, <1>5, <1>6, FirstLine
<1>8. n + 1 = 4
  BY <1>7
<1>9. PICK b, rd, st : b = SubSeq(buffer, 4, Len(buffer)) /\ rd = Append(read, e) /\ st = ParseLine(parse, e)
  OBVIOUS
<1>10. buffer' = b /\ read' = rd /\ parse' = st
  BY <1>2, <1>7, <1>8, <1>9
<1>11. /\ Sent(b, pipe, rd, wrote) /\ (AllSent(buffer, pipe, read, wrote) => AllSent(b, pipe, rd, wrote))
       /\ rd \in Seq(LineSet)
  BY <1>4, <1>5, <1>6, <1>7, <1>9, TakeKeeps
<1>12. ParseRight(st, rd)
  BY <1>3, <1>5, <1>6, <1>7, <1>9, HearKeeps
<1>13. st \in ParseSet
  BY <1>12 DEF ParseRight
<1>14. CliTyped'
  <2>1. st.session \in BOOLEAN
    BY <1>13 DEF ParseSet
  <2> QED
    BY <1>1, <1>3, <1>10, <1>11, <1>13, <2>1 DEF CliTyped, EndsIn
<1>15. TextRight'
  BY <1>1, <1>4, <1>10, <1>11 DEF TextRight
<1>16. WroteRight'
  BY <1>1, <1>3 DEF WroteRight
<1>17. ParseRight(parse, read)'
  <2>1. Len(rd) <= Len(wrote) /\ \A k \in 1..Len(rd) : rd[k] = wrote[k]
    BY <1>11 DEF Sent, Encodes
  <2> QED
    BY <1>1, <1>3, <1>10, <1>11, <1>12, <2>1, ParseStays
<1> QED
  BY <1>1, <1>14, <1>15, <1>16, <1>17 DEF CliInv

\* The process cannot be started.
LEMMA FailStep == CliInv /\ LaunchFails => CliInv'
<1> SUFFICES ASSUME CliInv, LaunchFails PROVE CliInv'
  OBVIOUS
<1>1. /\ phase = "idle" /\ phase' = "ended" /\ parse' \in {parse, Tells(parse, Line("exit", 0, 1))}
      /\ UNCHANGED <<client, named, pipe, buffer, stderr, wrote, read, responses, cut>>
  BY DEF LaunchFails
<1>2. CliTyped /\ TextRight /\ WroteRight /\ ParseRight(parse, read)
  BY <1>1 DEF CliInv
<1>3. /\ read \in Seq(LineSet) /\ wrote \in Seq(LineSet) /\ Len(read) <= Len(wrote)
      /\ \A k \in 1..Len(read) : read[k] = wrote[k]
  BY ReadFacts
<1>4. wrote = <<>> /\ read = wrote
  BY <1>1, <1>2, <1>3 DEF TextRight
<1>5. buffer = <<>> /\ pipe = <<>>
  <2>1. buffer \in Seq(Halves) /\ pipe \in Seq(Halves) /\ AllSent(buffer, pipe, read, wrote)
    BY <1>1, <1>2 DEF TextRight, Sent
  <2>2. Len(buffer \o pipe) = 0
    BY <1>4, <2>1 DEF AllSent
  <2>3. Len(buffer) = 0 /\ Len(pipe) = 0
    BY <2>1, <2>2, ConcatFacts
  <2> QED
    BY <2>1, <2>3
<1>6. parse \in ParseSet /\ parse.told \in Seq(SaidSet) /\ Said(parse.told, wrote)
  BY <1>2, <1>3, <1>4, ParseSaid DEF ParseRight
<1>7. ASSUME NEW new, new = parse PROVE Said(new.told, wrote) /\ ExitLast(new.told) /\ new.session \in BOOLEAN
  <2>1. \A z \in SaidSet : z.type # "exit"
    BY DEF SaidSet, ItemLines, EndLines, OtherLines
  <2>2. ExitLast(parse.told)
    BY <1>6, <2>1 DEF ExitLast
  <2> QED
    BY <1>6, <1>7, <2>2 DEF ParseSet
<1>8. ASSUME NEW new, new = Tells(parse, Line("exit", 0, 1))
      PROVE  Said(new.told, wrote) /\ ExitLast(new.told) /\ new.session \in BOOLEAN
  <2>1. new = Tells(IF FALSE THEN Tells(parse, Line("error", 0, 0)) ELSE parse, Line("exit", 0, 1))
    BY <1>8
  <2>2. Said(new.told, wrote) /\ ExitLast(new.told) /\ new.session = parse.session
    BY <1>6, <2>1, LastSaid
  <2> QED
    BY <1>6, <2>2 DEF ParseSet
<1>9. parse'.session \in BOOLEAN /\ Said(parse'.told, wrote) /\ ExitLast(parse'.told)
  <2>1. PICK new : new = parse' /\ (new = parse \/ new = Tells(parse, Line("exit", 0, 1)))
    BY <1>1
  <2>2. Said(new.told, wrote) /\ ExitLast(new.told) /\ new.session \in BOOLEAN
    BY <1>7, <1>8, <2>1
  <2> QED
    BY <2>1, <2>2
<1> QED
  BY <1>1, <1>4, <1>5, <1>9, EndStep


\* The process exits.
LEMMA ExitStep ==
    ASSUME CliInv, NEW code \in {0, 1}, Exit(code)
    PROVE  CliInv'
<1>1. /\ phase = "exited" /\ pipe = <<>> /\ ~HasLine /\ phase' = "ended" /\ buffer' = <<>>
      /\ UNCHANGED <<client, named, pipe, stderr, wrote, responses, cut>>
      /\ read' = IF buffer = <<>> THEN read ELSE Append(read, Event(buffer))
  BY DEF Exit
<1>2. CliTyped /\ TextRight /\ WroteRight /\ ParseRight(parse, read) /\ Sent(buffer, <<>>, read, wrote) /\ stderr \in BOOLEAN
  BY <1>1 DEF CliInv, TextRight, CliTyped
<1>3. /\ read \in Seq(LineSet) /\ wrote \in Seq(LineSet) /\ Len(read) <= Len(wrote)
      /\ \A k \in 1..Len(read) : read[k] = wrote[k]
  BY ReadFacts
<1>4. \/ buffer = <<>> /\ read = wrote
      \/ /\ buffer # <<>> /\ Len(read) < Len(wrote) /\ Event(buffer) = wrote[Len(read) + 1]
         /\ Append(read, wrote[Len(read) + 1]) = wrote
  <2>1. \A k \in 1..Len(buffer) : buffer[k] # Newline
    BY <1>1 DEF HasLine
  <2> QED
    BY <1>2, <1>3, <2>1, LastLine
<1>5. PICK said : said = IF buffer = <<>> THEN parse ELSE ParseLine(parse, Event(buffer))
  OBVIOUS
<1>6. ParseRight(said, wrote) /\ read' = wrote
  <2>1. CASE buffer = <<>> /\ read = wrote
    BY <1>1, <1>2, <1>5, <2>1
  <2>2. CASE /\ buffer # <<>> /\ Len(read) < Len(wrote) /\ Event(buffer) = wrote[Len(read) + 1]
             /\ Append(read, wrote[Len(read) + 1]) = wrote
    <3>1. PICK e : e = wrote[Len(read) + 1]
      OBVIOUS
    <3>2. ParseRight(ParseLine(parse, e), Append(read, e))
      BY <1>2, <1>3, <2>2, <3>1, HearKeeps
    <3>3. said = ParseLine(parse, e) /\ Append(read, e) = wrote /\ read' = Append(read, e)
      BY <1>1, <1>5, <2>2, <3>1
    <3> QED
      BY <3>2, <3>3
  <2> QED
    BY <1>4, <2>1, <2>2
<1>7. said \in ParseSet /\ Said(said.told, wrote)
  BY <1>2, <1>3, <1>6, ParseSaid DEF ParseRight
<1>8. PICK failed, new : failed = stderr /\ new = Tells(IF failed THEN Tells(said, Line("error", 0, 0)) ELSE said, Line("exit", 0, code))
  OBVIOUS
<1>9. parse' = new
  BY <1>5, <1>8 DEF Exit
<1>10. Said(new.told, wrote) /\ ExitLast(new.told) /\ new.session = said.session
  BY <1>2, <1>7, <1>8, LastSaid
<1>11. new.session \in BOOLEAN
  BY <1>7, <1>10 DEF ParseSet
<1> QED
  BY <1>1, <1>6, <1>9, <1>10, <1>11, EndStep

\* A response ends without a word: from then on the books are not those of a client
\* that tells the end of every response.
LEMMA CutStep == CliInv /\ CutResponse => CliInv'
<1> SUFFICES ASSUME CliInv, CutResponse PROVE CliInv'
  OBVIOUS
<1>1. /\ phase = "reading" /\ cut' = TRUE /\ responses' = Append(responses, <<>>)
      /\ UNCHANGED <<client, named, pipe, buffer, parse, phase, stderr, wrote, read>>
  BY DEF CutResponse
<1>2. CliTyped /\ TextRight /\ ParseRight(parse, read)
  BY <1>1 DEF CliInv
<1>3. PICK rs : rs = Append(responses, <<>>)
  OBVIOUS
<1>4. rs \in ResponseSet /\ Len(rs) >= 1 /\ EndsIn(wrote, rs)
  <2>1. responses \in ResponseSet /\ Len(responses) >= 1 /\ EndsIn(wrote, responses)
    BY <1>2 DEF CliTyped
  <2>2. rs \in ResponseSet /\ Len(rs) = Len(responses) + 1 /\ Len(responses) \in Nat
    BY <1>3, <2>1 DEF ResponseSet
  <2> QED
    BY <2>1, <2>2 DEF EndsIn
<1>5. CliTyped'
  BY <1>1, <1>2, <1>3, <1>4 DEF CliTyped
<1>6. TextRight' /\ WroteRight'
  BY <1>1, <1>2 DEF TextRight, WroteRight
<1>7. ParseRight(parse, read)'
  BY <1>1, <1>2 DEF ParseRight, BooksRight, SessionOnce
<1> QED
  BY <1>1, <1>5, <1>6, <1>7 DEF CliInv

\* Nothing is written yet.
LEMMA InitCli == ClientEventsAssumption /\ ClientInit => CliInv
<1> SUFFICES ASSUME ClientEventsAssumption, ClientInit PROVE CliInv
  OBVIOUS
<1>1. /\ client \in {"claude", "codex"} /\ named \in BOOLEAN /\ pipe = <<>> /\ buffer = <<>> /\ parse = NoParse
      /\ phase = "idle" /\ stderr = FALSE /\ wrote = <<>> /\ read = <<>> /\ responses = <<<<>>>> /\ cut = FALSE
  BY DEF ClientInit
<1>2. parse \in ParseSet
  <2>1. <<>> \in Scopes
    BY DEF Scopes
  <2> QED
    BY <1>1, <2>1 DEF NoParse, ParseSet
<1>3. responses \in ResponseSet /\ Len(responses) = 1 /\ responses[1] = <<>>
  BY <1>1 DEF ResponseSet
<1>4. CliTyped
  <2>1. wrote \in Seq(LineSet) /\ read \in Seq(LineSet) /\ Len(wrote) = 0
    BY <1>1
  <2>2. Len(wrote) <= MaxLines /\ Len(responses) >= 1
    BY <1>3, <2>1 DEF ClientEventsAssumption
  <2>3. EndsIn(wrote, responses)
    BY <1>1, <2>1 DEF EndsIn
  <2>4. parse.session \in BOOLEAN
    BY <1>1 DEF NoParse
  <2> QED
    BY <1>1, <1>2, <1>3, <2>1, <2>2, <2>3, <2>4 DEF CliTyped
<1>5. TextRight
  <2>1. <<>> \in Seq(Halves) /\ <<>> \o <<>> \in Seq(Halves) /\ Len(<<>> \o <<>>) = 0 /\ 3 * (0 - 0) = 0 /\ Len(<<>>) = 0
    OBVIOUS
  <2>2. Encodes(<<>> \o <<>>, Len(<<>>), <<>>)
    BY <2>1 DEF Encodes
  <2> QED
    BY <1>1, <2>1, <2>2 DEF TextRight, Sent, AllSent
<1>6. WroteRight
  <2>1. Len(wrote) = 0 /\ Len(responses) = 1 /\ Len(responses[1]) = 0
    BY <1>1, <1>3
  <2> QED
    BY <2>1 DEF WroteRight, Wholly, Places, Ordered, AllEnd, AllWritten
<1>7. ParseRight(parse, read)
  <2>1. parse.told = <<>> /\ parse.seen = {} /\ parse.scope = <<>> /\ ~parse.session /\ parse.next = 0
    BY <1>1 DEF NoParse
  <2>2. \A x : ~Has(<<>>, x) /\ Count(<<>>, x) = 0
    <3> TAKE x
    <3>1. Line("done", 0, 0) \in LineSet /\ <<>> \in Seq(LineSet)
      BY DEF Line, LineSet, ItemLines
    <3>2. ~Has(<<>>, x)
      BY DEF Has
    <3>3. PICK s : s = <<>>
      OBVIOUS
    <3>4. s \in Seq(LineSet)
      BY <3>1, <3>3
    <3>5. Count(s, x) = 0 <=> ~Has(s, x)
      BY <3>1, <3>4, CountMore
    <3> QED
      BY <3>2, <3>3, <3>5
  <2>3. SessionOnce(parse)
    BY <2>1, <2>2 DEF SessionOnce
  <2>4. \A q \in Nat : ~IsOpen(read, q)
    BY <1>1 DEF IsOpen, HasItem
  <2>5. CallsSeen(parse)
    BY <2>1, <2>2 DEF CallsSeen
  <2>6. KeysOld(parse, read)
    BY <2>1 DEF KeysOld
  <2>7. ToldRight(parse, read)
    BY <1>1, <2>1, <2>2 DEF ToldRight
  <2>8. ScopeRight(parse, read) /\ SeenRight(parse, read) /\ ToldRight(parse, read)
    BY <1>2, <2>1, <2>4, <2>5, <2>6, <2>7, BetweenResponses
  <2> QED
    BY <1>2, <2>3, <2>8 DEF ParseRight, BooksRight
<1> QED
  BY <1>1, <1>4, <1>5, <1>6, <1>7 DEF CliInv

\* Every step keeps the invariant.
LEMMA NextCli == ClientEventsAssumption /\ CliInv /\ [ClientNext]_clientVars => CliInv'
<1> SUFFICES ASSUME ClientEventsAssumption, CliInv, [ClientNext]_clientVars PROVE CliInv'
  OBVIOUS
<1>1. CASE UNCHANGED clientVars
  BY <1>1, SameStep
<1>2. CASE Launch \/ LaunchFails \/ Read \/ TakeLine \/ Cancel \/ ExitProcess
  BY <1>2, LaunchStep, FailStep, ReadStep, TakeStep, StopStep
<1>3. ASSUME NEW code \in {0, 1}, Exit(code) PROVE CliInv'
  BY <1>3, ExitStep
<1>4. CASE WriteDelta \/ WriteDone \/ CutResponse
  BY <1>4, WriteDeltaStep, WriteDoneStep, CutStep
<1>5. ASSUME NEW how \in {"completed", "failed"}, WriteEnd(how) PROVE CliInv'
  BY <1>5, WriteEndStep DEF EndLines
<1>6. ASSUME NEW type \in {"session", "thinking", "message"}, NEW newline \in BOOLEAN, WriteOther(type, newline)
      PROVE  CliInv'
  BY <1>6, WriteOtherStep DEF OtherLines
<1> QED
  BY <1>1, <1>2, <1>3, <1>4, <1>5, <1>6, Zenon DEF ClientNext

\* What the invariant says of what has been told.
LEMMA CliHears == CliInv => ClientIsHeard
<1> SUFFICES ASSUME CliInv PROVE ClientIsHeard
  OBVIOUS
<1>1. CliTyped /\ TextRight /\ WroteRight
  BY DEF CliInv
<1>2. /\ read \in Seq(LineSet) /\ wrote \in Seq(LineSet) /\ Len(read) <= Len(wrote)
      /\ \A k \in 1..Len(read) : read[k] = wrote[k]
  BY ReadFacts
<1>3. ClientTypeOK
  BY <1>1, <1>2 DEF CliTyped, ClientTypeOK
<1>4. LinesAsWritten
  BY <1>1, <1>2 DEF LinesAsWritten, TextRight
<1>5. Said(parse.told, read) /\ (\A k \in 1..Len(parse.told) : parse.told[k].type = "exit" => k = Len(parse.told) /\ phase = "ended")
  <2>1. CASE phase = "ended"
    BY <2>1 DEF CliInv, ExitLast
  <2>2. CASE phase # "ended"
    <3>1. ParseRight(parse, read)
      BY <2>2 DEF CliInv
    <3>2. parse.told \in Seq(SaidSet) /\ Said(parse.told, read)
      BY <1>1, <1>2, <3>1, ParseSaid
    <3>3. \A z \in SaidSet : z.type # "exit"
      BY DEF SaidSet, ItemLines, EndLines, OtherLines
    <3> QED
      BY <3>2, <3>3
  <2> QED
    BY <2>1, <2>2
<1>6. ItemsToldOnce
  <2> SUFFICES ASSUME client = "codex", ~cut, NEW r \in 1..Len(responses), NEW i \in 1..Len(responses[r])
               PROVE  LET over == \E k \in 1..Len(read) : read[k] = Line("completed", r, 0)
                      IN  /\ Told("delta", r, i) = Wrote("delta", r, i)
                          /\ Told("whole", r, i) \in
                                IF Wrote("delta", r, i) > 0 THEN {0} ELSE IF over THEN {1} ELSE {0, 1}
    BY DEF ItemsToldOnce
  <2>1. Heard(parse.told, read, responses)
    BY <1>5 DEF Said
  <2>2. \A t : Told(t, r, i) = Count(parse.told, Line(t, r, i)) /\ Wrote(t, r, i) = Count(read, Line(t, r, i))
    BY DEF Told, Wrote, Count
  <2>3. (\E k \in 1..Len(read) : read[k] = Line("completed", r, 0)) <=> Has(read, Line("completed", r, 0))
    BY DEF Has
  <2> QED
    BY <2>1, <2>2, <2>3 DEF Heard
<1>7. Told("session_info", 0, 0) <= 1
  <2>1. Told("session_info", 0, 0) = Count(parse.told, SessionLine)
    BY DEF Told, Count, SessionLine
  <2> QED
    BY <1>5, <2>1 DEF Said
<1> QED
  BY <1>3, <1>4, <1>5, <1>6, <1>7 DEF ClientIsHeard, SessionFirstExitLast

\* What a turn hears of its client: every line, in its order, and each item once.
THEOREM ClientTellsOnce == ClientInit /\ [][ClientNext]_clientVars => []ClientIsHeard
<1>1. ClientInit => CliInv
  BY ClientEventsAssumption, InitCli
<1>2. CliInv /\ [ClientNext]_clientVars => CliInv'
  BY ClientEventsAssumption, NextCli
<1>3. CliInv => ClientIsHeard
  BY CliHears
<1> QED
  BY <1>1, <1>2, <1>3, PTL
=============================================================================
