----------------------------- MODULE TurnOrder ------------------------------
(***************************************************************************)
(* What one conversation promises its users: turns are taken one at a      *)
(* time, in the order in which they arrived; a turn that waits may be      *)
(* withdrawn; when a turn is over the next one follows at once.            *)
(***************************************************************************)
EXTENDS Sequences, Integers

CONSTANTS Nodes, None

VARIABLES waiting,  \* turns in line, first come first
          active,   \* the turn being taken, or None
          over      \* turns taken or withdrawn

vars == <<waiting, active, over>>

InLine(n) == \E i \in DOMAIN waiting : waiting[i] = n

TypeOK == /\ waiting \in Seq(Nodes)
          /\ active \in Nodes \cup {None}
          /\ over \subseteq Nodes

Init == waiting = <<>> /\ active = None /\ over = {}

Arrive(n) ==
    /\ n \notin over \cup {active} /\ ~InLine(n)
    /\ IF active = None THEN active' = n /\ UNCHANGED waiting
                        ELSE waiting' = Append(waiting, n) /\ UNCHANGED active
    /\ UNCHANGED over

Withdraw(n) ==
    /\ \E i \in DOMAIN waiting :
          /\ waiting[i] = n
          /\ waiting' = SubSeq(waiting, 1, i - 1) \o SubSeq(waiting, i + 1, Len(waiting))
    /\ over' = over \cup {n}
    /\ UNCHANGED active

Advance ==
    /\ active # None
    /\ over' = over \cup {active}
    /\ \/ waiting = <<>> /\ active' = None /\ UNCHANGED waiting
       \/ waiting # <<>> /\ active' = Head(waiting) /\ waiting' = Tail(waiting)

Next == Advance \/ \E n \in Nodes : Arrive(n) \/ Withdraw(n)

Spec == Init /\ [][Next]_vars
FairSpec == Spec /\ WF_vars(Advance)
=============================================================================
