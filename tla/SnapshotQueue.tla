--------------------------- MODULE SnapshotQueue ----------------------------
(***************************************************************************)
(* _SnapshotQueue (messaging/trees/data.py): a FIFO of message ids from    *)
(* which an id can also be taken out of the middle.                        *)
(***************************************************************************)
EXTENDS Integers, Sequences

InQueue(q, x) == \E i \in DOMAIN q : q[i] = x

NoRepeats(q) == \A i, j \in DOMAIN q : q[i] = q[j] => i = j

Precedes(q, x, y) == \E i, j \in DOMAIN q : i < j /\ q[i] = x /\ q[j] = y

\* The queue without the ids of S, the others in their order.
Without(q, S) ==
    LET kept[i \in 0..Len(q)] ==
            IF i = 0 THEN <<>>
            ELSE IF q[i] \in S THEN kept[i - 1] ELSE Append(kept[i - 1], q[i])
    IN  kept[Len(q)]
=============================================================================
