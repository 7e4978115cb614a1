---------------------------- MODULE SessionStore ----------------------------
(***************************************************************************)
(* The JSON store of the messaging bridge (messaging/session.py): the      *)
(* trees in memory, the debounced save on timer threads, and the file.     *)
(*                                                                         *)
(* Every section under the store's lock is one step.  The file is written  *)
(* outside the lock and replaced as a whole, so a write is two steps: the  *)
(* snapshot and the landing.  The event loop waits for its own writes      *)
(* (clear_all, flush_pending_save) and for no other.  A timer whose wait   *)
(* is over can no longer be cancelled, though it may still be waiting for  *)
(* the lock.                                                               *)
(***************************************************************************)
EXTENDS Naturals, Sequences

CONSTANTS Roots,     \* ids of the trees
          Data,      \* what a tree may be saved as
          NoTree,    \* no tree under an id
          MaxTimers  \* bound: timers that wait, and timers past their wait

ASSUME SessionStoreAssumption == NoTree \notin Data /\ MaxTimers \in Nat \ {0}

VARIABLES
    trees,      \* SessionStore._trees
    dirty,      \* SessionStore._dirty
    handle,     \* what _save_timer refers to
    waiting,    \* timers that wait for the debounce to pass
    fired,      \* timers past it that have not had the lock yet
    inFlight,   \* snapshots being written, in the order they were taken
    file,       \* what sessions.json holds
    overtaken,  \* history: the file was written by a snapshot older than
                \* one that had already been written
    failed      \* history: a write failed and nothing was scheduled since

timers     == <<handle, waiting, fired>>
storeVars  == <<trees, dirty, timers, inFlight, file, overtaken, failed>>

Contents == [Roots -> Data \cup {NoTree}]
Nothing == [r \in Roots |-> NoTree]

\* "late": a newer snapshot has reached the file.
Writes == [by: {"timer", "loop"}, trees: Contents, late: BOOLEAN]

StoreTypeOK ==
    /\ trees \in Contents /\ file \in Contents
    /\ dirty \in BOOLEAN /\ overtaken \in BOOLEAN /\ failed \in BOOLEAN
    /\ handle \in {"none", "waiting", "fired"}
    /\ waiting \in Nat /\ fired \in Nat
    /\ inFlight \in Seq(Writes)

StoreInit ==
    /\ trees = Nothing /\ file = Nothing
    /\ dirty = FALSE /\ overtaken = FALSE /\ failed = FALSE
    /\ handle = "none" /\ waiting = 0 /\ fired = 0
    /\ inFlight = <<>>

-----------------------------------------------------------------------------
(* The event loop.                                                         *)

\* It does not run while it writes the file itself.
LoopRuns == \A i \in DOMAIN inFlight : inFlight[i].by # "loop"

\* _schedule_save(): the timer of the handle is replaced, if it still waits.
Schedule ==
    /\ handle = "waiting" \/ waiting < MaxTimers
    /\ dirty' = TRUE /\ failed' = FALSE
    /\ handle' = "waiting"
    /\ waiting' = IF handle = "waiting" THEN waiting ELSE waiting + 1
    /\ UNCHANGED <<fired, inFlight, file, overtaken>>

\* save_tree(), for every tree of f at once; register_node() and
\* remove_node_mappings() schedule a save in the same stretch.
SaveTrees(f) == trees' = f /\ Schedule

SaveTree(r, d) == SaveTrees([trees EXCEPT ![r] = d])

\* remove_tree(), after remove_node_mappings() has scheduled a save.
RemoveTree(r) == SaveTree(r, NoTree)

\* _flush_save(): the pending timer is cancelled if it still can be, and the
\* contents c are snapshot for a write by the event loop.
Flush(c) ==
    /\ trees' = c
    /\ dirty' = FALSE
    /\ handle' = "none"
    /\ waiting' = IF handle = "waiting" THEN waiting - 1 ELSE waiting
    /\ inFlight' = Append(inFlight, [by |-> "loop", trees |-> c, late |-> FALSE])
    /\ UNCHANGED <<fired, file, overtaken, failed>>

FlushPendingSave == Flush(trees)

\* Mutant: the snapshot is taken before the maps are emptied.
ClearAllOld == Flush(trees)

ClearAll == Flush(Nothing)

-----------------------------------------------------------------------------
(* Timer threads and the disk.                                             *)

TimerFires ==
    /\ waiting > 0
    /\ fired + Len(inFlight) < MaxTimers
    /\ waiting' = waiting - 1 /\ fired' = fired + 1
    /\ \/ handle = "waiting" /\ handle' = "fired"
       \/ (handle # "waiting" \/ waiting > 1) /\ UNCHANGED handle
    /\ UNCHANGED <<trees, dirty, inFlight, file, overtaken, failed>>

\* _save_from_timer() up to the end of its first section: it forgets the
\* handle, though the handle may be another timer's by now.
TimerSnapshots ==
    /\ fired > 0
    /\ fired' = fired - 1 /\ handle' = "none" /\ dirty' = FALSE
    /\ inFlight' =
         IF dirty THEN Append(inFlight, [by |-> "timer", trees |-> trees,
                                         late |-> FALSE])
         ELSE inFlight
    /\ UNCHANGED <<trees, waiting, file, overtaken, failed>>

Without(s, i) == SubSeq(s, 1, i - 1) \o SubSeq(s, i + 1, Len(s))

\* Snapshots taken before the one at i become late when it lands.
MarkLate(s, i) == [j \in DOMAIN s |-> [s[j] EXCEPT !.late = @ \/ j < i]]

\* _write_data(): os.replace() succeeds.
WriteLands(i) ==
    /\ file' = inFlight[i].trees
    /\ overtaken' = inFlight[i].late
    /\ inFlight' = Without(MarkLate(inFlight, i), i)
    /\ UNCHANGED <<trees, dirty, timers, failed>>

\* The exception handler of every caller: dirty again, and no timer.
WriteFails(i) ==
    /\ dirty' = TRUE /\ failed' = TRUE
    /\ inFlight' = Without(inFlight, i)
    /\ UNCHANGED <<trees, timers, file, overtaken>>

-----------------------------------------------------------------------------
(* The process.                                                            *)

\* Its end: timers are daemon threads, and die with what they were writing.
StoreDies ==
    /\ dirty' = FALSE /\ failed' = FALSE
    /\ handle' = "none" /\ waiting' = 0 /\ fired' = 0
    /\ inFlight' = <<>>
    /\ trees' = Nothing
    /\ UNCHANGED <<file, overtaken>>

\* _load(), and sync_from_tree_data() if the restored trees needed cleaning.
StoreLoads(cleaned) ==
    /\ trees' = cleaned
    /\ dirty' = (cleaned # file)
    /\ handle' = IF cleaned # file THEN "waiting" ELSE "none"
    /\ waiting' = IF cleaned # file THEN 1 ELSE 0
    /\ UNCHANGED <<fired, inFlight, file, failed>>
    /\ overtaken' = FALSE

-----------------------------------------------------------------------------

\* The newest snapshot holds what is in memory and is still being written.
BeingWritten ==
    inFlight # <<>> /\ inFlight[Len(inFlight)].trees = trees

\* What is in memory is in the file, or dirty, or being written: only a
\* timer that writes an older snapshot over a newer one, which the lock does
\* not cover, can leave the file behind for good.
SavedOrPending == trees = file \/ dirty \/ BeingWritten \/ overtaken

\* A dirty store has a timer that will save it, unless a write failed and
\* nothing changed since: the handler of a failed write arms no timer.
DirtyHasTimer == dirty => waiting + fired > 0 \/ failed
=============================================================================
