--------------------- MODULE FileTransactionRefinement ---------------------
(* FileTransaction, with no other program at work, implements AtomicBatches: *)
(* a batch in progress is hidden behind the originals of its savepoint until *)
(* it is merged or undone.                                                   *)
EXTENDS FileTransaction

AbstractFiles ==
    [p \in Paths |-> IF savepoint[p] = Unrecorded THEN disk[p]
                     ELSE savepoint[p].original]

AbstractLost ==
    residue.unresolved \cup
       (IF pc \in {"rollback", "rollbackAct", "rolledback"}
        THEN report.unresolved ELSE {})

AbstractPhase ==
    CASE pc = "failed" -> "failed"
      [] pc \in {"rollback", "rollbackAct"} -> "undoing"
      [] pc = "rolledback" -> "undone"
      [] pc = "committed" -> "done"
      [] OTHER -> "open"

Batches == INSTANCE AtomicBatches
    WITH files <- AbstractFiles, origin <- start, lost <- AbstractLost,
         phase <- AbstractPhase

\* A batch is atomic and a rollback complete, whichever system calls fail and
\* whether or not they took effect before they did.
ImplementsAtomicBatches == Batches!Spec
=============================================================================
