--------------------------- MODULE AtomicBatches ---------------------------
(* What a run may rely on when it changes files through the transaction,    *)
(* with no other program at work: a batch happens at once or not at all,    *)
(* and giving up returns every file to where the run found it.  The only    *)
(* exceptions are paths the run is told about: those in `lost`.             *)
EXTENDS FiniteSets

CONSTANTS Paths, States

VARIABLES files,    \* what the paths hold, a batch in progress aside
          origin,   \* what they held before the run
          lost,     \* paths reported as not put back
          phase     \* "open", "failed", "undoing", "undone" or "done"

vars == <<files, origin, lost, phase>>

Init ==
    /\ files \in [Paths -> States]
    /\ origin = files
    /\ lost = {}
    /\ phase = "open"

\* A batch takes effect, all of it in one step.
Commit ==
    /\ phase = "open"
    /\ files' \in [Paths -> States]
    /\ UNCHANGED <<origin, lost, phase>>

\* A batch fails: no path changes, but for the ones reported.
Fail ==
    /\ phase = "open"
    /\ lost' \in SUBSET Paths
    /\ files' \in [Paths -> States]
    /\ \A p \in Paths \ lost' : files'[p] = files[p]
    /\ phase' = "failed"
    /\ UNCHANGED origin

GiveUp ==
    /\ phase \in {"open", "failed"}
    /\ phase' = "undoing"
    /\ UNCHANGED <<files, origin, lost>>

Restore(p) ==
    /\ phase = "undoing"
    /\ files' = [files EXCEPT ![p] = origin[p]]
    /\ UNCHANGED <<origin, lost, phase>>

\* A path that cannot be put back is reported; it may be back all the same.
Strand(p) ==
    /\ phase = "undoing"
    /\ files' \in {files, [files EXCEPT ![p] = origin[p]]}
    /\ lost' = lost \cup {p}
    /\ UNCHANGED <<origin, phase>>

Undone ==
    /\ phase = "undoing"
    /\ \A p \in Paths \ lost : files[p] = origin[p]
    /\ phase' = "undone"
    /\ UNCHANGED <<files, origin, lost>>

Succeed ==
    /\ phase = "open"
    /\ phase' = "done"
    /\ UNCHANGED <<files, origin, lost>>

Next == \/ Commit \/ Fail \/ GiveUp \/ Undone \/ Succeed
        \/ \E p \in Paths : Restore(p) \/ Strand(p)

Spec == Init /\ [][Next]_vars
=============================================================================
