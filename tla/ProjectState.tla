---------------------------- MODULE ProjectState ----------------------------
(* What a project may rely on its commands for, whatever they do on the way *)
(* and wherever they die: the three records change together, from the       *)
(* records a command loaded to ones that agree with each other.             *)
EXTENDS ProjectRecords, Naturals

CONSTANTS Proc, None

VARIABLES manifest, lockfile, receipt,
          writer,  \* the command that has the project, or None
          loaded,  \* the records as it loaded them
          edits    \* how often others have written to the project

records == <<manifest, lockfile, receipt>>

Init == writer = None /\ edits = 0

\* The receipt records what the lockfile says is placed, and of what a lockfile
\* of an older format does not list, what was placed.
Records(to, locked) ==
    LET said == ReceiptEntries(locked.facets) IN
    /\ to.kind = "loaded" /\ DOMAIN to.facets = DOMAIN said
    /\ \A f \in DOMAIN said :
          LET as == to.facets[f].as IN
          /\ to.facets[f].version = said[f].version
          /\ Restrict(as, {n \in DOMAIN as : Lists(locked, n)}) = said[f].as

Load(p) ==
    /\ writer = None
    /\ writer' = p
    /\ loaded' = records
    /\ UNCHANGED <<records, edits>>

Leave == writer # None /\ writer' = None /\ UNCHANGED edits

\* All three records, none of which has changed since it was loaded.
Commit ==
    /\ Leave
    /\ records = loaded
    /\ FrozenConsistent(manifest', lockfile')
    /\ Records(receipt', lockfile')

\* A frozen install writes the receipt of the lockfile it loaded, which may
\* have been replaced since: the next command will notice.
Record ==
    /\ Leave
    /\ receipt = loaded[3]
    /\ FrozenConsistent(loaded[1], loaded[2])
    /\ Records(receipt', loaded[2])
    /\ UNCHANGED <<manifest, lockfile>>

\* A crash in the middle of a commit: the manifest is there and the lockfile
\* perhaps, the receipt is not.
Tear ==
    /\ Leave
    /\ records = loaded
    /\ lockfile' # lockfile => FrozenConsistent(manifest', lockfile')
    /\ UNCHANGED receipt

GiveUp == Leave /\ UNCHANGED records

\* Editors, version control, other tools: anything, at any time.
Edit == edits' = edits + 1 /\ UNCHANGED <<writer, loaded>>

Next ==
    \/ \E p \in Proc : Load(p)
    \/ Commit \/ Record \/ Tear \/ GiveUp
    \/ Edit

Spec == Init /\ [][Next]_<<records, writer, edits>>
=============================================================================
