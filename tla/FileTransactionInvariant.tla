---------------------- MODULE FileTransactionInvariant ----------------------
(* What is true between any two steps of FileTransaction, and strong enough *)
(* to be kept by each of them: the ledgers explain the disk.  The promises  *)
(* of the transaction follow.  Each part speaks of the files that no other  *)
(* program has edited.                                                      *)
EXTENDS FileTransaction

Ours == Paths \ edited
Rewinding == pc \in {"rollback", "rollbackAct"}

\* What the committed batches have left at p.
Held(p) == IF journal[p] = Unrecorded THEN start[p] ELSE journal[p].committed

\* Only what a ledger records is ever undone.
TodoRecorded ==
    /\ Unwinding => todo \subseteq Armed
    /\ Rewinding => todo \subseteq Journaled

\* A savepoint exists only while its batch is being applied or undone.
SavepointScoped ==
    ~AtMutation /\ ~Unwinding => savepoint = NoEntries

\* The journal remembers the state before the run, a savepoint the state
\* before the batch, and a batch was planned from the latter.
OriginalsKept ==
    \A p \in Ours :
       /\ p \in Journaled => journal[p].original = start[p]
       /\ p \in Armed => savepoint[p].original = Held(p)
PlannedFromHeld ==
    pc = "preflight" \/ AtMutation \/ Unwinding \/ pc = "failed" =>
       \A i \in DOMAIN batch :
          batch[i].path \in Ours => batch[i].expected = Held(batch[i].path)

\* While applying, the two ledgers say what is on the disk.
LedgersMatchDisk ==
    pc \in {"idle", "preflight", "committed"} \/ AtMutation =>
       \A p \in Ours :
          disk[p] = IF p \in Armed THEN savepoint[p].committed ELSE Held(p)

\* While undoing, what is no longer to do and was not reported is undone.
UndoneMatchesDisk ==
    /\ Unwinding => \A p \in Ours \ (todo \cup report.unresolved) :
                       disk[p] = Held(p)
    /\ pc = "failed" => \A p \in Ours \ residue.unresolved : disk[p] = Held(p)
    /\ Rewinding =>
          \A p \in Ours \ (todo \cup report.unresolved \cup residue.unresolved) :
             disk[p] = start[p]

\* At the end of a rollback the report covers what is not back.
RollbackAccounted ==
    pc = "rolledback" =>
       /\ \A p \in Ours \ report.unresolved : disk[p] = start[p]
       /\ (report.restored \cup report.already) \cap report.unresolved = {}

Explained ==
    /\ TodoRecorded /\ SavepointScoped /\ OriginalsKept /\ PlannedFromHeld
    /\ LedgersMatchDisk /\ UndoneMatchesDisk /\ RollbackAccounted
LedgersExplainDisk == TypeOK /\ Explained

-----------------------------------------------------------------------------
(* The order numbers and the last look: what NoBlindWrite rests on.         *)

\* No two entries of the ledgers have the same order number, so there is one
\* newest entry; the next number is new.
OrdersDistinct ==
    /\ \A p \in Armed : savepoint[p].order < clock
    /\ \A p \in Journaled : journal[p].order < clock
    /\ \A p, q \in Armed : p # q => savepoint[p].order # savepoint[q].order
    /\ \A p, q \in Journaled : p # q => journal[p].order # journal[q].order
    /\ \A p \in Armed, q \in Journaled :
          p # q => savepoint[p].order # journal[q].order

\* Until another program writes it, the current path holds what its last
\* inspection saw.
LastLookHolds ==
    ~raced =>
       /\ pc \in {"ensure", "stage", "act"} => AsExpected(cursor)
       /\ pc \in {"unwindAct", "rollbackAct"} =>
             \A p \in Paths : Newest(p) => disk[p] = EntryOf(p).committed

LooksAreFresh == OrdersDistinct /\ LastLookHolds

-----------------------------------------------------------------------------
(* The directories.                                                         *)

\* What holds a staged temporary cannot be removed.
StagedInTree == pc = "act" /\ ~ Deletes(cursor) => Parent(Target) \in dirs

TreeSound == NothingOrphaned /\ StagedInTree

\* A boundary that was there is never a directory the run has created.
BoundariesKept ==
    ~treeEdited =>
        \A p \in Paths : Boundary(p) \in startDirs =>
            Boundary(p) \in dirs \ (batchDirs \cup created)

\* No undoing has had to leave anything where it is.
AllBack ==
    /\ edited = {} /\ ~treeEdited /\ litter = {}
    /\ residue.unresolved = {}
    /\ Unwinding \/ Rewinding \/ pc = "rolledback" => report.unresolved = {}

\* Then every directory was there before the run or is one that it created,
\* with all that is above it, and so are those of the files between batches.
Recorded ==
    /\ dirs \subseteq startDirs \cup created \cup batchDirs
    /\ Rooted(startDirs \cup created)
    /\ Rooted(startDirs \cup created \cup batchDirs)
    /\ \A p \in Paths : Held(p) # Absent => Above(p) \subseteq startDirs \cup created
DirectoriesRecorded == AllBack => Recorded

RecordsScoped ==
    /\ WellFormed(start, startDirs)
    /\ ~AtMutation /\ ~Unwinding => batchDirs = {}
    /\ pc = "rolledback" =>
          created = {} /\ residue.unresolved \subseteq report.unresolved
    /\ pc \notin {"failed", "rollback", "rollbackAct", "rolledback"} => residue = NothingDone

DirectoriesKept == TreeSound /\ BoundariesKept /\ RecordsScoped /\ DirectoriesRecorded
=============================================================================
