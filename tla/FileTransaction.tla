-------------------------- MODULE FileTransaction --------------------------
(***************************************************************************)
(* The file transaction of the engine: fs/transaction.ts, with the         *)
(* directory walks of fs/directories.ts and the report of fs/rollback.ts.  *)
(*                                                                         *)
(* A run of the package manager hands the transaction batches of exact     *)
(* per-file changes.  A batch commits as a whole or undoes itself, and     *)
(* every committed change stays in a journal until the run either succeeds *)
(* or rolls everything back.  The transaction is synchronous, so one run   *)
(* is one process; what interleaves with it, between any two of its system *)
(* calls, is every other program that writes the same files.               *)
(*                                                                         *)
(* Simplifications, all of data:                                           *)
(*   - a file state (bytes and permission bits) is one value;              *)
(*   - an inspection fails for any reason (unreadable, symlink, directory  *)
(*     in the way) by a choice of its action, at any time;                 *)
(*   - the walk that makes the missing directories, and the one that       *)
(*     removes emptied ones, is one step each;                             *)
(*   - rmdir succeeds exactly on an empty directory;                       *)
(*   - two paths of Paths are two files (no case folding).                 *)
(***************************************************************************)
EXTENDS Naturals, Sequences, FiniteSets

CONSTANTS
    Paths,          \* the files a run may touch
    Dirs,           \* the directories it may have to create
    Chain,          \* Chain[p]: directories above p, boundary first, parent last
    Contents,       \* states of a regular file: its bytes with its mode
    Absent,         \* the state of a path that holds nothing
    Unrecorded,     \* "no ledger entry for this path"
    MaxBatches,     \* bound: calls of apply in one run
    MaxBatchLen,    \* bound: mutations in one batch
    MaxEdits        \* bound: edits by other programs

States == Contents \cup {Absent}

Entry == [original : States, committed : States, order : Nat]
Ledger == [Paths -> Entry \cup {Unrecorded}]
NoEntries == [p \in Paths |-> Unrecorded]

Mutation == [path : Paths, expected : States, target : States]

Report == [restored : SUBSET Paths, already : SUBSET Paths,
           unresolved : SUBSET Paths]
NothingDone == [restored |-> {}, already |-> {}, unresolved |-> {}]

ASSUME FileAssumption ==
    /\ Absent \notin Contents
    /\ Unrecorded \notin [original : States, committed : States, order : Nat]
    /\ Chain \in [Paths -> Seq(Dirs) \ {<<>>}]
    /\ MaxBatches \in Nat
    /\ MaxBatchLen \in Nat
    /\ MaxEdits \in Nat

\* A directory has the same directories above it, whichever file it is above
\* of: no boundary lies between another boundary and a file of that one.
ASSUME TreeAssumption ==
    \A p, q \in Paths : \A j \in DOMAIN Chain[p], k \in DOMAIN Chain[q] :
        Chain[p][j] = Chain[q][k] =>
            {Chain[p][i] : i \in 1..(j - 1)} = {Chain[q][i] : i \in 1..(k - 1)}

VARIABLES
    disk,           \* what every path holds
    dirs,           \* the directories that exist
    litter,         \* directories left with a staged temporary in them
    pc,             \* where the run is
    batch,          \* the mutations of the call of apply in progress
    cursor,         \* the mutation it is at
    savepoint,      \* what this batch did: one entry for each armed path
    batchDirs,      \* directories this batch created
    journal,        \* what the committed batches of the run did
    created,        \* directories the committed batches created
    clock,          \* the order number of the next ledger entry
    todo,           \* entries still to be put back
    report,         \* what the undoing in progress has achieved
    residue,        \* what the failed batch's own undoing achieved
    batches,        \* calls of apply so far
    edits,          \* edits by others so far
    \* History, read by the properties only.
    start,          \* the disk before the run
    startDirs,      \* its directories
    edited,         \* paths that another program has edited
    contested,      \* those it edited while the journal had them
    raced,          \* an edit hit the current path since its last inspection
    treeEdited      \* another program created or removed a directory

files     == <<disk, dirs, litter>>
inFlight  == <<batch, cursor, savepoint, batchDirs>>
ledger    == <<journal, created, clock>>
undoing   == <<todo, report, residue>>
others    == <<edits, edited, contested, treeEdited>>
history   == <<start, startDirs>>
vars == <<files, pc, inFlight, ledger, undoing, batches, others, history, raced>>

-----------------------------------------------------------------------------
(* Directories *)

Elems(s) == {s[i] : i \in DOMAIN s}
Boundary(p) == Chain[p][1]
Parent(p) == Chain[p][Len(Chain[p])]
Above(p) == Elems(Chain[p])

\* Directory e is d or lies below it.
Within(e, d) ==
    \/ e = d
    \/ \E p \in Paths : \E i, j \in DOMAIN Chain[p] :
          i < j /\ Chain[p][i] = d /\ Chain[p][j] = e

\* No file, and no temporary of ours, is directly in e.
Bare(e, state, temps) ==
    e \notin temps /\ \A p \in Paths : Parent(p) = e => state[p] = Absent

\* Fault: removal that is recursive, whatever the directories hold.
ReclaimRecursively(tree, candidates, state, temps) == tree \ candidates

\* rmdir over `candidates`, deepest first: one goes when all that is below it
\* went before.  Nothing recursive, so anything that stays keeps its parents.
Reclaim(tree, candidates, state, temps) ==
    tree \ {d \in candidates \cap tree :
               \A e \in tree : Within(e, d) =>
                                  e \in candidates /\ Bare(e, state, temps)}

\* Fault: the climb takes the boundary along.
PruneThroughBoundary(tree, p, state, temps) ==
    IF Parent(p) \in tree THEN Reclaim(tree, Above(p), state, temps) ELSE tree

\* The climb from the parent of p up to its boundary, which it never removes.
\* The first rmdir that fails ends it, also when the parent is already gone.
PruneEmptied(tree, p, state, temps) ==
    IF Parent(p) \in tree
    THEN Reclaim(tree, Above(p) \ {Boundary(p)}, state, temps)
    ELSE tree

\* What a walk towards p has created when it stops before component k.
CreatedBefore(p, k) == {Chain[p][i] : i \in 1..(k - 1)} \ dirs
WalkStops(p) == 1..(Len(Chain[p]) + 1)
WalkComplete(p, k) == k = Len(Chain[p]) + 1

-----------------------------------------------------------------------------
(* The ledgers *)

Armed == {p \in Paths : savepoint[p] # Unrecorded}
Journaled == {p \in Paths : journal[p] # Unrecorded}

\* What is being undone: the savepoint of a batch, or the journal of the run.
Unwinding == pc \in {"unwind", "unwindAct"}
EntryOf(p) == IF Unwinding THEN savepoint[p] ELSE journal[p]

\* Entries are put back newest first.
Newest(p) ==
    p \in todo /\ \A q \in todo : EntryOf(q).order <= EntryOf(p).order

\* Fault: the latest original replaces the first.
FoldedToLatest(old, new) ==
    IF new = Unrecorded THEN old
    ELSE IF old # Unrecorded /\ old.original = new.committed THEN Unrecorded
    ELSE new

\* Fold one entry of a completed batch into the journal: the original is kept
\* for ever, and a path that is back at its original leaves the journal.
Folded(old, new) ==
    IF new = Unrecorded THEN old
    ELSE IF old = Unrecorded THEN new
    ELSE IF old.original = new.committed THEN Unrecorded
    ELSE [old EXCEPT !.committed = new.committed]

\* Fault: the two accounts are just put together.
ConcatenateReports(earlier, later) ==
    [unresolved |-> earlier.unresolved \cup later.unresolved,
     restored   |-> earlier.restored \cup later.restored,
     already    |-> earlier.already \cup later.already]

\* Of a report on one path twice, the earlier account wins, and no path is
\* both restored and unresolved.
MergeReports(earlier, later) ==
    LET unresolved == earlier.unresolved \cup later.unresolved
        restored == (earlier.restored \cup later.restored) \ unresolved
    IN  [unresolved |-> unresolved,
         restored   |-> restored,
         already    |-> (earlier.already \cup later.already)
                           \ (unresolved \cup restored)]

-----------------------------------------------------------------------------
(* The environment: any other program that edits the same tree.            *)

InWindow(p) ==
    \/ pc \in {"ensure", "stage", "act"} /\ batch[cursor].path = p
    \/ pc \in {"unwindAct", "rollbackAct"} /\ Newest(p)

Running == pc \notin {"committed", "rolledback"}

\* Where the staged temporary of the run is at the moment, if there is one.
Staged == IF pc = "act" /\ batch[cursor].target # Absent
          THEN {Parent(batch[cursor].path)} ELSE {}

OtherWrites(p) ==
    /\ Running /\ edits < MaxEdits
    /\ \E s \in States \ {disk[p]} :
          /\ s # Absent => Above(p) \subseteq dirs
          /\ disk' = [disk EXCEPT ![p] = s]
    /\ edits' = edits + 1
    /\ edited' = edited \cup {p}
    /\ contested' = contested \cup ({p} \cap Journaled)
    /\ raced' = (raced \/ InWindow(p))
    /\ UNCHANGED <<dirs, litter, pc, inFlight, ledger, undoing, batches,
                   history, treeEdited>>

OtherMakesDir(p) ==
    /\ Running /\ edits < MaxEdits
    /\ \E k \in DOMAIN Chain[p] :
          /\ Chain[p][k] \notin dirs
          /\ CreatedBefore(p, k) = {}
          /\ dirs' = dirs \cup {Chain[p][k]}
    /\ edits' = edits + 1
    /\ treeEdited' = TRUE
    /\ UNCHANGED <<disk, litter, pc, inFlight, ledger, undoing, batches,
                   history, edited, contested, raced>>

OtherRemovesDir(d) ==
    /\ Running /\ edits < MaxEdits
    /\ dirs' = Reclaim(dirs, {d}, disk, litter \cup Staged)
    /\ dirs' # dirs
    /\ edits' = edits + 1
    /\ treeEdited' = TRUE
    /\ UNCHANGED <<disk, litter, pc, inFlight, ledger, undoing, batches,
                   history, edited, contested, raced>>

-----------------------------------------------------------------------------
(* apply: planning, validation, preflight                                  *)

Now(plan) == [i \in DOMAIN plan |->
                 [path |-> plan[i].path, expected |-> disk[plan[i].path],
                  target |-> plan[i].target]]

Repeats(plan) == \E i, j \in DOMAIN plan : i # j /\ plan[i].path = plan[j].path

\* The mutations validation keeps: a write of the bytes already there is
\* dropped.  (Deleting a path observed absent cannot be expressed.)
Kept(b) == {i \in DOMAIN b : b[i].target # b[i].expected}

FirstKept(b, i) == i \in Kept(b) /\ \A j \in Kept(b) : i <= j
NextKept(i) == /\ i \in Kept(batch) /\ cursor < i
               /\ \A j \in Kept(batch) : cursor < j => i <= j
AtLast == \A j \in Kept(batch) : j <= cursor

Plans == UNION {[1..n -> [path : Paths, target : States]] : n \in 1..MaxBatchLen}

\* The caller plans a batch from what the files hold now and calls apply.
\* Everything validation refuses, it refuses without a system call.
Apply(plan) ==
    /\ pc = "idle" /\ batches < MaxBatches
    /\ batches' = batches + 1
    /\ batch' = Now(plan)
    /\ pc' = IF Repeats(plan) THEN "failed" ELSE "preflight"
    /\ raced' = FALSE
    /\ UNCHANGED <<files, cursor, savepoint, batchDirs, ledger, undoing, others,
                   history>>

AsExpected(i) == disk[batch[i].path] = batch[i].expected

PreflightPasses ==
    /\ pc = "preflight"
    /\ \A i \in Kept(batch) : AsExpected(i)
    /\ \E i \in DOMAIN batch : FirstKept(batch, i) /\ cursor' = i
    /\ pc' = "recheck"
    /\ UNCHANGED <<files, batch, savepoint, batchDirs, ledger, undoing,
                   batches, others, history, raced>>

\* Every mutation was dropped: the call succeeds without looking at a file.
NothingToDo ==
    /\ pc = "preflight"
    /\ Kept(batch) = {}
    /\ batch' = <<>>
    /\ pc' = "idle"
    /\ UNCHANGED <<files, cursor, savepoint, batchDirs, ledger, undoing,
                   batches, others, history, raced>>

\* Drift, or a path or boundary that cannot be inspected: nothing is armed.
PreflightRefuses ==
    /\ pc = "preflight"
    /\ Kept(batch) # {}
    /\ pc' = "failed"
    /\ UNCHANGED <<files, inFlight, ledger, undoing, batches, others, history,
                   raced>>

-----------------------------------------------------------------------------
(* apply: one mutation                                                     *)

Target == batch[cursor].path
Deletes(i) == batch[i].target = Absent

\* Any failure once the loop has begun undoes the batch.
Abort ==
    /\ pc' = "unwind"
    /\ report' = NothingDone
    /\ UNCHANGED <<batch, cursor, journal, created, residue, batches, others,
                   history>>

\* Fault: the preflight is trusted and the file not looked at again.
RecheckSkipped ==
    /\ pc = "recheck"
    /\ pc' = IF Deletes(cursor) THEN "act" ELSE "ensure"
    /\ raced' = FALSE
    /\ UNCHANGED <<files, inFlight, ledger, undoing, batches, others, history>>

\* The last look before the change.
Recheck ==
    /\ pc = "recheck"
    /\ AsExpected(cursor)
    /\ pc' = IF Deletes(cursor) THEN "act" ELSE "ensure"
    /\ raced' = FALSE
    /\ UNCHANGED <<files, inFlight, ledger, undoing, batches, others, history>>

\* Fault: the batch is given up as it stands.
RecheckFailsAsIs ==
    /\ pc = "recheck"
    /\ pc' = "failed"
    /\ UNCHANGED <<files, inFlight, ledger, undoing, batches, others, history,
                   raced>>

\* The file is not what the plan was computed from, or cannot be inspected.
RecheckFails ==
    /\ pc = "recheck"
    /\ todo' = Armed
    /\ Abort
    /\ UNCHANGED <<files, savepoint, batchDirs, clock, raced>>

\* Fault: a walk that fails forgets what it had created.
EnsureForgets ==
    /\ pc = "ensure"
    /\ \E k \in WalkStops(Target) :
          /\ dirs' = dirs \cup CreatedBefore(Target, k)
          /\ \/ /\ WalkComplete(Target, k)
                /\ pc' = "stage"
                /\ batchDirs' = batchDirs \cup CreatedBefore(Target, k)
                /\ UNCHANGED <<batch, cursor, ledger, undoing, batches, others,
                               history>>
             \/ /\ ~WalkComplete(Target, k)
                /\ todo' = Armed
                /\ Abort
                /\ UNCHANGED <<batchDirs, clock>>
    /\ UNCHANGED <<disk, litter, savepoint, raced>>

\* What the walk created is recorded whether or not it got to the end.
Ensure ==
    /\ pc = "ensure"
    /\ \E k \in WalkStops(Target) :
          /\ dirs' = dirs \cup CreatedBefore(Target, k)
          /\ batchDirs' = batchDirs \cup CreatedBefore(Target, k)
          /\ \/ /\ WalkComplete(Target, k)
                /\ pc' = "stage"
                /\ UNCHANGED <<batch, cursor, ledger, undoing, batches, others,
                               history>>
             \/ /\ ~WalkComplete(Target, k)
                /\ todo' = Armed
                /\ Abort
                /\ UNCHANGED clock
    /\ UNCHANGED <<disk, litter, savepoint, raced>>

\* The temporary is written, closed and given the mode beside the target.
Stage ==
    /\ pc = "stage"
    /\ Parent(Target) \in dirs
    /\ pc' = "act"
    /\ UNCHANGED <<files, inFlight, ledger, undoing, batches, others, history,
                   raced>>

\* Discarding it can fail too, and then it stays.
StageFails ==
    /\ pc = "stage"
    /\ litter' \in {litter, litter \cup ({Parent(Target)} \cap dirs)}
    /\ todo' = Armed
    /\ Abort
    /\ UNCHANGED <<disk, dirs, savepoint, batchDirs, clock, raced>>

\* The savepoint entry is armed before the system call, for it can take
\* effect and still report a failure.
Arm ==
    /\ savepoint' = [savepoint EXCEPT ![Target] =
                        [original  |-> batch[cursor].expected,
                         committed |-> batch[cursor].target,
                         order     |-> clock]]
    /\ clock' = clock + 1

Landed == disk' = [disk EXCEPT ![Target] = batch[cursor].target]

\* The rename or the unlink.  Unlinking what is already gone is an error.
Act ==
    /\ pc = "act"
    /\ Deletes(cursor) => disk[Target] # Absent
    /\ Arm
    /\ Landed
    /\ pc' = "verify"
    /\ UNCHANGED <<dirs, litter, batch, cursor, batchDirs, journal, created,
                   undoing, batches, others, history, raced>>

\* Fault: the entry is recorded only when the call has reported success.
ActFailsUnarmed ==
    /\ pc = "act"
    /\ Landed
    /\ todo' = Armed
    /\ Abort
    /\ UNCHANGED <<dirs, litter, savepoint, batchDirs, clock, raced>>

ActFails ==
    /\ pc = "act"
    /\ Arm
    /\ \/ /\ Landed
          /\ UNCHANGED litter
       \/ /\ UNCHANGED disk
          /\ litter' \in {litter, litter \cup Staged}
    /\ todo' = Armed \cup {Target}
    /\ Abort
    /\ UNCHANGED <<dirs, batchDirs, raced>>

HoldsIntended == disk[Target] = batch[cursor].target

VerifyThenNext ==
    /\ pc = "verify"
    /\ HoldsIntended
    /\ \E i \in DOMAIN batch : NextKept(i) /\ cursor' = i
    /\ pc' = "recheck"
    /\ UNCHANGED <<files, batch, savepoint, batchDirs, ledger, undoing,
                   batches, others, history, raced>>

VerifyFails ==
    /\ pc = "verify"
    /\ todo' = Armed
    /\ Abort
    /\ UNCHANGED <<files, savepoint, batchDirs, clock, raced>>

Deleted == {batch[i].path : i \in {j \in Kept(batch) : Deletes(j)}}

\* Sweep what the deletes of a completed batch emptied.
SweepAfter(deleted) ==
    Reclaim(dirs,
            UNION {Above(p) \ {Boundary(p)} :
                      p \in {q \in deleted : Parent(q) \in dirs}},
            disk, litter)

\* The last mutation holds: the batch becomes part of the journal.
VerifyThenMerge ==
    /\ pc = "verify"
    /\ HoldsIntended
    /\ AtLast
    /\ journal' = [p \in Paths |-> Folded(journal[p], savepoint[p])]
    /\ created' = created \cup batchDirs
    /\ savepoint' = NoEntries
    /\ batchDirs' = {}
    /\ dirs' = SweepAfter(Deleted)
    /\ batch' = <<>> /\ cursor' = 0
    /\ pc' = "idle"
    /\ raced' = FALSE
    /\ UNCHANGED <<disk, litter, clock, undoing, batches, others, history>>

-----------------------------------------------------------------------------
(* Undoing: a failed batch against its savepoint, a failed run against the *)
(* journal, each entry with the same three-way comparison.                 *)

\* Done with p.  A path that is back to absent may leave directories empty.
Settle(p, arm, state, tree, temps) ==
    /\ todo' = todo \ {p}
    /\ report' = [report EXCEPT ![arm] = @ \cup {p}]
    /\ dirs' = IF arm # "unresolved" /\ EntryOf(p).original = Absent
               THEN PruneEmptied(tree, p, state, temps) ELSE tree
    /\ pc' = IF Unwinding THEN "unwind" ELSE "rollback"

\* A path that already holds its original is not touched.
AlreadyRestored(p) ==
    /\ pc \in {"unwind", "rollback"}
    /\ Newest(p)
    /\ disk[p] = EntryOf(p).original
    /\ Settle(p, "already", disk, dirs, litter)
    /\ UNCHANGED <<disk, litter, inFlight, ledger, residue, batches, others,
                   history, raced>>

\* Fault: a path that is someone else's is waited for.
LeftAloneRetried(p) ==
    /\ pc \in {"unwind", "rollback"}
    /\ Newest(p)
    /\ disk[p] \in {EntryOf(p).original, EntryOf(p).committed}
    /\ Settle(p, "unresolved", disk, dirs, litter)
    /\ UNCHANGED <<disk, litter, inFlight, ledger, residue, batches, others,
                   history, raced>>

\* It holds neither endpoint, so it is someone else's; or it cannot be read.
LeftAlone(p) ==
    /\ pc \in {"unwind", "rollback"}
    /\ Newest(p)
    /\ Settle(p, "unresolved", disk, dirs, litter)
    /\ UNCHANGED <<disk, litter, inFlight, ledger, residue, batches, others,
                   history, raced>>

\* It holds what this run put there: the one state the run may revert.
OursToRevert(p) ==
    /\ pc \in {"unwind", "rollback"}
    /\ Newest(p)
    /\ disk[p] # EntryOf(p).original
    /\ disk[p] = EntryOf(p).committed
    /\ pc' = IF Unwinding THEN "unwindAct" ELSE "rollbackAct"
    /\ raced' = FALSE
    /\ UNCHANGED <<files, inFlight, ledger, undoing, batches, others, history>>

PutBack(p) ==
    /\ pc \in {"unwindAct", "rollbackAct"}
    /\ Newest(p)
    /\ EntryOf(p).original = Absent => disk[p] # Absent
    /\ disk' = [disk EXCEPT ![p] = EntryOf(p).original]
    /\ Settle(p, "restored", disk',
              IF EntryOf(p).original = Absent THEN dirs ELSE dirs \cup Above(p),
              litter)
    /\ UNCHANGED <<litter, inFlight, ledger, residue, batches, others, history,
                   raced>>

\* The unlink reports an error, having taken effect or not.
PutBackUnlinkFails(p) ==
    /\ pc \in {"unwindAct", "rollbackAct"}
    /\ Newest(p)
    /\ EntryOf(p).original = Absent
    /\ \/ disk' = [disk EXCEPT ![p] = Absent]
       \/ UNCHANGED disk
    /\ Settle(p, "unresolved", disk', dirs, litter)
    /\ UNCHANGED <<litter, inFlight, ledger, residue, batches, others, history,
                   raced>>

\* The walk, the staging or the rename fails.  The directories made for it are
\* swept at once, unless the file or the temporary is in them after all.
PutBackWriteFails(p) ==
    /\ pc \in {"unwindAct", "rollbackAct"}
    /\ Newest(p)
    /\ EntryOf(p).original # Absent
    /\ \E k \in WalkStops(p), landed, leaks \in BOOLEAN :
          LET tree  == dirs \cup CreatedBefore(p, k)
              temps == IF leaks THEN litter \cup {Parent(p)} ELSE litter
          IN  /\ landed \/ leaks => WalkComplete(p, k)
              /\ ~(landed /\ leaks)
              /\ disk' = IF landed
                         THEN [disk EXCEPT ![p] = EntryOf(p).original]
                         ELSE disk
              /\ litter' = temps
              /\ Settle(p, "unresolved", disk',
                        Reclaim(tree, CreatedBefore(p, k), disk', temps), temps)
    /\ UNCHANGED <<inFlight, ledger, residue, batches, others, history, raced>>

UnwindEnds ==
    /\ pc = "unwind"
    /\ todo = {}
    /\ dirs' = Reclaim(dirs, batchDirs, disk, litter)
    /\ residue' = report
    /\ savepoint' = NoEntries
    /\ batchDirs' = {}
    /\ pc' = "failed"
    /\ raced' = FALSE
    /\ UNCHANGED <<disk, litter, batch, cursor, ledger, todo, report, batches,
                   others, history>>

\* The caller gives up: a batch failed, or something outside the transaction.
RollbackBegins ==
    /\ pc \in {"idle", "failed"}
    /\ todo' = Journaled
    /\ report' = NothingDone
    /\ batch' = <<>> /\ cursor' = 0
    /\ pc' = "rollback"
    /\ raced' = FALSE
    /\ UNCHANGED <<files, savepoint, batchDirs, ledger, residue, batches, others,
                   history>>

\* The journal is drained, and the caller folds the two accounts into one.
RollbackEnds ==
    /\ pc = "rollback"
    /\ todo = {}
    /\ dirs' = Reclaim(dirs, created, disk, litter)
    /\ report' = MergeReports(residue, report)
    /\ journal' = NoEntries
    /\ created' = {}
    /\ pc' = "rolledback"
    /\ UNCHANGED <<disk, litter, inFlight, clock, todo, residue, batches,
                   others, history, raced>>

RunSucceeds ==
    /\ pc = "idle"
    /\ pc' = "committed"
    /\ UNCHANGED <<files, inFlight, ledger, undoing, batches, others, history,
                   raced>>

-----------------------------------------------------------------------------

\* Every directory of the tree has its parents there.
Rooted(tree) ==
    \A p \in Paths : \A i, j \in DOMAIN Chain[p] :
        i < j /\ Chain[p][j] \in tree => Chain[p][i] \in tree

\* And so has every file.
WellFormed(state, tree) ==
    /\ \A p \in Paths : state[p] # Absent => Above(p) \subseteq tree
    /\ Rooted(tree)

Init ==
    /\ disk \in [Paths -> States]
    /\ dirs \in SUBSET Dirs
    /\ WellFormed(disk, dirs)
    /\ start = disk /\ startDirs = dirs
    /\ litter = {} /\ pc = "idle"
    /\ batch = <<>> /\ cursor = 0 /\ savepoint = NoEntries /\ batchDirs = {}
    /\ journal = NoEntries /\ created = {} /\ clock = 0
    /\ todo = {} /\ report = NothingDone /\ residue = NothingDone
    /\ batches = 0 /\ edits = 0
    /\ edited = {} /\ contested = {} /\ raced = FALSE /\ treeEdited = FALSE

Applying ==
    \/ \E plan \in Plans : Apply(plan)
    \/ NothingToDo \/ PreflightPasses \/ PreflightRefuses
    \/ Recheck \/ RecheckFails \/ Ensure \/ Stage \/ StageFails
    \/ Act \/ ActFails \/ VerifyThenNext \/ VerifyFails \/ VerifyThenMerge

Undoing ==
    \/ \E p \in Paths :
          \/ AlreadyRestored(p) \/ LeftAlone(p) \/ OursToRevert(p)
          \/ PutBack(p) \/ PutBackUnlinkFails(p) \/ PutBackWriteFails(p)
    \/ UnwindEnds \/ RollbackBegins \/ RollbackEnds

Run == Applying \/ Undoing \/ RunSucceeds

Others ==
    \/ \E p \in Paths : OtherWrites(p) \/ OtherMakesDir(p)
    \/ \E d \in Dirs : OtherRemovesDir(d)

Next == Run \/ Others

Spec == Init /\ [][Next]_vars

\* The transaction never waits for anyone: a run that has begun goes on.
FairSpec == Spec /\ WF_vars(Run)

-----------------------------------------------------------------------------
(* What the transaction promises *)

Steps == {"idle", "preflight", "recheck", "ensure", "stage", "act", "verify",
          "unwind", "unwindAct", "failed", "rollback", "rollbackAct",
          "rolledback", "committed"}
AtMutation == pc \in {"recheck", "ensure", "stage", "act", "verify"}

\* Every variable holds a value of its kind, and a batch that is being applied
\* has a current mutation.
TypeOK ==
    /\ disk \in [Paths -> States] /\ start \in [Paths -> States]
    /\ dirs \in SUBSET Dirs /\ startDirs \in SUBSET Dirs
    /\ litter \in SUBSET Dirs
    /\ pc \in Steps
    /\ batch \in Seq(Mutation)
    /\ cursor \in Nat /\ (AtMutation => cursor \in DOMAIN batch)
    /\ savepoint \in Ledger /\ journal \in Ledger
    /\ batchDirs \in SUBSET Dirs /\ created \in SUBSET Dirs
    /\ clock \in Nat /\ batches \in Nat /\ edits \in Nat
    /\ todo \in SUBSET Paths
    /\ report \in Report /\ residue \in Report
    /\ edited \in SUBSET Paths /\ contested \in SUBSET Paths
    /\ raced \in BOOLEAN /\ treeEdited \in BOOLEAN

\* Rule 3, recovery is armed before the system call: at every moment a path
\* that differs from the state before the run, by the run's own doing, is in
\* one of the two ledgers or has been reported as not put back.
AccountedFor ==
    \A p \in Paths \ edited :
       disk[p] # start[p] =>
          p \in Armed \cup Journaled \cup report.unresolved \cup residue.unresolved

\* Rule 4, a batch commits or leaves nothing behind: after a failed call of
\* apply, every path of the batch that nobody else edited and that the undoing
\* did not report holds what it held when the batch was planned.
FailedBatchLeavesNothing ==
    pc = "failed" =>
       \A i \in DOMAIN batch :
          batch[i].path \notin edited \cup residue.unresolved =>
             disk[batch[i].path] = batch[i].expected

\* After a rollback every path is as it was before the run (not as some batch
\* of the run left it), unless another program edited it or the merged report
\* names it as not put back: one bad file strands no other.
RolledBackToStart ==
    pc = "rolledback" =>
       \A p \in Paths \ (edited \cup report.unresolved) : disk[p] = start[p]

\* The merged report of the two undoings never calls a file restored that
\* still holds the run's bytes.
ReportIsTruthful ==
    pc = "rolledback" =>
       \A p \in (report.restored \cup report.already) \ edited :
          disk[p] = start[p]

\* Rules 1 and 2, a stranger's bytes are never overwritten on the strength of
\* an old look: a step of the run changes a path only if the path holds what
\* its last inspection saw, the planned-from state while applying and the
\* committed state while undoing, or if the edit fell between that inspection
\* and the system call.
LastSeen(p) == IF pc = "act" THEN batch[cursor].expected ELSE EntryOf(p).committed
NoBlindWrite ==
    [][edits' = edits =>
         \A p \in Paths : disk'[p] # disk[p] => raced \/ disk[p] = LastSeen(p)]_vars

\* No walk removes a directory that has something in it: every file and every
\* directory keeps the directories above it.
NothingOrphaned == WellFormed(disk, dirs)

\* No step of the run removes an authorized directory that was there before.
BoundarySurvives ==
    ~treeEdited =>
       \A p \in Paths : Boundary(p) \in startDirs => Boundary(p) \in dirs

\* A rollback that put every file back, undisturbed, leaves no directory that
\* the run created.
NoDirectoryLeftBehind ==
    /\ pc = "rolledback" /\ report.unresolved = {}
    /\ edited = {} /\ ~treeEdited /\ litter = {}
    => dirs \subseteq startDirs

\* An undoing that has begun always ends, while others edit its files, put
\* directories in their place or fill those it removes: it takes every path up
\* once and leaves what it may not touch.
UndoingEnds ==
    pc \in {"unwind", "unwindAct", "rollback", "rollbackAct"}
       ~> pc \in {"failed", "rolledback"}

-----------------------------------------------------------------------------
(* What the documents say and the code does not do *)

\* openspec/specs/installation/spec.md: "A directory that existed before the
\* operation SHALL never be removed, even if it is empty."
PreexistingDirectoriesSurvive ==
    /\ pc = "rolledback" /\ report.unresolved = {}
    /\ edited = {} /\ ~treeEdited
    => startDirs \subseteq dirs

\* openspec/specs/installation/spec.md, "A concurrent edit to a written file is
\* preserved and reported": a rollback never replaces a file that someone else
\* edited after the run wrote it, but for an edit in the window of the call.
ConcurrentEditPreserved ==
    [][pc = "rollbackAct" /\ ~raced =>
         \A p \in contested : disk'[p] = disk[p]]_vars
=============================================================================
