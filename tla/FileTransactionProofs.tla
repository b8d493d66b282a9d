----------------------- MODULE FileTransactionProofs -----------------------
(* What FileTransaction promises, for any files, directories and bounds.     *)
EXTENDS FileTransactionInvariant, TLAPS

USE FileAssumption

(* An entry of the ledgers stays one when a completed batch is folded in.    *)
LEMMA FoldedType ==
    ASSUME NEW old \in Entry \cup {Unrecorded}, NEW new \in Entry \cup {Unrecorded}
    PROVE  Folded(old, new) \in Entry \cup {Unrecorded}
BY DEF Folded, Entry

(* Settling a path leaves the undoing well typed. *)
LEMMA SettleType ==
    ASSUME TypeOK, NEW p \in Paths, NEW arm \in {"restored", "already", "unresolved"},
           NEW state, NEW tree \in SUBSET Dirs, NEW temps,
           Settle(p, arm, state, tree, temps)
    PROVE  /\ todo' \in SUBSET Paths
           /\ report' \in Report
           /\ dirs' \in SUBSET Dirs
           /\ pc' \in {"unwind", "rollback"}
BY DEF TypeOK, Settle, Report, PruneEmptied, Reclaim

(* The directories above a path are directories. *)
LEMMA ChainType ==
    ASSUME NEW p \in Paths
    PROVE  /\ Chain[p] \in Seq(Dirs)
           /\ Above(p) \in SUBSET Dirs
           /\ Parent(p) \in Dirs
           /\ \A k \in Nat : k <= Len(Chain[p]) + 1 => CreatedBefore(p, k) \in SUBSET Dirs
<1>1. Chain[p] \in Seq(Dirs) /\ Chain[p] # <<>>
  BY DEF FileAssumption
<1>2. Above(p) \in SUBSET Dirs
  BY <1>1 DEF Above, Elems
<1>3. Parent(p) \in Dirs
  BY <1>1 DEF Parent
<1>4. ASSUME NEW k \in Nat, k <= Len(Chain[p]) + 1
      PROVE  CreatedBefore(p, k) \in SUBSET Dirs
  <2>1. \A i \in 1..(k - 1) : Chain[p][i] \in Dirs
    BY <1>1, <1>4
  <2>2. QED
    BY <2>1 DEF CreatedBefore
<1>5. QED
  BY <1>1, <1>2, <1>3, <1>4

(***************************************************************************)
(* Types                                                                   *)
(***************************************************************************)

LEMMA InitType == Init => TypeOK
<1> SUFFICES ASSUME Init PROVE TypeOK
  OBVIOUS
<1>1. NoEntries \in Ledger
  BY DEF NoEntries, Ledger
<1>2. NothingDone \in Report
  BY DEF NothingDone, Report
<1>3. /\ savepoint \in Ledger /\ journal \in Ledger
      /\ report \in Report /\ residue \in Report
  BY <1>1, <1>2 DEF Init
<1>4. batch \in Seq(Mutation) /\ cursor \in Nat
  BY DEF Init
<1>5. pc \in Steps /\ ~AtMutation
  BY DEF Init, Steps, AtMutation
<1>6. QED
  BY <1>3, <1>4, <1>5 DEF Init, TypeOK

(* Planning reads a batch of mutations off the disk. *)
LEMMA NowType ==
    ASSUME TypeOK, NEW plan \in Plans
    PROVE  Now(plan) \in Seq(Mutation)
<1>1. PICK n \in 1..MaxBatchLen : plan \in [1..n -> [path : Paths, target : States]]
  BY DEF Plans
<1>2. \A i \in 1..n : /\ plan[i].path \in Paths
                       /\ plan[i].target \in States
                       /\ disk[plan[i].path] \in States
  BY <1>1 DEF TypeOK
<1>3. Now(plan) \in [1..n -> Mutation]
  BY <1>1, <1>2 DEF Now, Mutation
<1>4. n \in Nat
  BY DEF FileAssumption
<1>5. QED
  BY <1>3, <1>4

(* Whatever fails once the loop has begun keeps the types. *)
LEMMA AbortType ==
    ASSUME TypeOK, Abort, todo' \in SUBSET Paths
    PROVE  /\ pc' \in Steps /\ ~AtMutation'
           /\ todo' \in SUBSET Paths
           /\ report' \in Report /\ residue' \in Report
           /\ batch' \in Seq(Mutation) /\ cursor' \in Nat
           /\ journal' \in Ledger /\ created' \in SUBSET Dirs
           /\ batches' \in Nat /\ edits' \in Nat
           /\ edited' \in SUBSET Paths /\ contested' \in SUBSET Paths
           /\ treeEdited' \in BOOLEAN
           /\ start' \in [Paths -> States] /\ startDirs' \in SUBSET Dirs
BY DEF TypeOK, Abort, Steps, AtMutation, NothingDone, Report, others, history

(* The current mutation has a path and two states. *)
LEMMA CurrentType ==
    ASSUME TypeOK, AtMutation
    PROVE  /\ cursor \in DOMAIN batch /\ batch[cursor] \in Mutation
           /\ Target \in Paths
           /\ batch[cursor].expected \in States /\ batch[cursor].target \in States
<1>1. cursor \in DOMAIN batch /\ batch[cursor] \in Mutation
  BY DEF TypeOK
<1>2. QED
  BY <1>1 DEF Target, Mutation

(* Arming records an entry for the current path, and for no other. *)
LEMMA ArmType ==
    ASSUME TypeOK, pc = "act", Arm
    PROVE  /\ savepoint' \in Ledger /\ clock' \in Nat
           /\ Armed' = Armed \cup {Target}
<1>1. Target \in Paths /\ AtMutation
  BY CurrentType DEF AtMutation
<1> DEFINE entry == [original |-> batch[cursor].expected,
                     committed |-> batch[cursor].target, order |-> clock]
<1>2. entry \in Entry
  BY <1>1, CurrentType DEF Entry, TypeOK
<1>3. entry # Unrecorded
  BY <1>2 DEF Entry
<1>4. savepoint' = [savepoint EXCEPT ![Target] = entry] /\ clock' = clock + 1
  BY DEF Arm
<1>5. savepoint \in [Paths -> Entry \cup {Unrecorded}] /\ clock \in Nat
  BY DEF TypeOK, Ledger
<1> HIDE DEF entry
<1>6. QED
  BY <1>1, <1>2, <1>3, <1>4, <1>5 DEF Armed, Ledger

(* What is to be undone has an entry, with two states and an order. *)
LEMMA EntryType ==
    ASSUME TypeOK, TodoRecorded, NEW p \in todo,
           pc \in {"unwind", "unwindAct", "rollback", "rollbackAct"}
    PROVE  /\ EntryOf(p) \in Entry /\ p \in Paths
           /\ EntryOf(p).original \in States
           /\ EntryOf(p).committed \in States /\ EntryOf(p).order \in Nat
<1>1. p \in Paths /\ EntryOf(p) # Unrecorded /\ EntryOf(p) \in Entry \cup {Unrecorded}
  BY DEF TypeOK, TodoRecorded, Unwinding, Rewinding, Armed, Journaled, EntryOf, Ledger
<1>2. QED
  BY <1>1 DEF Entry

(* Every step keeps the types. *)
LEMMA NextType == TypeOK /\ TodoRecorded /\ [Next]_vars => TypeOK'
<1> SUFFICES ASSUME TypeOK, TodoRecorded, [Next]_vars PROVE TypeOK'
  OBVIOUS
<1> USE DEF TypeOK, Steps, AtMutation, files, inFlight, ledger, undoing, others, history
<1>1. ASSUME NEW plan \in Plans, Apply(plan) PROVE TypeOK'
  <2>1. raced' \in BOOLEAN
    BY <1>1 DEF Apply
  <2>2. QED
    BY <1>1, <2>1, NowType DEF Apply
<1>2. CASE NothingToDo
  BY <1>2 DEF NothingToDo
<1>3. CASE PreflightPasses
  <2>1. PICK i \in DOMAIN batch : cursor' = i
    BY <1>3 DEF PreflightPasses
  <2>2. DOMAIN batch \subseteq Nat
    OBVIOUS
  <2>3. QED
    BY <1>3, <2>1, <2>2 DEF PreflightPasses
<1>4. CASE PreflightRefuses
  BY <1>4 DEF PreflightRefuses
<1>5. CASE Recheck
  BY <1>5 DEF Recheck
<1>6. CASE RecheckFails
  <2>1. todo' \in SUBSET Paths
    BY <1>6 DEF RecheckFails, Armed
  <2>2. QED
    BY <1>6, <2>1, AbortType DEF RecheckFails
<1>7. CASE Ensure
  <2>1. Target \in Paths
    BY <1>7, CurrentType DEF Ensure
  <2>2. PICK k \in WalkStops(Target) :
          /\ dirs' = dirs \cup CreatedBefore(Target, k)
          /\ batchDirs' = batchDirs \cup CreatedBefore(Target, k)
          /\ \/ /\ pc' = "stage"
                /\ UNCHANGED <<batch, cursor, ledger, undoing, batches, others, history>>
             \/ /\ todo' = Armed
                /\ Abort
                /\ UNCHANGED clock
    BY <1>7 DEF Ensure
  <2>3. k \in Nat /\ k <= Len(Chain[Target]) + 1
    <3>1. Len(Chain[Target]) \in Nat
      BY <2>1, ChainType
    <3>2. QED
      BY <3>1 DEF WalkStops
  <2>4. dirs' \in SUBSET Dirs /\ batchDirs' \in SUBSET Dirs
    BY <2>1, <2>2, <2>3, ChainType
  <2>5. UNCHANGED <<disk, litter, savepoint, raced>> /\ pc = "ensure"
    BY <1>7 DEF Ensure
  <2>6. CASE pc' = "stage" /\ UNCHANGED <<batch, cursor, ledger, undoing, batches, others, history>>
    BY <2>4, <2>5, <2>6
  <2>7. CASE todo' = Armed /\ Abort /\ UNCHANGED clock
    <3>1. todo' \in SUBSET Paths
      BY <2>7 DEF Armed
    <3>2. QED
      BY <2>4, <2>5, <2>7, <3>1, AbortType
  <2>8. QED
    BY <2>2, <2>6, <2>7
<1>8. CASE Stage
  BY <1>8 DEF Stage
<1>9. CASE StageFails
  <2>1. todo' \in SUBSET Paths
    BY <1>9 DEF StageFails, Armed
  <2>2. litter' \in SUBSET Dirs
    BY <1>9 DEF StageFails
  <2>3. QED
    BY <1>9, <2>1, <2>2, AbortType DEF StageFails
<1>11. CASE Act
  <2>1. disk' \in [Paths -> States]
    BY <1>11, CurrentType DEF Act, Landed
  <2>2. QED
    BY <1>11, ArmType, <2>1 DEF Act
<1>12. CASE ActFails
  <2>1. Target \in Paths /\ Parent(Target) \in Dirs
    BY <1>12, CurrentType, ChainType DEF ActFails
  <2>2. todo' \in SUBSET Paths
    BY <1>12, <2>1 DEF ActFails, Armed
  <2>3. disk' \in [Paths -> States]
    BY <1>12, CurrentType DEF ActFails, Landed
  <2>4. litter' \in SUBSET Dirs
    BY <1>12, <2>1 DEF ActFails, Staged, Target
  <2>5. QED
    BY ArmType, <1>12, <2>2, <2>3, <2>4, AbortType DEF ActFails
<1>13. CASE VerifyThenNext
  <2>1. PICK i \in DOMAIN batch : cursor' = i
    BY <1>13 DEF VerifyThenNext
  <2>2. DOMAIN batch \subseteq Nat
    OBVIOUS
  <2>3. QED
    BY <1>13, <2>1, <2>2 DEF VerifyThenNext
<1>14. CASE VerifyFails
  <2>1. todo' \in SUBSET Paths
    BY <1>14 DEF VerifyFails, Armed
  <2>2. QED
    BY <1>14, <2>1, AbortType DEF VerifyFails
<1>15. CASE VerifyThenMerge
  <2>1. journal' \in Ledger
    BY <1>15, FoldedType DEF VerifyThenMerge, Ledger
  <2>2. dirs' \in SUBSET Dirs
    BY <1>15 DEF VerifyThenMerge, SweepAfter, Reclaim
  <2>3. savepoint' \in Ledger
    BY <1>15 DEF VerifyThenMerge, NoEntries, Ledger
  <2>4. raced' \in BOOLEAN
    BY <1>15 DEF VerifyThenMerge
  <2>5. QED
    BY <1>15, <2>1, <2>2, <2>3, <2>4 DEF VerifyThenMerge
<1>16. ASSUME NEW p \in Paths, AlreadyRestored(p) PROVE TypeOK'
  BY <1>16, SettleType DEF AlreadyRestored
<1>17. ASSUME NEW p \in Paths, LeftAlone(p) PROVE TypeOK'
  BY <1>17, SettleType DEF LeftAlone
<1>18. ASSUME NEW p \in Paths, OursToRevert(p) PROVE TypeOK'
  BY <1>18 DEF OursToRevert
<1>19. ASSUME NEW p \in Paths, PutBack(p) PROVE TypeOK'
  <2>1. EntryOf(p).original \in States
    BY <1>19, EntryType DEF PutBack, Newest
  <2>2. disk' \in [Paths -> States]
    BY <1>19, <2>1 DEF PutBack
  <2>3. (IF EntryOf(p).original = Absent THEN dirs ELSE dirs \cup Above(p)) \in SUBSET Dirs
    BY ChainType
  <2>4. /\ todo' \in SUBSET Paths /\ report' \in Report
        /\ dirs' \in SUBSET Dirs /\ pc' \in {"unwind", "rollback"}
    BY <1>19, <2>3, SettleType DEF PutBack
  <2>5. QED
    BY <1>19, <2>2, <2>4 DEF PutBack
<1>20. ASSUME NEW p \in Paths, PutBackUnlinkFails(p) PROVE TypeOK'
  <2>1. disk' \in [Paths -> States]
    BY <1>20 DEF PutBackUnlinkFails, States
  <2>2. QED
    BY <1>20, <2>1, SettleType DEF PutBackUnlinkFails
<1>21. ASSUME NEW p \in Paths, PutBackWriteFails(p) PROVE TypeOK'
  <2>1. EntryOf(p).original \in States
    BY <1>21, EntryType DEF PutBackWriteFails, Newest
  <2>2. PICK k \in WalkStops(p), landed \in BOOLEAN, leaks \in BOOLEAN :
          /\ disk' = IF landed THEN [disk EXCEPT ![p] = EntryOf(p).original] ELSE disk
          /\ litter' = IF leaks THEN litter \cup {Parent(p)} ELSE litter
          /\ Settle(p, "unresolved", disk',
                    Reclaim(dirs \cup CreatedBefore(p, k), CreatedBefore(p, k), disk',
                            IF leaks THEN litter \cup {Parent(p)} ELSE litter),
                    IF leaks THEN litter \cup {Parent(p)} ELSE litter)
    BY <1>21 DEF PutBackWriteFails
  <2>3. disk' \in [Paths -> States] /\ litter' \in SUBSET Dirs
    BY <2>1, <2>2, ChainType
  <2>4. k \in Nat /\ k <= Len(Chain[p]) + 1
    <3>1. Len(Chain[p]) \in Nat
      BY ChainType
    <3>2. QED
      BY <3>1 DEF WalkStops
  <2>5. Reclaim(dirs \cup CreatedBefore(p, k), CreatedBefore(p, k), disk',
                IF leaks THEN litter \cup {Parent(p)} ELSE litter) \in SUBSET Dirs
    BY <2>4, ChainType DEF Reclaim
  <2>6. /\ todo' \in SUBSET Paths /\ report' \in Report
        /\ dirs' \in SUBSET Dirs /\ pc' \in {"unwind", "rollback"}
    BY <2>2, <2>5, SettleType
  <2>7. QED
    BY <1>21, <2>3, <2>6 DEF PutBackWriteFails
<1>22. CASE UnwindEnds
  <2>1. raced' \in BOOLEAN
    BY <1>22 DEF UnwindEnds
  <2>2. QED
    BY <1>22, <2>1 DEF UnwindEnds, Reclaim, NoEntries, Ledger
<1>23. CASE RollbackBegins
  <2>1. raced' \in BOOLEAN
    BY <1>23 DEF RollbackBegins
  <2>2. todo' \in SUBSET Paths /\ report' \in Report
    BY <1>23 DEF RollbackBegins, Journaled, NothingDone, Report
  <2>3. QED
    BY <1>23, <2>1, <2>2 DEF RollbackBegins
<1>24. CASE RollbackEnds
  <2>1. report' \in Report
    BY <1>24 DEF RollbackEnds, MergeReports, Report
  <2>2. QED
    BY <1>24, <2>1 DEF RollbackEnds, Reclaim, NoEntries, Ledger
<1>25. CASE RunSucceeds
  BY <1>25 DEF RunSucceeds
<1>26. ASSUME NEW p \in Paths, OtherWrites(p) PROVE TypeOK'
  <2>1. disk' \in [Paths -> States]
    BY <1>26 DEF OtherWrites
  <2>2. edited' \in SUBSET Paths /\ contested' \in SUBSET Paths
    BY <1>26 DEF OtherWrites
  <2>3. raced' \in BOOLEAN
    BY <1>26 DEF OtherWrites
  <2>4. QED
    BY <1>26, <2>1, <2>2, <2>3 DEF OtherWrites
<1>27. ASSUME NEW p \in Paths, OtherMakesDir(p) PROVE TypeOK'
  <2>1. dirs' \in SUBSET Dirs
    BY <1>27, ChainType DEF OtherMakesDir
  <2>2. QED
    BY <1>27, <2>1 DEF OtherMakesDir
<1>28. ASSUME NEW d \in Dirs, OtherRemovesDir(d) PROVE TypeOK'
  BY <1>28 DEF OtherRemovesDir, Reclaim
<1>29. CASE UNCHANGED vars
  BY <1>29 DEF vars
<1>30. QED
  BY <1>1, <1>2, <1>3, <1>4, <1>5, <1>6, <1>7, <1>8, <1>9, <1>11, <1>12, <1>13,
     <1>14, <1>15, <1>16, <1>17, <1>18, <1>19, <1>20, <1>21, <1>22, <1>23, <1>24,
     <1>25, <1>26, <1>27, <1>28, <1>29
     DEF Next, Run, Applying, Undoing, Others

(***************************************************************************)
(* The ledgers                                                             *)
(***************************************************************************)

Whole == <<disk, savepoint, journal, start, edited>>

(* A step of the bookkeeping, which touches neither the files nor the       *)
(* ledgers, keeps the ledgers in agreement with the disk.                   *)
LEMMA BookkeepingExplained ==
    ASSUME LedgersExplainDisk, UNCHANGED <<Whole, todo, report, residue>>,
           \/ pc = "preflight" /\ pc' = "idle" /\ batch' = <<>>
           \/ /\ batch' = batch
              /\ \/ pc = "preflight" /\ pc' \in {"recheck", "failed"}
                 \/ AtMutation /\ AtMutation'
                 \/ pc = "idle" /\ pc' = "committed"
                 \/ pc = "unwind" /\ pc' = "unwindAct"
                 \/ pc = "rollback" /\ pc' = "rollbackAct"
                 \/ pc' = pc
    PROVE  Explained'
<1> USE DEF LedgersExplainDisk, Whole
<1>1. Armed' = Armed /\ Journaled' = Journaled /\ Ours' = Ours
  BY DEF Armed, Journaled, Ours
<1>2. \A p \in Paths : Held(p)' = Held(p)
  BY DEF Held
<1>3. TodoRecorded'
  BY <1>1 DEF Explained, TodoRecorded, Unwinding, Rewinding, AtMutation
<1>4. SavepointScoped'
  BY DEF Explained, SavepointScoped, Unwinding, AtMutation
<1>5. OriginalsKept'
  BY <1>1, <1>2 DEF Explained, OriginalsKept, Ours
<1>6. PlannedFromHeld'
  BY <1>1, <1>2 DEF Explained, PlannedFromHeld, Unwinding, AtMutation, Ours
<1>7. LedgersMatchDisk'
  BY <1>1, <1>2 DEF Explained, LedgersMatchDisk, AtMutation, Ours
<1>8. UndoneMatchesDisk'
  BY <1>1, <1>2 DEF Explained, UndoneMatchesDisk, SavepointScoped, LedgersMatchDisk,
     Unwinding, Rewinding, AtMutation, Ours, Armed, NoEntries
<1>9. RollbackAccounted'
  BY <1>1 DEF Explained, RollbackAccounted, AtMutation
<1>10. QED
  BY <1>3, <1>4, <1>5, <1>6, <1>7, <1>8, <1>9 DEF Explained

(* A batch that is given up has every path it touched still to be undone.   *)
LEMMA AbortExplained ==
    ASSUME LedgersExplainDisk, AtMutation, Abort, UNCHANGED <<disk, savepoint>>,
           todo' = Armed
    PROVE  Explained'
<1> USE DEF LedgersExplainDisk, Abort, others, history
<1>1. Armed' = Armed /\ Journaled' = Journaled /\ Ours' = Ours
  BY DEF Armed, Journaled, Ours
<1>2. \A p \in Paths : Held(p)' = Held(p)
  BY DEF Held
<1>3. TodoRecorded' /\ SavepointScoped' /\ RollbackAccounted'
  BY <1>1 DEF TodoRecorded, SavepointScoped, RollbackAccounted, Unwinding, Rewinding
<1>4. OriginalsKept' /\ PlannedFromHeld' /\ LedgersMatchDisk'
  BY <1>1, <1>2 DEF Explained, OriginalsKept, PlannedFromHeld, LedgersMatchDisk,
     AtMutation, Unwinding, Ours
<1>5. UndoneMatchesDisk'
  BY <1>1, <1>2 DEF Explained, UndoneMatchesDisk, LedgersMatchDisk, Unwinding,
     Rewinding, Ours
<1>6. QED
  BY <1>3, <1>4, <1>5 DEF Explained

(* The system call of a mutation, having taken effect or not, is explained  *)
(* by the entry armed for it.                                               *)
LEMMA ArmExplained ==
    ASSUME LedgersExplainDisk, pc = "act", Arm,
           UNCHANGED <<batch, journal, start, edited>>,
           \/ Landed /\ pc' = "verify" /\ UNCHANGED <<todo, report, residue>>
           \/ /\ Landed \/ UNCHANGED disk
              /\ pc' = "unwind" /\ todo' = Armed \cup {Target}
    PROVE  Explained'
<1> USE DEF LedgersExplainDisk
<1>1. /\ cursor \in DOMAIN batch /\ Target = batch[cursor].path /\ Target \in Paths
      /\ Armed' = Armed \cup {Target}
      /\ Journaled' = Journaled /\ Ours' = Ours /\ Ours \subseteq Paths
  BY CurrentType, ArmType DEF AtMutation, Journaled, Ours, Target
<1>2. \A p \in Paths : Held(p)' = Held(p)
  BY DEF Held
<1>3. /\ savepoint'[Target].original = batch[cursor].expected
      /\ savepoint'[Target].committed = batch[cursor].target
      /\ \A p \in Paths \ {Target} : savepoint'[p] = savepoint[p]
  BY <1>1 DEF Arm, TypeOK, Ledger
<1>4. \A p \in Paths \ {Target} : disk'[p] = disk[p]
  BY <1>1 DEF TypeOK, Landed
<1>5. TodoRecorded' /\ SavepointScoped' /\ RollbackAccounted'
  BY <1>1 DEF TodoRecorded, SavepointScoped, RollbackAccounted, Unwinding, Rewinding,
     AtMutation
<1>6. PlannedFromHeld'
  <2>1. \A i \in DOMAIN batch : batch[i].path \in Ours =>
            batch[i].expected = Held(batch[i].path) /\ batch[i].path \in Paths
    BY <1>1 DEF Explained, PlannedFromHeld, AtMutation
  <2>2. QED
    BY <1>1, <1>2, <2>1 DEF PlannedFromHeld
<1>7. OriginalsKept'
  <2>1. Target \in Ours => batch[cursor].expected = Held(Target)
    BY <1>1 DEF Explained, PlannedFromHeld, AtMutation
  <2>2. ASSUME NEW p \in Ours, p \in Armed \cup {Target}
        PROVE  savepoint'[p].original = Held(p)
    BY <1>1, <1>3, <2>1, <2>2 DEF Explained, OriginalsKept
  <2>3. QED
    BY <1>1, <1>2, <2>2 DEF Explained, OriginalsKept
<1>8. LedgersMatchDisk'
  <2>1. CASE pc' = "verify"
    <3>1. disk'[Target] = batch[cursor].target
      BY <1>1, <2>1 DEF Landed, TypeOK
    <3>2. ASSUME NEW p \in Ours
          PROVE disk'[p] = IF p \in Armed' THEN savepoint'[p].committed ELSE Held(p)
      <4>1. CASE p = Target
        BY <1>1, <1>3, <3>1, <4>1
      <4>2. CASE p # Target
        BY <1>1, <1>3, <1>4, <4>2 DEF Explained, LedgersMatchDisk, AtMutation
      <4>3. QED
        BY <4>1, <4>2
    <3>3. QED
      BY <1>1, <1>2, <3>2 DEF LedgersMatchDisk
  <2>2. CASE pc' = "unwind"
    BY <2>2 DEF LedgersMatchDisk, AtMutation
  <2>3. QED
    BY <2>1, <2>2
<1>9. UndoneMatchesDisk'
  <2>1. \A p \in Ours \ (Armed \cup {Target}) : disk'[p] = Held(p)
    BY <1>1, <1>4 DEF Explained, LedgersMatchDisk, AtMutation
  <2>2. QED
    BY <1>1, <1>2, <2>1 DEF UndoneMatchesDisk, Unwinding, Rewinding
<1>10. QED
  BY <1>5, <1>6, <1>7, <1>8, <1>9 DEF Explained

(* Folding keeps the first original and takes the last committed state, and *)
(* forgets a path on which these two are the same.                          *)
LEMMA FoldedEnds ==
    ASSUME NEW old \in Entry \cup {Unrecorded}, NEW new \in Entry \cup {Unrecorded}
    PROVE  /\ new = Unrecorded => Folded(old, new) = old
           /\ new # Unrecorded /\ old = Unrecorded => Folded(old, new) = new
           /\ new # Unrecorded /\ old # Unrecorded =>
                 IF old.original = new.committed THEN Folded(old, new) = Unrecorded
                 ELSE /\ Folded(old, new) # Unrecorded
                      /\ Folded(old, new).original = old.original
                      /\ Folded(old, new).committed = new.committed
                      /\ Folded(old, new).order = old.order
<1>1. CASE new = Unrecorded
  BY <1>1 DEF Folded
<1>2. CASE new # Unrecorded /\ old = Unrecorded
  BY <1>2 DEF Folded
<1>3. CASE new # Unrecorded /\ old # Unrecorded /\ old.original = new.committed
  BY <1>3 DEF Folded
<1>4. CASE new # Unrecorded /\ old # Unrecorded /\ old.original # new.committed
  <2>1. Folded(old, new) = [old EXCEPT !.committed = new.committed]
    BY <1>4 DEF Folded
  <2>2. old \in Entry
    BY <1>4
  <2>3. QED
    BY <1>4, <2>1, <2>2 DEF Entry
<1>5. QED
  BY <1>1, <1>2, <1>3, <1>4

LEMMA MergeExplained ==
    ASSUME LedgersExplainDisk, VerifyThenMerge
    PROVE  Explained'
<1> USE DEF LedgersExplainDisk
<1>1. /\ pc' = "idle" /\ AtMutation /\ ~AtMutation' /\ ~Unwinding' /\ ~Rewinding'
      /\ savepoint' = NoEntries /\ batch' = <<>>
      /\ disk' = disk /\ start' = start /\ Ours' = Ours
      /\ \A p \in Paths : journal'[p] = Folded(journal[p], savepoint[p])
  BY DEF VerifyThenMerge, AtMutation, Unwinding, Rewinding, files, history, others, Ours
<1>2. Armed' = {}
  BY <1>1 DEF Armed, NoEntries
<1>3. ASSUME NEW p \in Ours
      PROVE  /\ p \in Journaled' => journal'[p].original = start[p]
             /\ Held(p)' = disk[p]
  <2>1. /\ p \in Paths
        /\ journal[p] \in Entry \cup {Unrecorded}
        /\ savepoint[p] \in Entry \cup {Unrecorded}
        /\ start[p] \in States
    BY <1>3 DEF TypeOK, Ledger, Ours
  <2>2. /\ journal[p] # Unrecorded => journal[p].original = start[p]
        /\ savepoint[p] # Unrecorded => savepoint[p].original = Held(p)
        /\ disk[p] = IF savepoint[p] # Unrecorded THEN savepoint[p].committed ELSE Held(p)
    BY <1>1, <1>3, <2>1 DEF Explained, OriginalsKept, LedgersMatchDisk, Armed, Journaled
  <2>3. savepoint[p] # Unrecorded =>
           savepoint[p].original =
              IF journal[p] = Unrecorded THEN start[p] ELSE journal[p].committed
    BY <2>2 DEF Held
  <2>4. CASE savepoint[p] = Unrecorded
    <3>1. journal'[p] = journal[p]
      BY <1>1, <2>1, <2>4, FoldedEnds
    <3>2. QED
      BY <1>1, <2>2, <2>4, <3>1 DEF Held, Journaled
  <2>5. CASE savepoint[p] # Unrecorded /\ journal[p] = Unrecorded
    <3>1. journal'[p] = savepoint[p]
      BY <1>1, <2>1, <2>5, FoldedEnds
    <3>2. QED
      BY <1>1, <2>2, <2>3, <2>5, <3>1 DEF Held, Journaled
  <2>6. CASE savepoint[p] # Unrecorded /\ journal[p] # Unrecorded
    <3>1. IF journal[p].original = savepoint[p].committed THEN journal'[p] = Unrecorded
          ELSE /\ journal'[p] # Unrecorded
               /\ journal'[p].original = journal[p].original
               /\ journal'[p].committed = savepoint[p].committed
      BY <1>1, <2>1, <2>6, FoldedEnds
    <3>2. QED
      BY <1>1, <2>2, <2>6, <3>1 DEF Held, Journaled
  <2>7. QED
    BY <2>4, <2>5, <2>6
<1>4. QED
  BY <1>1, <1>2, <1>3 DEF Explained, TodoRecorded, SavepointScoped, OriginalsKept,
     PlannedFromHeld, LedgersMatchDisk, UndoneMatchesDisk, RollbackAccounted

(* Settling one path of an undoing, with the file back at its original or   *)
(* the path reported, and every other file left alone.                      *)
LEMMA SettledExplained ==
    ASSUME LedgersExplainDisk, NEW p \in Paths,
           pc \in {"unwind", "unwindAct", "rollback", "rollbackAct"}, p \in todo,
           UNCHANGED <<batch, savepoint, journal, start, edited, residue>>,
           todo' = todo \ {p},
           pc' = IF Unwinding THEN "unwind" ELSE "rollback",
           \A q \in Paths \ {p} : disk'[q] = disk[q],
           report.unresolved \subseteq report'.unresolved,
           p \in report'.unresolved \/ disk'[p] = EntryOf(p).original
    PROVE  Explained'
<1> USE DEF LedgersExplainDisk
<1>1. Armed' = Armed /\ Journaled' = Journaled /\ Ours' = Ours /\ Ours \subseteq Paths
  BY DEF Armed, Journaled, Ours
<1>2. \A q \in Paths : Held(q)' = Held(q)
  BY DEF Held
<1>3. TodoRecorded' /\ SavepointScoped' /\ RollbackAccounted'
  BY <1>1 DEF Explained, TodoRecorded, SavepointScoped, RollbackAccounted, Unwinding,
     Rewinding, AtMutation
<1>4. OriginalsKept'
  BY <1>1, <1>2 DEF Explained, OriginalsKept
<1>5. PlannedFromHeld'
  <2>1. CASE Unwinding
    BY <1>1, <1>2, <2>1 DEF Explained, PlannedFromHeld
  <2>2. CASE ~Unwinding
    BY <2>2 DEF PlannedFromHeld, AtMutation, Unwinding
  <2>3. QED
    BY <2>1, <2>2
<1>6. LedgersMatchDisk'
  BY DEF LedgersMatchDisk, AtMutation, Unwinding
<1>7. UndoneMatchesDisk'
  <2>1. CASE Unwinding
    <3>1. p \in Ours => EntryOf(p).original = Held(p)
      BY <2>1 DEF Explained, OriginalsKept, TodoRecorded, EntryOf
    <3>2. ASSUME NEW q \in Ours \ (todo' \cup report'.unresolved)
          PROVE  disk'[q] = Held(q)
      BY <1>1, <2>1, <3>1, <3>2 DEF Explained, UndoneMatchesDisk
    <3>3. QED
      BY <1>1, <1>2, <2>1, <3>2 DEF UndoneMatchesDisk, Unwinding, Rewinding
  <2>2. CASE ~Unwinding
    <3>1. p \in Ours => EntryOf(p).original = start[p]
      BY <2>2 DEF Explained, OriginalsKept, TodoRecorded, EntryOf, Unwinding, Rewinding
    <3>2. ASSUME NEW q \in Ours \ (todo' \cup report'.unresolved \cup residue.unresolved)
          PROVE  disk'[q] = start[q]
      BY <1>1, <2>2, <3>1, <3>2 DEF Explained, UndoneMatchesDisk, Unwinding, Rewinding
    <3>3. QED
      BY <1>1, <2>2, <3>2 DEF UndoneMatchesDisk, Unwinding, Rewinding
  <2>3. QED
    BY <2>1, <2>2
<1>8. QED
  BY <1>3, <1>4, <1>5, <1>6, <1>7 DEF Explained

(* The same, by what Settle does. *)
LEMMA SettleExplained ==
    ASSUME LedgersExplainDisk, NEW p \in Paths,
           NEW arm \in {"restored", "already", "unresolved"},
           NEW state, NEW tree, NEW temps, Settle(p, arm, state, tree, temps),
           pc \in {"unwind", "unwindAct", "rollback", "rollbackAct"}, p \in todo,
           UNCHANGED <<inFlight, ledger, start, edited, residue>>,
           \A q \in Paths \ {p} : disk'[q] = disk[q],
           arm = "unresolved" \/ disk'[p] = EntryOf(p).original
    PROVE  Explained'
<1>1. report \in Report
  BY DEF LedgersExplainDisk, TypeOK
<1>2. /\ report.unresolved \subseteq report'.unresolved
      /\ arm = "unresolved" => p \in report'.unresolved
  BY <1>1 DEF Settle, Report
<1>3. QED
  BY <1>2, SettledExplained DEF Settle, inFlight, ledger

LEMMA UnwindEndsExplained ==
    ASSUME LedgersExplainDisk, UnwindEnds
    PROVE  Explained'
<1> USE DEF LedgersExplainDisk
<1>1. /\ pc = "unwind" /\ pc' = "failed" /\ todo = {} /\ residue' = report
      /\ savepoint' = NoEntries
      /\ UNCHANGED <<disk, batch, journal, start, edited>>
      /\ Journaled' = Journaled /\ Ours' = Ours
  BY DEF UnwindEnds, ledger, others, history, Journaled, Ours
<1>2. Armed' = {} /\ \A p \in Paths : Held(p)' = Held(p)
  BY <1>1 DEF Armed, NoEntries, Held
<1>3. OriginalsKept'
  BY <1>1, <1>2 DEF Explained, OriginalsKept, Ours
<1>4. PlannedFromHeld'
  BY <1>1, <1>2 DEF Explained, PlannedFromHeld, Unwinding, Ours
<1>5. UndoneMatchesDisk'
  BY <1>1, <1>2 DEF Explained, UndoneMatchesDisk, Unwinding, Rewinding, Ours
<1>6. QED
  BY <1>1, <1>3, <1>4, <1>5 DEF Explained, TodoRecorded, SavepointScoped,
     LedgersMatchDisk, RollbackAccounted, Unwinding, Rewinding, AtMutation

LEMMA RollbackBeginsExplained ==
    ASSUME LedgersExplainDisk, RollbackBegins
    PROVE  Explained'
<1> USE DEF LedgersExplainDisk
<1>1. /\ pc \in {"idle", "failed"} /\ pc' = "rollback" /\ todo' = Journaled
      /\ report' = NothingDone
      /\ UNCHANGED <<disk, savepoint, journal, start, edited, residue>>
      /\ Journaled' = Journaled /\ Armed' = Armed /\ Ours' = Ours
  BY DEF RollbackBegins, files, ledger, others, history, Journaled, Armed, Ours
<1>2. savepoint = NoEntries /\ Armed = {}
  BY <1>1 DEF Explained, SavepointScoped, AtMutation, Unwinding, Armed, NoEntries
<1>3. \A p \in Paths : Held(p)' = Held(p)
  BY <1>1 DEF Held
<1>4. OriginalsKept'
  BY <1>1, <1>3 DEF Explained, OriginalsKept, Ours
<1>5. UndoneMatchesDisk'
  <2>1. \A p \in Ours \ residue.unresolved : disk[p] = Held(p)
    BY <1>1, <1>2 DEF Explained, LedgersMatchDisk, UndoneMatchesDisk
  <2>2. \A p \in Ours \ Journaled : Held(p) = start[p]
    BY DEF Held, Journaled, Ours
  <2>3. QED
    BY <1>1, <2>1, <2>2 DEF UndoneMatchesDisk, Unwinding, Rewinding
<1>6. QED
  BY <1>1, <1>2, <1>4, <1>5 DEF Explained, TodoRecorded, SavepointScoped,
     PlannedFromHeld, LedgersMatchDisk, RollbackAccounted, Unwinding, Rewinding, AtMutation

LEMMA RollbackEndsExplained ==
    ASSUME LedgersExplainDisk, RollbackEnds
    PROVE  Explained'
<1> USE DEF LedgersExplainDisk
<1>1. /\ pc = "rollback" /\ pc' = "rolledback" /\ todo = {} /\ journal' = NoEntries
      /\ report' = MergeReports(residue, report)
      /\ UNCHANGED <<disk, savepoint, start, edited>>
      /\ Ours' = Ours
  BY DEF RollbackEnds, inFlight, others, history, Ours
<1>2. savepoint = NoEntries
  BY <1>1 DEF Explained, SavepointScoped, AtMutation, Unwinding
<1>3. Armed' = {} /\ Journaled' = {}
  BY <1>1, <1>2 DEF Armed, Journaled, NoEntries
<1>4. RollbackAccounted'
  BY <1>1 DEF Explained, UndoneMatchesDisk, Rewinding, RollbackAccounted, MergeReports
<1>5. QED
  BY <1>1, <1>2, <1>3, <1>4 DEF Explained, TodoRecorded, SavepointScoped, OriginalsKept,
     PlannedFromHeld, LedgersMatchDisk, UndoneMatchesDisk, Unwinding, Rewinding, AtMutation

(* An edit by another program is of a file that is from now on not ours.    *)
LEMMA OtherWritesExplained ==
    ASSUME LedgersExplainDisk, NEW p \in Paths, OtherWrites(p)
    PROVE  Explained'
<1> USE DEF LedgersExplainDisk
<1>1. /\ UNCHANGED <<pc, batch, savepoint, journal, start, todo, report, residue>>
      /\ edited' = edited \cup {p}
      /\ Armed' = Armed /\ Journaled' = Journaled
      /\ Unwinding' = Unwinding /\ Rewinding' = Rewinding /\ AtMutation' = AtMutation
  BY DEF OtherWrites, inFlight, ledger, undoing, history, Armed, Journaled, Unwinding,
     Rewinding, AtMutation
<1>2. Ours' = Ours \ {p} /\ \A q \in Ours' : disk'[q] = disk[q] /\ q \in Ours
  BY <1>1 DEF OtherWrites, Ours, TypeOK
<1>3. \A q \in Paths : Held(q)' = Held(q)
  BY <1>1 DEF Held
<1>4. TodoRecorded' /\ SavepointScoped'
  BY <1>1 DEF Explained, TodoRecorded, SavepointScoped
<1>5. OriginalsKept' /\ PlannedFromHeld'
  BY <1>1, <1>2, <1>3 DEF Explained, OriginalsKept, PlannedFromHeld, Ours
<1>6. LedgersMatchDisk' /\ UndoneMatchesDisk' /\ RollbackAccounted'
  BY <1>1, <1>2, <1>3 DEF Explained, LedgersMatchDisk, UndoneMatchesDisk,
     RollbackAccounted, Ours
<1>7. QED
  BY <1>4, <1>5, <1>6 DEF Explained

(***************************************************************************)
(* The invariant                                                           *)
(***************************************************************************)

LEMMA InitExplained == Init => Explained
<1> SUFFICES ASSUME Init PROVE Explained
  OBVIOUS
<1>1. Armed = {} /\ Journaled = {} /\ pc = "idle" /\ disk = start /\ savepoint = NoEntries
  BY DEF Init, Armed, Journaled, NoEntries
<1>2. \A p \in Paths : Held(p) = start[p]
  BY DEF Init, Held, NoEntries
<1>3. QED
  BY <1>1, <1>2 DEF Explained, TodoRecorded, SavepointScoped, OriginalsKept,
     PlannedFromHeld, LedgersMatchDisk, UndoneMatchesDisk, RollbackAccounted,
     Unwinding, Rewinding, AtMutation, Ours

(* A batch is planned from what the disk holds, so from the journal.        *)
LEMMA ApplyExplained ==
    ASSUME LedgersExplainDisk, NEW plan \in Plans, Apply(plan)
    PROVE  Explained'
<1> USE DEF LedgersExplainDisk
<1>1. /\ pc = "idle" /\ pc' \in {"failed", "preflight"} /\ batch' = Now(plan)
      /\ UNCHANGED <<disk, savepoint, journal, start, edited, todo, report, residue>>
      /\ Armed' = Armed /\ Journaled' = Journaled /\ Ours' = Ours
  BY DEF Apply, files, ledger, undoing, others, history, Armed, Journaled, Ours
<1>2. savepoint = NoEntries /\ Armed = {}
  BY <1>1 DEF Explained, SavepointScoped, AtMutation, Unwinding, Armed, NoEntries
<1>3. \A p \in Paths : Held(p)' = Held(p)
  BY <1>1 DEF Held
<1>4. \A p \in Ours : disk[p] = Held(p)
  BY <1>1, <1>2 DEF Explained, LedgersMatchDisk
<1>5. PlannedFromHeld'
  <2>1. \A i \in DOMAIN Now(plan) : Now(plan)[i].expected = disk[Now(plan)[i].path]
    BY DEF Now
  <2>2. QED
    BY <1>1, <1>3, <1>4, <2>1 DEF PlannedFromHeld, Ours
<1>6. OriginalsKept' /\ LedgersMatchDisk' /\ UndoneMatchesDisk'
  BY <1>1, <1>2, <1>3, <1>4 DEF Explained, OriginalsKept, LedgersMatchDisk,
     UndoneMatchesDisk, Unwinding, Rewinding, Ours
<1>7. QED
  BY <1>1, <1>2, <1>5, <1>6 DEF Explained, TodoRecorded, SavepointScoped,
     RollbackAccounted, Unwinding, Rewinding, AtMutation

(* Each step of the run and of the others keeps the ledgers in agreement    *)
(* with the disk.                                                           *)
LEMMA NextExplained == LedgersExplainDisk /\ [Next]_vars => Explained'
<1> SUFFICES ASSUME LedgersExplainDisk, [Next]_vars PROVE Explained'
  OBVIOUS
<1> USE DEF files, inFlight, ledger, undoing, others, history, Whole, AtMutation
<1>1. ASSUME NEW plan \in Plans, Apply(plan) PROVE Explained'
  BY <1>1, ApplyExplained
<1>2. CASE NothingToDo
  BY <1>2, BookkeepingExplained DEF NothingToDo
<1>3. CASE PreflightPasses
  BY <1>3, BookkeepingExplained DEF PreflightPasses
<1>4. CASE PreflightRefuses
  BY <1>4, BookkeepingExplained DEF PreflightRefuses
<1>5. CASE Recheck
  BY <1>5, BookkeepingExplained DEF Recheck
<1>6. CASE RecheckFails
  BY <1>6, AbortExplained DEF RecheckFails
<1>7. CASE Ensure
  <2>1. \/ pc' = "stage" /\ UNCHANGED <<batch, cursor, ledger, undoing, batches, others, history>>
        \/ todo' = Armed /\ Abort
    BY <1>7 DEF Ensure
  <2>2. pc = "ensure" /\ UNCHANGED <<disk, savepoint>>
    BY <1>7 DEF Ensure
  <2>3. QED
    BY <2>1, <2>2, BookkeepingExplained, AbortExplained
<1>8. CASE Stage
  BY <1>8, BookkeepingExplained DEF Stage
<1>9. CASE StageFails
  BY <1>9, AbortExplained DEF StageFails
<1>10. CASE Act
  BY <1>10, ArmExplained DEF Act
<1>11. CASE ActFails
  BY <1>11, ArmExplained DEF ActFails, Abort
<1>12. CASE VerifyThenNext
  BY <1>12, BookkeepingExplained DEF VerifyThenNext
<1>13. CASE VerifyFails
  BY <1>13, AbortExplained DEF VerifyFails
<1>14. CASE VerifyThenMerge
  BY <1>14, MergeExplained
<1>15. ASSUME NEW p \in Paths, AlreadyRestored(p) PROVE Explained'
  <2>1. disk' = disk /\ disk[p] = EntryOf(p).original /\ p \in todo
    BY <1>15 DEF AlreadyRestored, Newest
  <2>2. QED
    BY <1>15, <2>1, SettleExplained DEF AlreadyRestored
<1>16. ASSUME NEW p \in Paths, LeftAlone(p) PROVE Explained'
  BY <1>16, SettleExplained DEF LeftAlone, Newest
<1>17. ASSUME NEW p \in Paths, OursToRevert(p) PROVE Explained'
  BY <1>17, BookkeepingExplained DEF OursToRevert, Unwinding
<1>18. ASSUME NEW p \in Paths, PutBack(p) PROVE Explained'
  <2>1. /\ \A q \in Paths \ {p} : disk'[q] = disk[q]
        /\ disk'[p] = EntryOf(p).original /\ p \in todo
    BY <1>18 DEF PutBack, Newest, LedgersExplainDisk, TypeOK
  <2>2. QED
    BY <1>18, <2>1, SettleExplained DEF PutBack
<1>19. ASSUME NEW p \in Paths, PutBackUnlinkFails(p) PROVE Explained'
  <2>1. (\A q \in Paths \ {p} : disk'[q] = disk[q]) /\ p \in todo
    BY <1>19 DEF PutBackUnlinkFails, Newest, LedgersExplainDisk, TypeOK
  <2>2. QED
    BY <1>19, <2>1, SettleExplained DEF PutBackUnlinkFails
<1>20. ASSUME NEW p \in Paths, PutBackWriteFails(p) PROVE Explained'
  <2>1. PICK tree, temps : Settle(p, "unresolved", disk', tree, temps)
    BY <1>20 DEF PutBackWriteFails
  <2>2. (\A q \in Paths \ {p} : disk'[q] = disk[q]) /\ p \in todo
    BY <1>20 DEF PutBackWriteFails, Newest, LedgersExplainDisk, TypeOK
  <2>3. QED
    BY <1>20, <2>1, <2>2, SettleExplained DEF PutBackWriteFails
<1>21. CASE UnwindEnds
  BY <1>21, UnwindEndsExplained
<1>22. CASE RollbackBegins
  BY <1>22, RollbackBeginsExplained
<1>23. CASE RollbackEnds
  BY <1>23, RollbackEndsExplained
<1>24. CASE RunSucceeds
  BY <1>24, BookkeepingExplained DEF RunSucceeds
<1>25. ASSUME NEW p \in Paths, OtherWrites(p) PROVE Explained'
  BY <1>25, OtherWritesExplained
<1>26. ASSUME NEW p \in Paths, OtherMakesDir(p) PROVE Explained'
  BY <1>26, BookkeepingExplained DEF OtherMakesDir
<1>27. ASSUME NEW d \in Dirs, OtherRemovesDir(d) PROVE Explained'
  BY <1>27, BookkeepingExplained DEF OtherRemovesDir
<1>28. CASE UNCHANGED vars
  BY <1>28, BookkeepingExplained DEF vars
<1>29. QED
  BY <1>1, <1>2, <1>3, <1>4, <1>5, <1>6, <1>7, <1>8, <1>9, <1>10, <1>11, <1>12,
     <1>13, <1>14, <1>15, <1>16, <1>17, <1>18, <1>19, <1>20, <1>21, <1>22, <1>23,
     <1>24, <1>25, <1>26, <1>27, <1>28
     DEF Next, Run, Applying, Undoing, Others

(* At every moment of a run, whatever system call fails and whatever other  *)
(* programs write, the two ledgers explain every file nobody else edited.   *)
THEOREM LedgersInvariant == Spec => []LedgersExplainDisk
<1>1. Init => LedgersExplainDisk
  BY InitType, InitExplained DEF LedgersExplainDisk
<1>2. LedgersExplainDisk /\ [Next]_vars => LedgersExplainDisk'
  BY NextType, NextExplained DEF LedgersExplainDisk, Explained
<1>3. QED
  BY <1>1, <1>2, PTL DEF Spec

(***************************************************************************)
(* What follows from it                                                    *)
(***************************************************************************)

(* apply, unwind and rollback keep every variable within its type.          *)
THEOREM TypeCorrect == Spec => []TypeOK
<1>1. LedgersExplainDisk => TypeOK
  BY DEF LedgersExplainDisk
<1>2. QED
  BY <1>1, LedgersInvariant, PTL

(* Recovery is armed before the system call: a file that the run changed is *)
(* in a ledger, or was reported.                                            *)
THEOREM AlwaysAccountedFor == Spec => []AccountedFor
<1>1. LedgersExplainDisk => AccountedFor
  <2> SUFFICES ASSUME LedgersExplainDisk, NEW p \in Ours,
                      p \notin Armed \cup Journaled \cup report.unresolved \cup residue.unresolved
               PROVE  disk[p] = start[p]
    BY DEF AccountedFor, Ours
  <2> USE DEF LedgersExplainDisk, Explained
  <2>1. p \in Paths /\ Held(p) = start[p]
    BY DEF Ours, Held, Journaled
  <2>2. CASE pc \in {"idle", "preflight", "committed"} \/ AtMutation
    BY <2>1, <2>2 DEF LedgersMatchDisk
  <2>3. CASE Unwinding
    BY <2>1, <2>3 DEF TodoRecorded, UndoneMatchesDisk
  <2>4. CASE pc = "failed"
    BY <2>1, <2>4 DEF UndoneMatchesDisk
  <2>5. CASE Rewinding
    BY <2>1, <2>5 DEF TodoRecorded, UndoneMatchesDisk
  <2>6. CASE pc = "rolledback"
    BY <2>1, <2>6 DEF RollbackAccounted
  <2>7. QED
    BY <2>2, <2>3, <2>4, <2>5, <2>6 DEF TypeOK, Steps, AtMutation, Unwinding, Rewinding
<1>2. QED
  BY <1>1, LedgersInvariant, PTL

(* A call of apply that fails leaves every file of its batch as planned     *)
(* from, but for what its undoing reported.                                 *)
THEOREM FailedBatchUndone == Spec => []FailedBatchLeavesNothing
<1>1. LedgersExplainDisk => FailedBatchLeavesNothing
  <2> SUFFICES ASSUME LedgersExplainDisk, pc = "failed", NEW i \in DOMAIN batch,
                      batch[i].path \notin edited \cup residue.unresolved
               PROVE  disk[batch[i].path] = batch[i].expected
    BY DEF FailedBatchLeavesNothing
  <2>1. batch[i].path \in Ours
    <3>1. batch[i] \in Mutation
      BY DEF LedgersExplainDisk, TypeOK
    <3>2. QED
      BY <3>1 DEF Mutation, Ours
  <2>2. batch[i].expected = Held(batch[i].path)
    BY <2>1 DEF LedgersExplainDisk, Explained, PlannedFromHeld
  <2>3. disk[batch[i].path] = Held(batch[i].path)
    BY <2>1 DEF LedgersExplainDisk, Explained, UndoneMatchesDisk
  <2>4. QED
    BY <2>2, <2>3
<1>2. QED
  BY <1>1, LedgersInvariant, PTL

(* A rollback brings every file back to its state before the run, but for   *)
(* what it reports.                                                         *)
THEOREM RollbackReturnsToStart == Spec => []RolledBackToStart
<1>1. LedgersExplainDisk => RolledBackToStart
  BY DEF LedgersExplainDisk, Explained, RollbackAccounted, RolledBackToStart, Ours
<1>2. QED
  BY <1>1, LedgersInvariant, PTL

(* What the merged report calls restored is restored.                       *)
THEOREM RollbackReportsTruly == Spec => []ReportIsTruthful
<1>1. LedgersExplainDisk => ReportIsTruthful
  <2>1. LedgersExplainDisk => report.restored \cup report.already \subseteq Paths
    BY DEF LedgersExplainDisk, TypeOK, Report
  <2>2. QED
    BY <2>1 DEF LedgersExplainDisk, Explained, RollbackAccounted, ReportIsTruthful, Ours
<1>2. QED
  BY <1>1, LedgersInvariant, PTL

-----------------------------------------------------------------------------
(* No step writes a file on the strength of an old look.                    *)

(* The newest entry still to be undone is unique.                           *)
LEMMA NewestUnique ==
    ASSUME LedgersExplainDisk, OrdersDistinct, NEW p \in Paths, NEW q \in Paths,
           pc \in {"unwind", "unwindAct", "rollback", "rollbackAct"},
           Newest(p), Newest(q)
    PROVE  p = q
<1>1. p \in todo /\ q \in todo /\ TypeOK /\ TodoRecorded
  BY DEF Newest, LedgersExplainDisk, Explained
<1>2. EntryOf(p).order \in Nat /\ EntryOf(q).order \in Nat
  BY <1>1, EntryType
<1>3. EntryOf(p).order = EntryOf(q).order
  BY <1>1, <1>2 DEF Newest
<1>4. CASE Unwinding
  BY <1>1, <1>3, <1>4 DEF TodoRecorded, EntryOf, OrdersDistinct
<1>5. CASE ~Unwinding
  BY <1>1, <1>3, <1>5 DEF TodoRecorded, EntryOf, OrdersDistinct, Unwinding, Rewinding
<1>6. QED
  BY <1>4, <1>5

(* The entry armed for a mutation takes a new order number.                 *)
LEMMA ArmOrders ==
    ASSUME LedgersExplainDisk, OrdersDistinct, pc = "act", Arm, UNCHANGED journal
    PROVE  OrdersDistinct'
<1>1. TypeOK /\ Target \in Paths /\ Armed' = Armed \cup {Target} /\ Journaled' = Journaled
  BY CurrentType, ArmType DEF LedgersExplainDisk, AtMutation, Journaled
<1>2. /\ savepoint'[Target].order = clock
      /\ \A p \in Armed \ {Target} : savepoint'[p] = savepoint[p] /\ p \in Paths
      /\ clock' = clock + 1 /\ clock \in Nat
  BY <1>1 DEF Arm, TypeOK, Ledger, Armed
<1>3. /\ \A p \in Armed : savepoint[p].order \in Nat
      /\ \A p \in Journaled : journal[p].order \in Nat
  BY <1>1 DEF TypeOK, Ledger, Entry, Armed, Journaled
<1>4. /\ \A p \in Armed' : savepoint'[p].order < clock'
      /\ \A p \in Journaled : journal[p].order < clock'
  BY <1>1, <1>2, <1>3 DEF OrdersDistinct
<1>5. \A p, q \in Armed' : p # q => savepoint'[p].order # savepoint'[q].order
  BY <1>1, <1>2, <1>3 DEF OrdersDistinct
<1>6. \A p \in Armed', q \in Journaled : p # q => savepoint'[p].order # journal[q].order
  BY <1>1, <1>2, <1>3 DEF OrdersDistinct
<1>7. QED
  BY <1>1, <1>4, <1>5, <1>6 DEF OrdersDistinct

(* A folded entry keeps the order number of one of the two.                 *)
LEMMA MergeOrders ==
    ASSUME LedgersExplainDisk, OrdersDistinct, VerifyThenMerge
    PROVE  OrdersDistinct'
<1>1. /\ savepoint' = NoEntries /\ clock' = clock
      /\ \A p \in Paths : journal'[p] = Folded(journal[p], savepoint[p])
  BY DEF VerifyThenMerge
<1>2. Armed' = {} /\ Journaled' \subseteq Paths
  BY <1>1 DEF Armed, Journaled, NoEntries
<1>3. ASSUME NEW p \in Journaled'
      PROVE  \/ p \in Journaled /\ journal'[p].order = journal[p].order
             \/ p \in Armed /\ journal'[p].order = savepoint[p].order
  <2>1. /\ p \in Paths /\ journal'[p] # Unrecorded
        /\ journal[p] \in Entry \cup {Unrecorded}
        /\ savepoint[p] \in Entry \cup {Unrecorded}
    BY <1>3 DEF LedgersExplainDisk, TypeOK, Ledger, Journaled
  <2>2. journal'[p] = Folded(journal[p], savepoint[p])
    BY <1>1, <2>1
  <2>3. CASE savepoint[p] = Unrecorded
    BY <2>1, <2>2, <2>3, FoldedEnds DEF Journaled
  <2>4. CASE savepoint[p] # Unrecorded /\ journal[p] = Unrecorded
    BY <2>1, <2>2, <2>4, FoldedEnds DEF Armed
  <2>5. CASE savepoint[p] # Unrecorded /\ journal[p] # Unrecorded
    BY <2>1, <2>2, <2>5, FoldedEnds DEF Journaled
  <2>6. QED
    BY <2>3, <2>4, <2>5
<1>4. \A p \in Journaled' : journal'[p].order < clock'
  BY <1>1, <1>3 DEF OrdersDistinct
<1>5. \A p, q \in Journaled' : p # q => journal'[p].order # journal'[q].order
  <2>1. TAKE p, q \in Journaled'
  <2>2. HAVE p # q
  <2>3. QED
    BY <1>3, <2>2 DEF OrdersDistinct
<1>6. QED
  BY <1>2, <1>4, <1>5 DEF OrdersDistinct

LEMMA NextOrders ==
    ASSUME LedgersExplainDisk, OrdersDistinct, [Next]_vars
    PROVE  OrdersDistinct'
<1> USE DEF files, inFlight, ledger, undoing, others, history
<1> DEFINE Same == UNCHANGED <<savepoint, journal, clock>>
<1>1. ASSUME Same PROVE OrdersDistinct'
  BY <1>1 DEF OrdersDistinct, Armed, Journaled
<1>2. CASE Act
  BY <1>2, ArmOrders DEF Act
<1>3. CASE ActFails
  BY <1>3, ArmOrders DEF ActFails, Abort
<1>4. CASE VerifyThenMerge
  BY <1>4, MergeOrders
<1>5. CASE UnwindEnds
  BY <1>5 DEF UnwindEnds, OrdersDistinct, Armed, Journaled, NoEntries
<1>6. CASE RollbackEnds
  BY <1>6 DEF RollbackEnds, OrdersDistinct, Armed, Journaled, NoEntries
<1>7. ASSUME NEW plan \in Plans, Apply(plan) PROVE Same
  BY <1>7 DEF Apply
<1>8. CASE \/ NothingToDo \/ PreflightPasses \/ PreflightRefuses \/ Recheck
           \/ RecheckFails \/ Ensure \/ Stage \/ StageFails \/ VerifyThenNext \/ VerifyFails
  <2>1. Same
    BY <1>8 DEF NothingToDo, PreflightPasses, PreflightRefuses, Recheck, RecheckFails,
       Ensure, Stage, StageFails, VerifyThenNext, VerifyFails, Abort
  <2>2. QED
    BY <1>1, <2>1
<1>9. ASSUME NEW p \in Paths,
             \/ AlreadyRestored(p) \/ LeftAlone(p) \/ OursToRevert(p) \/ PutBack(p)
             \/ PutBackUnlinkFails(p) \/ PutBackWriteFails(p)
      PROVE  Same
  BY <1>9 DEF AlreadyRestored, LeftAlone, OursToRevert, PutBack, PutBackUnlinkFails,
     PutBackWriteFails
<1>10. CASE RollbackBegins \/ RunSucceeds \/ UNCHANGED vars
  <2>1. Same
    BY <1>10 DEF RollbackBegins, RunSucceeds, vars
  <2>2. QED
    BY <1>1, <2>1
<1>11. ASSUME NEW p \in Paths, OtherWrites(p) \/ OtherMakesDir(p) PROVE Same
  BY <1>11 DEF OtherWrites, OtherMakesDir
<1>12. ASSUME NEW d \in Dirs, OtherRemovesDir(d) PROVE Same
  BY <1>12 DEF OtherRemovesDir
<1> HIDE DEF Same
<1>13. QED
  BY <1>1, <1>2, <1>3, <1>4, <1>5, <1>6, <1>7, <1>8, <1>9, <1>10, <1>11, <1>12
     DEF Next, Run, Applying, Undoing, Others

(* The last look of a file holds until another program writes the file.     *)
LEMMA NextLook ==
    ASSUME LedgersExplainDisk, LooksAreFresh, [Next]_vars
    PROVE  LastLookHolds'
<1> USE DEF files, inFlight, ledger, undoing, others, history
<1> DEFINE NoLook == pc' \notin {"ensure", "stage", "act", "unwindAct", "rollbackAct"}
<1>1. ASSUME NoLook PROVE LastLookHolds'
  BY <1>1 DEF LastLookHolds
<1>2. ASSUME UNCHANGED <<disk, pc, batch, cursor, savepoint, journal, todo, raced>>
      PROVE  LastLookHolds'
  BY <1>2 DEF LooksAreFresh, LastLookHolds, AsExpected, Newest, EntryOf, Unwinding
<1>3. ASSUME NEW plan \in Plans, Apply(plan) PROVE NoLook
  BY <1>3 DEF Apply
<1>4. CASE \/ NothingToDo \/ PreflightPasses \/ PreflightRefuses \/ RecheckFails
           \/ StageFails \/ Act \/ ActFails \/ VerifyThenNext \/ VerifyFails
           \/ VerifyThenMerge \/ UnwindEnds \/ RollbackBegins \/ RollbackEnds
           \/ RunSucceeds
  <2>1. NoLook
    BY <1>4 DEF NothingToDo, PreflightPasses, PreflightRefuses, RecheckFails,
       StageFails, Act, ActFails, VerifyThenNext, VerifyFails, VerifyThenMerge,
       UnwindEnds, RollbackBegins, RollbackEnds, RunSucceeds, Abort
  <2>2. QED
    BY <1>1, <2>1
<1>5. ASSUME NEW p \in Paths,
             \/ AlreadyRestored(p) \/ LeftAlone(p) \/ PutBack(p)
             \/ PutBackUnlinkFails(p) \/ PutBackWriteFails(p)
      PROVE  NoLook
  BY <1>5 DEF AlreadyRestored, LeftAlone, PutBack, PutBackUnlinkFails,
     PutBackWriteFails, Settle
<1>6. CASE Recheck
  BY <1>6 DEF Recheck, LastLookHolds, AsExpected
<1>7. CASE Stage \/ (Ensure /\ pc' = "stage")
  <2>1. /\ pc \in {"ensure", "stage"} /\ pc' \in {"stage", "act"}
        /\ UNCHANGED <<disk, batch, cursor, raced>>
    BY <1>7 DEF Stage, Ensure, Abort
  <2>2. QED
    BY <2>1 DEF LooksAreFresh, LastLookHolds, AsExpected
<1>8. ASSUME Ensure, pc' # "stage" PROVE NoLook
  BY <1>8 DEF Ensure, Abort
<1>9. ASSUME NEW p \in Paths, OursToRevert(p) PROVE LastLookHolds'
  <2>1. /\ pc \in {"unwind", "rollback"} /\ Newest(p) /\ disk[p] = EntryOf(p).committed
        /\ pc' = IF Unwinding THEN "unwindAct" ELSE "rollbackAct"
        /\ UNCHANGED <<disk, savepoint, journal, todo>>
    BY <1>9 DEF OursToRevert
  <2>2. Unwinding' = Unwinding
    BY <2>1 DEF Unwinding
  <2>3. \A q \in Paths : Newest(q)' = Newest(q) /\ EntryOf(q)' = EntryOf(q)
    BY <2>1, <2>2 DEF Newest, EntryOf
  <2>4. \A q \in Paths : Newest(q) => q = p
    BY <2>1, NewestUnique DEF LooksAreFresh
  <2>5. QED
    BY <2>1, <2>3, <2>4 DEF LastLookHolds
<1>10. ASSUME NEW p \in Paths, OtherWrites(p) PROVE LastLookHolds'
  <2>1. /\ UNCHANGED <<pc, batch, cursor, savepoint, journal, todo>>
        /\ raced' = (raced \/ InWindow(p))
        /\ \A q \in Paths \ {p} : disk'[q] = disk[q]
    BY <1>10 DEF OtherWrites, LedgersExplainDisk, TypeOK
  <2>2. Unwinding' = Unwinding /\ \A q \in Paths : Newest(q)' = Newest(q) /\ EntryOf(q)' = EntryOf(q)
    BY <2>1 DEF Unwinding, Newest, EntryOf
  <2>3. SUFFICES ASSUME ~raced, ~InWindow(p) PROVE LastLookHolds'
    BY <2>1 DEF LastLookHolds
  <2>4. ASSUME pc \in {"ensure", "stage", "act"} PROVE AsExpected(cursor)'
    <3>1. Target \in Paths /\ Target = batch[cursor].path
      BY <2>4, CurrentType DEF LedgersExplainDisk, AtMutation, Target
    <3>2. Target # p
      BY <2>3, <2>4, <3>1 DEF InWindow
    <3>3. QED
      BY <2>1, <2>3, <2>4, <3>1, <3>2 DEF LooksAreFresh, LastLookHolds, AsExpected
  <2>5. ASSUME pc \in {"unwindAct", "rollbackAct"}, NEW q \in Paths, Newest(q)
        PROVE  disk'[q] = EntryOf(q).committed
    BY <2>1, <2>3, <2>5 DEF InWindow, LooksAreFresh, LastLookHolds
  <2>6. QED
    BY <2>1, <2>2, <2>4, <2>5 DEF LastLookHolds
<1>11. ASSUME NEW p \in Paths, OtherMakesDir(p) PROVE LastLookHolds'
  BY <1>2, <1>11 DEF OtherMakesDir
<1>12. ASSUME NEW d \in Dirs, OtherRemovesDir(d) PROVE LastLookHolds'
  BY <1>2, <1>12 DEF OtherRemovesDir
<1>13. CASE UNCHANGED vars
  BY <1>2, <1>13 DEF vars
<1> HIDE DEF NoLook
<1>14. QED
  BY <1>1, <1>3, <1>4, <1>5, <1>6, <1>7, <1>8, <1>9, <1>10, <1>11, <1>12, <1>13
     DEF Next, Run, Applying, Undoing, Others

(* The entries of the ledgers have one newest, and the look that a change   *)
(* relies on is as good as new.                                             *)
THEOREM LooksInvariant == Spec => []LooksAreFresh
<1>1. Init => LooksAreFresh
  <2> SUFFICES ASSUME Init PROVE LooksAreFresh
    OBVIOUS
  <2>1. Armed = {} /\ Journaled = {} /\ pc = "idle"
    BY DEF Init, Armed, Journaled, NoEntries
  <2>2. QED
    BY <2>1 DEF LooksAreFresh, OrdersDistinct, LastLookHolds
<1>2. LedgersExplainDisk /\ LooksAreFresh /\ [Next]_vars => LooksAreFresh'
  BY NextOrders, NextLook DEF LooksAreFresh
<1>3. QED
  BY <1>1, <1>2, LedgersInvariant, PTL DEF Spec

(* A step that changes a file without being another program's does so on a  *)
(* file that holds what was last seen there, or that was edited in between. *)
LEMMA NotBlind ==
    ASSUME LedgersExplainDisk, LooksAreFresh, [Next]_vars, edits' = edits,
           NEW p \in Paths, disk'[p] # disk[p]
    PROVE  raced \/ disk[p] = LastSeen(p)
<1> USE DEF files, inFlight, ledger, undoing, others, history
<1>1. CASE Act \/ ActFails
  <2>1. /\ pc = "act" /\ Target \in Paths /\ Target = batch[cursor].path
        /\ \A q \in Paths \ {Target} : disk'[q] = disk[q]
    BY <1>1, CurrentType DEF Act, ActFails, Landed, Target, AtMutation,
       LedgersExplainDisk, TypeOK
  <2>2. p = Target
    BY <2>1
  <2>3. QED
    BY <2>1, <2>2 DEF LooksAreFresh, LastLookHolds, AsExpected, LastSeen
<1>2. ASSUME NEW q \in Paths,
             PutBack(q) \/ PutBackUnlinkFails(q) \/ PutBackWriteFails(q)
      PROVE  raced \/ disk[p] = LastSeen(p)
  <2>1. /\ pc \in {"unwindAct", "rollbackAct"} /\ Newest(q)
        /\ \A r \in Paths \ {q} : disk'[r] = disk[r]
    BY <1>2 DEF PutBack, PutBackUnlinkFails, PutBackWriteFails, LedgersExplainDisk, TypeOK
  <2>2. p = q
    BY <2>1
  <2>3. QED
    BY <2>1, <2>2 DEF LooksAreFresh, LastLookHolds, LastSeen
<1>3. ASSUME NEW q \in Paths, OtherWrites(q) PROVE FALSE
  BY <1>3 DEF OtherWrites, LedgersExplainDisk, TypeOK
<1>4. ASSUME NEW plan \in Plans, Apply(plan) PROVE FALSE
  BY <1>4 DEF Apply
<1>5. CASE \/ NothingToDo \/ PreflightPasses \/ PreflightRefuses \/ Recheck
           \/ RecheckFails \/ Ensure \/ Stage \/ StageFails \/ VerifyThenNext
           \/ VerifyFails \/ VerifyThenMerge \/ UnwindEnds \/ RollbackBegins
           \/ RollbackEnds \/ RunSucceeds
  BY <1>5 DEF NothingToDo, PreflightPasses, PreflightRefuses, Recheck, RecheckFails,
     Ensure, Stage, StageFails, VerifyThenNext, VerifyFails, VerifyThenMerge,
     UnwindEnds, RollbackBegins, RollbackEnds, RunSucceeds
<1>6. ASSUME NEW q \in Paths,
             \/ AlreadyRestored(q) \/ LeftAlone(q) \/ OursToRevert(q) \/ OtherMakesDir(q)
      PROVE FALSE
  BY <1>6 DEF AlreadyRestored, LeftAlone, OursToRevert, OtherMakesDir
<1>7. ASSUME NEW d \in Dirs, OtherRemovesDir(d) PROVE FALSE
  BY <1>7 DEF OtherRemovesDir
<1>8. CASE UNCHANGED vars
  BY <1>8 DEF vars
<1>9. QED
  BY <1>1, <1>2, <1>3, <1>4, <1>5, <1>6, <1>7, <1>8 DEF Next, Run, Applying, Undoing, Others

(* A stranger's bytes are overwritten only when they were written between   *)
(* the last inspection of the file and the system call.                     *)
THEOREM NeverBlind == Spec => NoBlindWrite
<1>1. LedgersExplainDisk /\ LooksAreFresh /\ [Next]_vars =>
        [edits' = edits =>
           \A p \in Paths : disk'[p] # disk[p] => raced \/ disk[p] = LastSeen(p)]_vars
  BY NotBlind
<1>2. QED
  BY <1>1, LedgersInvariant, LooksInvariant, PTL DEF Spec, NoBlindWrite
=============================================================================
