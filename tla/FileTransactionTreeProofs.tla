--------------------- MODULE FileTransactionTreeProofs ---------------------
(* The directories of FileTransaction, and the batches it implements: no    *)
(* walk orphans a file, none takes a boundary, a clean rollback leaves no   *)
(* directory behind, and with nobody else at work a batch is atomic.        *)
EXTENDS FileTransactionProofs, FileTransactionRefinement

-----------------------------------------------------------------------------
(* Chains of directories                                                    *)

(* The first k directories of the chain above p. *)
Prefix(p, k) == {Chain[p][i] : i \in 1..k}

(* A chain has a first directory, the boundary, and a last, the parent.     *)
LEMMA ChainEnds ==
    ASSUME NEW p \in Paths
    PROVE  /\ Len(Chain[p]) \in Nat /\ DOMAIN Chain[p] = 1..Len(Chain[p])
           /\ 1 \in DOMAIN Chain[p] /\ Len(Chain[p]) \in DOMAIN Chain[p]
           /\ Boundary(p) \in Above(p) /\ Parent(p) \in Above(p)
           /\ Above(p) = Prefix(p, Len(Chain[p]))
           /\ \A i \in DOMAIN Chain[p] : Chain[p][i] \in Above(p) /\ Chain[p][i] \in Dirs
<1>1. Chain[p] \in Seq(Dirs) /\ Chain[p] # <<>>
  BY FileAssumption
<1>2. Len(Chain[p]) \in Nat /\ DOMAIN Chain[p] = 1..Len(Chain[p]) /\ Len(Chain[p]) # 0
  BY <1>1
<1>3. 1 \in DOMAIN Chain[p] /\ Len(Chain[p]) \in DOMAIN Chain[p]
  BY <1>2
<1>4. \A i \in DOMAIN Chain[p] : Chain[p][i] \in Above(p) /\ Chain[p][i] \in Dirs
  BY <1>1, <1>2 DEF Above, Elems
<1>5. Above(p) = Prefix(p, Len(Chain[p]))
  BY <1>2 DEF Above, Elems, Prefix
<1>6. QED
  BY <1>2, <1>3, <1>4, <1>5 DEF Boundary, Parent

(* Whatever chain a directory is found in, the same ones are above it.      *)
LEMMA SameAbove ==
    ASSUME NEW p \in Paths, NEW q \in Paths,
           NEW j \in DOMAIN Chain[p], NEW k \in DOMAIN Chain[q], Chain[p][j] = Chain[q][k],
           NEW i \in DOMAIN Chain[p], i < j
    PROVE  \E m \in DOMAIN Chain[q] : m < k /\ Chain[q][m] = Chain[p][i]
<1>1. {Chain[p][n] : n \in 1..(j - 1)} = {Chain[q][n] : n \in 1..(k - 1)}
  BY TreeAssumption
<1>2. /\ i \in 1..(j - 1) /\ k \in Nat
      /\ 1..(k - 1) \subseteq DOMAIN Chain[q]
      /\ \A n \in 1..(k - 1) : n < k
  BY ChainEnds
<1>3. PICK m \in 1..(k - 1) : Chain[q][m] = Chain[p][i]
  BY <1>1, <1>2
<1>4. QED
  BY <1>2, <1>3

LEMMA WithinTransitive ==
    ASSUME NEW d, NEW e, NEW f, Within(e, d), Within(f, e)
    PROVE  Within(f, d)
<1>1. CASE e = d \/ f = e
  BY <1>1
<1>2. CASE e # d /\ f # e
  <2>1. PICK p \in Paths : \E i, j \in DOMAIN Chain[p] :
           i < j /\ Chain[p][i] = d /\ Chain[p][j] = e
    BY <1>2 DEF Within
  <2>2. PICK i \in DOMAIN Chain[p], j \in DOMAIN Chain[p] :
           i < j /\ Chain[p][i] = d /\ Chain[p][j] = e
    BY <2>1
  <2>3. PICK q \in Paths : \E k, l \in DOMAIN Chain[q] :
           k < l /\ Chain[q][k] = e /\ Chain[q][l] = f
    BY <1>2 DEF Within
  <2>4. PICK k \in DOMAIN Chain[q], l \in DOMAIN Chain[q] :
           k < l /\ Chain[q][k] = e /\ Chain[q][l] = f
    BY <2>3
  <2>5. PICK m \in DOMAIN Chain[q] : m < k /\ Chain[q][m] = d
    BY <2>2, <2>4, SameAbove
  <2>6. m < l
    BY <2>4, <2>5, ChainEnds
  <2>7. QED
    BY <2>4, <2>5, <2>6 DEF Within
<1>3. QED
  BY <1>1, <1>2

(* The parent of a file is within every directory above it.                 *)
LEMMA ParentWithin ==
    ASSUME NEW p \in Paths, NEW d \in Above(p)
    PROVE  Within(Parent(p), d)
<1>1. PICK i \in DOMAIN Chain[p] : Chain[p][i] = d
  BY DEF Above, Elems
<1>2. i <= Len(Chain[p]) /\ i \in Nat /\ Len(Chain[p]) \in DOMAIN Chain[p]
  BY ChainEnds
<1>3. i = Len(Chain[p]) \/ i < Len(Chain[p])
  BY <1>2, ChainEnds
<1>4. QED
  BY <1>1, <1>2, <1>3 DEF Parent, Within

(* A rooted tree that has a directory has those above it.                   *)
LEMMA RootedAbove ==
    ASSUME NEW tree, Rooted(tree), NEW p \in Paths, Parent(p) \in tree
    PROVE  Above(p) \subseteq tree
<1>1. ASSUME NEW i \in DOMAIN Chain[p] PROVE Chain[p][i] \in tree
  <2>1. i \in Nat /\ i <= Len(Chain[p]) /\ Len(Chain[p]) \in Nat
    BY ChainEnds
  <2>2. CASE i = Len(Chain[p])
    BY <2>2 DEF Parent
  <2>3. CASE i < Len(Chain[p])
    BY <2>3, ChainEnds DEF Parent, Rooted
  <2>4. QED
    BY <2>1, <2>2, <2>3
<1>2. QED
  BY <1>1 DEF Above, Elems

(* Making the first directories of a chain leaves a tree rooted.            *)
LEMMA WalkRooted ==
    ASSUME NEW tree, Rooted(tree), NEW p \in Paths, NEW k \in Nat, k <= Len(Chain[p])
    PROVE  Rooted(tree \cup Prefix(p, k))
<1> SUFFICES ASSUME NEW q \in Paths, NEW i \in DOMAIN Chain[q], NEW j \in DOMAIN Chain[q],
                    i < j, Chain[q][j] \in tree \cup Prefix(p, k)
             PROVE  Chain[q][i] \in tree \cup Prefix(p, k)
  BY DEF Rooted
<1>1. CASE Chain[q][j] \in tree
  BY <1>1 DEF Rooted
<1>2. CASE Chain[q][j] \in Prefix(p, k)
  <2>1. PICK n \in 1..k : Chain[p][n] = Chain[q][j]
    BY <1>2 DEF Prefix
  <2>2. n \in DOMAIN Chain[p]
    BY <2>1, ChainEnds
  <2>3. PICK m \in DOMAIN Chain[p] : m < n /\ Chain[p][m] = Chain[q][i]
    BY <2>1, <2>2, SameAbove
  <2>4. m \in 1..k
    BY <2>1, <2>2, <2>3, ChainEnds
  <2>5. QED
    BY <2>3, <2>4 DEF Prefix
<1>3. QED
  BY <1>1, <1>2

(* What a walk that stopped at k has made, with what was there before.      *)
LEMMA WalkMakes ==
    ASSUME NEW p \in Paths, NEW k \in WalkStops(p)
    PROVE  /\ k - 1 \in Nat /\ k - 1 <= Len(Chain[p])
           /\ CreatedBefore(p, k) = Prefix(p, k - 1) \ dirs
           /\ dirs \cup CreatedBefore(p, k) = dirs \cup Prefix(p, k - 1)
           /\ WalkComplete(p, k) => Prefix(p, k - 1) = Above(p)
<1>1. k \in Nat /\ k >= 1 /\ k <= Len(Chain[p]) + 1 /\ Len(Chain[p]) \in Nat
  BY ChainEnds DEF WalkStops
<1>2. CreatedBefore(p, k) = Prefix(p, k - 1) \ dirs
  BY DEF CreatedBefore, Prefix
<1>3. WalkComplete(p, k) => k - 1 = Len(Chain[p])
  BY <1>1 DEF WalkComplete
<1>4. QED
  BY <1>1, <1>2, <1>3, ChainEnds

-----------------------------------------------------------------------------
(* Removing directories                                                     *)

(* A removal takes only candidates that have nothing in them.               *)
LEMMA ReclaimTakes ==
    ASSUME NEW tree, NEW candidates, NEW state, NEW temps
    PROVE  /\ Reclaim(tree, candidates, state, temps) \subseteq tree
           /\ tree \ candidates \subseteq Reclaim(tree, candidates, state, temps)
           /\ tree \cap temps \subseteq Reclaim(tree, candidates, state, temps)
BY DEF Reclaim, Within, Bare

(* It orphans nothing: what stays keeps its parents.                        *)
LEMMA ReclaimKeeps ==
    ASSUME NEW state, NEW tree, NEW candidates, NEW temps, WellFormed(state, tree)
    PROVE  WellFormed(state, Reclaim(tree, candidates, state, temps))
<1> DEFINE rest == Reclaim(tree, candidates, state, temps)
<1>1. ASSUME NEW d \in tree \ rest
      PROVE  /\ d \in candidates
             /\ \A e \in tree : Within(e, d) => e \in candidates /\ Bare(e, state, temps)
  BY DEF Reclaim
<1>2. ASSUME NEW d \in tree, d \in candidates,
             \A e \in tree : Within(e, d) => e \in candidates /\ Bare(e, state, temps)
      PROVE  d \notin rest
  BY <1>2 DEF Reclaim
<1> HIDE DEF rest
<1>3. ASSUME NEW p \in Paths, state[p] # Absent PROVE Above(p) \subseteq rest
  <2> SUFFICES ASSUME NEW d \in Above(p), d \notin rest PROVE FALSE
    OBVIOUS
  <2>1. d \in tree /\ Parent(p) \in tree
    BY <1>3, ChainEnds DEF WellFormed
  <2>2. Bare(Parent(p), state, temps)
    BY <2>1, <1>1, ParentWithin
  <2>3. QED
    BY <2>2, <1>3 DEF Bare
<1>4. Rooted(rest)
  <2> SUFFICES ASSUME NEW p \in Paths, NEW i \in DOMAIN Chain[p], NEW j \in DOMAIN Chain[p],
                      i < j, Chain[p][j] \in rest, Chain[p][i] \notin rest
               PROVE  FALSE
    BY DEF Rooted
  <2>1. Within(Chain[p][j], Chain[p][i])
    BY DEF Within
  <2>2. rest \subseteq tree
    BY ReclaimTakes DEF rest
  <2>3. Chain[p][j] \in tree /\ Chain[p][i] \in tree
    BY <2>2 DEF WellFormed, Rooted
  <2>4. Chain[p][j] \in candidates
    BY <1>1, <2>1, <2>3
  <2>5. \A e \in tree : Within(e, Chain[p][j]) => e \in candidates /\ Bare(e, state, temps)
    BY <1>1, <2>1, <2>3, WithinTransitive
  <2>6. QED
    BY <1>2, <2>3, <2>4, <2>5
<1>5. QED
  BY <1>3, <1>4 DEF WellFormed, rest

(* Neither does the pruning at the end of one undoing.                      *)
LEMMA SettleKeeps ==
    ASSUME NEW p \in Paths, NEW arm, NEW state, NEW tree, NEW temps,
           Settle(p, arm, state, tree, temps), WellFormed(state, tree)
    PROVE  WellFormed(state, dirs')
<1>1. dirs' = tree \/ dirs' = Reclaim(tree, Above(p) \ {Boundary(p)}, state, temps)
  BY DEF Settle, PruneEmptied
<1>2. QED
  BY <1>1, ReclaimKeeps

-----------------------------------------------------------------------------
(* No walk orphans a file or a directory                                    *)

(* A file that is written or put back has its directories.                  *)
LEMMA WriteKeeps ==
    ASSUME NEW state \in [Paths -> States], NEW tree, WellFormed(state, tree),
           NEW p \in Paths, NEW s \in States, s # Absent => Above(p) \subseteq tree
    PROVE  WellFormed([state EXCEPT ![p] = s], tree)
BY DEF WellFormed

(* Making the directories on the way to a file orphans nothing.             *)
LEMMA WalkKeeps ==
    ASSUME NEW state, NEW p \in Paths, NEW k \in WalkStops(p), WellFormed(state, dirs)
    PROVE  WellFormed(state, dirs \cup CreatedBefore(p, k))
<1>1. Rooted(dirs \cup CreatedBefore(p, k))
  BY WalkMakes, WalkRooted DEF WellFormed
<1>2. QED
  BY <1>1 DEF WellFormed

LEMMA NextTree ==
    ASSUME LedgersExplainDisk, TreeSound, [Next]_vars
    PROVE  TreeSound'
<1> USE DEF files, inFlight, ledger, undoing, others, history
<1> DEFINE Staging == pc' = "act" /\ batch'[cursor'].target # Absent
<1>1. TypeOK /\ WellFormed(disk, dirs) /\ disk \in [Paths -> States]
  BY DEF LedgersExplainDisk, TypeOK, TreeSound, NothingOrphaned
<1>2. ASSUME WellFormed(disk', dirs'), ~Staging PROVE TreeSound'
  BY <1>2 DEF TreeSound, NothingOrphaned, StagedInTree, Deletes, WellFormed, Rooted
<1>3. ASSUME UNCHANGED <<disk, dirs>>, ~Staging PROVE TreeSound'
  BY <1>1, <1>2, <1>3
<1>4. ASSUME UNCHANGED <<disk, pc, batch, cursor>>, WellFormed(disk, dirs'),
             pc = "act" /\ ~Deletes(cursor) => Parent(Target) \in dirs'
      PROVE  TreeSound'
  BY <1>4 DEF TreeSound, NothingOrphaned, StagedInTree, Deletes, Target, WellFormed, Rooted
<1>5. ASSUME NEW p \in Paths, pc' # "act",
             NEW arm, NEW tree, NEW temps, WellFormed(disk', tree),
             Settle(p, arm, disk', tree, temps)
      PROVE  TreeSound'
  BY <1>2, <1>5, SettleKeeps
<1>6. ASSUME NEW plan \in Plans, Apply(plan) PROVE TreeSound'
  BY <1>3, <1>6 DEF Apply
<1>7. CASE \/ NothingToDo \/ PreflightPasses \/ PreflightRefuses \/ RecheckFails
           \/ StageFails \/ VerifyThenNext \/ VerifyFails \/ RollbackBegins \/ RunSucceeds
  BY <1>3, <1>7 DEF NothingToDo, PreflightPasses, PreflightRefuses, RecheckFails,
     StageFails, VerifyThenNext, VerifyFails, RollbackBegins, RunSucceeds, Abort
<1>8. CASE Recheck
  BY <1>3, <1>8 DEF Recheck, Deletes
<1>9. CASE Ensure
  <2>1. Target \in Paths
    BY <1>1, <1>9, CurrentType DEF Ensure, AtMutation
  <2>2. PICK k \in WalkStops(Target) : dirs' = dirs \cup CreatedBefore(Target, k)
    BY <1>9 DEF Ensure
  <2>3. disk' = disk /\ pc' # "act"
    BY <1>9 DEF Ensure, Abort
  <2>4. QED
    BY <1>1, <1>2, <2>1, <2>2, <2>3, WalkKeeps
<1>10. CASE Stage
  BY <1>1, <1>10 DEF Stage, TreeSound, NothingOrphaned, StagedInTree, Target, WellFormed, Rooted
<1>11. CASE Act \/ ActFails
  <2>1. /\ pc = "act" /\ pc' # "act" /\ dirs' = dirs
        /\ Landed \/ UNCHANGED disk
    BY <1>11 DEF Act, ActFails, Abort
  <2>2. Target \in Paths /\ batch[cursor].target \in States
    BY <1>1, <2>1, CurrentType DEF AtMutation
  <2>3. batch[cursor].target # Absent => Above(Target) \subseteq dirs
    BY <1>1, <2>1, <2>2, RootedAbove DEF TreeSound, StagedInTree, Deletes, WellFormed
  <2>4. WellFormed(disk', dirs)
    BY <1>1, <2>1, <2>2, <2>3, WriteKeeps DEF Landed
  <2>5. QED
    BY <1>2, <2>1, <2>4
<1>12. CASE VerifyThenMerge
  BY <1>1, <1>2, <1>12, ReclaimKeeps DEF VerifyThenMerge, SweepAfter
<1>13. CASE UnwindEnds \/ RollbackEnds
  BY <1>1, <1>2, <1>13, ReclaimKeeps DEF UnwindEnds, RollbackEnds
<1>14. ASSUME NEW p \in Paths, AlreadyRestored(p) \/ LeftAlone(p) PROVE TreeSound'
  <2>1. disk' = disk /\ pc' # "act"
    BY <1>14 DEF AlreadyRestored, LeftAlone, Settle
  <2>2. Settle(p, "already", disk, dirs, litter) \/ Settle(p, "unresolved", disk, dirs, litter)
    BY <1>14 DEF AlreadyRestored, LeftAlone
  <2>3. QED
    BY <1>1, <1>5, <2>1, <2>2
<1>15. ASSUME NEW p \in Paths, OursToRevert(p) PROVE TreeSound'
  BY <1>3, <1>15 DEF OursToRevert
<1>16. ASSUME NEW p \in Paths, PutBack(p) PROVE TreeSound'
  <2> DEFINE tree == IF EntryOf(p).original = Absent THEN dirs ELSE dirs \cup Above(p)
  <2>1. EntryOf(p).original \in States
    BY <1>1, <1>16, EntryType DEF PutBack, Newest, LedgersExplainDisk, Explained
  <2>2. dirs \cup Above(p) = dirs \cup Prefix(p, Len(Chain[p]))
    BY ChainEnds
  <2>3. Rooted(dirs \cup Above(p))
    BY <1>1, <2>2, ChainEnds, WalkRooted DEF WellFormed
  <2>4. WellFormed(disk, tree)
    BY <1>1, <2>3 DEF WellFormed
  <2>5. disk' = [disk EXCEPT ![p] = EntryOf(p).original]
        /\ Settle(p, "restored", disk', tree, litter)
    BY <1>16 DEF PutBack
  <2>6. EntryOf(p).original # Absent => Above(p) \subseteq tree
    OBVIOUS
  <2> HIDE DEF tree
  <2>7. WellFormed(disk', tree)
    BY <1>1, <2>1, <2>4, <2>5, <2>6, WriteKeeps
  <2>8. pc' # "act"
    BY <2>5 DEF Settle
  <2>9. QED
    BY <1>5, <2>5, <2>7, <2>8
<1>17. ASSUME NEW p \in Paths, PutBackUnlinkFails(p) PROVE TreeSound'
  <2>1. /\ Settle(p, "unresolved", disk', dirs, litter)
        /\ disk' = [disk EXCEPT ![p] = Absent] \/ disk' = disk
    BY <1>17 DEF PutBackUnlinkFails
  <2>2. WellFormed(disk', dirs)
    BY <1>1, <2>1, WriteKeeps DEF States
  <2>3. pc' # "act"
    BY <2>1 DEF Settle
  <2>4. QED
    BY <1>5, <2>1, <2>2, <2>3
<1>18. ASSUME NEW p \in Paths, PutBackWriteFails(p) PROVE TreeSound'
  <2>1. EntryOf(p).original \in States
    BY <1>1, <1>18, EntryType DEF PutBackWriteFails, Newest, LedgersExplainDisk, Explained
  <2>2. PICK k \in WalkStops(p), landed \in BOOLEAN, leaks \in BOOLEAN :
          /\ landed => WalkComplete(p, k)
          /\ disk' = IF landed THEN [disk EXCEPT ![p] = EntryOf(p).original] ELSE disk
          /\ Settle(p, "unresolved", disk',
                    Reclaim(dirs \cup CreatedBefore(p, k), CreatedBefore(p, k), disk',
                            IF leaks THEN litter \cup {Parent(p)} ELSE litter),
                    IF leaks THEN litter \cup {Parent(p)} ELSE litter)
    BY <1>18 DEF PutBackWriteFails
  <2> DEFINE tree == dirs \cup CreatedBefore(p, k)
             temps == IF leaks THEN litter \cup {Parent(p)} ELSE litter
             rest == Reclaim(tree, CreatedBefore(p, k), disk', temps)
  <2>3. WellFormed(disk, tree)
    BY <1>1, WalkKeeps
  <2>4. landed => Above(p) \subseteq tree
    BY <2>2, WalkMakes
  <2>5. Settle(p, "unresolved", disk', rest, temps)
    BY <2>2
  <2> HIDE DEF tree, temps
  <2>6. WellFormed(disk', tree)
    BY <1>1, <2>1, <2>2, <2>3, <2>4, WriteKeeps
  <2>7. WellFormed(disk', rest)
    BY <2>6, ReclaimKeeps
  <2> HIDE DEF rest
  <2>8. pc' # "act"
    BY <2>5 DEF Settle
  <2>9. QED
    BY <1>5, <2>5, <2>7, <2>8
<1>19. ASSUME NEW p \in Paths, OtherWrites(p) PROVE TreeSound'
  <2>1. PICK s \in States : /\ s # Absent => Above(p) \subseteq dirs
                            /\ disk' = [disk EXCEPT ![p] = s]
    BY <1>19 DEF OtherWrites
  <2>2. WellFormed(disk', dirs)
    BY <1>1, <2>1, WriteKeeps
  <2>3. UNCHANGED <<dirs, pc, batch, cursor>>
    BY <1>19 DEF OtherWrites
  <2>4. QED
    BY <2>2, <2>3 DEF TreeSound, NothingOrphaned, StagedInTree, Deletes, Target, WellFormed, Rooted
<1>20. ASSUME NEW p \in Paths, OtherMakesDir(p) PROVE TreeSound'
  <2>1. PICK k \in DOMAIN Chain[p] : /\ CreatedBefore(p, k) = {}
                                     /\ dirs' = dirs \cup {Chain[p][k]}
    BY <1>20 DEF OtherMakesDir
  <2>2. k \in WalkStops(p) /\ k + 1 \in WalkStops(p)
    BY ChainEnds DEF WalkStops
  <2>3. Prefix(p, k) = Prefix(p, k - 1) \cup {Chain[p][k]}
    <3>1. 1..k = 1..(k - 1) \cup {k}
      BY ChainEnds
    <3>2. QED
      BY <3>1 DEF Prefix
  <2>4. Prefix(p, k - 1) \subseteq dirs
    BY <2>1, <2>2, WalkMakes
  <2>5. dirs' = dirs \cup CreatedBefore(p, k + 1)
    <3>1. k + 1 - 1 = k
      BY ChainEnds
    <3>2. dirs \cup CreatedBefore(p, k + 1) = dirs \cup Prefix(p, k)
      BY <2>2, <3>1, WalkMakes
    <3>3. QED
      BY <2>1, <2>3, <2>4, <3>2
  <2>6. WellFormed(disk, dirs')
    BY <1>1, <2>2, <2>5, WalkKeeps
  <2>7. QED
    BY <1>4, <1>20, <2>5, <2>6 DEF OtherMakesDir, TreeSound, StagedInTree
<1>21. ASSUME NEW d \in Dirs, OtherRemovesDir(d) PROVE TreeSound'
  <2>1. /\ dirs' = Reclaim(dirs, {d}, disk, litter \cup Staged)
        /\ UNCHANGED <<disk, pc, batch, cursor>>
    BY <1>21 DEF OtherRemovesDir
  <2>2. WellFormed(disk, dirs')
    BY <1>1, <2>1, ReclaimKeeps
  <2>3. pc = "act" /\ ~Deletes(cursor) => Parent(Target) \in dirs'
    <3>1. pc = "act" /\ ~Deletes(cursor) => Parent(Target) \in dirs \cap (litter \cup Staged)
      BY DEF TreeSound, StagedInTree, Staged, Deletes, Target
    <3>2. QED
      BY <2>1, <3>1, ReclaimTakes
  <2>4. QED
    BY <1>4, <2>1, <2>2, <2>3
<1>22. CASE UNCHANGED vars
  BY <1>1, <1>4, <1>22 DEF vars, TreeSound, StagedInTree
<1> HIDE DEF Staging
<1>23. QED
  BY <1>6, <1>7, <1>8, <1>9, <1>10, <1>11, <1>12, <1>13, <1>14, <1>15, <1>16, <1>17,
     <1>18, <1>19, <1>20, <1>21, <1>22 DEF Next, Run, Applying, Undoing, Others

(* Whatever fails and whoever else edits the tree, every file and every     *)
(* directory keeps the directories above it.                                *)
THEOREM TreeInvariant == Spec => []TreeSound
<1>1. Init => TreeSound
  BY DEF Init, TreeSound, NothingOrphaned, StagedInTree
<1>2. LedgersExplainDisk /\ TreeSound /\ [Next]_vars => TreeSound'
  BY NextTree
<1>3. QED
  BY <1>1, <1>2, LedgersInvariant, PTL DEF Spec

(* No removal, of a sweep, a prune or another program's, orphans anything.  *)
THEOREM WalksOrphanNothing == Spec => []NothingOrphaned
<1>1. TreeSound => NothingOrphaned
  BY DEF TreeSound
<1>2. QED
  BY <1>1, TreeInvariant, PTL

-----------------------------------------------------------------------------
(* No step of the run removes a boundary                                    *)

(* A boundary is above a file of its own only, or is that file's boundary.  *)
LEMMA BoundaryOnTop ==
    ASSUME NEW p \in Paths, NEW q \in Paths
    PROVE  Boundary(q) \notin Above(p) \ {Boundary(p)}
<1> SUFFICES ASSUME NEW j \in DOMAIN Chain[p], Chain[p][j] = Chain[q][1], j # 1
             PROVE  FALSE
  BY DEF Above, Elems, Boundary
<1>1. 1 \in DOMAIN Chain[p] /\ 1 < j /\ 1 \in DOMAIN Chain[q]
  BY ChainEnds
<1>2. PICK m \in DOMAIN Chain[q] : m < 1
  BY <1>1, SameAbove
<1>3. QED
  BY <1>2, ChainEnds

LEMMA NextBoundaries ==
    ASSUME LedgersExplainDisk, BoundariesKept, [Next]_vars
    PROVE  BoundariesKept'
<1> USE DEF files, inFlight, ledger, undoing, others, history
<1> DEFINE Safe(q) == Boundary(q) \in dirs \ (batchDirs \cup created)
<1>1. ASSUME UNCHANGED <<treeEdited, startDirs>>,
             \A q \in Paths : Safe(q) => Safe(q)'
      PROVE  BoundariesKept'
  BY <1>1 DEF BoundariesKept, Boundary
<1>2. ASSUME UNCHANGED <<treeEdited, startDirs, dirs, batchDirs, created>>
      PROVE  BoundariesKept'
  BY <1>2 DEF BoundariesKept, Boundary
<1>3. ASSUME treeEdited' PROVE BoundariesKept'
  BY <1>3 DEF BoundariesKept
<1>4. ASSUME UNCHANGED <<treeEdited, startDirs, batchDirs, created>>,
             NEW p \in Paths, NEW arm, NEW tree, NEW state, NEW temps,
             dirs \subseteq tree, Settle(p, arm, state, tree, temps)
      PROVE  BoundariesKept'
  <2>1. tree \ (Above(p) \ {Boundary(p)}) \subseteq dirs'
    BY <1>4, ReclaimTakes DEF Settle, PruneEmptied
  <2>2. ASSUME NEW q \in Paths, Boundary(q) \in dirs \ (batchDirs \cup created)
        PROVE  Boundary(q) \in dirs' \ (batchDirs' \cup created')
    <3>1. Boundary(q) \in tree \ (Above(p) \ {Boundary(p)})
      BY <1>4, <2>2, BoundaryOnTop
    <3>2. QED
      BY <1>4, <2>1, <2>2, <3>1
  <2>3. \A q \in Paths : Safe(q) => Safe(q)'
    BY <2>2 DEF Boundary
  <2>4. QED
    BY <1>1, <1>4, <2>3
<1>5. ASSUME NEW plan \in Plans, Apply(plan) PROVE BoundariesKept'
  BY <1>2, <1>5 DEF Apply
<1>6. CASE \/ NothingToDo \/ PreflightPasses \/ PreflightRefuses \/ Recheck \/ RecheckFails
           \/ Stage \/ StageFails \/ Act \/ ActFails \/ VerifyThenNext \/ VerifyFails
           \/ RollbackBegins \/ RunSucceeds
  BY <1>2, <1>6 DEF NothingToDo, PreflightPasses, PreflightRefuses, Recheck, RecheckFails,
     Stage, StageFails, Act, ActFails, VerifyThenNext, VerifyFails, RollbackBegins,
     RunSucceeds, Abort
<1>7. CASE Ensure
  <2>1. PICK k \in WalkStops(Target) : /\ dirs' = dirs \cup CreatedBefore(Target, k)
                                       /\ batchDirs' = batchDirs \cup CreatedBefore(Target, k)
    BY <1>7 DEF Ensure
  <2>2. UNCHANGED <<treeEdited, startDirs, created>>
    BY <1>7 DEF Ensure, Abort
  <2>3. \A q \in Paths : Safe(q) => Safe(q)'
    BY <2>1, <2>2 DEF CreatedBefore, Boundary
  <2>4. QED
    BY <1>1, <2>2, <2>3
<1>8. CASE VerifyThenMerge
  <2> DEFINE swept == UNION {Above(p) \ {Boundary(p)} :
                                p \in {r \in Deleted : Parent(r) \in dirs}}
  <2>1. Deleted \subseteq Paths
    <3>1. \A i \in DOMAIN batch : batch[i] \in Mutation
      BY DEF LedgersExplainDisk, TypeOK
    <3>2. QED
      BY <3>1 DEF Deleted, Kept, Mutation
  <2>2. \A q \in Paths : Boundary(q) \notin swept
    BY <2>1, BoundaryOnTop
  <2>3. dirs \ swept \subseteq dirs'
    BY <1>8, ReclaimTakes DEF VerifyThenMerge, SweepAfter
  <2>4. UNCHANGED <<treeEdited, startDirs>> /\ batchDirs' \cup created' = batchDirs \cup created
    BY <1>8 DEF VerifyThenMerge
  <2> HIDE DEF swept
  <2>5. \A q \in Paths : Safe(q) => Safe(q)'
    BY <2>2, <2>3, <2>4 DEF Boundary
  <2>6. QED
    BY <1>1, <2>4, <2>5
<1>9. CASE UnwindEnds \/ RollbackEnds
  <2>1. /\ UNCHANGED <<treeEdited, startDirs>>
        /\ dirs \ (batchDirs \cup created) \subseteq dirs'
        /\ batchDirs' \cup created' \subseteq batchDirs \cup created
    BY <1>9, ReclaimTakes DEF UnwindEnds, RollbackEnds
  <2>2. \A q \in Paths : Safe(q) => Safe(q)'
    BY <2>1 DEF Boundary
  <2>3. QED
    BY <1>1, <2>1, <2>2
<1>10. ASSUME NEW p \in Paths,
              AlreadyRestored(p) \/ LeftAlone(p) \/ PutBack(p) \/ PutBackUnlinkFails(p)
       PROVE  BoundariesKept'
  <2>1. UNCHANGED <<treeEdited, startDirs, batchDirs, created>>
    BY <1>10 DEF AlreadyRestored, LeftAlone, PutBack, PutBackUnlinkFails
  <2>2. \/ Settle(p, "already", disk, dirs, litter)
        \/ Settle(p, "unresolved", disk, dirs, litter)
        \/ Settle(p, "restored", disk',
                  IF EntryOf(p).original = Absent THEN dirs ELSE dirs \cup Above(p), litter)
        \/ Settle(p, "unresolved", disk', dirs, litter)
    BY <1>10 DEF AlreadyRestored, LeftAlone, PutBack, PutBackUnlinkFails
  <2>3. dirs \subseteq (IF EntryOf(p).original = Absent THEN dirs ELSE dirs \cup Above(p))
    OBVIOUS
  <2>4. QED
    BY <1>4, <2>1, <2>2, <2>3
<1>11. ASSUME NEW p \in Paths, OursToRevert(p) PROVE BoundariesKept'
  BY <1>2, <1>11 DEF OursToRevert
<1>12. ASSUME NEW p \in Paths, PutBackWriteFails(p) PROVE BoundariesKept'
  <2>1. PICK k \in WalkStops(p), temps \in {litter, litter \cup {Parent(p)}} :
          Settle(p, "unresolved", disk',
                 Reclaim(dirs \cup CreatedBefore(p, k), CreatedBefore(p, k), disk', temps),
                 temps)
    BY <1>12 DEF PutBackWriteFails
  <2>2. dirs \subseteq Reclaim(dirs \cup CreatedBefore(p, k), CreatedBefore(p, k), disk', temps)
    <3>1. dirs \subseteq (dirs \cup CreatedBefore(p, k)) \ CreatedBefore(p, k)
      BY DEF CreatedBefore
    <3>2. QED
      BY <3>1, ReclaimTakes
  <2>3. UNCHANGED <<treeEdited, startDirs, batchDirs, created>>
    BY <1>12 DEF PutBackWriteFails
  <2>4. QED
    BY <1>4, <2>1, <2>2, <2>3
<1>13. ASSUME NEW p \in Paths, OtherWrites(p) \/ OtherMakesDir(p) PROVE BoundariesKept'
  BY <1>2, <1>3, <1>13 DEF OtherWrites, OtherMakesDir
<1>14. ASSUME NEW d \in Dirs, OtherRemovesDir(d) PROVE BoundariesKept'
  BY <1>3, <1>14 DEF OtherRemovesDir
<1>15. CASE UNCHANGED vars
  BY <1>2, <1>15 DEF vars
<1> HIDE DEF Safe
<1>16. QED
  BY <1>5, <1>6, <1>7, <1>8, <1>9, <1>10, <1>11, <1>12, <1>13, <1>14, <1>15
     DEF Next, Run, Applying, Undoing, Others

(* An authorized directory that was there before the run is there at every  *)
(* moment, unless another program has been at work on the directories.      *)
THEOREM BoundariesStay == Spec => []BoundarySurvives
<1>1. Init => BoundariesKept
  BY DEF Init, BoundariesKept
<1>2. LedgersExplainDisk /\ BoundariesKept /\ [Next]_vars => BoundariesKept'
  BY NextBoundaries
<1>3. BoundariesKept => BoundarySurvives
  BY DEF BoundariesKept, BoundarySurvives
<1>4. QED
  BY <1>1, <1>2, <1>3, LedgersInvariant, PTL DEF Spec

-----------------------------------------------------------------------------
(* A clean rollback leaves no directory behind                              *)

(* Of a rooted set of directories that holds every file, and candidates on  *)
(* top of it, a removal of the candidates leaves only the set.              *)
LEMMA ReclaimsAll ==
    ASSUME NEW base, NEW candidates, NEW tree, NEW state, Rooted(base),
           tree \subseteq base \cup candidates,
           \A p \in Paths : state[p] # Absent => Above(p) \subseteq base
    PROVE  Reclaim(tree, candidates, state, {}) \subseteq base
<1> SUFFICES ASSUME NEW d \in tree, d \notin base
             PROVE  d \notin Reclaim(tree, candidates, state, {})
  BY ReclaimTakes
<1>1. ASSUME NEW e \in tree, Within(e, d) PROVE e \in candidates /\ Bare(e, state, {})
  <2>1. e \notin base
    BY <1>1 DEF Within, Rooted
  <2>2. \A p \in Paths : Parent(p) = e => state[p] = Absent
    BY <2>1, ChainEnds
  <2>3. QED
    BY <2>1, <2>2 DEF Bare
<1>2. d \in candidates
  OBVIOUS
<1>3. QED
  BY <1>1, <1>2 DEF Reclaim

LEMMA NextScoped ==
    ASSUME LedgersExplainDisk, RecordsScoped, [Next]_vars
    PROVE  RecordsScoped'
<1> USE DEF files, inFlight, ledger, undoing, others, history, AtMutation, Unwinding
<1>1. UNCHANGED <<start, startDirs>> => WellFormed(start, startDirs)'
  BY DEF RecordsScoped, WellFormed, Rooted
<1> USE DEF RecordsScoped
<1>2. ASSUME NEW plan \in Plans, Apply(plan) PROVE RecordsScoped'
  BY <1>1, <1>2 DEF Apply
<1>3. CASE \/ NothingToDo \/ PreflightPasses \/ PreflightRefuses \/ Recheck \/ RecheckFails
           \/ Stage \/ StageFails \/ Act \/ ActFails \/ VerifyThenNext \/ VerifyFails
  BY <1>1, <1>3 DEF NothingToDo, PreflightPasses, PreflightRefuses, Recheck, RecheckFails,
     Stage, StageFails, Act, ActFails, VerifyThenNext, VerifyFails, Abort
<1>4. CASE Ensure
  BY <1>1, <1>4 DEF Ensure, Abort
<1>5. CASE VerifyThenMerge \/ UnwindEnds
  BY <1>1, <1>5 DEF VerifyThenMerge, UnwindEnds
<1>6. CASE RollbackBegins \/ RollbackEnds \/ RunSucceeds
  BY <1>1, <1>6 DEF RollbackBegins, RollbackEnds, RunSucceeds, MergeReports
<1>7. ASSUME NEW p \in Paths,
             \/ AlreadyRestored(p) \/ LeftAlone(p) \/ OursToRevert(p) \/ PutBack(p)
             \/ PutBackUnlinkFails(p) \/ PutBackWriteFails(p)
      PROVE  RecordsScoped'
  <2>1. /\ UNCHANGED <<batchDirs, created, residue, start, startDirs>>
        /\ \/ pc \in {"unwind", "unwindAct"} /\ pc' \in {"unwind", "unwindAct"}
           \/ pc \in {"rollback", "rollbackAct"} /\ pc' \in {"rollback", "rollbackAct"}
    BY <1>7 DEF AlreadyRestored, LeftAlone, OursToRevert, PutBack, PutBackUnlinkFails,
       PutBackWriteFails, Settle
  <2>2. QED
    BY <1>1, <2>1
<1>8. ASSUME NEW p \in Paths, OtherWrites(p) \/ OtherMakesDir(p) PROVE RecordsScoped'
  BY <1>1, <1>8 DEF OtherWrites, OtherMakesDir
<1>9. ASSUME NEW d \in Dirs, OtherRemovesDir(d) PROVE RecordsScoped'
  BY <1>1, <1>9 DEF OtherRemovesDir
<1>10. CASE UNCHANGED vars
  BY <1>1, <1>10 DEF vars
<1>11. QED
  BY <1>2, <1>3, <1>4, <1>5, <1>6, <1>7, <1>8, <1>9, <1>10
     DEF Next, Run, Applying, Undoing, Others

(* What an undoing has had to leave where it is stays left.                 *)
LEMMA NextAllBack ==
    ASSUME LedgersExplainDisk, RecordsScoped, [Next]_vars, AllBack'
    PROVE  AllBack
<1> USE DEF files, inFlight, ledger, undoing, others, history, AllBack, Unwinding, Rewinding
<1>1. report \in Report
  BY DEF LedgersExplainDisk, TypeOK
<1>2. ASSUME NEW plan \in Plans, Apply(plan) PROVE AllBack
  BY <1>2 DEF Apply
<1>3. CASE \/ NothingToDo \/ PreflightPasses \/ PreflightRefuses \/ Recheck \/ RecheckFails
           \/ Stage \/ Act \/ VerifyThenNext \/ VerifyFails \/ VerifyThenMerge
           \/ RollbackBegins \/ RunSucceeds
  BY <1>3 DEF NothingToDo, PreflightPasses, PreflightRefuses, Recheck, RecheckFails,
     Stage, Act, VerifyThenNext, VerifyFails, VerifyThenMerge, RollbackBegins,
     RunSucceeds, Abort
<1>4. CASE Ensure
  BY <1>4 DEF Ensure, Abort
<1>5. CASE StageFails
  BY <1>5 DEF StageFails, Abort
<1>6. CASE ActFails
  BY <1>6 DEF ActFails, Abort
<1>7. CASE UnwindEnds
  BY <1>7 DEF UnwindEnds, RecordsScoped, NothingDone
<1>8. CASE RollbackEnds
  BY <1>1, <1>8 DEF RollbackEnds, MergeReports
<1>9. ASSUME NEW p \in Paths,
             \/ AlreadyRestored(p) \/ LeftAlone(p) \/ OursToRevert(p) \/ PutBack(p)
             \/ PutBackUnlinkFails(p) \/ PutBackWriteFails(p)
      PROVE  AllBack
  <2>1. report.unresolved \subseteq report'.unresolved
    BY <1>1, <1>9 DEF AlreadyRestored, LeftAlone, OursToRevert, PutBack,
       PutBackUnlinkFails, PutBackWriteFails, Settle, Report
  <2>2. /\ UNCHANGED <<residue, edited, treeEdited>> /\ litter \subseteq litter'
        /\ pc' \in {"unwind", "unwindAct", "rollback", "rollbackAct"}
    BY <1>9 DEF AlreadyRestored, LeftAlone, OursToRevert, PutBack,
       PutBackUnlinkFails, PutBackWriteFails, Settle
  <2>3. QED
    BY <2>1, <2>2
<1>10. ASSUME NEW p \in Paths, OtherWrites(p) \/ OtherMakesDir(p) PROVE AllBack
  BY <1>10 DEF OtherWrites, OtherMakesDir
<1>11. ASSUME NEW d \in Dirs, OtherRemovesDir(d) PROVE AllBack
  BY <1>11 DEF OtherRemovesDir
<1>12. CASE UNCHANGED vars
  BY <1>12 DEF vars
<1>13. QED
  BY <1>2, <1>3, <1>4, <1>5, <1>6, <1>7, <1>8, <1>9, <1>10, <1>11, <1>12
     DEF Next, Run, Applying, Undoing, Others

(* While all is back, the records explain the directories.                  *)
LEMMA NextRecorded ==
    ASSUME LedgersExplainDisk, LedgersExplainDisk', TreeSound, RecordsScoped, Recorded,
           AllBack, AllBack', [Next]_vars
    PROVE  Recorded'
<1> USE DEF files, inFlight, ledger, undoing, others, history
<1>1. TypeOK /\ Ours = Paths /\ Ours' = Paths /\ litter = {} /\ report \in Report
  BY DEF LedgersExplainDisk, TypeOK, AllBack, Ours
<1>2. ASSUME UNCHANGED <<startDirs, created, batchDirs, journal, start>>,
             dirs' \subseteq startDirs \cup created \cup batchDirs
      PROVE  Recorded'
  BY <1>2 DEF Recorded, Held, Rooted
<1>3. ASSUME UNCHANGED <<startDirs, created, batchDirs, journal, start, dirs>>
      PROVE  Recorded'
  BY <1>2, <1>3 DEF Recorded
<1>4. ASSUME NEW plan \in Plans, Apply(plan) PROVE Recorded'
  BY <1>3, <1>4 DEF Apply
<1>5. CASE \/ NothingToDo \/ PreflightPasses \/ PreflightRefuses \/ Recheck \/ RecheckFails
           \/ Stage \/ StageFails \/ Act \/ ActFails \/ VerifyThenNext \/ VerifyFails
           \/ RollbackBegins \/ RunSucceeds
  BY <1>3, <1>5 DEF NothingToDo, PreflightPasses, PreflightRefuses, Recheck, RecheckFails,
     Stage, StageFails, Act, ActFails, VerifyThenNext, VerifyFails, RollbackBegins,
     RunSucceeds, Abort
<1>6. CASE Ensure
  <2> DEFINE all == startDirs \cup created \cup batchDirs
  <2>1. Target \in Paths
    BY <1>1, <1>6, CurrentType DEF Ensure, AtMutation
  <2>2. PICK k \in WalkStops(Target) : /\ dirs' = dirs \cup CreatedBefore(Target, k)
                                       /\ batchDirs' = batchDirs \cup CreatedBefore(Target, k)
    BY <1>6 DEF Ensure
  <2>3. UNCHANGED <<startDirs, created, journal, start>>
    BY <1>6 DEF Ensure, Abort
  <2>4. all \cup CreatedBefore(Target, k) = all \cup Prefix(Target, k - 1)
    BY <2>1, WalkMakes DEF Recorded
  <2>5. Rooted(all \cup CreatedBefore(Target, k))
    BY <2>1, <2>4, WalkMakes, WalkRooted DEF Recorded
  <2>6. startDirs' \cup created' \cup batchDirs' = all \cup CreatedBefore(Target, k)
    BY <2>2, <2>3
  <2> HIDE DEF all
  <2>7. Rooted(startDirs' \cup created' \cup batchDirs')
    BY <2>5, <2>6
  <2>8. dirs' \subseteq startDirs' \cup created' \cup batchDirs'
    BY <2>2, <2>3 DEF Recorded
  <2>9. QED
    BY <2>3, <2>7, <2>8 DEF Recorded, Held, Rooted
<1>7. CASE VerifyThenMerge
  <2>1. /\ pc' = "idle" /\ savepoint' = NoEntries /\ batchDirs' = {} /\ startDirs' = startDirs
        /\ created' = created \cup batchDirs /\ disk' = disk
    BY <1>7 DEF VerifyThenMerge
  <2>2. \A p \in Paths : Held(p)' = disk[p]
    <3>1. Armed' = {}
      BY <2>1 DEF Armed, NoEntries
    <3>2. QED
      BY <1>1, <2>1, <3>1 DEF LedgersExplainDisk, Explained, LedgersMatchDisk
  <2>3. dirs' \subseteq dirs
    BY <1>7, ReclaimTakes DEF VerifyThenMerge, SweepAfter
  <2>4. \A p \in Paths : disk[p] # Absent => Above(p) \subseteq dirs
    BY DEF TreeSound, NothingOrphaned, WellFormed
  <2>5. QED
    BY <2>1, <2>2, <2>3, <2>4 DEF Recorded, Rooted
<1>8. ASSUME NEW p \in Paths, AlreadyRestored(p) PROVE Recorded'
  <2>1. Settle(p, "already", disk, dirs, litter)
    BY <1>8 DEF AlreadyRestored
  <2>2. dirs' \subseteq dirs
    BY <2>1, ReclaimTakes DEF Settle, PruneEmptied
  <2>3. QED
    BY <1>2, <1>8, <2>2 DEF AlreadyRestored, Recorded
<1>9. ASSUME NEW p \in Paths, OursToRevert(p) PROVE Recorded'
  BY <1>3, <1>9 DEF OursToRevert
<1>10. ASSUME NEW p \in Paths, PutBack(p) PROVE Recorded'
  <2> DEFINE tree == IF EntryOf(p).original = Absent THEN dirs ELSE dirs \cup Above(p)
  <2>1. Settle(p, "restored", disk', tree, litter) /\ p \in todo
        /\ pc \in {"unwindAct", "rollbackAct"}
    BY <1>10 DEF PutBack, Newest
  <2>2. EntryOf(p).original # Absent => Above(p) \subseteq startDirs \cup created
    <3>1. CASE Unwinding
      <4>1. EntryOf(p).original = Held(p)
        BY <1>1, <2>1, <3>1 DEF LedgersExplainDisk, Explained, TodoRecorded, OriginalsKept, EntryOf
      <4>2. QED
        BY <4>1 DEF Recorded
    <3>2. CASE ~Unwinding
      <4>1. EntryOf(p).original = start[p]
        BY <1>1, <2>1, <3>2 DEF LedgersExplainDisk, Explained, TodoRecorded, OriginalsKept,
           EntryOf, Rewinding, Unwinding
      <4>2. QED
        BY <4>1 DEF RecordsScoped, WellFormed
    <3>3. QED
      BY <3>1, <3>2
  <2>3. tree \subseteq startDirs \cup created \cup batchDirs
    BY <2>2 DEF Recorded
  <2> HIDE DEF tree
  <2>4. dirs' \subseteq tree
    BY <2>1, ReclaimTakes DEF Settle, PruneEmptied
  <2>5. QED
    BY <1>2, <1>10, <2>3, <2>4 DEF PutBack
<1>11. ASSUME NEW p \in Paths, LeftAlone(p) \/ PutBackUnlinkFails(p) \/ PutBackWriteFails(p)
       PROVE  FALSE
  <2>1. /\ report' = [report EXCEPT !["unresolved"] = @ \cup {p}]
        /\ pc' \in {"unwind", "rollback"}
    BY <1>11 DEF LeftAlone, PutBackUnlinkFails, PutBackWriteFails, Settle
  <2>2. p \in report'.unresolved
    BY <1>1, <2>1 DEF Report
  <2>3. QED
    BY <2>1, <2>2 DEF AllBack, Unwinding, Rewinding
<1>12. CASE UnwindEnds
  <2>1. /\ pc = "unwind" /\ todo = {} /\ batchDirs' = {}
        /\ dirs' = Reclaim(dirs, batchDirs, disk, litter)
        /\ UNCHANGED <<startDirs, created, journal, start>>
    BY <1>12 DEF UnwindEnds
  <2>2. \A p \in Paths : disk[p] = Held(p)
    BY <1>1, <2>1 DEF LedgersExplainDisk, Explained, UndoneMatchesDisk, AllBack, Unwinding
  <2>3. \A p \in Paths : disk[p] # Absent => Above(p) \subseteq startDirs \cup created
    BY <2>2 DEF Recorded
  <2>4. dirs' \subseteq startDirs \cup created
    BY <1>1, <2>1, <2>3, ReclaimsAll DEF Recorded
  <2>5. QED
    BY <2>1, <2>4 DEF Recorded, Held, Rooted
<1>13. CASE RollbackEnds
  <2>1. /\ pc = "rollback" /\ todo = {} /\ created' = {} /\ journal' = NoEntries
        /\ dirs' = Reclaim(dirs, created, disk, litter)
        /\ UNCHANGED <<startDirs, batchDirs, start>>
    BY <1>13 DEF RollbackEnds
  <2>2. batchDirs = {} /\ WellFormed(start, startDirs)
    BY <2>1 DEF RecordsScoped, AtMutation, Unwinding
  <2>3. \A p \in Paths : disk[p] = start[p]
    BY <1>1, <2>1 DEF LedgersExplainDisk, Explained, UndoneMatchesDisk, AllBack, Rewinding
  <2>4. \A p \in Paths : disk[p] # Absent => Above(p) \subseteq startDirs
    BY <2>2, <2>3 DEF WellFormed
  <2>5. dirs \subseteq startDirs \cup created /\ Rooted(startDirs)
    BY <2>2 DEF Recorded, WellFormed
  <2>6. dirs' \subseteq startDirs
    BY <1>1, <2>1, <2>4, <2>5, ReclaimsAll
  <2>7. \A p \in Paths : Held(p)' = start[p]
    BY <2>1 DEF Held, NoEntries
  <2>8. startDirs' \cup created' = startDirs /\ startDirs' \cup created' \cup batchDirs' = startDirs
    BY <2>1, <2>2
  <2>9. QED
    BY <2>2, <2>5, <2>6, <2>7, <2>8 DEF Recorded, WellFormed, Rooted
<1>14. ASSUME NEW p \in Paths, OtherWrites(p) \/ OtherMakesDir(p) PROVE FALSE
  BY <1>14 DEF OtherWrites, OtherMakesDir, AllBack
<1>15. ASSUME NEW d \in Dirs, OtherRemovesDir(d) PROVE FALSE
  BY <1>15 DEF OtherRemovesDir, AllBack
<1>16. CASE UNCHANGED vars
  BY <1>3, <1>16 DEF vars
<1>17. QED
  BY <1>4, <1>5, <1>6, <1>7, <1>8, <1>9, <1>10, <1>11, <1>12, <1>13, <1>14, <1>15, <1>16
     DEF Next, Run, Applying, Undoing, Others

(* As long as all has been put back, the records say which directories are  *)
(* of the run's making.                                                     *)
THEOREM DirectoriesInvariant == Spec => [](RecordsScoped /\ DirectoriesRecorded)
<1>1. Init => RecordsScoped /\ DirectoriesRecorded
  <2> SUFFICES ASSUME Init PROVE RecordsScoped /\ DirectoriesRecorded
    OBVIOUS
  <2>1. \A p \in Paths : Held(p) = disk[p]
    BY DEF Init, Held, NoEntries
  <2>2. startDirs \cup created = dirs /\ startDirs \cup created \cup batchDirs = dirs
    BY DEF Init
  <2>3. WellFormed(disk, dirs)
    BY DEF Init
  <2>4. QED
    BY <2>1, <2>2, <2>3 DEF Init, RecordsScoped, DirectoriesRecorded, Recorded, WellFormed
<1>2. LedgersExplainDisk /\ LedgersExplainDisk' /\ TreeSound /\ RecordsScoped
         /\ DirectoriesRecorded /\ [Next]_vars => RecordsScoped' /\ DirectoriesRecorded'
  <2> SUFFICES ASSUME LedgersExplainDisk, LedgersExplainDisk', TreeSound, RecordsScoped,
                      DirectoriesRecorded, [Next]_vars
               PROVE  RecordsScoped' /\ DirectoriesRecorded'
    OBVIOUS
  <2>1. AllBack' => Recorded'
    BY NextAllBack, NextRecorded DEF DirectoriesRecorded
  <2>2. QED
    BY <2>1, NextScoped DEF DirectoriesRecorded
<1>3. QED
  BY <1>1, <1>2, LedgersInvariant, TreeInvariant, PTL DEF Spec

(* A rollback that put every file back, with nobody else at work, leaves no *)
(* directory that the run has made.                                         *)
THEOREM NoDirectoryLeft == Spec => []NoDirectoryLeftBehind
<1>1. LedgersExplainDisk /\ RecordsScoped /\ DirectoriesRecorded => NoDirectoryLeftBehind
  BY DEF RecordsScoped, DirectoriesRecorded, Recorded, NoDirectoryLeftBehind, AllBack,
     AtMutation, Unwinding
<1>2. QED
  BY <1>1, LedgersInvariant, DirectoriesInvariant, PTL

-----------------------------------------------------------------------------
(* With no other program at work, batches are atomic                        *)

(* Nobody else has written a file, and nobody can.                          *)
Alone == edited = {}

LEMMA NextAlone ==
    ASSUME MaxEdits = 0, LedgersExplainDisk, Alone, [Next]_vars
    PROVE  Alone' /\ ~Others
<1> USE DEF files, inFlight, ledger, undoing, others, history, Alone
<1>1. ~(edits < MaxEdits)
  BY DEF LedgersExplainDisk, TypeOK
<1>2. ~Others
  BY <1>1 DEF Others, OtherWrites, OtherMakesDir, OtherRemovesDir
<1>3. Applying => edited' = edited
  BY DEF Applying, Apply, NothingToDo, PreflightPasses, PreflightRefuses, Recheck,
     RecheckFails, Ensure, Stage, StageFails, Act, ActFails, VerifyThenNext,
     VerifyFails, VerifyThenMerge, Abort
<1>4. Undoing => edited' = edited
  BY DEF Undoing, AlreadyRestored, LeftAlone, OursToRevert, PutBack,
     PutBackUnlinkFails, PutBackWriteFails, UnwindEnds, RollbackBegins, RollbackEnds
<1>5. RunSucceeds \/ UNCHANGED vars => edited' = edited
  BY DEF RunSucceeds, vars
<1>6. QED
  BY <1>2, <1>3, <1>4, <1>5 DEF Next, Run

(* The abstract file is the original of the batch in progress, or the disk. *)
LEMMA AbstractType ==
    ASSUME TypeOK
    PROVE  /\ AbstractFiles \in [Paths -> States]
           /\ \A p \in Paths : AbstractFiles[p] =
                 IF p \in Armed THEN savepoint[p].original ELSE disk[p]
           /\ AbstractLost \in SUBSET Paths
BY DEF TypeOK, AbstractFiles, Ledger, Entry, Report, AbstractLost, Armed

(* Arming hides the change of the disk behind what the batch was planned on. *)
LEMMA ArmHidden ==
    ASSUME LedgersExplainDisk, Alone, TypeOK', pc = "act", Arm,
           Landed \/ UNCHANGED disk
    PROVE  AbstractFiles' = AbstractFiles
<1>1. TypeOK /\ Ours = Paths
  BY DEF LedgersExplainDisk, Alone, Ours
<1>2. /\ cursor \in DOMAIN batch /\ Target = batch[cursor].path /\ Target \in Paths
      /\ Armed' = Armed \cup {Target}
  BY <1>1, CurrentType, ArmType DEF AtMutation, Target
<1>3. /\ savepoint'[Target].original = batch[cursor].expected
      /\ \A p \in Paths \ {Target} : savepoint'[p] = savepoint[p] /\ disk'[p] = disk[p]
  BY <1>1, <1>2 DEF Arm, Landed, TypeOK, Ledger
<1>4. batch[cursor].expected = Held(Target)
  BY <1>1, <1>2 DEF LedgersExplainDisk, Explained, PlannedFromHeld, AtMutation
<1>5. AbstractFiles[Target] = Held(Target)
  BY <1>1, <1>2, AbstractType DEF LedgersExplainDisk, Explained, OriginalsKept,
     LedgersMatchDisk, AtMutation
<1>6. AbstractFiles \in [Paths -> States] /\ AbstractFiles' \in [Paths -> States]
  BY <1>1, AbstractType DEF AbstractFiles, TypeOK, Ledger, Entry
<1>7. \A p \in Paths : AbstractFiles'[p] = IF p \in Armed' THEN savepoint'[p].original ELSE disk'[p]
  BY DEF AbstractFiles, Armed
<1>8. \A p \in Paths : AbstractFiles[p] = IF p \in Armed THEN savepoint[p].original ELSE disk[p]
  BY DEF AbstractFiles, Armed
<1>9. \A p \in Paths : AbstractFiles'[p] = AbstractFiles[p]
  BY <1>2, <1>3, <1>4, <1>5, <1>7, <1>8
<1>10. QED
  BY <1>6, <1>9

LEMMA NextImplements ==
    ASSUME LedgersExplainDisk, TypeOK', Alone, ~Others, [Next]_vars
    PROVE  [Batches!Next]_(Batches!vars)
<1> USE DEF files, inFlight, ledger, undoing, others, history
<1> DEFINE Stutters == UNCHANGED <<AbstractFiles, start, AbstractLost, AbstractPhase>>
<1>1. TypeOK /\ Ours = Paths /\ report \in Report /\ residue \in Report
  BY DEF LedgersExplainDisk, TypeOK, Alone, Ours
<1>2. Stutters => [Batches!Next]_(Batches!vars)
  BY DEF Batches!vars
<1>3. ASSUME UNCHANGED <<savepoint, disk>> PROVE AbstractFiles' = AbstractFiles
  BY <1>3 DEF AbstractFiles
<1>4. pc \notin {"failed", "rollback", "rollbackAct", "rolledback", "committed"}
         => AbstractPhase = "open" /\ AbstractLost = residue.unresolved
  BY DEF AbstractPhase, AbstractLost
<1>5. pc' \notin {"failed", "rollback", "rollbackAct", "rolledback", "committed"}
         => AbstractPhase' = "open" /\ AbstractLost' = residue'.unresolved
  BY DEF AbstractPhase, AbstractLost
<1>6. AbstractFiles \in [Paths -> States] /\ AbstractLost \in SUBSET Paths
  BY <1>1, AbstractType
<1>7. AbstractFiles' \in [Paths -> States] /\ AbstractLost' \in SUBSET Paths
  BY DEF AbstractFiles, AbstractLost, TypeOK, Ledger, Entry, Report
<1>8. ASSUME pc \in {"idle", "preflight"}, pc' = "failed",
             UNCHANGED <<savepoint, disk, start, residue>>
      PROVE  [Batches!Next]_(Batches!vars)
  <2>1. AbstractFiles' = AbstractFiles /\ AbstractPhase = "open"
    BY <1>3, <1>4, <1>8
  <2>2. AbstractPhase' = "failed"
    BY <1>8 DEF AbstractPhase
  <2>3. QED
    BY <1>6, <1>7, <1>8, <2>1, <2>2 DEF Batches!Next, Batches!Fail
<1>9. ASSUME NEW plan \in Plans, Apply(plan) PROVE [Batches!Next]_(Batches!vars)
  <2>1. pc = "idle" /\ UNCHANGED <<savepoint, disk, start, residue>>
        /\ pc' \in {"failed", "preflight"}
    BY <1>9 DEF Apply
  <2>2. CASE pc' = "failed"
    BY <1>8, <2>1, <2>2
  <2>3. CASE pc' = "preflight"
    BY <1>2, <1>3, <1>4, <1>5, <2>1, <2>3
  <2>4. QED
    BY <2>1, <2>2, <2>3
<1>10. CASE PreflightRefuses
  BY <1>8, <1>10 DEF PreflightRefuses
<1>11. CASE \/ NothingToDo \/ PreflightPasses \/ Recheck \/ RecheckFails \/ Ensure
            \/ Stage \/ StageFails \/ VerifyThenNext \/ VerifyFails
  <2>1. /\ UNCHANGED <<savepoint, disk, start, residue>>
        /\ pc \notin {"failed", "rollback", "rollbackAct", "rolledback", "committed"}
        /\ pc' \notin {"failed", "rollback", "rollbackAct", "rolledback", "committed"}
    BY <1>11 DEF NothingToDo, PreflightPasses, Recheck, RecheckFails, Ensure, Stage,
       StageFails, VerifyThenNext, VerifyFails, Abort
  <2>2. QED
    BY <1>2, <1>3, <1>4, <1>5, <2>1
<1>12. CASE Act \/ ActFails
  <2>1. /\ pc = "act" /\ pc' \in {"verify", "unwind"} /\ Arm /\ (Landed \/ UNCHANGED disk)
        /\ UNCHANGED <<start, residue>>
    BY <1>12 DEF Act, ActFails, Abort
  <2>2. AbstractFiles' = AbstractFiles
    BY <2>1, ArmHidden
  <2>3. QED
    BY <1>2, <1>4, <1>5, <2>1, <2>2
<1>13. CASE VerifyThenMerge
  <2>1. pc = "verify" /\ pc' = "idle" /\ UNCHANGED <<start, residue>>
    BY <1>13 DEF VerifyThenMerge
  <2>2. QED
    BY <1>4, <1>5, <1>7, <2>1 DEF Batches!Next, Batches!Commit
<1>14. CASE UnwindEnds
  <2>1. /\ pc = "unwind" /\ pc' = "failed" /\ todo = {} /\ residue' = report
        /\ savepoint' = NoEntries /\ UNCHANGED <<disk, start>>
    BY <1>14 DEF UnwindEnds
  <2>2. AbstractPhase = "open" /\ AbstractPhase' = "failed" /\ AbstractLost' = report.unresolved
    BY <1>4, <2>1 DEF AbstractPhase, AbstractLost
  <2>3. ASSUME NEW p \in Paths \ report.unresolved PROVE AbstractFiles'[p] = AbstractFiles[p]
    <3>1. AbstractFiles'[p] = disk[p] /\ disk[p] = Held(p)
      BY <1>1, <2>1, <2>3 DEF AbstractFiles, NoEntries, LedgersExplainDisk, Explained,
         UndoneMatchesDisk, Unwinding
    <3>2. AbstractFiles[p] = disk[p] \/ AbstractFiles[p] = Held(p)
      BY <1>1, <2>3, AbstractType DEF LedgersExplainDisk, Explained, OriginalsKept
    <3>3. QED
      BY <3>1, <3>2
  <2>4. QED
    BY <1>7, <2>1, <2>2, <2>3 DEF Batches!Next, Batches!Fail
<1>15. CASE RollbackBegins
  <2>1. /\ pc \in {"idle", "failed"} /\ pc' = "rollback" /\ report' = NothingDone
        /\ UNCHANGED <<savepoint, disk, start, residue>>
    BY <1>15 DEF RollbackBegins
  <2>2. /\ AbstractPhase \in {"open", "failed"} /\ AbstractPhase' = "undoing"
        /\ AbstractLost' = AbstractLost
    BY <2>1 DEF AbstractPhase, AbstractLost, NothingDone
  <2>3. QED
    BY <1>3, <2>1, <2>2 DEF Batches!Next, Batches!GiveUp
<1>16. ASSUME NEW p \in Paths, OursToRevert(p) PROVE [Batches!Next]_(Batches!vars)
  <2>1. /\ UNCHANGED <<savepoint, disk, start, residue, report>>
        /\ \/ pc = "unwind" /\ pc' = "unwindAct"
           \/ pc = "rollback" /\ pc' = "rollbackAct"
    BY <1>16 DEF OursToRevert, Unwinding
  <2>2. AbstractPhase' = AbstractPhase /\ AbstractLost' = AbstractLost
    BY <2>1 DEF AbstractPhase, AbstractLost
  <2>3. QED
    BY <1>2, <1>3, <2>1, <2>2
<1>17. ASSUME NEW p \in Paths,
              \/ AlreadyRestored(p) \/ LeftAlone(p) \/ PutBack(p)
              \/ PutBackUnlinkFails(p) \/ PutBackWriteFails(p)
       PROVE  [Batches!Next]_(Batches!vars)
  <2>1. /\ p \in todo /\ UNCHANGED <<savepoint, start, residue>>
        /\ \/ Unwinding /\ pc' = "unwind"
           \/ ~Unwinding /\ pc \in {"rollback", "rollbackAct"} /\ pc' = "rollback"
    BY <1>17 DEF AlreadyRestored, LeftAlone, PutBack, PutBackUnlinkFails,
       PutBackWriteFails, Settle, Newest, Unwinding
  <2>2. disk' \in {disk, [disk EXCEPT ![p] = EntryOf(p).original]}
    BY <1>17 DEF AlreadyRestored, LeftAlone, PutBack, PutBackUnlinkFails, PutBackWriteFails
  <2>3. \/ AlreadyRestored(p) /\ disk' = disk /\ report'.unresolved = report.unresolved
        \/ /\ PutBack(p) /\ disk' = [disk EXCEPT ![p] = EntryOf(p).original]
           /\ report'.unresolved = report.unresolved
        \/ report'.unresolved = report.unresolved \cup {p}
    BY <1>1, <1>17 DEF AlreadyRestored, LeftAlone, PutBack, PutBackUnlinkFails,
       PutBackWriteFails, Settle, Report
  <2>4. CASE Unwinding
    <3>1. p \in Armed
      BY <2>1, <2>4 DEF LedgersExplainDisk, Explained, TodoRecorded
    <3>2. AbstractFiles' = AbstractFiles
      BY <1>1, <2>1, <2>2, <3>1 DEF AbstractFiles, Armed, TypeOK
    <3>3. QED
      BY <1>2, <1>4, <1>5, <2>1, <2>4, <3>2 DEF Unwinding
  <2>5. CASE ~Unwinding
    <3>1. /\ savepoint = NoEntries /\ EntryOf(p).original = start[p]
          /\ pc \in {"rollback", "rollbackAct"}
      BY <1>1, <2>1, <2>5 DEF LedgersExplainDisk, Explained, SavepointScoped, TodoRecorded,
         OriginalsKept, EntryOf, AtMutation, Unwinding, Rewinding
    <3>2. AbstractFiles = disk /\ AbstractFiles' = disk'
      BY <1>1, <2>1, <3>1 DEF AbstractFiles, NoEntries, TypeOK
    <3>3. /\ AbstractPhase = "undoing" /\ AbstractPhase' = "undoing"
          /\ AbstractLost = residue.unresolved \cup report.unresolved
          /\ AbstractLost' = residue.unresolved \cup report'.unresolved
      BY <2>1, <2>5, <3>1 DEF AbstractPhase, AbstractLost
    <3>4. CASE disk' = disk /\ report'.unresolved = report.unresolved
      BY <1>2, <2>1, <3>2, <3>3, <3>4
    <3>5. CASE /\ disk' = [disk EXCEPT ![p] = EntryOf(p).original]
               /\ report'.unresolved = report.unresolved
      BY <2>1, <3>1, <3>2, <3>3, <3>5 DEF Batches!Next, Batches!Restore
    <3>6. CASE report'.unresolved = report.unresolved \cup {p}
      <4>1. AbstractLost' = AbstractLost \cup {p}
        BY <3>3, <3>6
      <4>2. AbstractFiles' \in {AbstractFiles, [AbstractFiles EXCEPT ![p] = start[p]]}
        BY <2>2, <3>1, <3>2
      <4>3. QED
        BY <2>1, <3>3, <4>1, <4>2 DEF Batches!Next, Batches!Strand
    <3>7. QED
      BY <2>3, <3>4, <3>5, <3>6
  <2>6. QED
    BY <2>4, <2>5
<1>18. CASE RollbackEnds
  <2>1. /\ pc = "rollback" /\ pc' = "rolledback" /\ todo = {}
        /\ report' = MergeReports(residue, report)
        /\ UNCHANGED <<savepoint, disk, start, residue>>
    BY <1>18 DEF RollbackEnds
  <2>2. report'.unresolved = residue.unresolved \cup report.unresolved
    BY <2>1 DEF MergeReports
  <2>3. /\ AbstractPhase = "undoing" /\ AbstractPhase' = "undone"
        /\ AbstractLost = residue.unresolved \cup report.unresolved
        /\ AbstractLost' = AbstractLost
    BY <2>1, <2>2 DEF AbstractPhase, AbstractLost
  <2>4. AbstractFiles = disk
    BY <1>1, <2>1 DEF AbstractFiles, NoEntries, TypeOK, LedgersExplainDisk, Explained,
       SavepointScoped, AtMutation, Unwinding
  <2>5. \A p \in Paths \ AbstractLost : AbstractFiles[p] = start[p]
    BY <1>1, <2>1, <2>3, <2>4 DEF LedgersExplainDisk, Explained, UndoneMatchesDisk, Rewinding
  <2>6. QED
    BY <1>3, <2>1, <2>3, <2>5 DEF Batches!Next, Batches!Undone
<1>19. CASE RunSucceeds
  <2>1. pc = "idle" /\ pc' = "committed" /\ UNCHANGED <<savepoint, disk, start, residue, report>>
    BY <1>19 DEF RunSucceeds
  <2>2. /\ AbstractPhase = "open" /\ AbstractPhase' = "done"
        /\ AbstractLost' = AbstractLost
    BY <2>1 DEF AbstractPhase, AbstractLost
  <2>3. QED
    BY <1>3, <2>1, <2>2 DEF Batches!Next, Batches!Succeed
<1>20. CASE UNCHANGED vars
  BY <1>2, <1>20 DEF vars, AbstractFiles, AbstractLost, AbstractPhase
<1> HIDE DEF Stutters
<1>21. QED
  BY <1>9, <1>10, <1>11, <1>12, <1>13, <1>14, <1>15, <1>16, <1>17, <1>18, <1>19, <1>20
     DEF Next, Run, Applying, Undoing

(* With no other program at work a batch takes effect as a whole or not at  *)
(* all, and a rollback returns every file to where the run found it, but    *)
(* for what is reported: whichever system calls fail, having taken effect   *)
(* or not.                                                                  *)
THEOREM AtomicBatchesImplemented ==
    ASSUME MaxEdits = 0
    PROVE  Spec => ImplementsAtomicBatches
<1>1. Init => Batches!Init
  <2> SUFFICES ASSUME Init PROVE Batches!Init
    OBVIOUS
  <2>1. AbstractFiles = disk
    BY DEF Init, AbstractFiles, NoEntries
  <2>2. AbstractLost = {} /\ AbstractPhase = "open"
    BY DEF Init, AbstractLost, AbstractPhase, NothingDone
  <2>3. QED
    BY <2>1, <2>2 DEF Init, Batches!Init
<1>2. Init => Alone
  BY DEF Init, Alone
<1>3. LedgersExplainDisk /\ LedgersExplainDisk' /\ Alone /\ [Next]_vars
        => Alone' /\ [Batches!Next]_(Batches!vars)
  BY NextAlone, NextImplements DEF LedgersExplainDisk
<1>4. QED
  BY <1>1, <1>2, <1>3, LedgersInvariant, PTL DEF Spec, ImplementsAtomicBatches, Batches!Spec
=============================================================================
