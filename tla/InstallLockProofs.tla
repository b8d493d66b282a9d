------------------------- MODULE InstallLockProofs -------------------------
(* The lock of InstallLock is exclusive for any processes and any number of *)
(* deaths, as long as no two of them remove a stale lock at once and none   *)
(* acts on the pid of a lock that has gone meanwhile.                       *)
EXTENDS InstallLock, TLAPS

\* Until a removal has been raced: whoever is inside owns the file, and whoever
\* is about to remove it is alone and removes the file of the dead.
Guarded ==
    ~Raced =>
       /\ \A p \in Procs : Holding(p) => file # NoFile /\ file.by = p
       /\ \A p \in Procs : Cleaning(p) => file # NoFile /\ pc[file.by] = "dead"
       /\ \A p, q \in Procs : Cleaning(p) /\ Cleaning(q) => p = q

(* Each step of a process keeps the types. *)
LEMMA StepType ==
    ASSUME LockTypeOK, NEW p \in Procs, LockStep(p) \/ Crash(p)
    PROVE  LockTypeOK'
<1> USE LockAssumption DEF LockTypeOK, LockPlaces, Goto
<1>1. CASE TryCreate(p) \/ Retry(p)
  <2>1. file' \in [by : Procs, written : BOOLEAN] \cup {NoFile}
    <3>1. CASE Create(p)
      <4>1. file' = [by |-> p, written |-> FALSE]
        BY <3>1 DEF Create
      <4>2. QED
        BY <4>1
    <3>2. CASE file' = file
      BY <3>2
    <3>3. QED
      BY <1>1, <3>1, <3>2 DEF TryCreate, Retry
  <2>2. pc' \in [Procs -> LockPlaces] /\ UNCHANGED <<heldPid, crashes, overlap, outdated>>
    BY <1>1 DEF TryCreate, Retry, Create, history
  <2>3. QED
    BY <2>1, <2>2
<1>2. CASE WritePid(p)
  <2>1. file' \in [by : Procs, written : BOOLEAN] \cup {NoFile}
    BY <1>2 DEF WritePid
  <2>2. QED
    BY <1>2, <2>1 DEF WritePid, history
<1>3. CASE ReadHeld(p)
  <2>1. Found \in Procs \cup {NoPid}
    BY DEF Found
  <2>2. heldPid' \in [Procs -> Procs \cup {NoPid}]
    BY <1>3, <2>1 DEF ReadHeld
  <2>3. QED
    BY <1>3, <2>2 DEF ReadHeld, history
<1>4. CASE Unlink(p) \/ Release(p) \/ StartOver(p)
  BY <1>4 DEF Unlink, Release, StartOver, history
<1>5. CASE Crash(p)
  BY <1>5 DEF Crash, history
<1>6. CASE Probe(p)
  <2>1. overlap' \in BOOLEAN /\ outdated' \in BOOLEAN
    BY <1>6 DEF Probe
  <2>2. pc' \in [Procs -> LockPlaces]
    BY <1>6 DEF Probe
  <2>3. QED
    BY <1>6, <2>1, <2>2 DEF Probe
<1>7. QED
  BY <1>1, <1>2, <1>3, <1>4, <1>5, <1>6 DEF LockStep

(* A lock is created on a free path only, where nobody is inside.           *)
LEMMA CreateGuarded ==
    ASSUME LockTypeOK, Guarded, NEW p \in Procs, Create(p), UNCHANGED history
    PROVE  Guarded'
<1> USE LockAssumption
<1>1. /\ file = NoFile /\ file'.by = p /\ file' # NoFile
      /\ pc' = [pc EXCEPT ![p] = "writing"]
  <2>1. file' \in [by : Procs, written : BOOLEAN]
    BY DEF Create
  <2>2. QED
    BY <2>1 DEF Create, Goto
<1>2. UNCHANGED Raced
  BY DEF Raced, history
<1>3. ~Raced => \A q \in Procs : ~Holding(q) /\ ~Cleaning(q)
  BY <1>1 DEF Guarded
<1>4. \A q \in Procs : ~Cleaning(q) => ~Cleaning(q)'
  BY <1>1 DEF Cleaning, LockTypeOK
<1>5. \A q \in Procs : ~Holding(q) /\ q # p => ~Holding(q)'
  BY <1>1 DEF Holding, LockTypeOK
<1>6. QED
  BY <1>1, <1>2, <1>3, <1>4, <1>5 DEF Guarded

(* A step that makes nobody hold or clean, and leaves the file alone.       *)
LEMMA RestGuarded ==
    ASSUME LockTypeOK, Guarded, NEW p \in Procs, UNCHANGED <<file, history>>,
           NEW place \in LockPlaces \ {"writing", "held", "unlinking"},
           Alive(p), Goto(p, place)
    PROVE  Guarded'
<1>1. \A q \in Procs : /\ Holding(q)' => Holding(q)
                       /\ Cleaning(q)' => Cleaning(q)
                       /\ pc[q] = "dead" => pc'[q] = "dead"
  BY DEF Goto, Holding, Cleaning, Alive, LockTypeOK
<1>2. file # NoFile => file.by \in Procs
  BY DEF LockTypeOK
<1>3. UNCHANGED Raced
  BY DEF Raced, history
<1>4. QED
  BY <1>1, <1>2, <1>3 DEF Guarded

LEMMA StepGuarded ==
    ASSUME LockTypeOK, Guarded, NEW p \in Procs, LockStep(p) \/ Crash(p)
    PROVE  Guarded'
<1> USE LockAssumption
<1>1. CASE TryCreate(p)
  <2>1. CASE Create(p)
    BY <1>1, <2>1, CreateGuarded DEF TryCreate
  <2>2. CASE ~Create(p)
    BY <1>1, <2>2, RestGuarded DEF TryCreate, Alive, LockPlaces
  <2>3. QED
    BY <2>1, <2>2
<1>2. CASE WritePid(p)
  <2>1. /\ pc[p] = "writing" /\ pc' = [pc EXCEPT ![p] = "held"] /\ Raced' = Raced
        /\ file # NoFile => file.by \in Procs
    BY <1>2 DEF WritePid, Goto, LockTypeOK, Raced, history
  <2>2. SUFFICES ASSUME ~Raced PROVE Guarded'
    BY <2>1 DEF Guarded
  <2>3. file # NoFile /\ file.by = p
    BY <2>1, <2>2 DEF Guarded, Holding
  <2>4. file' # NoFile /\ file'.by = p
    BY <1>2, <2>3 DEF WritePid, LockTypeOK
  <2>5. \A q \in Procs : ~Cleaning(q)
    BY <2>1, <2>2, <2>3 DEF Guarded
  <2>6. \A q \in Procs : ~Cleaning(q)' /\ (Holding(q)' => Holding(q))
    BY <2>1, <2>5 DEF Cleaning, Holding, LockTypeOK
  <2>7. \A q \in Procs : Holding(q) => q = p
    BY <2>2, <2>3 DEF Guarded
  <2>8. QED
    BY <2>4, <2>6, <2>7 DEF Guarded
<1>3. CASE ReadHeld(p)
  <2>1. PICK place \in {"refused", "probing"} : Goto(p, place)
    BY <1>3 DEF ReadHeld
  <2>2. Alive(p) /\ UNCHANGED <<file, history>>
    BY <1>3 DEF ReadHeld, Alive
  <2>3. QED
    BY <2>1, <2>2, RestGuarded DEF LockPlaces
<1>4. CASE Probe(p)
  <2>1. CASE ~Dead(heldPid[p])
    <3>1. overlap' = overlap /\ outdated' = outdated
      BY <1>4, <2>1 DEF Probe, LockTypeOK
    <3>2. QED
      BY <1>4, <2>1, <3>1, RestGuarded DEF Probe, Alive, LockPlaces, history
  <2>2. CASE Dead(heldPid[p])
    <3>1. /\ pc[p] = "probing" /\ pc' = [pc EXCEPT ![p] = "unlinking"] /\ file' = file
          /\ overlap' = (overlap \/ \E q \in Procs : Cleaning(q))
          /\ outdated' = (outdated \/ ~(file # NoFile /\ file.by = heldPid[p]))
      BY <1>4, <2>2 DEF Probe, Goto
    <3>2. SUFFICES ASSUME ~Raced' PROVE Guarded'
      BY DEF Guarded
    <3>3. ~Raced /\ file # NoFile /\ file.by = heldPid[p] /\ \A q \in Procs : ~Cleaning(q)
      BY <3>1, <3>2 DEF Raced
    <3>4. file.by \in Procs /\ pc[file.by] = "dead"
      BY <2>2, <3>3 DEF Dead, Alive, LockTypeOK
    <3>5. \A q \in Procs : /\ Holding(q)' => Holding(q)
                           /\ Cleaning(q)' => q = p
      BY <3>1, <3>3 DEF Holding, Cleaning, LockTypeOK
    <3>6. pc'[file.by] = "dead"
      BY <3>1, <3>4 DEF LockTypeOK
    <3>7. QED
      BY <3>1, <3>3, <3>5, <3>6 DEF Guarded
  <2>3. QED
    BY <2>1, <2>2
<1>5. CASE Unlink(p)
  <2>1. /\ Cleaning(p) /\ file' = NoFile /\ pc' = [pc EXCEPT ![p] = "retrying"]
        /\ Raced' = Raced
    BY <1>5 DEF Unlink, Goto, Cleaning, Raced, history
  <2>2. SUFFICES ASSUME ~Raced PROVE Guarded'
    BY <2>1 DEF Guarded
  <2>3. file # NoFile /\ pc[file.by] = "dead"
    BY <2>1, <2>2 DEF Guarded
  <2>4. \A q \in Procs : ~Holding(q)
    BY <2>2, <2>3 DEF Guarded, Holding
  <2>5. \A q \in Procs : Cleaning(q) => q = p
    BY <2>1, <2>2 DEF Guarded
  <2>6. \A q \in Procs : ~Holding(q)' /\ ~Cleaning(q)'
    BY <2>1, <2>4, <2>5 DEF Holding, Cleaning, LockTypeOK
  <2>7. QED
    BY <2>6 DEF Guarded
<1>6. CASE Retry(p)
  <2>1. CASE Create(p)
    BY <1>6, <2>1, CreateGuarded DEF Retry
  <2>2. CASE ~Create(p)
    BY <1>6, <2>2, RestGuarded DEF Retry, Alive, LockPlaces
  <2>3. QED
    BY <2>1, <2>2
<1>7. CASE StartOver(p)
  BY <1>7, RestGuarded DEF StartOver, Alive, LockPlaces
<1>8. CASE Release(p)
  <2>1. /\ pc[p] = "held" /\ file' = NoFile /\ pc' = [pc EXCEPT ![p] = "out"]
        /\ Raced' = Raced
    BY <1>8 DEF Release, Goto, Raced, history
  <2>2. SUFFICES ASSUME ~Raced PROVE Guarded'
    BY <2>1 DEF Guarded
  <2>3. file # NoFile /\ file.by = p
    BY <2>1, <2>2 DEF Guarded, Holding
  <2>4. \A q \in Procs : ~Cleaning(q) /\ (Holding(q) => q = p)
    BY <2>1, <2>2, <2>3 DEF Guarded
  <2>5. \A q \in Procs : ~Holding(q)' /\ ~Cleaning(q)'
    BY <2>1, <2>4 DEF Holding, Cleaning, LockTypeOK
  <2>6. QED
    BY <2>5 DEF Guarded
<1>9. CASE Crash(p)
  <2>1. Alive(p) /\ Goto(p, "dead") /\ UNCHANGED <<file, history>>
    BY <1>9 DEF Crash, Alive
  <2>2. QED
    BY <2>1, RestGuarded DEF LockPlaces
<1>10. QED
  BY <1>1, <1>2, <1>3, <1>4, <1>5, <1>6, <1>7, <1>8, <1>9 DEF LockStep

(* The types and the guard hold at every moment. *)
THEOREM LockInvariant == LockSpec => [](LockTypeOK /\ Guarded)
<1>1. LockInit => LockTypeOK /\ Guarded
  <2> SUFFICES ASSUME LockInit PROVE LockTypeOK /\ Guarded
    OBVIOUS
  <2>1. \A p \in Procs : pc[p] = "out"
    BY DEF LockInit
  <2>2. LockTypeOK
    BY DEF LockInit, LockTypeOK, LockPlaces
  <2>3. Guarded
    BY <2>1 DEF Guarded, Holding, Cleaning
  <2>4. QED
    BY <2>2, <2>3
<1>2. LockTypeOK /\ Guarded /\ [LockNext]_lockVars => LockTypeOK' /\ Guarded'
  <2> SUFFICES ASSUME LockTypeOK, Guarded, [LockNext]_lockVars PROVE LockTypeOK' /\ Guarded'
    OBVIOUS
  <2>1. CASE UNCHANGED lockVars
    BY <2>1 DEF lockVars, LockTypeOK, Guarded, Holding, Cleaning, Raced
  <2>2. CASE LockNext
    BY <2>2, StepType, StepGuarded DEF LockNext
  <2>3. QED
    BY <2>1, <2>2
<1>3. QED
  BY <1>1, <1>2, PTL DEF LockSpec

(* acquire and release keep the lock file and the places well typed. *)
THEOREM LockTypeCorrect == LockSpec => []LockTypeOK
BY LockInvariant, PTL

(* Whoever is inside a run owns the lock file, and no other process can     *)
(* take it away, but in the two races over a stale lock.                    *)
THEOREM HolderAlwaysOwnsFile == LockSpec => []HolderOwnsFile
<1>1. Guarded => HolderOwnsFile
  BY DEF Guarded, HolderOwnsFile
<1>2. QED
  BY <1>1, LockInvariant, PTL

(* Two live processes are never inside at once, but in the same two races:  *)
(* there is no third schedule that lets a second process in.                *)
THEOREM LockExclusive == LockSpec => []ExclusiveUnlessRaced
<1>1. Guarded => ExclusiveUnlessRaced
  BY DEF Guarded, ExclusiveUnlessRaced, Exclusive
<1>2. QED
  BY <1>1, LockInvariant, PTL
=============================================================================
