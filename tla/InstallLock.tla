---------------------------- MODULE InstallLock ----------------------------
(* The advisory lock of install/lockfile-guard.ts: one file per project (and *)
(* one per adapter being replaced), created exclusively, holding the pid of  *)
(* its creator.  A process that finds the file reads the pid, and if that    *)
(* process is dead removes the file and tries once more.  Every system call  *)
(* is a step; processes may die between any two of them.                     *)
(*                                                                           *)
(* A process is one life of a program, so pids are not reused.               *)
EXTENDS Naturals, FiniteSets

CONSTANTS
    Procs,          \* the processes that want the lock
    NoFile,         \* the path is free
    NoPid,         \* no pid was read
    CrashPoints,    \* the places where a process may die
    MaxCrashes      \* bound: processes that die

LockPlaces == {"out", "writing", "held", "reading", "probing", "unlinking",
           "retrying", "refused", "dead"}

ASSUME LockAssumption ==
    /\ NoFile \notin [by : Procs, written : BOOLEAN]
    /\ NoPid \notin Procs
    /\ CrashPoints \subseteq LockPlaces \ {"dead"}
    /\ MaxCrashes \in Nat

VARIABLES
    file,           \* the lock file: who created it, and whether its pid is in
    pc,             \* where each process is
    heldPid,        \* the pid each process has read from the file of another
    crashes,        \* processes that have died
    overlap,        \* history: two processes were removing stale locks at once
    outdated        \* history: a dead pid was acted on that is not the file's

lockVars == <<file, pc, heldPid, crashes, overlap, outdated>>

history == <<overlap, outdated>>

Alive(p) == pc[p] # "dead"
Goto(p, place) == pc' = [pc EXCEPT ![p] = place]

LockInit ==
    /\ file = NoFile
    /\ pc = [p \in Procs |-> "out"]
    /\ heldPid = [p \in Procs |-> NoPid]
    /\ crashes = 0
    /\ overlap = FALSE
    /\ outdated = FALSE

\* openSync(path, 'wx'): exclusive creation, still empty.
Create(p) ==
    /\ file = NoFile
    /\ file' = [by |-> p, written |-> FALSE]
    /\ Goto(p, "writing")

TryCreate(p) ==
    /\ pc[p] = "out"
    /\ \/ Create(p)
       \/ file # NoFile /\ Goto(p, "reading") /\ UNCHANGED file
    /\ UNCHANGED <<heldPid, crashes, history>>

\* The pid goes to the file this process opened, whatever is at the path now.
WritePid(p) ==
    /\ pc[p] = "writing"
    /\ file' = IF file # NoFile /\ file.by = p
               THEN [file EXCEPT !.written = TRUE] ELSE file
    /\ Goto(p, "held")
    /\ UNCHANGED <<heldPid, crashes, history>>

\* What readHeldPid returns: null for a missing file and for an empty one.
Found == IF file # NoFile /\ file.written THEN file.by ELSE NoPid

ReadHeld(p) ==
    /\ pc[p] = "reading"
    /\ heldPid' = [heldPid EXCEPT ![p] = Found]
    /\ Goto(p, IF Found = NoPid THEN "refused" ELSE "probing")
    /\ UNCHANGED <<file, crashes, history>>

\* Fault: any error of the probe counts as dead.
ProbedDead(p) == p # NoPid

\* Only ESRCH says that the process is dead.
Dead(p) == p # NoPid /\ ~Alive(p)

Cleaning(q) == pc[q] = "unlinking"

\* The pid may have been read long ago: the file can be another's by now.
Probe(p) ==
    LET stale == Dead(heldPid[p])
        there == file # NoFile /\ file.by = heldPid[p]
    IN
    /\ pc[p] = "probing"
    /\ Goto(p, IF stale THEN "unlinking" ELSE "refused")
    /\ heldPid' = [heldPid EXCEPT ![p] = NoPid]
    /\ overlap' = (overlap \/ (stale /\ \E q \in Procs : Cleaning(q)))
    /\ outdated' = (outdated \/ (stale /\ ~there))
    /\ UNCHANGED <<file, crashes>>

\* Fault: the stale lock is left for the second attempt to overcome.
UnlinkForgotten(p) ==
    /\ pc[p] = "unlinking"
    /\ Goto(p, "retrying")
    /\ UNCHANGED <<file, heldPid, crashes, history>>

\* The path is removed, whoever's file it is by now.
Unlink(p) ==
    /\ pc[p] = "unlinking"
    /\ file' = NoFile
    /\ Goto(p, "retrying")
    /\ UNCHANGED <<heldPid, crashes, history>>

\* Fault: the second attempt opens the file even if it is there.
RetryNotExclusive(p) ==
    /\ pc[p] = "retrying"
    /\ file' = [by |-> p, written |-> FALSE]
    /\ Goto(p, "writing")
    /\ UNCHANGED <<heldPid, crashes, history>>

Retry(p) ==
    /\ pc[p] = "retrying"
    /\ \/ Create(p)
       \/ file # NoFile /\ Goto(p, "refused") /\ UNCHANGED file
    /\ UNCHANGED <<heldPid, crashes, history>>

\* The run is told who holds the lock; the user runs the command again.
StartOver(p) ==
    /\ pc[p] = "refused"
    /\ Goto(p, "out")
    /\ UNCHANGED <<file, heldPid, crashes, history>>

\* rm of the path, whoever's file it is by now.
Release(p) ==
    /\ pc[p] = "held"
    /\ file' = NoFile
    /\ Goto(p, "out")
    /\ UNCHANGED <<heldPid, crashes, history>>

\* The process ends, killed or by itself; a lock it holds stays behind.
Crash(p) ==
    /\ pc[p] \in CrashPoints
    /\ crashes < MaxCrashes
    /\ crashes' = crashes + 1
    /\ Goto(p, "dead")
    /\ heldPid' = [heldPid EXCEPT ![p] = NoPid]
    /\ UNCHANGED <<file, history>>

LockStep(p) == \/ TryCreate(p) \/ WritePid(p) \/ ReadHeld(p) \/ Probe(p)
           \/ Unlink(p) \/ Retry(p) \/ StartOver(p) \/ Release(p)

LockNext == \E p \in Procs : LockStep(p) \/ Crash(p)

LockSpec == LockInit /\ [][LockNext]_lockVars

\* A process that lives goes on, and its user tries again.
LockFairSpec == LockSpec /\ \A p \in Procs : WF_lockVars(LockStep(p))

-----------------------------------------------------------------------------

\* Every variable holds a value of its kind.
LockTypeOK ==
    /\ file \in [by : Procs, written : BOOLEAN] \cup {NoFile}
    /\ pc \in [Procs -> LockPlaces]
    /\ heldPid \in [Procs -> Procs \cup {NoPid}]
    /\ crashes \in Nat
    /\ overlap \in BOOLEAN
    /\ outdated \in BOOLEAN

Holding(p) == pc[p] \in {"writing", "held"}

\* At most one live process is inside a run at a time.  lockfile-guard.ts:99
\* says it of the takeover of a stale lock: "the retry must preserve the
\* O_CREAT|O_EXCL invariant so two processes that both observe the stale pid
\* can't both acquire".
Exclusive == \A p, q \in Procs : Holding(p) /\ Holding(q) => p = q

\* Two schedules alone let two processes in: two removals of a stale lock at
\* once, and a removal on the word of a pid that is not the file's any more.
\* But for those the lock is exclusive, wherever processes die.
Raced == overlap \/ outdated

ExclusiveUnlessRaced == ~Raced => Exclusive

\* The lock of a process that lives is not taken away, under the same
\* condition: whoever is inside finds its own file at the path.
HolderOwnsFile ==
    ~Raced => \A p \in Procs : Holding(p) => file # NoFile /\ file.by = p

\* A lock whose holder has died does not stay for ever.  lockfile-guard.ts:13:
\* "if the holding process is dead the lock is treated as stale and retried".
StaleLockGoes == []<>(file = NoFile \/ Alive(file.by))

\* The lock of a holder that died after writing its pid does go, for as many
\* processes as come upon it at once.
WrittenStaleLockGoes ==
    (file # NoFile /\ file.written /\ ~Alive(file.by))
    ~> (file = NoFile \/ Alive(file.by))
=============================================================================
