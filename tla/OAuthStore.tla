----------------------------- MODULE OAuthStore -----------------------------
(* The session file of one registry origin and its lock: registry/           *)
(* oauth-store.ts.  The file holds a session or, after a logout, a tombstone *)
(* that keeps the generation number.  A save reads the file, compares the    *)
(* generation, checks the transition and renames a new file over it; the     *)
(* comparison and the rename are two steps, made one by the SQLite lock.     *)
(*                                                                           *)
(* A process is what it has in hand and the place it has reached.            *)
EXTENDS Naturals

CONSTANTS
    Procs,          \* command line processes of one user
    Nobody,         \* the lock is free
    Logins,         \* completed browser logins; each is a session of its own
    NoSession,      \* no file, or a tombstone
    MaxAttempts     \* MAX_REFRESH_ATTEMPTS

VARIABLES
    disk,           \* the file: its generation (0: none) and its session
    holder,         \* who holds the lock
    me              \* per process: what it does and what it has in hand

Statuses == {"ready", "uncertain", "pending", "reauth"}

\* The tokens of a session are numbered by its rotations; the access and the
\* refresh token of one number are issued together.
Session == [login : Logins, token : Nat, expires : Nat, status : Statuses,
            started : Nat, attempts : 0..MaxAttempts]

ASSUME StoreAssumption ==
    /\ Nobody \notin Procs
    /\ NoSession \notin Session
    /\ MaxAttempts \in Nat \ {0}

Snapshot == [revision : Nat, session : Session \cup {NoSession}]

\* validateTransition, and the range of refresh_attempts in validateSession.
TransitionAllowed(current, next) ==
    /\ next.status = "pending" =>
           /\ current # NoSession
           /\ current.status = "uncertain"
           /\ current.login = next.login
    /\ next.status = "uncertain" =>
           /\ current # NoSession
           /\ current.status # "reauth"
           /\ next.attempts \in 1..MaxAttempts
           /\ IF current.status = "uncertain"
              THEN /\ next.started = current.started
                   /\ next.attempts = current.attempts + 1
              ELSE next.attempts = 1

-----------------------------------------------------------------------------

\* Fault: the lock is taken without looking.
LockShared(p) ==
    /\ me[p].pc = "locking"
    /\ holder' = p
    /\ me' = [me EXCEPT ![p].pc = "entered"]
    /\ UNCHANGED disk

\* BEGIN IMMEDIATE.
Lock(p) ==
    /\ me[p].pc = "locking"
    /\ holder = Nobody
    /\ holder' = p
    /\ me' = [me EXCEPT ![p].pc = "entered"]
    /\ UNCHANGED disk

\* The lock stayed busy until the deadline.
LockTimeout(p) ==
    /\ me[p].pc = "locking"
    /\ holder # Nobody
    /\ me' = [me EXCEPT ![p].pc = "idle", ![p].outcome = "failed"]
    /\ UNCHANGED <<disk, holder>>

\* A save is begun: what it will write, where the process goes on after it,
\* and the outcome if that is its end.
Saving(p, snapshot, resume, outcome) ==
    me' = [me EXCEPT ![p].pc = "checking", ![p].draft = snapshot,
                     ![p].resume = resume, ![p].outcome = outcome]

\* The file must still be the one the draft was made from.
Acceptable(p) ==
    LET draft == me[p].draft IN
    /\ draft.revision = disk.revision + 1
    /\ draft.session # NoSession => TransitionAllowed(disk.session, draft.session)

\* readSessionFile and the comparisons; the temporary file is written.
CheckSave(p) ==
    /\ me[p].pc = "checking"
    /\ me' = IF Acceptable(p) THEN [me EXCEPT ![p].pc = "renaming"]
             ELSE [me EXCEPT ![p].pc = "releasing", ![p].outcome = "failed"]
    /\ UNCHANGED <<disk, holder>>

\* Reading the file or writing the temporary one fails.
SaveFails(p) ==
    /\ me[p].pc \in {"checking", "renaming"}
    /\ me' = [me EXCEPT ![p].pc = "releasing", ![p].outcome = "failed"]
    /\ UNCHANGED <<disk, holder>>

\* The rename; an inspection or a sync that fails after it makes the save
\* fail although the file is the new one.
Rename(p) ==
    /\ me[p].pc = "renaming"
    /\ disk' = me[p].draft
    /\ \/ me' = [me EXCEPT ![p].pc = me[p].resume, ![p].cur = me[p].draft]
       \/ me' = [me EXCEPT ![p].pc = "releasing", ![p].outcome = "failed"]
    /\ UNCHANGED holder

\* Fault: an operation that failed keeps the lock.
ReleaseOnSuccess(p) ==
    /\ me[p].pc = "releasing"
    /\ holder' = IF me[p].outcome = "failed" THEN holder ELSE Nobody
    /\ me' = [me EXCEPT ![p].pc = "idle"]
    /\ UNCHANGED disk

\* COMMIT; its failure replaces the outcome, and closing frees the lock.
Release(p) ==
    /\ me[p].pc = "releasing"
    /\ holder' = Nobody
    /\ \/ me' = [me EXCEPT ![p].pc = "idle"]
       \/ me' = [me EXCEPT ![p].pc = "idle", ![p].outcome = "failed"]
    /\ UNCHANGED disk

StoreStep(p) ==
    Lock(p) \/ LockTimeout(p) \/ CheckSave(p) \/ Rename(p) \/ Release(p)
=============================================================================
