---------------------------- MODULE OAuthSession ----------------------------
(* Browser login, credential resolution with its refresh, and logout:        *)
(* registry/oauth-session.ts, over the store of OAuthStore.  Several         *)
(* processes run these operations against one file; each await is a place    *)
(* where another process, the clock, a cancellation or a crash may come in.  *)
(*                                                                           *)
(* The authorization server and the registry answer as they please: a        *)
(* request once sent may be carried out at any time, or never.               *)
EXTENDS OAuthStore

CONSTANTS
    ReplayWindow,   \* REPLAY_WINDOW_MS
    RefreshAhead,   \* REFRESH_AHEAD_MS
    Backoff,        \* RETRY_BACKOFF_MS, rounded up
    Lifetime,       \* of an access token
    MaxTokens,      \* bound: rotations of one session
    MaxTime,        \* bound: the clock
    MaxOps,         \* bound: commands run
    MaxCrashes,     \* bound: processes that die
    MaxFaults       \* bound: saves that fail before the rename

ASSUME SessionAssumption ==
    /\ {ReplayWindow, RefreshAhead, Backoff, Lifetime} \subseteq Nat
    /\ MaxTokens \in Nat \ {0}
    /\ {MaxTime, MaxOps, MaxCrashes, MaxFaults} \subseteq Nat

VARIABLES
    now,            \* the clock
    issued,         \* per login, the highest token a process was given
    sent,           \* history: per token, how often and when first it was sent
    vouched,        \* history: tokens the registry has accepted
    revoked,        \* logins the registry has revoked
    spent           \* commands, crashes and failed saves so far

world == <<now, issued, sent, vouched, revoked, spent>>
vars == <<disk, holder, me, world>>

Tokens == Logins \X (1..MaxTokens)
TokenOf(s) == <<s.login, s.token>>

Goals == {"resolve", "login", "logout", "forget"}

\* Places outside the lock, and under it.
Outside == {"idle", "choosing", "configuring", "snapshotting", "authorizing",
            "locking"}
Inside == {"entered", "resolving", "fencing", "checking", "renaming",
           "dispatching", "asking", "sleeping", "verifyingLogin",
           "verifyingPending", "verifyingHeld", "settling", "rereading",
           "revoking", "revokingDead", "rereadingDead", "releasing"}
Outcomes == {"none", "absent", "credential", "signedIn", "confirmed",
             "forgotten", "failed"}

Nothing == [revision |-> 0, session |-> NoSession]

Idle == [pc |-> "idle", goal |-> "resolve", picked |-> Nothing,
         cur |-> Nothing, base |-> NoSession, draft |-> Nothing,
         resume |-> "idle", outcome |-> "none"]

NewSession(l, k, status) ==
    [login |-> l, token |-> k, expires |-> now + Lifetime, status |-> status,
     started |-> 0, attempts |-> 0]

\* A file left by an earlier login, or none.
Init ==
    /\ now = 0
    /\ \/ disk = Nothing /\ issued = [l \in Logins |-> 0] /\ vouched = {}
       \/ \E l \in Logins :
             /\ disk = [revision |-> 1, session |-> NewSession(l, 1, "ready")]
             /\ issued = [k \in Logins |-> IF k = l THEN 1 ELSE 0]
             /\ vouched = {<<l, 1>>}
    /\ holder = Nobody
    /\ me = [p \in Procs |-> Idle]
    /\ sent = [t \in Tokens |-> [times |-> 0, first |-> 0]]
    /\ revoked = {}
    /\ spent = [ops |-> 0, crashes |-> 0, faults |-> 0]

At(p, place) == me[p].pc = place
Goto(p, place) == me' = [me EXCEPT ![p].pc = place]
Leave(p, outcome) ==
    me' = [me EXCEPT ![p].pc = "releasing", ![p].outcome = outcome]
Fail(p) == Leave(p, "failed")

\* The login a session file is of.
LoginOn(snapshot) ==
    IF snapshot.session = NoSession THEN {} ELSE {snapshot.session.login}

-----------------------------------------------------------------------------
(* Before the lock *)

Start(p, goal) ==
    /\ At(p, "idle")
    /\ spent.ops < MaxOps
    /\ spent' = [spent EXCEPT !.ops = @ + 1]
    /\ me' = [me EXCEPT ![p] = [Idle EXCEPT !.goal = goal,
                 !.pc = IF goal = "login" THEN "configuring" ELSE "choosing"]]
    /\ UNCHANGED <<disk, holder, now, issued, sent, vouched, revoked>>

\* The session to use or to end is selected without the lock.
Choose(p) ==
    /\ At(p, "choosing")
    /\ me' = IF disk.session = NoSession
             THEN [me EXCEPT ![p].pc = "idle", ![p].outcome = "absent"]
             ELSE [me EXCEPT ![p].picked = disk,
                     ![p].pc = IF me[p].goal = "forget" THEN "locking"
                               ELSE "configuring"]
    /\ UNCHANGED <<disk, holder, world>>

\* fetchCliAuthConfig.
Configure(p) ==
    /\ At(p, "configuring")
    /\ Goto(p, IF me[p].goal = "login" THEN "snapshotting" ELSE "locking")
    /\ UNCHANGED <<disk, holder, world>>

\* beginCliLogin keeps what the file was when the login began.
TakeSnapshot(p) ==
    /\ At(p, "snapshotting")
    /\ me' = [me EXCEPT ![p].picked = disk, ![p].pc = "authorizing"]
    /\ UNCHANGED <<disk, holder, world>>

\* The device request, the user's approval and the poll that sees it.
Approve(p) ==
    /\ At(p, "authorizing")
    /\ \E l \in Logins :
          /\ issued[l] = 0
          /\ issued' = [issued EXCEPT ![l] = 1]
          /\ me' = [me EXCEPT ![p].pc = "locking",
                      ![p].cur = [revision |-> me[p].picked.revision,
                                  session |-> NewSession(l, 1, "ready")]]
    /\ UNCHANGED <<disk, holder, now, sent, vouched, revoked, spent>>

-----------------------------------------------------------------------------
(* Under the lock *)

\* A tombstone of the next generation.
Tombstone(snapshot) ==
    [revision |-> snapshot.revision + 1, session |-> NoSession]

\* Fault: a logout ends whatever session it finds.
WhateverIsThere(p) == disk.session # NoSession

\* sameSelectedSession: a renewal in between does not matter.
StillSelected(p) ==
    disk.session # NoSession /\ LoginOn(disk) = LoginOn(me[p].picked)

\* resolveRegistryCredential takes whatever session there is now.
EnterResolve(p) ==
    /\ At(p, "entered") /\ me[p].goal = "resolve"
    /\ IF disk.session = NoSession THEN Fail(p)
       ELSE me' = [me EXCEPT ![p].cur = disk, ![p].base = disk.session,
                             ![p].pc = "resolving"]
    /\ UNCHANGED <<disk, holder, world>>

\* completeCliLogin wants the file exactly as it was when the login began.
EnterLogin(p) ==
    /\ At(p, "entered") /\ me[p].goal = "login"
    /\ IF disk = me[p].picked THEN Goto(p, "verifyingLogin") ELSE Fail(p)
    /\ UNCHANGED <<disk, holder, world>>

\* logoutCliSession with localOnly: the file is all that goes.
EnterForget(p) ==
    /\ At(p, "entered") /\ me[p].goal = "forget"
    /\ IF StillSelected(p)
       THEN Saving(p, Tombstone(disk), "releasing", "forgotten")
       ELSE Fail(p)
    /\ UNCHANGED <<disk, holder, world>>

\* logoutCliSession: the session is resolved first.
EnterLogout(p) ==
    /\ At(p, "entered") /\ me[p].goal = "logout"
    /\ IF StillSelected(p)
       THEN me' = [me EXCEPT ![p].cur = disk, ![p].base = disk.session,
                             ![p].pc = "resolving"]
       ELSE Fail(p)
    /\ UNCHANGED <<disk, holder, world>>

Lasting(s) == s.expires > now + RefreshAhead

\* resolveHeld.
Resolve(p) ==
    LET s == me[p].cur.session IN
    /\ At(p, "resolving")
    /\ CASE s.status = "reauth" -> Fail(p)
         [] s.status = "pending" /\ Lasting(s) -> Goto(p, "verifyingPending")
         [] s.status = "ready" /\ Lasting(s) -> Goto(p, "verifyingHeld")
         [] OTHER -> Goto(p, "fencing")
    /\ UNCHANGED <<disk, holder, world>>

\* An unfinished refresh that may not be repeated any more.
Stale(s) ==
    /\ s.status = "uncertain"
    /\ \/ s.started > now
       \/ now - s.started >= ReplayWindow
       \/ s.attempts >= MaxAttempts

\* The record of a request about to be sent.
Fenced(s) ==
    [s EXCEPT !.status = "uncertain",
              !.started = IF s.status = "uncertain" THEN s.started ELSE now,
              !.attempts = IF s.status = "uncertain" THEN s.attempts + 1 ELSE 1]

\* Fault: the request is sent before its record is on disk.
FenceInMemory(p) ==
    LET s == me[p].cur.session IN
    /\ At(p, "fencing")
    /\ IF Stale(s) THEN Fail(p)
       ELSE me' = [me EXCEPT ![p].cur.session = Fenced(s),
                             ![p].pc = "dispatching"]
    /\ UNCHANGED <<disk, holder, world>>

\* The record is saved before each request of the loop of refreshHeld.
Fence(p) ==
    LET s == me[p].cur.session IN
    /\ At(p, "fencing")
    /\ IF Stale(s) THEN Fail(p)
       ELSE Saving(p, [revision |-> me[p].cur.revision + 1,
                       session |-> Fenced(s)], "dispatching", "none")
    /\ UNCHANGED <<disk, holder, world>>

\* Fault: the window is not looked at again.
DispatchUnchecked(p) ==
    LET s == me[p].cur.session IN
    /\ At(p, "dispatching")
    /\ sent' = [sent EXCEPT ![TokenOf(s)] =
           [times |-> @.times + 1,
            first |-> IF @.times = 0 THEN now ELSE @.first]]
    /\ Goto(p, "asking")
    /\ UNCHANGED <<disk, holder, now, issued, vouched, revoked, spent>>

\* The window is looked at again: the save may have taken long.
Dispatch(p) ==
    LET s == me[p].cur.session IN
    /\ At(p, "dispatching")
    /\ IF now - s.started >= ReplayWindow
       THEN Fail(p) /\ UNCHANGED sent
       ELSE /\ sent' = [sent EXCEPT ![TokenOf(s)] =
                  [times |-> @.times + 1,
                   first |-> IF @.times = 0 THEN now ELSE @.first]]
            /\ Goto(p, "asking")
    /\ UNCHANGED <<disk, holder, now, issued, vouched, revoked, spent>>

\* REFRESH_UNAVAILABLE: the access token in hand still serves while it lasts.
Unavailable(p) ==
    IF me[p].base.expires > now THEN Goto(p, "verifyingHeld") ELSE Fail(p)

\* Fault: a cancelled process drops the tokens it has just been given.
RotatedOrCancelled(p) ==
    LET s == me[p].cur.session IN
    /\ At(p, "asking")
    /\ s.token < MaxTokens
    /\ issued' = [issued EXCEPT ![s.login] =
                     IF @ > s.token THEN @ ELSE s.token + 1]
    /\ \/ Saving(p, [revision |-> me[p].cur.revision + 1,
                     session |-> NewSession(s.login, s.token + 1, "pending")],
                 "verifyingPending", "none")
       \/ Fail(p)
    /\ UNCHANGED <<disk, holder, now, sent, vouched, revoked, spent>>

\* Fault: the new tokens are saved as ready at once.
RotatedReady(p) ==
    LET s == me[p].cur.session IN
    /\ At(p, "asking")
    /\ s.token < MaxTokens
    /\ issued' = [issued EXCEPT ![s.login] =
                     IF @ > s.token THEN @ ELSE s.token + 1]
    /\ Saving(p, [revision |-> me[p].cur.revision + 1,
                  session |-> NewSession(s.login, s.token + 1, "ready")],
              "verifyingPending", "none")
    /\ UNCHANGED <<disk, holder, now, sent, vouched, revoked, spent>>

\* The server answers with the next tokens, a repeated request included; they
\* are saved whether or not the caller has cancelled.
Rotated(p) ==
    LET s == me[p].cur.session IN
    /\ At(p, "asking")
    /\ s.token < MaxTokens
    /\ issued' = [issued EXCEPT ![s.login] =
                     IF @ > s.token THEN @ ELSE s.token + 1]
    /\ Saving(p, [revision |-> me[p].cur.revision + 1,
                  session |-> NewSession(s.login, s.token + 1, "pending")],
              "verifyingPending", "none")
    /\ UNCHANGED <<disk, holder, now, sent, vouched, revoked, spent>>

\* invalid_grant.
Refused(p) ==
    LET s == me[p].cur.session IN
    /\ At(p, "asking")
    /\ Saving(p, [revision |-> me[p].cur.revision + 1,
                  session |-> [s EXCEPT !.status = "reauth", !.started = 0,
                                        !.attempts = 0]],
              "releasing", "failed")
    /\ UNCHANGED <<disk, holder, world>>

\* REFRESH_UNCERTAIN: an answer that says nothing.
Unclear(p) ==
    /\ At(p, "asking")
    /\ Unavailable(p)
    /\ UNCHANGED <<disk, holder, world>>

\* REFRESH_TRANSIENT: no answer, or one that asks for patience.
NotNow(p) ==
    LET s == me[p].cur.session IN
    /\ At(p, "asking")
    /\ IF s.attempts = MaxAttempts \/ now + Backoff >= s.started + ReplayWindow
       THEN Unavailable(p)
       ELSE Goto(p, "sleeping")
    /\ UNCHANGED <<disk, holder, world>>

Wake(p) ==
    /\ At(p, "sleeping")
    /\ Goto(p, "fencing")
    /\ UNCHANGED <<disk, holder, world>>

\* A credential that was asked for is handed out; one needed for a logout is
\* used, after one more look at the file.
Resolved(p) ==
    IF me[p].goal = "resolve" THEN Leave(p, "credential")
    ELSE Goto(p, "rereading")

\* The session a verification is about.
Verifying(p) == IF At(p, "verifyingHeld") THEN me[p].base ELSE me[p].cur.session

\* The registry accepts the access token, and names the expected user.
Verified(p) ==
    LET s == Verifying(p) IN
    /\ me[p].pc \in {"verifyingLogin", "verifyingPending", "verifyingHeld"}
    /\ s.login \notin revoked
    /\ vouched' = vouched \cup {TokenOf(s)}
    /\ CASE At(p, "verifyingLogin") ->
              Saving(p, [revision |-> me[p].picked.revision + 1, session |-> s],
                     "settling", "none")
         [] At(p, "verifyingPending") ->
              IF s.expires <= now THEN Unavailable(p)
              ELSE Saving(p, [revision |-> me[p].cur.revision + 1,
                              session |-> [s EXCEPT !.status = "ready"]],
                          "settling", "none")
         [] OTHER -> IF s.expires <= now THEN Fail(p) ELSE Resolved(p)
    /\ UNCHANGED <<disk, holder, now, issued, sent, revoked, spent>>

\* 401 for a session to be ended: it is revoked with the token first selected.
Unauthorized(p) ==
    /\ me[p].pc \in {"verifyingPending", "verifyingHeld"}
    /\ me[p].goal = "logout"
    /\ Goto(p, "revokingDead")
    /\ UNCHANGED <<disk, holder, world>>

\* After the verified session is on disk.
Settle(p) ==
    /\ At(p, "settling")
    /\ IF me[p].goal = "login" THEN Leave(p, "signedIn")
       ELSE IF me[p].cur.session.expires <= now THEN Unavailable(p)
       ELSE Resolved(p)
    /\ UNCHANGED <<disk, holder, world>>

\* A logout looks at the file again: before the revocation of a live session,
\* after that of a dead one.
Reread(p) ==
    /\ me[p].pc \in {"rereading", "rereadingDead"}
    /\ IF ~StillSelected(p) THEN Fail(p)
       ELSE IF At(p, "rereading")
       THEN me' = [me EXCEPT ![p].cur = disk, ![p].pc = "revoking"]
       ELSE Saving(p, Tombstone(disk), "releasing", "confirmed")
    /\ UNCHANGED <<disk, holder, world>>

\* Fault: the answer of the registry is not looked at.
RevokedMaybe(p) ==
    /\ me[p].pc \in {"revoking", "revokingDead"}
    /\ \/ revoked' = revoked \cup LoginOn(me[p].cur)
       \/ UNCHANGED revoked
    /\ IF At(p, "revokingDead") THEN Goto(p, "rereadingDead")
       ELSE Saving(p, Tombstone(me[p].cur), "releasing", "confirmed")
    /\ UNCHANGED <<disk, holder, now, issued, sent, vouched, spent>>

\* revokeCliSession succeeds.
Revoked(p) ==
    /\ me[p].pc \in {"revoking", "revokingDead"}
    /\ revoked' = revoked \cup LoginOn(me[p].cur)
    /\ IF At(p, "revokingDead") THEN Goto(p, "rereadingDead")
       ELSE Saving(p, Tombstone(me[p].cur), "releasing", "confirmed")
    /\ UNCHANGED <<disk, holder, now, issued, sent, vouched, spent>>

\* The registry revokes, and the answer is lost or the caller has cancelled.
RevokedUnheard(p) ==
    /\ me[p].pc \in {"revoking", "revokingDead"}
    /\ revoked' = revoked \cup LoginOn(me[p].cur)
    /\ Fail(p)
    /\ UNCHANGED <<disk, holder, now, issued, sent, vouched, spent>>

\* A call of the operation fails, is refused or is cancelled, and ends it: a
\* file that cannot be read, a configuration or an approval that does not
\* come, another user's profile, an aborted signal.
GiveUp(p) ==
    /\ \/ me[p].pc \in Outside \ {"idle"}
          /\ me' = [me EXCEPT ![p].pc = "idle", ![p].outcome = "failed"]
       \/ me[p].pc \in Inside \ {"checking", "renaming", "releasing"}
          /\ Fail(p)
    /\ UNCHANGED <<disk, holder, world>>

SaveFault(p) ==
    /\ spent.faults < MaxFaults
    /\ SaveFails(p)
    /\ spent' = [spent EXCEPT !.faults = @ + 1]
    /\ UNCHANGED <<now, issued, sent, vouched, revoked>>

\* The process dies; the operating system frees its lock.
Crash(p) ==
    /\ ~At(p, "idle")
    /\ spent.crashes < MaxCrashes
    /\ spent' = [spent EXCEPT !.crashes = @ + 1]
    /\ holder' = IF holder = p THEN Nobody ELSE holder
    /\ me' = [me EXCEPT ![p] = Idle]
    /\ UNCHANGED <<disk, now, issued, sent, vouched, revoked>>

Tick ==
    /\ now < MaxTime
    /\ now' = now + 1
    /\ UNCHANGED <<disk, holder, me, issued, sent, vouched, revoked, spent>>

Step(p) ==
    \/ StoreStep(p) /\ UNCHANGED world
    \/ Choose(p) \/ Configure(p) \/ TakeSnapshot(p) \/ Approve(p)
    \/ EnterResolve(p) \/ EnterLogin(p) \/ EnterForget(p) \/ EnterLogout(p)
    \/ Resolve(p) \/ Fence(p) \/ Dispatch(p)
    \/ Rotated(p) \/ Refused(p) \/ Unclear(p) \/ NotNow(p) \/ Wake(p)
    \/ Verified(p) \/ Unauthorized(p) \/ Settle(p)
    \/ Reread(p) \/ Revoked(p) \/ RevokedUnheard(p) \/ GiveUp(p)

Next ==
    \/ \E p \in Procs : Step(p) \/ SaveFault(p) \/ Crash(p)
    \/ \E p \in Procs, goal \in Goals : Start(p, goal)
    \/ Tick

Spec == Init /\ [][Next]_vars

\* Every request has a deadline, so a process that lives goes on.
FairSpec == Spec /\ \A p \in Procs : WF_vars(Step(p))

-----------------------------------------------------------------------------

Record == [pc : Outside \cup Inside, goal : Goals, picked : Snapshot,
           cur : Snapshot, base : Session \cup {NoSession}, draft : Snapshot,
           resume : Outside \cup Inside, outcome : Outcomes]

\* Every variable holds a value of its kind.
TypeOK ==
    /\ disk \in Snapshot
    /\ holder \in Procs \cup {Nobody}
    /\ me \in [Procs -> Record]
    /\ now \in Nat
    /\ issued \in [Logins -> 0..MaxTokens]
    /\ sent \in [Tokens -> [times : Nat, first : Nat]]
    /\ vouched \subseteq Tokens
    /\ revoked \subseteq Logins
    /\ spent \in [ops : Nat, crashes : Nat, faults : Nat]

\* A refresh token that was ever sent is never on disk as if it had not been:
\* whatever happens after the request left, the next process finds the record
\* of it (oauth-session.ts:414, the fence saved before the exchange).
SentIsFenced ==
    \A t \in Tokens :
        /\ sent[t].times > 0
        /\ disk.session # NoSession
        /\ TokenOf(disk.session) = t
        => disk.session.status \in {"uncertain", "reauth"}

\* A refresh token is sent at most MAX_REFRESH_ATTEMPTS times, by all
\* processes together, crashes in between included.
ReplaysCounted == \A t \in Tokens : sent[t].times <= MaxAttempts

\* No refresh token is sent when the replay window of its first sending is
\* over, whichever process sent it first.
ReplayedInWindow ==
    [][\A t \in Tokens :
          sent'[t].times > sent[t].times /\ sent[t].times > 0
          => now < sent[t].first + ReplayWindow]_vars

\* A session is ready only with tokens the registry has accepted
\* (oauth-store.ts:81, "durable but unusable until registry identity is
\* verified").
ReadyIsVouched ==
    disk.session # NoSession /\ disk.session.status = "ready"
    => TokenOf(disk.session) \in vouched

\* Tokens a process was given by a refresh are not lost: unless a save failed
\* or a process died, they are on disk or about to be written, a cancelled
\* command included.
RotationKept ==
    spent.faults = 0 /\ spent.crashes = 0 /\ disk.session # NoSession
    => LET l == disk.session.login IN
       \/ disk.session.token >= issued[l]
       \/ \E p \in Procs : /\ me[p].pc \in {"checking", "renaming"}
                           /\ LoginOn(me[p].draft) = {l}
                           /\ me[p].draft.session.token = issued[l]

\* Of a logout that reports the session as revoked, the session is revoked at
\* the registry and never comes back to the file.
ConfirmedIsOver ==
    \A p \in Procs :
        At(p, "idle") /\ me[p].outcome = "confirmed"
        => /\ LoginOn(me[p].picked) \subseteq revoked
           /\ LoginOn(me[p].picked) \cap LoginOn(disk) = {}

\* A session is removed or replaced only by a process that selected that very
\* session: never one that another process has put there in the meantime.
OnlySelectedReplaced ==
    [][\A l \in Logins :
          l \in LoginOn(disk) /\ l \notin LoginOn(disk')
          => \E p \in Procs : /\ At(p, "renaming") /\ me'[p] # me[p]
                              /\ LoginOn(me[p].picked) = {l}]_vars

\* The two steps of a save under the lock, and all operations of all
\* processes, are steps of the life of one session file.
Lifecycle == INSTANCE SessionLifecycle

ImplementsLifecycle == Lifecycle!Spec

\* However operations end, the lock comes free.
LockComesFree == []<>(holder = Nobody)
=============================================================================
