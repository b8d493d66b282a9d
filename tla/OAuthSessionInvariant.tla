----------------------- MODULE OAuthSessionInvariant -----------------------
(* What holds of the session file, of the history and of every process at   *)
(* every moment: the inductive invariant of OAuthSession.                   *)
EXTENDS OAuthSession

HasSession == disk.session # NoSession

\* Under the lock is who holds it, and nobody else.
LockHeld == \A p \in Procs : me[p].pc \in Inside <=> holder = p

\* The session on disk was given to somebody, and its refresh began in the past.
FileSound ==
    HasSession =>
        /\ disk.session.token \in 1..MaxTokens
        /\ disk.session.started <= now
        /\ issued[disk.session.login] >= 1

\* Every request was made with a token that was on disk, and the record of the
\* refresh in progress accounts for it.
SentRecorded ==
    \A t \in Tokens : sent[t].times > 0 =>
        /\ issued[t[1]] >= 1
        /\ HasSession /\ disk.session.login = t[1] => t[2] <= disk.session.token
        /\ HasSession /\ TokenOf(disk.session) = t /\ disk.session.status = "uncertain"
           => /\ sent[t].times <= disk.session.attempts
              /\ disk.session.started <= sent[t].first

----------------------------------------------------------------------------
(* A process under the lock.                                                *)

Saves == {"checking", "renaming"}

\* Places at which the session in hand is the one on disk.
WithSession == {"resolving", "fencing", "dispatching", "asking", "sleeping",
                "verifyingPending", "verifyingHeld", "settling", "rereading",
                "revoking", "revokingDead", "rereadingDead"}

Working(p) ==
    me[p].pc \in WithSession =>
        /\ me[p].cur = disk /\ HasSession
        /\ me[p].pc # "settling" => me[p].goal \in {"resolve", "logout"}
        /\ me[p].pc \in {"rereading", "revoking", "revokingDead", "rereadingDead"}
           => me[p].goal = "logout"
        /\ me[p].goal \in {"resolve", "logout"} => me[p].base # NoSession
        /\ me[p].goal # "forget"

\* How far the refresh of the session is.
Stage(p) ==
    /\ At(p, "fencing") => disk.session.status # "reauth"
    /\ me[p].pc \in {"dispatching", "asking", "sleeping"} => disk.session.status = "uncertain"
    /\ At(p, "verifyingPending") => disk.session.status = "pending"
    /\ At(p, "dispatching") => sent[TokenOf(disk.session)].times < disk.session.attempts
    /\ At(p, "rereadingDead") => LoginOn(me[p].picked) \subseteq revoked

\* A process that ends a session has selected it.
Chosen(p) ==
    me[p].goal \in {"logout", "forget"} /\ me[p].pc \in WithSession \cup Saves =>
        LoginOn(me[p].picked) = LoginOn(disk)

\* What a save may be about to write.
Ending(p) ==
    /\ me[p].goal \in {"logout", "forget"} /\ me[p].resume = "releasing"
    /\ HasSession /\ me[p].draft = Tombstone(disk)

SigningIn(p) ==
    /\ me[p].goal = "login" /\ me[p].resume = "settling"
    /\ disk = me[p].picked
    /\ me[p].draft = [revision |-> disk.revision + 1, session |-> me[p].cur.session]
    /\ TokenOf(me[p].cur.session) \in vouched

Renewing(p) ==
    /\ me[p].goal \in {"resolve", "logout"} /\ me[p].base # NoSession
    /\ HasSession
    /\ me[p].draft.revision = disk.revision + 1

FencingOff(p) ==
    /\ Renewing(p) /\ me[p].resume = "dispatching"
    /\ disk.session.status # "reauth"
    /\ \E since \in 0..now, n \in 1..MaxAttempts :
          /\ me[p].draft.session = [disk.session EXCEPT !.status = "uncertain",
                                       !.started = since, !.attempts = n]
          /\ IF disk.session.status = "uncertain"
             THEN since = disk.session.started /\ n = disk.session.attempts + 1
             ELSE n = 1

Rotating(p) ==
    /\ Renewing(p) /\ me[p].resume = "verifyingPending"
    /\ disk.session.status = "uncertain"
    /\ disk.session.token < MaxTokens
    /\ me[p].draft.session # NoSession
    /\ me[p].draft.session = [disk.session EXCEPT !.status = "pending", !.started = 0,
           !.attempts = 0, !.token = disk.session.token + 1,
           !.expires = me[p].draft.session.expires]

Rejecting(p) ==
    /\ Renewing(p) /\ me[p].resume = "releasing"
    /\ disk.session.status = "uncertain"
    /\ me[p].draft.session = [disk.session EXCEPT !.status = "reauth", !.started = 0,
                                 !.attempts = 0]

Vouching(p) ==
    /\ Renewing(p) /\ me[p].resume = "settling"
    /\ disk.session.status = "pending"
    /\ me[p].draft.session = [disk.session EXCEPT !.status = "ready"]
    /\ TokenOf(disk.session) \in vouched

Drafted(p) ==
    me[p].pc \in Saves =>
        \/ Ending(p) \/ SigningIn(p) \/ FencingOff(p) \/ Rotating(p) \/ Rejecting(p)
        \/ Vouching(p)

----------------------------------------------------------------------------
(* Logins.                                                                  *)

\* A login that has been completed and is not yet in the file.
Fresh(p) ==
    me[p].goal = "login"
    /\ me[p].pc \in {"locking", "entered", "verifyingLogin"} \cup Saves

\* Nobody has seen it.
FreshUnseen(p) ==
    Fresh(p) =>
        LET s == me[p].cur.session IN
        /\ s # NoSession
        /\ s.status = "ready" /\ s.token = 1 /\ s.started = 0
        /\ issued[s.login] = 1
        /\ s.login \notin LoginOn(disk)
        /\ \A k \in 1..MaxTokens : sent[<<s.login, k>>].times = 0
        /\ \A q \in Procs : s.login \notin LoginOn(me[q].picked)
        /\ \A q \in Procs \ {p} : Fresh(q) => me[q].cur.session.login # s.login

\* A login that somebody has selected was issued.
PickedIssued(p) == \A l \in LoginOn(me[p].picked) : issued[l] >= 1

\* A login verifies the session it was given only while the file is the one it
\* began with.
Unmoved(p) == At(p, "verifyingLogin") => me[p].goal = "login" /\ disk = me[p].picked

\* A base in hand is a session that was on disk.
BaseSound(p) == me[p].base # NoSession => me[p].base.token \in 1..MaxTokens

\* A confirmed logout: revoked, and once the tombstone is written, gone.
Confirming(p) ==
    me[p].outcome = "confirmed" =>
        /\ me[p].pc \in Saves \cup {"releasing", "idle"}
        /\ LoginOn(me[p].picked) \subseteq revoked
        /\ me[p].pc \in {"releasing", "idle"} => LoginOn(me[p].picked) \cap LoginOn(disk) = {}
        /\ me[p].pc \in Saves => me[p].draft.session = NoSession

AtPlace(p) ==
    /\ Working(p) /\ Stage(p) /\ Chosen(p) /\ Drafted(p)
    /\ Unmoved(p) /\ BaseSound(p) /\ Confirming(p)

Hand(p) == AtPlace(p) /\ FreshUnseen(p) /\ PickedIssued(p)

Faultless == spent.faults = 0 /\ spent.crashes = 0

\* Without faults, tokens a process was given are on disk or about to be.
TokensKept ==
    Faultless /\ HasSession =>
        \/ disk.session.token >= issued[disk.session.login]
        \/ \E p \in Procs : /\ me[p].pc \in Saves /\ Rotating(p)
                            /\ me[p].draft.session.token = issued[disk.session.login]

SessionInv ==
    /\ TypeOK /\ LockHeld
    /\ FileSound /\ SentRecorded
    /\ SentIsFenced /\ ReplaysCounted /\ ReadyIsVouched /\ TokensKept
    /\ \A p \in Procs : Hand(p)
=============================================================================
